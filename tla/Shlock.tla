------------------------------- MODULE Shlock -------------------------------
(***************************************************************************)
(* shlock: read/write locks and reference counting between processes, made *)
(* of directories, rename(2) and flock(2) only                             *)
(* (src/src/base/lib/misc/shlock.c).                                       *)
(*                                                                         *)
(* A lock NAME is a directory DIR/NAME.  Every process that has it open    *)
(* keeps a temporary file of its own in it, locked with flock as long as   *)
(* the process lives, so the directory cannot be removed under a user and  *)
(* the file of a dead process can be recognised and collected.  The lock   *)
(* proper is flock on the directory's inode.                               *)
(*                                                                         *)
(* Each step is one system call that another process can observe; calls on *)
(* files nobody else can see yet are folded into the step before.  A       *)
(* process that dies keeps its name (its file stays behind) and is not     *)
(* restarted: the restarted dosemu is another member of Proc.              *)
(***************************************************************************)
EXTENDS Naturals, FiniteSets

CONSTANTS Proc,       \* processes using the lock directory
          Name,       \* lock names, all under one directory
          Inode,      \* pool of directory inodes
          NoInode,    \* "no such directory"
          MayBlock,   \* values of the block argument in use
          MayExcl,    \* values of the excl argument in use
          MaxOpens    \* calls of shlock_open per process (bound)

ASSUME ShlockAssumption ==
  /\ NoInode \notin Inode /\ MaxOpens \in Nat
  /\ MayBlock \subseteq BOOLEAN /\ MayExcl \subseteq BOOLEAN

VARIABLES
  pdir,      \* the parent directory dspec exists
  cur,       \* cur[n]: inode of the directory fspec of n, or NoInode
  content,   \* content[i]: owners of the temporary files in directory i
  pc,        \* location of each process in shlock_open / shlock_close
  name, excl, block,   \* the arguments of its current call
  tmp,       \* inode of its private directory dtspec
  fd,        \* inode its descriptor refers to
  mode,      \* flock it holds on fd: "none", "sh", "ex"
  stale,     \* files still to be examined by its do_gc
  ret,       \* return value shlock_close is building up
  opens      \* number of shlock_open calls made

fs == <<pdir, cur, content>>
args == <<name, excl, block>>
vars == <<pdir, cur, content, pc, name, excl, block, tmp, fd, mode, stale, ret,
          opens>>

Dead(p) == pc[p] = "dead"

(* An inode nobody refers to. *)
FreeInodes == {i \in Inode : /\ \A n \in Name : cur[n] # i
                             /\ \A p \in Proc : tmp[p] # i /\ fd[p] # i}
(* rmdir(2) and rename(2) on a directory: it must be empty to go away. *)
Exists(n) == pdir /\ cur[n] # NoInode
Empty(n) == Exists(n) /\ content[cur[n]] = {}

Goto(p, l) == pc' = [pc EXCEPT ![p] = l]

-----------------------------------------------------------------------------
Init ==
  /\ pdir = FALSE
  /\ cur = [n \in Name |-> NoInode]
  /\ content = [i \in Inode |-> {}]
  /\ pc = [p \in Proc |-> "idle"]
  /\ name \in [Proc -> Name] /\ \A p, q \in Proc : name[p] = name[q]
  /\ excl = [p \in Proc |-> FALSE] /\ block = [p \in Proc |-> FALSE]
  /\ tmp = [p \in Proc |-> NoInode] /\ fd = [p \in Proc |-> NoInode]
  /\ mode = [p \in Proc |-> "none"]
  /\ stale = [p \in Proc |-> {}]
  /\ ret = [p \in Proc |-> 0] /\ opens = [p \in Proc |-> 0]

(* shlock_open: mkdtemp, mkstemp and flock of the private file. *)
Open(p) ==
  /\ pc[p] = "idle" /\ opens[p] < MaxOpens /\ FreeInodes # {}
  /\ opens' = [opens EXCEPT ![p] = @ + 1]
  /\ \E n \in Name, x \in MayExcl, b \in MayBlock :
       /\ name' = [name EXCEPT ![p] = n]
       /\ excl' = [excl EXCEPT ![p] = x]
       /\ block' = [block EXCEPT ![p] = b]
  /\ LET i == CHOOSE j \in FreeInodes : TRUE IN
       /\ tmp' = [tmp EXCEPT ![p] = i]
       /\ content' = [content EXCEPT ![i] = {p}]
  /\ Goto(p, "mkdir")
  /\ UNCHANGED <<pdir, cur, fd, mode, stale, ret>>

(* mkdir(dspec): success or EEXIST. *)
MkDir(p) ==
  /\ pc[p] = "mkdir"
  /\ pdir' = TRUE
  /\ Goto(p, "rename")
  /\ UNCHANGED <<cur, content, args, tmp, fd, mode, stale, ret, opens>>

(* rename(dtspec, fspec): the parent may be gone (retry); the target must  *)
(* be absent or an empty directory, which the rename replaces.             *)
RenameDir(p) ==
  /\ pc[p] = "rename"
  /\ IF ~pdir THEN Goto(p, "mkdir") /\ UNCHANGED <<cur, tmp>>
     ELSE IF Exists(name[p]) /\ ~Empty(name[p])
     THEN Goto(p, "rename2") /\ UNCHANGED <<cur, tmp>>
     ELSE /\ cur' = [cur EXCEPT ![name[p]] = tmp[p]]
          /\ tmp' = [tmp EXCEPT ![p] = NoInode]
          /\ Goto(p, "gc")
  /\ UNCHANGED <<pdir, content, args, fd, mode, stale, ret, opens>>

(* rename(ttspec, tspec), then rmdir of the private directory; retry when  *)
(* the directory has been removed meanwhile.                               *)
RenameFile(p) ==
  /\ pc[p] = "rename2"
  /\ IF ~Exists(name[p]) THEN Goto(p, "mkdir") /\ UNCHANGED <<content, tmp>>
     ELSE /\ content' = [content EXCEPT ![cur[name[p]]] = @ \cup {p},
                                        ![tmp[p]] = {}]
          /\ tmp' = [tmp EXCEPT ![p] = NoInode]
          /\ Goto(p, "gc")
  /\ UNCHANGED <<pdir, cur, args, fd, mode, stale, ret, opens>>

(* do_gc: glob, then for every file found open, flock(LOCK_SH | LOCK_NB)   *)
(* and, when that succeeds because its owner is dead, unlink.              *)
GcGlob(p) ==
  /\ pc[p] = "gc"
  /\ stale' = [stale EXCEPT ![p] = content[cur[name[p]]]]
  /\ Goto(p, "gcloop")
  /\ UNCHANGED <<fs, args, tmp, fd, mode, ret, opens>>
Collectable_mut(q) == q \in Proc
Collectable(q) == Dead(q)
GcOne(p) ==
  /\ pc[p] = "gcloop"
  /\ \E q \in stale[p] :
       /\ stale' = [stale EXCEPT ![p] = @ \ {q}]
       /\ content' = IF Collectable(q)
                       THEN [content EXCEPT ![cur[name[p]]] = @ \ {q}]
                       ELSE content
  /\ UNCHANGED <<pdir, cur, pc, args, tmp, fd, mode, ret, opens>>
(* open(fspec) of the directory when the loop is through. *)
OpenDir(p) ==
  /\ pc[p] = "gcloop" /\ stale[p] = {}
  /\ fd' = [fd EXCEPT ![p] = cur[name[p]]]
  /\ Goto(p, "flock")
  /\ UNCHANGED <<fs, args, tmp, mode, stale, ret, opens>>

(* flock(fd, LOCK_EX or LOCK_SH, LOCK_NB unless block). *)
Compatible_mut(p) ==
  \A q \in Proc \ {p} : fd[q] = fd[p] => mode[q] # "ex"
Compatible(p) ==
  \A q \in Proc \ {p} : fd[q] = fd[p] /\ mode[q] # "none"
                        => ~excl[p] /\ mode[q] = "sh"
Flock(p) ==
  /\ pc[p] = "flock" /\ Compatible(p)
  /\ mode' = [mode EXCEPT ![p] = IF excl[p] THEN "ex" ELSE "sh"]
  /\ Goto(p, "held")
  /\ UNCHANGED <<fs, args, tmp, fd, stale, ret, opens>>
FlockFails(p) ==
  /\ pc[p] = "flock" /\ ~Compatible(p) /\ ~block[p]
  /\ Goto(p, "e_unlink")
  /\ fd' = [fd EXCEPT ![p] = NoInode]                      \* err_close
  /\ UNCHANGED <<fs, args, tmp, mode, stale, ret, opens>>

(* unlink(tspec): err_rmt of a failed open, and the start of shlock_close. *)
UnlinkOwn(p) ==
  content' = [i \in Inode |-> IF i = cur[name[p]] THEN content[i] \ {p}
                                                  ELSE content[i]]
ErrUnlink(p) ==
  /\ pc[p] = "e_unlink" /\ UnlinkOwn(p) /\ Goto(p, "e_rmdir")
  /\ UNCHANGED <<pdir, cur, args, tmp, fd, mode, stale, ret, opens>>
ErrRmdir(p) ==
  /\ pc[p] = "e_rmdir" /\ Goto(p, "e_rmpar")
  /\ cur' = IF Empty(name[p]) THEN [cur EXCEPT ![name[p]] = NoInode] ELSE cur
  /\ UNCHANGED <<pdir, content, args, tmp, fd, mode, stale, ret, opens>>
NoNames == \A n \in Name : cur[n] = NoInode
ErrRmParent_mut(p) ==
  /\ pc[p] = "e_rmpar" /\ Goto(p, "idle")
  /\ UNCHANGED <<fs, args, tmp, fd, mode, stale, ret, opens>>
ErrRmParent(p) ==
  /\ pc[p] = "e_rmpar" /\ Goto(p, "idle")
  /\ pdir' = IF NoNames THEN FALSE ELSE pdir
  /\ UNCHANGED <<cur, content, args, tmp, fd, mode, stale, ret, opens>>

(* shlock_close: unlink, rmdir(fspec), close(fd), rmdir(dir); each rmdir   *)
(* that succeeds adds one to the return value.                             *)
Close(p) ==
  /\ pc[p] = "held" /\ UnlinkOwn(p) /\ Goto(p, "c_rmdir")
  /\ ret' = [ret EXCEPT ![p] = 0]
  /\ UNCHANGED <<pdir, cur, args, tmp, fd, mode, stale, opens>>
CloseRmdir_mut(p) ==
  /\ pc[p] = "c_rmdir" /\ Goto(p, "c_close")
  /\ IF Exists(name[p])
       THEN /\ cur' = [cur EXCEPT ![name[p]] = NoInode]
            /\ ret' = [ret EXCEPT ![p] = @ + 1]
       ELSE UNCHANGED <<cur, ret>>
  /\ UNCHANGED <<pdir, content, args, tmp, fd, mode, stale, opens>>
CloseRmdir(p) ==
  /\ pc[p] = "c_rmdir" /\ Goto(p, "c_close")
  /\ IF Empty(name[p])
       THEN /\ cur' = [cur EXCEPT ![name[p]] = NoInode]
            /\ ret' = [ret EXCEPT ![p] = @ + 1]
       ELSE UNCHANGED <<cur, ret>>
  /\ UNCHANGED <<pdir, content, args, tmp, fd, mode, stale, opens>>
CloseFd_mut(p) ==
  /\ pc[p] = "c_close" /\ Goto(p, "c_rmpar")
  /\ UNCHANGED <<fs, args, tmp, fd, mode, stale, ret, opens>>
CloseFd(p) ==
  /\ pc[p] = "c_close" /\ Goto(p, "c_rmpar")
  /\ fd' = [fd EXCEPT ![p] = NoInode]
  /\ mode' = [mode EXCEPT ![p] = "none"]
  /\ UNCHANGED <<fs, args, tmp, stale, ret, opens>>
CloseRmParent(p) ==
  /\ pc[p] = "c_rmpar" /\ Goto(p, "idle")
  /\ IF pdir /\ NoNames
       THEN pdir' = FALSE /\ ret' = [ret EXCEPT ![p] = @ + 1]
       ELSE UNCHANGED <<pdir, ret>>
  /\ UNCHANGED <<cur, content, args, tmp, fd, mode, stale, opens>>

(* The process dies anywhere: the kernel closes its descriptors, which     *)
(* drops its flocks; its files stay.                                       *)
Crash(p) ==
  /\ pc[p] \notin {"idle", "dead"}
  /\ Goto(p, "dead")
  /\ fd' = [fd EXCEPT ![p] = NoInode] /\ mode' = [mode EXCEPT ![p] = "none"]
  /\ tmp' = [tmp EXCEPT ![p] = NoInode] /\ stale' = [stale EXCEPT ![p] = {}]
  /\ UNCHANGED <<fs, args, ret, opens>>

shlock_open(p) == \/ MkDir(p) \/ RenameDir(p) \/ RenameFile(p)
                  \/ GcGlob(p) \/ GcOne(p) \/ OpenDir(p)
                  \/ Flock(p) \/ FlockFails(p)
                  \/ ErrUnlink(p) \/ ErrRmdir(p) \/ ErrRmParent(p)
shlock_close(p) == Close(p) \/ CloseRmdir(p) \/ CloseFd(p) \/ CloseRmParent(p)

Finished == \A p \in Proc : Dead(p) \/ (pc[p] = "idle" /\ opens[p] = MaxOpens)
Done == Finished /\ UNCHANGED vars

Step(p) == Open(p) \/ shlock_open(p) \/ shlock_close(p)
Next == (\E p \in Proc : Step(p) \/ Crash(p)) \/ Done

(* A process keeps executing the call it is in, and releases what it has   *)
(* acquired; it owes no further call and no crash.                         *)
Spec == Init /\ [][Next]_vars
FairSpec == Spec /\ \A p \in Proc : WF_vars(shlock_open(p) \/ shlock_close(p))

-----------------------------------------------------------------------------
Locations == {"idle", "mkdir", "rename", "rename2", "gc", "gcloop", "flock",
              "held", "e_unlink", "e_rmdir", "e_rmpar",
              "c_rmdir", "c_close", "c_rmpar", "dead"}
(* Directories, descriptors, locks and locations keep their types, and the *)
(* result of shlock_close is never negative.                               *)
TypeOK ==
  /\ pdir \in BOOLEAN
  /\ cur \in [Name -> Inode \cup {NoInode}]
  /\ content \in [Inode -> SUBSET Proc]
  /\ pc \in [Proc -> Locations]
  /\ name \in [Proc -> Name]
  /\ excl \in [Proc -> BOOLEAN] /\ block \in [Proc -> BOOLEAN]
  /\ tmp \in [Proc -> Inode \cup {NoInode}]
  /\ fd \in [Proc -> Inode \cup {NoInode}]
  /\ mode \in [Proc -> {"none", "sh", "ex"}]
  /\ stale \in [Proc -> SUBSET Proc]
  /\ ret \in [Proc -> Nat] /\ opens \in [Proc -> Nat]

(* Between the return of shlock_open and the call of shlock_close an       *)
(* exclusive lock excludes every other lock on the name.                   *)
Exclusion ==
  \A p, q \in Proc :
    p # q /\ pc[p] = "held" /\ pc[q] = "held" /\ name[p] = name[q]
      => ~excl[p] /\ ~excl[q]

(* "At this point our fspec directory is stable and can't disappear": from *)
(* the successful rename to the unlink, the process's file is in the       *)
(* directory the name leads to, and that is the directory it locks.        *)
Inside == {"gc", "gcloop", "flock", "held", "e_unlink"}
StableDir ==
  \A p \in Proc : pc[p] \in Inside =>
    /\ pdir /\ cur[name[p]] # NoInode /\ p \in content[cur[name[p]]]
    /\ pc[p] \in {"flock", "held"} => fd[p] = cur[name[p]]

(* A name never leads to an empty directory unless somebody is about to    *)
(* remove it, so nothing is left over when everybody is done and nobody    *)
(* crashed.                                                                *)
CleanWhenIdle ==
  (\A p \in Proc : pc[p] = "idle") => NoNames /\ ~pdir

(* The directory of a name goes away only when nobody is between its       *)
(* successful rename and its unlink: the removal that shlock_close reports *)
(* as "no more locks on that resource" is never one under a user's feet.   *)
RemovalMeansUnused ==
  [][\A n \in Name : cur[n] # NoInode /\ cur'[n] = NoInode =>
       \A p \in Proc : name[p] = n => pc[p] \notin Inside]_vars

(* Every call returns, an open and a close: nobody waits for a lock that   *)
(* is never released, and the retry loops of shlock_open end.              *)
EveryCallReturns ==
  \A p \in Proc : []<>(pc[p] \in {"held", "idle", "dead"})
=============================================================================
