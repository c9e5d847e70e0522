---------------------------- MODULE ShlockProofs ----------------------------
(***************************************************************************)
(* For any set of processes, names and inodes: an exclusive lock excludes, *)
(* the directory of a lock is stable while it is in use, a directory is    *)
(* only removed when nobody uses it, and nothing is left over.             *)
(***************************************************************************)
EXTENDS Shlock, TLAPS

(* Where a process has its private directory, its descriptor, its flock. *)
Private == {"mkdir", "rename", "rename2"}
HasFd == {"flock", "held", "c_rmdir", "c_close"}
HasLock == {"held", "c_rmdir", "c_close"}

(* The private directory of shlock_open holds the caller's file and is     *)
(* reachable by nobody else.                                               *)
PrivateDir ==
  \A p \in Proc :
    IF pc[p] \in Private
      THEN /\ tmp[p] \in Inode /\ content[tmp[p]] = {p}
           /\ \A n \in Name : cur[n] # tmp[p]
           /\ \A q \in Proc : fd[q] # tmp[p] /\ (q # p => tmp[q] # tmp[p])
      ELSE tmp[p] = NoInode

(* The names lead to different directories, all inside the parent. *)
Tree ==
  /\ \A n \in Name : cur[n] # NoInode => pdir
  /\ \A m, n \in Name : m # n /\ cur[m] # NoInode => cur[m] # cur[n]

(* What flock has granted on one directory is compatible. *)
LockTable ==
  /\ \A p \in Proc : fd[p] # NoInode <=> pc[p] \in HasFd
  /\ \A p \in Proc : mode[p] = IF pc[p] \notin HasLock THEN "none"
                               ELSE IF excl[p] THEN "ex" ELSE "sh"
  /\ \A p, q \in Proc : p # q /\ fd[p] = fd[q]
                        /\ pc[p] \in HasLock /\ pc[q] \in HasLock => ~excl[p]

IInv == TypeOK /\ StableDir /\ PrivateDir /\ Tree /\ LockTable

-----------------------------------------------------------------------------
(* The initial states satisfy the invariant. *)
LEMMA InitIInv == Init => IInv
<1> SUFFICES ASSUME Init PROVE IInv
  OBVIOUS
<1>1. TypeOK
  BY Zenon DEF Init, TypeOK, Locations
<1>2. StableDir /\ PrivateDir /\ Tree
  BY DEF Init, StableDir, PrivateDir, Tree, Inside, Private
<1>3. LockTable
  BY DEF Init, LockTable, HasFd, HasLock
<1> QED BY <1>1, <1>2, <1>3 DEF IInv

(* Creating the private directory takes an inode nobody refers to. *)
LEMMA OpenStep == ASSUME NEW p \in Proc, IInv, Open(p) PROVE IInv'
<1> DEFINE i == CHOOSE j \in FreeInodes : TRUE
<1>1. i \in FreeInodes
  BY DEF Open
<1>2. /\ i \in Inode /\ \A n \in Name : cur[n] # i
      /\ \A q \in Proc : tmp[q] # i /\ fd[q] # i
  BY <1>1 DEF FreeInodes
<1>3. /\ tmp' = [tmp EXCEPT ![p] = i]
      /\ content' = [content EXCEPT ![i] = {p}]
  BY DEF Open
<1> HIDE DEF i
<1>a. PICK n \in Name, x \in BOOLEAN, b \in BOOLEAN :
        /\ name' = [name EXCEPT ![p] = n]
        /\ excl' = [excl EXCEPT ![p] = x]
        /\ block' = [block EXCEPT ![p] = b]
  BY Zenon, ShlockAssumption DEF Open
<1>b. /\ pc[p] = "idle" /\ pc' = [pc EXCEPT ![p] = "mkdir"]
      /\ opens' = [opens EXCEPT ![p] = @ + 1]
      /\ UNCHANGED <<pdir, cur, fd, mode, stale, ret>>
  BY DEF IInv, TypeOK, Open, Goto
<1>t. TypeOK
  BY DEF IInv
<1>4. TypeOK'
  BY <1>2, <1>3, <1>a, <1>b, <1>t DEF TypeOK, Locations
<1>5. StableDir'
  BY <1>2, <1>3, <1>a, <1>b, <1>t DEF IInv, TypeOK, StableDir, Inside
<1>6. PrivateDir'
  BY <1>2, <1>3, <1>b, <1>t, ShlockAssumption DEF IInv, TypeOK, PrivateDir, Private
<1>7. Tree'
  BY <1>b DEF IInv, Tree
<1>8. LockTable'
  BY <1>a, <1>b, <1>t DEF IInv, TypeOK, LockTable, HasFd, HasLock
<1> QED BY <1>4, <1>5, <1>6, <1>7, <1>8 DEF IInv

(* The steps of shlock_open that build the directory and collect files. *)
LEMMA BuildStep ==
  ASSUME NEW p \in Proc, IInv,
         MkDir(p) \/ RenameDir(p) \/ RenameFile(p) \/ GcGlob(p) \/ GcOne(p)
  PROVE  IInv'
<1>1. CASE MkDir(p)
  BY <1>1 DEF IInv, TypeOK, StableDir, PrivateDir, Tree, LockTable, MkDir, Goto,
     args, Locations, Inside, Private, HasFd, HasLock
<1>2. CASE RenameDir(p)
  <2>1. TypeOK'
    BY SMTT(30), <1>2 DEF IInv, TypeOK, RenameDir, Goto, args, Locations
  <2>2. StableDir'
    BY <1>2, ShlockAssumption DEF IInv, TypeOK, StableDir, PrivateDir, RenameDir,
       Goto, args, Exists, Empty, Inside, Private
  <2>3. PrivateDir'
    BY <1>2, ShlockAssumption DEF IInv, TypeOK, PrivateDir, RenameDir, Goto, Private
  <2>4. Tree'
    BY <1>2 DEF IInv, TypeOK, PrivateDir, Tree, RenameDir
  <2>5. LockTable'
    BY <1>2 DEF IInv, TypeOK, LockTable, RenameDir, Goto, args, HasFd, HasLock
  <2> QED BY <2>1, <2>2, <2>3, <2>4, <2>5 DEF IInv
<1>3. CASE RenameFile(p)
  <2>0. CASE ~Exists(name[p])
    <3>1. TypeOK'
      BY <1>3, <2>0 DEF IInv, TypeOK, RenameFile, Goto, args, Locations
    <3>2. StableDir' /\ PrivateDir' /\ Tree' /\ LockTable'
      BY SMTT(30), <1>3, <2>0 DEF IInv, TypeOK, StableDir, PrivateDir, Tree,
         LockTable, RenameFile, Goto, args, Inside, Private, HasFd, HasLock
    <3> QED BY <3>1, <3>2 DEF IInv
  <2> SUFFICES ASSUME Exists(name[p]) PROVE IInv'
    BY <2>0
  <2>t. TypeOK /\ tmp[p] \in Inode /\ cur[name[p]] \in Inode
    BY <1>3 DEF IInv, TypeOK, PrivateDir, RenameFile, Private, Exists
  <2>u. /\ content' = [content EXCEPT ![cur[name[p]]] = @ \cup {p}, ![tmp[p]] = {}]
        /\ tmp' = [tmp EXCEPT ![p] = NoInode]
        /\ pc' = [pc EXCEPT ![p] = "gc"]
        /\ UNCHANGED <<pdir, cur, name, excl, block, fd, mode, stale, ret, opens>>
    BY <1>3 DEF IInv, TypeOK, RenameFile, Goto, args
  <2>1. TypeOK'
    BY <2>t, <2>u DEF TypeOK, Locations
  <2>2. StableDir'
    BY SMTT(30), <1>3 DEF IInv, TypeOK, StableDir, PrivateDir, RenameFile, Goto,
       args, Exists
  <2>3. PrivateDir'
    BY <1>3, ShlockAssumption DEF IInv, TypeOK, PrivateDir, RenameFile, Goto,
       Private
  <2>4. Tree'
    BY <1>3 DEF IInv, TypeOK, Tree, RenameFile, args
  <2>5. LockTable'
    BY SMTT(30), <1>3 DEF IInv, TypeOK, LockTable, RenameFile, Goto, args, HasFd,
       HasLock
  <2> QED BY <2>1, <2>2, <2>3, <2>4, <2>5 DEF IInv
<1>4. CASE GcGlob(p)
  BY <1>4 DEF IInv, TypeOK, StableDir, PrivateDir, Tree, LockTable, GcGlob, Goto,
     args, fs, Locations, Inside, Private, HasFd, HasLock
<1>5. CASE GcOne(p)
  <2>1. PICK q \in stale[p] :
          /\ stale' = [stale EXCEPT ![p] = @ \ {q}]
          /\ content' = IF Collectable(q)
                          THEN [content EXCEPT ![cur[name[p]]] = @ \ {q}]
                          ELSE content
    BY Zenon, <1>5 DEF GcOne
  <2>2. q \in Proc
    BY <2>1 DEF IInv, TypeOK
  <2>3. TypeOK'
    BY Zenon, <1>5, <2>1 DEF IInv, TypeOK, GcOne, args
  <2>4. StableDir'
    BY <1>5, <2>1, <2>2 DEF IInv, TypeOK, StableDir, GcOne, args, Collectable, Dead,
       Inside
  <2>5. PrivateDir'
    BY <1>5, <2>1, <2>2 DEF IInv, TypeOK, PrivateDir, GcOne, Collectable, Dead,
       Private
  <2>6. Tree' /\ LockTable'
    BY <1>5 DEF IInv, TypeOK, Tree, LockTable, GcOne, args
  <2> QED BY <2>3, <2>4, <2>5, <2>6 DEF IInv
<1> QED BY <1>1, <1>2, <1>3, <1>4, <1>5

(* Opening and locking the directory. *)
LEMMA LockStep ==
  ASSUME NEW p \in Proc, IInv, OpenDir(p) \/ Flock(p) \/ FlockFails(p)
  PROVE  IInv'
<1>1. CASE OpenDir(p)
  <2>1. TypeOK' /\ StableDir' /\ Tree'
    BY SMTT(30), <1>1 DEF IInv, TypeOK, StableDir, Tree, OpenDir, Goto, args, fs,
       Locations, Inside
  <2>2. PrivateDir'
    BY <1>1 DEF IInv, TypeOK, StableDir, PrivateDir, OpenDir, Goto, fs, Inside,
       Private
  <2>3. LockTable'
    BY <1>1 DEF IInv, TypeOK, StableDir, LockTable, OpenDir, Goto, args, Inside,
       HasFd, HasLock
  <2> QED BY <2>1, <2>2, <2>3 DEF IInv
<1>2. CASE Flock(p)
  <2>1. TypeOK' /\ StableDir' /\ Tree' /\ PrivateDir'
    BY <1>2 DEF IInv, TypeOK, StableDir, Tree, PrivateDir, Flock, Goto, args, fs,
       Locations, Inside, Private
  <2>2. LockTable'
    BY <1>2 DEF IInv, TypeOK, LockTable, Flock, Compatible, Goto, args, HasFd,
       HasLock
  <2> QED BY <2>1, <2>2 DEF IInv
<1>3. CASE FlockFails(p)
  <2>1. TypeOK' /\ StableDir' /\ Tree' /\ PrivateDir'
    BY <1>3 DEF IInv, TypeOK, StableDir, Tree, PrivateDir, FlockFails, Goto, args,
       fs, Locations, Inside, Private
  <2>2. LockTable'
    BY <1>3 DEF IInv, TypeOK, LockTable, FlockFails, Goto, args, HasFd, HasLock
  <2> QED BY <2>1, <2>2 DEF IInv
<1> QED BY <1>1, <1>2, <1>3

(* The error path of shlock_open. *)
LEMMA ErrorStep ==
  ASSUME NEW p \in Proc, IInv, ErrUnlink(p) \/ ErrRmdir(p) \/ ErrRmParent(p)
  PROVE  IInv'
<1>1. CASE ErrUnlink(p)
  <2>1. TypeOK'
    BY <1>1 DEF IInv, TypeOK, ErrUnlink, UnlinkOwn, Goto, args, Locations
  <2>2. StableDir'
    BY <1>1 DEF IInv, TypeOK, StableDir, ErrUnlink, UnlinkOwn, Goto, args, Inside
  <2>3. PrivateDir'
    BY <1>1 DEF IInv, TypeOK, PrivateDir, ErrUnlink, UnlinkOwn, Goto, Private
  <2>4. Tree'
    BY <1>1 DEF IInv, TypeOK, Tree, ErrUnlink
  <2>5. LockTable'
    BY <1>1 DEF IInv, TypeOK, LockTable, ErrUnlink, Goto, args, HasFd, HasLock
  <2> QED BY <2>1, <2>2, <2>3, <2>4, <2>5 DEF IInv
<1>2. CASE ErrRmdir(p)
  <2>1. TypeOK'
    BY <1>2 DEF IInv, TypeOK, ErrRmdir, Goto, args, Locations
  <2>2. StableDir'
    BY <1>2 DEF IInv, TypeOK, StableDir, ErrRmdir, Empty, Goto, args, Inside
  <2>3. PrivateDir'
    BY <1>2 DEF IInv, TypeOK, PrivateDir, ErrRmdir, Goto, Private
  <2>4. Tree'
    BY <1>2 DEF IInv, TypeOK, Tree, ErrRmdir
  <2>5. LockTable'
    BY <1>2 DEF IInv, TypeOK, LockTable, ErrRmdir, Goto, args, HasFd, HasLock
  <2> QED BY <2>1, <2>2, <2>3, <2>4, <2>5 DEF IInv
<1>3. CASE ErrRmParent(p)
  <2>1. TypeOK'
    BY Zenon, <1>3 DEF IInv, TypeOK, ErrRmParent, Goto, args, Locations
  <2>2. StableDir'
    BY <1>3 DEF IInv, TypeOK, StableDir, ErrRmParent, NoNames, Goto, args, Inside
  <2>3. PrivateDir'
    BY <1>3 DEF IInv, TypeOK, PrivateDir, ErrRmParent, Goto, Private
  <2>4. Tree'
    BY <1>3 DEF IInv, TypeOK, Tree, ErrRmParent, NoNames
  <2>5. LockTable'
    BY <1>3 DEF IInv, TypeOK, LockTable, ErrRmParent, Goto, args, HasFd, HasLock
  <2> QED BY <2>1, <2>2, <2>3, <2>4, <2>5 DEF IInv
<1> QED BY <1>1, <1>2, <1>3

(* shlock_close. *)
LEMMA CloseStep ==
  ASSUME NEW p \in Proc, IInv, shlock_close(p)
  PROVE  IInv'
<1>1. CASE Close(p)
  <2>1. TypeOK'
    BY <1>1 DEF IInv, TypeOK, Close, UnlinkOwn, Goto, args, Locations
  <2>2. StableDir'
    BY <1>1 DEF IInv, TypeOK, StableDir, Close, UnlinkOwn, Goto, args, Inside
  <2>3. PrivateDir'
    BY <1>1 DEF IInv, TypeOK, PrivateDir, Close, UnlinkOwn, Goto, Private
  <2>4. Tree'
    BY <1>1 DEF IInv, TypeOK, Tree, Close
  <2>5. LockTable'
    BY <1>1 DEF IInv, TypeOK, LockTable, Close, Goto, args, HasFd, HasLock
  <2> QED BY <2>1, <2>2, <2>3, <2>4, <2>5 DEF IInv
<1>2. CASE CloseRmdir(p)
  <2>1. TypeOK'
    <3>1. TypeOK /\ name[p] \in Name /\ ret[p] + 1 \in Nat
      BY DEF IInv, TypeOK
    <3> QED BY <1>2, <3>1 DEF TypeOK, CloseRmdir, Goto, args, Locations
  <2>2. StableDir'
    BY <1>2 DEF IInv, TypeOK, StableDir, CloseRmdir, Empty, Goto, args, Inside
  <2>3. PrivateDir'
    BY <1>2 DEF IInv, TypeOK, PrivateDir, CloseRmdir, Goto, Private
  <2>4. Tree'
    BY SMTT(30), <1>2 DEF IInv, TypeOK, Tree, CloseRmdir
  <2>5. LockTable'
    BY <1>2 DEF IInv, TypeOK, LockTable, CloseRmdir, Goto, args, HasFd, HasLock
  <2> QED BY <2>1, <2>2, <2>3, <2>4, <2>5 DEF IInv
<1>3. CASE CloseFd(p)
  <2>1. TypeOK'
    BY <1>3 DEF IInv, TypeOK, CloseFd, Goto, args, fs, Locations
  <2>2. StableDir'
    BY <1>3 DEF IInv, TypeOK, StableDir, CloseFd, Goto, args, fs, Inside
  <2>3. PrivateDir'
    BY <1>3 DEF IInv, TypeOK, PrivateDir, CloseFd, Goto, fs, Private
  <2>4. Tree'
    BY <1>3 DEF IInv, TypeOK, Tree, CloseFd, fs
  <2>5. LockTable'
    BY <1>3 DEF IInv, TypeOK, LockTable, CloseFd, Goto, args, HasFd, HasLock
  <2> QED BY <2>1, <2>2, <2>3, <2>4, <2>5 DEF IInv
<1>4. CASE CloseRmParent(p)
  <2>1. TypeOK'
    <3>1. TypeOK /\ ret[p] + 1 \in Nat
      BY DEF IInv, TypeOK
    <3>2. pdir' \in BOOLEAN /\ ret' \in [Proc -> Nat]
      BY Zenon, <1>4, <3>1 DEF TypeOK, CloseRmParent
    <3> QED BY <1>4, <3>1, <3>2 DEF TypeOK, CloseRmParent, Goto, args, Locations
  <2>2. StableDir'
    BY <1>4 DEF IInv, TypeOK, StableDir, CloseRmParent, NoNames, Goto, args, Inside
  <2>3. PrivateDir'
    BY <1>4 DEF IInv, TypeOK, PrivateDir, CloseRmParent, Goto, Private
  <2>4. Tree'
    BY <1>4 DEF IInv, TypeOK, Tree, CloseRmParent, NoNames
  <2>5. LockTable'
    BY <1>4 DEF IInv, TypeOK, LockTable, CloseRmParent, Goto, args, HasFd, HasLock
  <2> QED BY <2>1, <2>2, <2>3, <2>4, <2>5 DEF IInv
<1> QED BY <1>1, <1>2, <1>3, <1>4 DEF shlock_close

(* The death of a process. *)
LEMMA CrashStep ==
  ASSUME NEW p \in Proc, IInv, Crash(p)
  PROVE  IInv'
<1>1. CASE Crash(p)
  <2>1. TypeOK'
    BY <1>1 DEF IInv, TypeOK, Crash, Goto, args, fs, Locations
  <2>2. StableDir'
    BY <1>1 DEF IInv, TypeOK, StableDir, Crash, Goto, args, fs, Inside
  <2>3. PrivateDir'
    BY <1>1, ShlockAssumption DEF IInv, TypeOK, PrivateDir, Crash, Goto, fs, Private
  <2>4. Tree'
    BY <1>1 DEF IInv, TypeOK, Tree, Crash, fs
  <2>5. LockTable'
    BY <1>1 DEF IInv, TypeOK, LockTable, Crash, Goto, args, HasFd, HasLock
  <2> QED BY <2>1, <2>2, <2>3, <2>4, <2>5 DEF IInv
<1> QED BY <1>1

(* Every step of Next preserves the invariant. *)
LEMMA NextIInv == IInv /\ [Next]_vars => IInv'
<1> SUFFICES ASSUME IInv, [Next]_vars PROVE IInv'
  OBVIOUS
<1>1. CASE UNCHANGED vars
  BY <1>1 DEF vars, IInv, TypeOK, StableDir, PrivateDir, Tree, LockTable
<1>2. CASE Done
  BY <1>1, <1>2 DEF Done
<1>3. ASSUME NEW p \in Proc, Step(p) PROVE IInv'
  BY <1>3, OpenStep, BuildStep, LockStep, ErrorStep, CloseStep DEF Step, shlock_open
<1>4. ASSUME NEW p \in Proc, Crash(p) PROVE IInv'
  BY <1>4, CrashStep
<1> QED BY <1>1, <1>2, <1>3, <1>4 DEF Next

(* The inductive invariant holds in every reachable state of shlock.c. *)
THEOREM Invariance == Spec => []IInv
  BY InitIInv, NextIInv, PTL DEF Spec

(* An exclusive shlock excludes every other lock on its name, whatever     *)
(* opens, closes, error paths and crashes interleave with it.              *)
THEOREM LockExcludes == Spec => []Exclusion
<1>1. IInv => Exclusion
  BY DEF IInv, StableDir, LockTable, Exclusion, Inside, HasLock
<1> QED BY <1>1, Invariance, PTL

(* "At this point our fspec directory is stable and can't disappear". *)
THEOREM DirectoryStable == Spec => []StableDir
<1>1. IInv => StableDir
  BY DEF IInv
<1> QED BY <1>1, Invariance, PTL

(* The directory of a lock is removed only while nobody is between its     *)
(* successful rename and its unlink.                                       *)
THEOREM RemovalUnused == Spec => RemovalMeansUnused
<1> DEFINE Good == \A n \in Name : cur[n] # NoInode /\ cur'[n] = NoInode =>
                     \A p \in Proc : name[p] = n => pc[p] \notin Inside
<1>1. ASSUME IInv, [Next]_vars PROVE [Good]_vars
  <2> SUFFICES ASSUME NEW n \in Name, cur[n] # NoInode, cur'[n] = NoInode,
                      NEW q \in Proc, name[q] = n, pc[q] \in Inside
               PROVE  FALSE
    BY DEF vars
  <2>0. content[cur[n]] # {}
    BY <1>1 DEF IInv, StableDir
  <2>1. PICK p \in Proc : Step(p)
    <3>1. cur' # cur
      OBVIOUS
    <3>2. ~(UNCHANGED vars) /\ \A p \in Proc : ~Crash(p)
      BY SMTT(30), <3>1 DEF IInv, TypeOK, vars, Crash, fs
    <3> QED BY <1>1, <3>2 DEF Next, Done
  <2>2. CASE Open(p) \/ shlock_close(p)
    BY SMTT(90), <1>1, <2>0, <2>2 DEF IInv, TypeOK, Open, shlock_close, Close,
       CloseRmdir, CloseFd, CloseRmParent, Empty, fs
  <2>3. CASE MkDir(p) \/ RenameDir(p) \/ RenameFile(p)
    BY SMTT(90), <1>1, <2>3, ShlockAssumption DEF IInv, TypeOK, PrivateDir, Private,
       MkDir, RenameDir, RenameFile
  <2>4. CASE GcGlob(p) \/ GcOne(p) \/ OpenDir(p) \/ Flock(p) \/ FlockFails(p)
    BY Zenon, <2>4 DEF IInv, TypeOK, GcGlob, GcOne, OpenDir, Flock, FlockFails, fs
  <2>5. CASE ErrUnlink(p) \/ ErrRmdir(p) \/ ErrRmParent(p)
    BY Zenon, <1>1, <2>0, <2>5 DEF IInv, TypeOK, ErrUnlink, ErrRmdir, ErrRmParent,
       Empty
  <2> QED BY <2>1, <2>2, <2>3, <2>4, <2>5 DEF Step, shlock_open
<1>2. [][Good]_vars <=> RemovalMeansUnused
  BY DEF RemovalMeansUnused
<1> QED BY <1>1, <1>2, Invariance, PTL DEF Spec

-----------------------------------------------------------------------------
(* Who is responsible for what is in the file system.  The files in a      *)
(* directory belong to its users or to the dead; unless somebody died, an  *)
(* empty directory has a process about to remove it, and so has a parent   *)
(* without names, or one that is about to fill it.                         *)
NobodyDied == \A p \in Proc : ~Dead(p)
Owners ==
  \A n \in Name : cur[n] # NoInode => \A q \in content[cur[n]] :
    Dead(q) \/ (pc[q] \in Inside /\ name[q] = n)
EmptyDirs ==
  NobodyDied => \A n \in Name : cur[n] # NoInode /\ content[cur[n]] = {} =>
    \E p \in Proc : pc[p] \in {"c_rmdir", "e_rmdir"} /\ name[p] = n
EmptyParent ==
  NobodyDied /\ pdir /\ NoNames =>
    \E p \in Proc : pc[p] \in Private \cup {"c_close", "c_rmpar", "e_rmpar"}
Responsible == Owners /\ EmptyDirs /\ EmptyParent

(* Each step leaves somebody responsible for what it leaves behind. *)
LEMMA ResponsibleStep ==
  ASSUME NEW p \in Proc, IInv, Responsible, Step(p)
  PROVE  Responsible'
<1> USE ShlockAssumption
<1>1. CASE Open(p)
  <2> DEFINE i == CHOOSE j \in FreeInodes : TRUE
  <2>1. i \in FreeInodes /\ content' = [content EXCEPT ![i] = {p}]
    BY <1>1 DEF Open
  <2>2. \A n \in Name : cur[n] # i
    BY <2>1 DEF FreeInodes
  <2> HIDE DEF i
  <2>3. /\ pc[p] = "idle" /\ pc' = [pc EXCEPT ![p] = "mkdir"]
        /\ UNCHANGED <<pdir, cur>>
        /\ \E n \in Name : name' = [name EXCEPT ![p] = n]
    BY Zenon, <1>1 DEF IInv, TypeOK, Open, Goto
  <2>4. Owners'
    BY <2>1, <2>2, <2>3 DEF Responsible, Owners, Dead, Inside
  <2>5. EmptyDirs'
    BY <2>1, <2>2, <2>3 DEF Responsible, EmptyDirs, NobodyDied, Dead
  <2>6. EmptyParent'
    BY <2>3 DEF IInv, TypeOK, EmptyParent, Private
  <2> QED BY <2>4, <2>5, <2>6 DEF Responsible
<1>2. CASE MkDir(p)
  <2>1. Owners'
    BY <1>2 DEF IInv, TypeOK, Responsible, Owners, MkDir, Goto, args, Dead, Inside
  <2>2. EmptyDirs'
    BY SMTT(30), <1>2 DEF IInv, TypeOK, Responsible, EmptyDirs, NobodyDied, MkDir,
       Goto, args, Dead
  <2>3. EmptyParent'
    BY <1>2 DEF IInv, TypeOK, EmptyParent, MkDir, Goto, Private
  <2> QED BY <2>1, <2>2, <2>3 DEF Responsible
<1>3. CASE RenameDir(p)
  <2>1. Owners'
    BY <1>3 DEF IInv, TypeOK, PrivateDir, Responsible, Owners, RenameDir, Goto,
       args, Dead, Inside
  <2>2. EmptyDirs'
    <3> SUFFICES ASSUME NobodyDied', NEW n \in Name, cur'[n] # NoInode,
                        content'[cur'[n]] = {}
                 PROVE  (\E q \in Proc : pc[q] \in {"c_rmdir", "e_rmdir"}
                                         /\ name[q] = n)'
      BY DEF EmptyDirs
    <3>1. NobodyDied
      BY <1>3 DEF IInv, TypeOK, NobodyDied, Dead, RenameDir, Goto
    <3>2. cur'[n] = cur[n] /\ content'[cur'[n]] = content[cur[n]]
      BY Zenon, <1>3 DEF IInv, TypeOK, PrivateDir, Private, RenameDir
    <3>3. PICK q \in Proc : pc[q] \in {"c_rmdir", "e_rmdir"} /\ name[q] = n
      BY <3>1, <3>2 DEF Responsible, EmptyDirs
    <3> QED BY SMTT(30), <1>3, <3>3 DEF IInv, TypeOK, RenameDir, Goto, args
  <2>3. EmptyParent'
    BY <1>3 DEF IInv, TypeOK, PrivateDir, EmptyParent, NoNames, RenameDir, Exists,
       Private
  <2> QED BY <2>1, <2>2, <2>3 DEF Responsible
<1>4. CASE RenameFile(p)
  <2>1. Owners'
    BY <1>4 DEF IInv, TypeOK, Tree, Responsible, Owners, RenameFile, Goto, args,
       Dead, Inside
  <2>2. EmptyDirs'
    BY SMTT(30), <1>4 DEF IInv, TypeOK, PrivateDir, Responsible, EmptyDirs,
       NobodyDied, RenameFile, Goto, args, Dead
  <2>3. EmptyParent'
    BY <1>4 DEF IInv, TypeOK, EmptyParent, NoNames, RenameFile, Goto, Exists,
       Private
  <2> QED BY <2>1, <2>2, <2>3 DEF Responsible
<1>5. CASE GcGlob(p)
  <2>1. Owners'
    BY SMTT(30), <1>5 DEF IInv, TypeOK, Responsible, Owners, GcGlob, Goto, args, fs,
       Dead, Inside
  <2>2. EmptyDirs'
    BY <1>5 DEF IInv, TypeOK, Responsible, EmptyDirs, NobodyDied, GcGlob, Goto,
       args, fs, Dead
  <2>3. EmptyParent'
    BY <1>5 DEF IInv, TypeOK, Responsible, EmptyParent, NobodyDied, NoNames, GcGlob,
       Goto, fs, Dead, Private
  <2> QED BY <2>1, <2>2, <2>3 DEF Responsible
<1>6. CASE OpenDir(p)
  <2>1. Owners'
    BY <1>6 DEF IInv, TypeOK, Responsible, Owners, OpenDir, Goto, args, fs, Dead,
       Inside
  <2>2. EmptyDirs'
    BY <1>6 DEF IInv, TypeOK, Responsible, EmptyDirs, NobodyDied, OpenDir, Goto,
       args, fs, Dead
  <2>3. EmptyParent'
    BY <1>6 DEF IInv, TypeOK, Responsible, EmptyParent, NobodyDied, NoNames,
       OpenDir, Goto, fs, Dead, Private
  <2> QED BY <2>1, <2>2, <2>3 DEF Responsible
<1>7. CASE Flock(p)
  <2>1. Owners'
    BY <1>7 DEF IInv, TypeOK, Responsible, Owners, Flock, Goto, args, fs, Dead,
       Inside
  <2>2. EmptyDirs'
    BY <1>7 DEF IInv, TypeOK, Responsible, EmptyDirs, NobodyDied, Flock, Goto, args,
       fs, Dead
  <2>3. EmptyParent'
    BY <1>7 DEF IInv, TypeOK, Responsible, EmptyParent, NobodyDied, NoNames, Flock,
       Goto, fs, Dead, Private
  <2> QED BY <2>1, <2>2, <2>3 DEF Responsible
<1>8. CASE FlockFails(p)
  <2>1. Owners'
    BY <1>8 DEF IInv, TypeOK, Responsible, Owners, FlockFails, Goto, args, fs, Dead,
       Inside
  <2>2. EmptyDirs'
    BY <1>8 DEF IInv, TypeOK, Responsible, EmptyDirs, NobodyDied, FlockFails, Goto,
       args, fs, Dead
  <2>3. EmptyParent'
    BY <1>8 DEF IInv, TypeOK, Responsible, EmptyParent, NobodyDied, NoNames,
       FlockFails, Goto, fs, Dead, Private
  <2> QED BY <2>1, <2>2, <2>3 DEF Responsible
<1>9. CASE ErrUnlink(p)
  <2>1. Owners'
    BY <1>9 DEF IInv, TypeOK, Responsible, Owners, ErrUnlink, UnlinkOwn, Goto, args,
       Dead
  <2>2. EmptyDirs'
    <3> SUFFICES ASSUME NobodyDied', NEW n \in Name, cur'[n] # NoInode,
                        content'[cur'[n]] = {}
                 PROVE  (\E q \in Proc : pc[q] \in {"c_rmdir", "e_rmdir"}
                                         /\ name[q] = n)'
      BY DEF EmptyDirs
    <3>1. NobodyDied
      BY <1>9 DEF IInv, TypeOK, NobodyDied, Dead, ErrUnlink, Goto
    <3>2. /\ cur' = cur /\ name' = name
          /\ pc' = [pc EXCEPT ![p] = "e_rmdir"]
          /\ content' = [i \in Inode |-> IF i = cur[name[p]] THEN content[i] \ {p}
                                                         ELSE content[i]]
      BY <1>9 DEF IInv, TypeOK, ErrUnlink, UnlinkOwn, Goto, args
    <3>3. CASE n = name[p]
      BY <3>2, <3>3 DEF IInv, TypeOK
    <3>4. CASE n # name[p]
      <4>1. content[cur[n]] = {}
        BY Zenon, <3>2, <3>4 DEF IInv, TypeOK, Tree
      <4>2. PICK q \in Proc : pc[q] \in {"c_rmdir", "e_rmdir"} /\ name[q] = n
        BY <3>1, <3>2, <4>1 DEF Responsible, EmptyDirs
      <4> QED BY <3>2, <3>4, <4>2 DEF IInv, TypeOK
    <3> QED BY <3>3, <3>4
  <2>3. EmptyParent'
    BY SMTT(30), <1>9 DEF IInv, TypeOK, Responsible, EmptyParent, NobodyDied,
       NoNames, ErrUnlink, Goto, Dead, Private
  <2> QED BY <2>1, <2>2, <2>3 DEF Responsible
<1>10. CASE ErrRmdir(p)
  <2>1. Owners'
    BY SMTT(30), <1>10 DEF IInv, TypeOK, Responsible, Owners, ErrRmdir, Goto, args,
       Dead, Inside
  <2>2. EmptyDirs'
    BY <1>10 DEF IInv, TypeOK, Tree, Responsible, EmptyDirs, NobodyDied, ErrRmdir,
       Goto, args, Exists, Empty, Dead
  <2>3. EmptyParent'
    BY <1>10 DEF IInv, TypeOK, EmptyParent, ErrRmdir, Goto
  <2> QED BY <2>1, <2>2, <2>3 DEF Responsible
<1>11. CASE ErrRmParent(p)
  <2>1. Owners'
    BY <1>11 DEF IInv, TypeOK, Responsible, Owners, ErrRmParent, Goto, args, Dead,
       Inside
  <2>2. EmptyDirs'
    <3> SUFFICES ASSUME NobodyDied', NEW n \in Name, cur'[n] # NoInode,
                        content'[cur'[n]] = {}
                 PROVE  (\E q \in Proc : pc[q] \in {"c_rmdir", "e_rmdir"}
                                         /\ name[q] = n)'
      BY DEF EmptyDirs
    <3>1. NobodyDied
      BY <1>11 DEF IInv, TypeOK, NobodyDied, Dead, ErrRmParent, Goto
    <3>2. PICK q \in Proc : pc[q] \in {"c_rmdir", "e_rmdir"} /\ name[q] = n
      BY <1>11, <3>1 DEF IInv, TypeOK, Responsible, EmptyDirs, ErrRmParent
    <3> QED BY <1>11, <3>2 DEF IInv, TypeOK, ErrRmParent, Goto, args
  <2>3. EmptyParent'
    BY Zenon, <1>11 DEF IInv, TypeOK, EmptyParent, NoNames, ErrRmParent
  <2> QED BY <2>1, <2>2, <2>3 DEF Responsible
<1>12. CASE Close(p)
  <2>1. Owners'
    BY SMTT(30), <1>12 DEF IInv, TypeOK, Responsible, Owners, Close, UnlinkOwn,
       Goto, args, Dead
  <2>2. EmptyDirs'
    <3> SUFFICES ASSUME NobodyDied', NEW n \in Name, cur'[n] # NoInode,
                        content'[cur'[n]] = {}
                 PROVE  (\E q \in Proc : pc[q] \in {"c_rmdir", "e_rmdir"}
                                         /\ name[q] = n)'
      BY DEF EmptyDirs
    <3>1. NobodyDied
      BY <1>12 DEF IInv, TypeOK, NobodyDied, Dead, Close, Goto
    <3>2. /\ cur' = cur /\ name' = name
          /\ pc' = [pc EXCEPT ![p] = "c_rmdir"]
          /\ content' = [i \in Inode |-> IF i = cur[name[p]] THEN content[i] \ {p}
                                                         ELSE content[i]]
      BY <1>12 DEF IInv, TypeOK, Close, UnlinkOwn, Goto, args
    <3>3. CASE n = name[p]
      BY <3>2, <3>3 DEF IInv, TypeOK
    <3>4. CASE n # name[p]
      <4>1. content[cur[n]] = {}
        BY Zenon, <3>2, <3>4 DEF IInv, TypeOK, Tree
      <4>2. PICK q \in Proc : pc[q] \in {"c_rmdir", "e_rmdir"} /\ name[q] = n
        BY <3>1, <3>2, <4>1 DEF Responsible, EmptyDirs
      <4> QED BY <3>2, <3>4, <4>2 DEF IInv, TypeOK
    <3> QED BY <3>3, <3>4
  <2>3. EmptyParent'
    BY <1>12 DEF IInv, TypeOK, Responsible, EmptyParent, NobodyDied, NoNames, Close,
       Goto, Dead, Private
  <2> QED BY <2>1, <2>2, <2>3 DEF Responsible
<1>13. CASE CloseRmdir(p)
  <2>1. Owners'
    BY <1>13 DEF IInv, TypeOK, Responsible, Owners, CloseRmdir, Goto, args, Dead,
       Inside
  <2>2. EmptyDirs'
    BY SMTT(30), <1>13 DEF IInv, TypeOK, PrivateDir, Tree, Responsible, EmptyDirs,
       NobodyDied, CloseRmdir, Goto, args, Exists, Empty, Dead
  <2>3. EmptyParent'
    BY <1>13 DEF IInv, TypeOK, EmptyParent, CloseRmdir, Goto
  <2> QED BY <2>1, <2>2, <2>3 DEF Responsible
<1>14. CASE CloseFd(p)
  <2>1. Owners'
    BY <1>14 DEF IInv, TypeOK, Responsible, Owners, CloseFd, Goto, args, fs, Dead,
       Inside
  <2>2. EmptyDirs'
    BY <1>14 DEF IInv, TypeOK, Responsible, EmptyDirs, NobodyDied, CloseFd, Goto,
       args, fs, Dead
  <2>3. EmptyParent'
    BY <1>14 DEF IInv, TypeOK, EmptyParent, CloseFd, Goto
  <2> QED BY <2>1, <2>2, <2>3 DEF Responsible
<1>15. CASE CloseRmParent(p)
  <2>1. Owners'
    BY <1>15 DEF IInv, TypeOK, Responsible, Owners, CloseRmParent, Goto, args, Dead,
       Inside
  <2>2. EmptyDirs'
    BY <1>15 DEF IInv, TypeOK, Responsible, EmptyDirs, NobodyDied, CloseRmParent,
       Goto, args, Dead
  <2>3. EmptyParent'
    BY Zenon, <1>15 DEF IInv, TypeOK, EmptyParent, NoNames, CloseRmParent
  <2> QED BY <2>1, <2>2, <2>3 DEF Responsible
<1>16. CASE GcOne(p)
  <2>1. PICK q \in stale[p] :
          content' = IF Collectable(q)
                     THEN [content EXCEPT ![cur[name[p]]] = @ \ {q}]
                     ELSE content
    BY Zenon, <1>16 DEF GcOne
  <2>2. p \in content'[cur[name[p]]]
    BY SMTT(30), <1>16, <2>1 DEF IInv, TypeOK, StableDir, GcOne, Inside,
       Collectable, Dead
  <2>3. Owners'
    BY SMTT(30), <1>16, <2>1 DEF IInv, TypeOK, Responsible, Owners, GcOne, args,
       Dead
  <2>4. EmptyDirs'
    BY SMTT(30), <1>16, <2>1, <2>2 DEF IInv, TypeOK, Responsible, EmptyDirs,
       NobodyDied, GcOne, args, Dead
  <2>5. EmptyParent'
    BY <1>16 DEF IInv, TypeOK, Responsible, EmptyParent, NobodyDied, NoNames, Dead,
       GcOne
  <2> QED BY <2>3, <2>4, <2>5 DEF Responsible
<1> QED BY <1>1, <1>2, <1>3, <1>4, <1>5, <1>6, <1>7, <1>8, <1>9, <1>10, <1>11,
     <1>12, <1>13, <1>14, <1>15, <1>16 DEF Step, shlock_open, shlock_close

(* When every process is between calls and none has died, no lock          *)
(* directory and no parent directory is left.                              *)
THEOREM NothingLeft == Spec => []CleanWhenIdle
<1>1. Init => Responsible
  BY DEF Init, Responsible, Owners, EmptyDirs, EmptyParent
<1>2. IInv /\ Responsible /\ [Next]_vars => Responsible'
  <2> SUFFICES ASSUME IInv, Responsible, [Next]_vars PROVE Responsible'
    OBVIOUS
  <2>1. CASE UNCHANGED vars
    BY Zenon, <2>1 DEF vars, Responsible, Owners, EmptyDirs, EmptyParent,
       NobodyDied, NoNames, Dead
  <2>2. CASE Done
    BY <2>1, <2>2 DEF Done
  <2>3. ASSUME NEW p \in Proc, Step(p) PROVE Responsible'
    BY <2>3, ResponsibleStep
  <2>4. ASSUME NEW p \in Proc, Crash(p) PROVE Responsible'
    BY <2>4 DEF IInv, TypeOK, Responsible, Owners, EmptyDirs, EmptyParent,
       NobodyDied, Dead, Crash, Goto, fs, args
  <2> QED BY <2>1, <2>2, <2>3, <2>4 DEF Next
<1>3. IInv /\ Responsible => CleanWhenIdle
  <2> SUFFICES ASSUME IInv, Responsible, \A p \in Proc : pc[p] = "idle"
               PROVE  NoNames /\ ~pdir
    BY DEF CleanWhenIdle
  <2>1. NobodyDied
    BY DEF NobodyDied, Dead
  <2>2. ASSUME NEW n \in Name, cur[n] # NoInode PROVE FALSE
    <3>1. content[cur[n]] # {}
      BY <2>1, <2>2 DEF Responsible, EmptyDirs
    <3>2. PICK q \in content[cur[n]] : TRUE
      BY <3>1
    <3>3. q \in Proc
      BY <2>2, <3>2 DEF IInv, TypeOK
    <3> QED BY <2>1, <2>2, <3>2, <3>3 DEF Responsible, Owners, NobodyDied, Inside
  <2>3. NoNames
    BY <2>2 DEF NoNames
  <2> QED BY <2>1, <2>3 DEF Responsible, EmptyParent, Private
<1> QED BY <1>1, <1>2, <1>3, Invariance, PTL DEF Spec
=============================================================================
