------------------------------ MODULE DpmiShm ------------------------------
(***************************************************************************)
(* DPMI shared memory: a named object shared by the DPMI clients of all    *)
(* running emulators (src/src/dosext/dpmi/memory.c).                       *)
(*                                                                         *)
(* The object is created by the first client that asks for the name and    *)
(* unlinked by the last one that frees it.  Who is last is found out with  *)
(* a shared shlock on the name (Shlock.tla): its close returns a positive  *)
(* number to the client that removed the lock directory, or its parent.    *)
(* An exclusive shlock in a second directory serialises creation with the  *)
(* unlink.                                                                 *)
(*                                                                         *)
(* One name is modelled; others says whether other names keep the parent   *)
(* directory of the shared locks alive.  A lock operation is atomic here   *)
(* except shlock_close, whose two rmdir calls are two steps.  Sizes are    *)
(* left out.                                                               *)
(***************************************************************************)
EXTENDS Naturals, FiniteSets

CONSTANTS Client,      \* DPMI clients, of one or of several emulators
          Handle,      \* memory handles a client can have
          Objects      \* numbers of the objects that can exist at a time

ASSUME ShmAssumption == 0 \notin Objects

VARIABLES
  obj,       \* object the name is bound to in the file system, 0 for none
  ex,        \* holders of the exclusive lock on the name
  users,     \* files in the lock directory of the name: owner and what for
  pdir,      \* the parent directory of the shared locks exists
  others,    \* other shared names are in use
  pc, hnd,   \* location of each client, and the block of its current call
  refcnt,    \* fhm->refcnt, 0 when the client has no descriptor
  fdobj,     \* object behind fhm->fd
  rc,        \* what shlock_close returned
  blocks     \* blocks[c]: handles of the named blocks of c

vars == <<obj, ex, users, pdir, others, pc, hnd, refcnt, fdobj, rc, blocks>>
locks == <<ex, users, pdir, others>>

Dead == {c \in Client : pc[c] = "dead"}
Goto(c, l) == pc' = [pc EXCEPT ![c] = l]
Use(c) == <<c, "use">>
Leak(c) == <<c, "leak">>

Init ==
  /\ obj = 0
  /\ ex = {} /\ users = {} /\ others \in BOOLEAN /\ pdir = others
  /\ pc = [c \in Client |-> "idle"]
  /\ hnd \in [Client -> Handle]
  /\ \A c, d \in Client : hnd[c] = hnd[d]
  /\ refcnt = [c \in Client |-> 0] /\ fdobj = [c \in Client |-> 0]
  /\ rc = [c \in Client |-> 0]
  /\ blocks = [c \in Client |-> {}]

-----------------------------------------------------------------------------
(* DPMI_mallocShared: the client's own block of that name is looked up     *)
(* first and its descriptor shared.                                        *)
DPMI_mallocShared_mut(c) ==
  /\ pc[c] = "idle"
  /\ \E h \in Handle \ blocks[c] : hnd' = [hnd EXCEPT ![c] = h]
  /\ Goto(c, IF blocks[c] # {} THEN "map" ELSE "exlock")
  /\ UNCHANGED <<obj, locks, refcnt, fdobj, rc, blocks>>
DPMI_mallocShared(c) ==
  /\ pc[c] = "idle"
  /\ \E h \in Handle \ blocks[c] : hnd' = [hnd EXCEPT ![c] = h]
  /\ IF blocks[c] # {}
       THEN refcnt' = [refcnt EXCEPT ![c] = @ + 1] /\ Goto(c, "map")
       ELSE Goto(c, "exlock") /\ UNCHANGED refcnt
  /\ UNCHANGED <<obj, locks, fdobj, rc, blocks>>

(* do_shm_open: exlock, then the shared lock (whose open collects files of *)
(* the dead), then shm_open with O_CREAT, fstat and ftruncate.             *)
ExLock(c) ==
  /\ pc[c] \in {"exlock", "f_exlock"} /\ ex = {}
  /\ ex' = {c}
  /\ Goto(c, IF pc[c] = "exlock" THEN "shlock" ELSE "f_unlink")
  /\ UNCHANGED <<obj, users, pdir, others, hnd, refcnt, fdobj, rc, blocks>>
ShLock(c) ==
  /\ pc[c] = "shlock"
  /\ users' = {u \in users : u[1] \notin Dead} \cup {Use(c)} /\ pdir' = TRUE
  /\ Goto(c, "open")
  /\ UNCHANGED <<obj, ex, others, hnd, refcnt, fdobj, rc, blocks>>
NewObjects == {o \in Objects : o # obj /\ \A c \in Client : fdobj[c] # o}
ShmOpen(c) ==
  /\ pc[c] = "open"
  /\ IF obj # 0
       THEN fdobj' = [fdobj EXCEPT ![c] = obj] /\ UNCHANGED obj
       ELSE LET o == CHOOSE o \in NewObjects : TRUE IN
            /\ NewObjects # {}
            /\ obj' = o
            /\ fdobj' = [fdobj EXCEPT ![c] = o]
  /\ refcnt' = [refcnt EXCEPT ![c] = 1]
  /\ ex' = ex \ {c}                                  \* shlock_close(exlock)
  /\ Goto(c, "map")
  /\ UNCHANGED <<users, pdir, others, hnd, rc, blocks>>
(* Both error paths forget the shared lock; a failed ftruncate leaves an   *)
(* empty object behind.                                                    *)
ShmOpenFails(c) ==
  /\ pc[c] = "open"
  /\ users' = (users \ {Use(c)}) \cup {Leak(c)}
  /\ \/ UNCHANGED obj
     \/ /\ obj = 0 /\ NewObjects # {}
        /\ obj' = CHOOSE o \in NewObjects : TRUE
  /\ ex' = ex \ {c}
  /\ Goto(c, "idle")
  /\ UNCHANGED <<pdir, others, hnd, refcnt, fdobj, rc, blocks>>

(* The rest of DPMI_mallocShared: the address space may be exhausted. *)
MapBlock(c) ==
  /\ pc[c] = "map"
  /\ blocks' = [blocks EXCEPT ![c] = @ \cup {hnd[c]}]
  /\ Goto(c, "idle")
  /\ UNCHANGED <<obj, locks, hnd, refcnt, fdobj, rc>>

(* _close_shm: the last reference closes the shared lock, which is         *)
(* unlink + rmdir of the lock directory, then rmdir of its parent.         *)
close_shm(c, last, more) ==
  /\ refcnt' = [refcnt EXCEPT ![c] = @ - 1]
  /\ IF refcnt[c] > 1
       THEN Goto(c, more) /\ rc' = [rc EXCEPT ![c] = 0] /\ UNCHANGED users
       ELSE /\ users' = users \ {Use(c)}
            /\ rc' = [rc EXCEPT ![c] = IF users' = {} THEN 1 ELSE 0]
            /\ Goto(c, last)
MapFails(c) ==
  /\ pc[c] = "map"
  /\ close_shm(c, "e_parent", "idle")
  /\ UNCHANGED <<obj, ex, pdir, others, hnd, fdobj, blocks>>
RmParent(c) ==
  /\ pc[c] \in {"e_parent", "f_parent"}
  /\ IF pdir /\ users = {} /\ ~others
       THEN pdir' = FALSE /\ rc' = [rc EXCEPT ![c] = @ + 1]
       ELSE UNCHANGED <<pdir, rc>>
  /\ fdobj' = [fdobj EXCEPT ![c] = 0]
  /\ Goto(c, IF pc[c] = "e_parent" THEN "e_unlink" ELSE "f_exlock")
  /\ UNCHANGED <<obj, ex, users, others, hnd, refcnt, blocks>>

(* The error path unlinks outside of the exclusive lock. *)
ErrUnlink(c) ==
  /\ pc[c] = "e_unlink"
  /\ obj' = IF rc[c] > 0 THEN 0 ELSE obj
  /\ Goto(c, "idle")
  /\ UNCHANGED <<locks, hnd, refcnt, fdobj, rc, blocks>>

(* DPMI_freeShared and DPMI_freeShPartial: drop the shared lock, then take *)
(* the exclusive one, unlink if told to, release it.                       *)
DPMI_freeShared(c) ==
  /\ pc[c] = "idle"
  /\ \E h \in blocks[c] : blocks' = [blocks EXCEPT ![c] = @ \ {h}]
  /\ close_shm(c, "f_parent", "f_exlock")
  /\ UNCHANGED <<obj, ex, pdir, others, hnd, fdobj>>
FreeUnlink_mut(c) ==
  /\ pc[c] = "f_unlink"
  /\ obj' = obj
  /\ ex' = ex \ {c}
  /\ Goto(c, "idle")
  /\ UNCHANGED <<users, pdir, others, hnd, refcnt, fdobj, rc, blocks>>
FreeUnlink_mut2(c) ==
  /\ pc[c] = "f_unlink"
  /\ obj' = IF rc[c] > 0 THEN 0 ELSE obj
  /\ ex' = IF rc[c] > 0 THEN ex \ {c} ELSE ex
  /\ Goto(c, "idle")
  /\ UNCHANGED <<users, pdir, others, hnd, refcnt, fdobj, rc, blocks>>
FreeUnlink(c) ==
  /\ pc[c] = "f_unlink"
  /\ obj' = IF rc[c] > 0 THEN 0 ELSE obj
  /\ ex' = ex \ {c}
  /\ Goto(c, "idle")
  /\ UNCHANGED <<users, pdir, others, hnd, refcnt, fdobj, rc, blocks>>

(* The emulator is killed: its locks are gone, its lock file and the       *)
(* object stay.                                                            *)
Crash(c) ==
  /\ pc[c] # "dead" /\ (refcnt[c] > 0 \/ pc[c] # "idle")
  /\ ex' = ex \ {c}
  /\ Goto(c, "dead")
  /\ refcnt' = [refcnt EXCEPT ![c] = 0] /\ fdobj' = [fdobj EXCEPT ![c] = 0]
  /\ blocks' = [blocks EXCEPT ![c] = {}]
  /\ UNCHANGED <<obj, users, pdir, others, hnd, rc>>

Malloc(c) == DPMI_mallocShared(c) \/ ExLock(c) \/ ShLock(c) \/ ShmOpen(c)
             \/ ShmOpenFails(c)
             \/ MapBlock(c) \/ MapFails(c)
Free(c) == DPMI_freeShared(c) \/ RmParent(c) \/ FreeUnlink(c) \/ ErrUnlink(c)
Next == \E c \in Client : Malloc(c) \/ Free(c) \/ Crash(c)
Spec == Init /\ [][Next]_vars

(* A call that has been started is executed to its end.  Which of several  *)
(* waiters gets the exclusive lock is left open.                           *)
FairSpec == Spec /\ \A c \in Client :
  WF_vars((pc[c] # "idle") /\ (Malloc(c) \/ Free(c)))

-----------------------------------------------------------------------------
Locations == {"idle", "exlock", "shlock", "open", "map", "e_parent", "e_unlink",
              "f_parent", "f_exlock", "f_unlink", "dead"}
(* Objects, locks, locations and blocks keep their types, and no      *)
(* reference is given back twice.                                          *)
TypeOK ==
  /\ obj \in Objects \cup {0} /\ others \in BOOLEAN
  /\ ex \in SUBSET Client /\ users \subseteq Client \X {"use", "leak"}
  /\ pdir \in BOOLEAN
  /\ pc \in [Client -> Locations]
  /\ hnd \in [Client -> Handle]
  /\ refcnt \in [Client -> Nat] /\ fdobj \in [Client -> Objects \cup {0}]
  /\ rc \in [Client -> 0 .. 2]
  /\ blocks \in [Client -> SUBSET Handle]

(* fhm->refcnt counts the named blocks of the client, plus the one a       *)
(* DPMI_mallocShared is just about to make: the descriptor and the lock    *)
(* are dropped exactly when the last block goes.  So a live client with a  *)
(* block is registered in the lock directory, and nobody else can be told  *)
(* that it was the last one.                                               *)
RefcntExact ==
  /\ TypeOK
  /\ \A c \in Client :
       /\ refcnt[c] = Cardinality(blocks[c]) + (IF pc[c] = "map" THEN 1 ELSE 0)
       /\ blocks[c] # {} => Use(c) \in users /\ fdobj[c] # 0

(* When every block has been freed, the object is gone from the file       *)
(* system, unless a client was killed or still holds the shared lock that  *)
(* a failed open forgot.                                                   *)
NoOrphan ==
  (\A c \in Client : pc[c] = "idle" /\ blocks[c] = {} /\ Leak(c) \notin users)
     => obj = 0

(* The exclusive lock is given back: nothing its holder does under it      *)
(* waits for another client.                                               *)
ExlockReleased ==
  \A c \in Client : []<>(c \notin ex)
=============================================================================
