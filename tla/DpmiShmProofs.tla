--------------------------- MODULE DpmiShmProofs ---------------------------
(***************************************************************************)
(* For any set of clients, handles and objects: the reference count of the *)
(* descriptor is exact, and no object is left over once every block has    *)
(* been freed.                                                             *)
(***************************************************************************)
EXTENDS DpmiShm, FiniteSetTheorems, TLAPS

(* Where a client has no block of the name, and where the answer of        *)
(* shlock_close is still to be acted upon.                                 *)
Bare == {"exlock", "shlock", "open", "e_parent", "e_unlink", "f_parent", "dead"}
Closing == {"e_parent", "e_unlink", "f_parent", "f_exlock", "f_unlink"}

(* One client's descriptor, lock file and blocks. *)
Local(c) ==
  /\ IsFiniteSet(blocks[c])
  /\ refcnt[c] = Cardinality(blocks[c]) + (IF pc[c] = "map" THEN 1 ELSE 0)
  /\ pc[c] \in Bare => blocks[c] = {}
  /\ pc[c] = "map" => hnd[c] \notin blocks[c]
  /\ pc[c] \in {"e_parent", "f_parent"} => rc[c] <= 1
  /\ refcnt[c] > 0 => Use(c) \in users /\ fdobj[c] # 0
  /\ pc[c] = "open" => Use(c) \in users
  /\ Use(c) \in users => refcnt[c] > 0 \/ pc[c] \in {"open", "dead"}
IInv == TypeOK /\ \A c \in Client : Local(c)

(* Somebody will unlink the object: a user of the name, or a client that   *)
(* was told that it was the last one.                                      *)
Responsible(c) == Use(c) \in users \/ (pc[c] \in Closing /\ rc[c] > 0)
Clean == \A c \in Client : pc[c] # "dead" /\ Leak(c) \notin users
Owned == Clean /\ obj # 0 => \E c \in Client : Responsible(c)

-----------------------------------------------------------------------------
(* The lock files of different clients and purposes are different. *)
LEMMA Files ==
  \A c, d \in Client : /\ Use(c) # Leak(d) /\ Use(c)[1] = c
                       /\ (c # d => Use(c) # Use(d))
BY DEF Use, Leak

(* The initial states satisfy both invariants. *)
LEMMA InitInv == Init => IInv /\ Owned
<1> SUFFICES ASSUME Init PROVE IInv /\ Owned
  OBVIOUS
<1>1. TypeOK
  BY DEF Init, TypeOK, Locations
<1>2. ASSUME NEW c \in Client PROVE Local(c)
  BY FS_EmptySet DEF Init, Local, Bare
<1> QED BY <1>1, <1>2 DEF IInv, Owned, Init

(* What one client does leaves the descriptor, the blocks and the location *)
(* of the others alone, and of the lock files removes only its own and     *)
(* those of the dead.                                                      *)
LEMMA OthersKept ==
  ASSUME IInv, NEW c \in Client, NEW d \in Client, c # d,
         Malloc(c) \/ Free(c) \/ Crash(c)
  PROVE  /\ pc'[d] = pc[d] /\ hnd'[d] = hnd[d] /\ refcnt'[d] = refcnt[d]
         /\ fdobj'[d] = fdobj[d] /\ rc'[d] = rc[d] /\ blocks'[d] = blocks[d]
         /\ pc[d] # "dead" => (Use(d) \in users' <=> Use(d) \in users)
         /\ pc[d] # "dead" => (Leak(d) \in users' <=> Leak(d) \in users)
         /\ Use(d) \in users' => Use(d) \in users
<1> USE DEF IInv, TypeOK, Goto
<1>1. CASE DPMI_mallocShared(c) \/ ExLock(c) \/ MapBlock(c)
  BY <1>1 DEF DPMI_mallocShared, ExLock, MapBlock, locks
<1>2. CASE ShLock(c)
  BY <1>2 DEF ShLock, Use, Leak, Dead
<1>3. CASE ShmOpen(c) \/ ShmOpenFails(c)
  BY <1>3 DEF ShmOpen, ShmOpenFails, Use, Leak
<1>4. CASE MapFails(c) \/ DPMI_freeShared(c)
  BY <1>4 DEF MapFails, DPMI_freeShared, close_shm, Use, Leak
<1>5. CASE RmParent(c) \/ FreeUnlink(c) \/ ErrUnlink(c) \/ Crash(c)
  BY <1>5 DEF RmParent, FreeUnlink, ErrUnlink, Crash, locks
<1> QED BY <1>1, <1>2, <1>3, <1>4, <1>5 DEF Malloc, Free

(* Types are kept; shlock_close returns at most 2, one for each directory. *)
LEMMA TypeStep ==
  ASSUME IInv, NEW c \in Client, Malloc(c) \/ Free(c) \/ Crash(c)
  PROVE  TypeOK'
<1>t. TypeOK /\ Local(c)
  BY DEF IInv
<1>1. CASE DPMI_mallocShared(c)
  BY <1>1, <1>t DEF DPMI_mallocShared, TypeOK, Locations, Goto, locks
<1>2. CASE ExLock(c) \/ ShLock(c)
  <2>1. users' \subseteq Client \X {"use", "leak"}
    BY <1>2, <1>t DEF ExLock, ShLock, TypeOK, Use
  <2> QED BY <2>1, <1>2, <1>t DEF ExLock, ShLock, TypeOK, Locations, Goto
<1>3. CASE ShmOpen(c) \/ ShmOpenFails(c)
  <2>1. NewObjects # {} => (CHOOSE o \in NewObjects : TRUE) \in Objects
    BY DEF NewObjects
  <2>2. users' \subseteq Client \X {"use", "leak"}
    BY <1>3, <1>t DEF ShmOpen, ShmOpenFails, TypeOK, Leak
  <2>3. CASE ShmOpen(c)
    BY <2>1, <2>2, <2>3, <1>t DEF ShmOpen, TypeOK, Locations, Goto
  <2>4. CASE ShmOpenFails(c)
    BY <2>1, <2>2, <2>4, <1>t DEF ShmOpenFails, TypeOK, Locations, Goto
  <2> QED BY <2>3, <2>4, <1>3
<1>4. CASE MapBlock(c)
  BY <1>4, <1>t DEF MapBlock, TypeOK, Locations, Goto, locks
<1>5. CASE MapFails(c) \/ DPMI_freeShared(c)
  <2>1. refcnt[c] \in Nat \ {0}
    <3>1. CASE MapFails(c)
      BY <3>1, <1>t, FS_CardinalityType DEF MapFails, Local, TypeOK
    <3>2. CASE DPMI_freeShared(c)
      <4>1. blocks[c] # {} /\ pc[c] = "idle"
        BY <3>2 DEF DPMI_freeShared
      <4> QED BY <4>1, <1>t, FS_CardinalityType, FS_EmptySet DEF Local, TypeOK
    <3> QED BY <3>1, <3>2, <1>5
  <2> QED BY <2>1, <1>5, <1>t DEF MapFails, DPMI_freeShared, close_shm, TypeOK,
          Locations, Goto
<1>6. CASE RmParent(c)
  <2>1. rc[c] \in 0..1
    BY <1>6, <1>t DEF RmParent, Local, TypeOK
  <2>2. rc' \in [Client -> 0..2]
    BY <2>1, <1>6, <1>t DEF RmParent, TypeOK
  <2> QED BY <2>2, <1>6, <1>t DEF RmParent, TypeOK, Locations, Goto
<1>7. CASE FreeUnlink(c) \/ ErrUnlink(c) \/ Crash(c)
  BY <1>7, <1>t DEF FreeUnlink, ErrUnlink, Crash, TypeOK, Locations, Goto, locks
<1> QED BY <1>1, <1>2, <1>3, <1>4, <1>5, <1>6, <1>7 DEF Malloc, Free

(* DPMI_mallocShared shares the descriptor of another block, or opens one, *)
(* and each of its steps keeps count.                                      *)
LEMMA MallocLocal ==
  ASSUME IInv, NEW c \in Client, Malloc(c), TypeOK'
  PROVE  Local(c)'
<1>t. TypeOK /\ Local(c) /\ Cardinality(blocks[c]) \in Nat
  BY FS_CardinalityType DEF IInv, Local
<1>1. CASE DPMI_mallocShared(c)
  <2>1. CASE blocks[c] = {}
    <3>1. /\ pc[c] = "idle" /\ pc'[c] = "exlock"
          /\ UNCHANGED <<users, refcnt, fdobj, rc, blocks>>
      BY <2>1, <1>1, <1>t DEF DPMI_mallocShared, TypeOK, Goto, locks
    <3> QED BY <3>1, <2>1, <1>t, FS_EmptySet DEF Local, Bare, Use
  <2>2. CASE blocks[c] # {}
    <3>1. refcnt[c] > 0
      BY <2>2, <1>1, <1>t, FS_EmptySet DEF DPMI_mallocShared, Local, TypeOK
    <3> QED BY <3>1, <2>2, <1>1, <1>t
            DEF DPMI_mallocShared, Local, TypeOK, Goto, locks, Bare
  <2> QED BY <2>1, <2>2
<1>2. CASE ExLock(c)
  BY <1>2, <1>t, FS_EmptySet DEF ExLock, Local, TypeOK, Goto, Bare
<1>3. CASE ShLock(c)
  BY <1>3, <1>t, FS_EmptySet DEF ShLock, Local, TypeOK, Goto, Bare, Use, Dead
<1>4. CASE ShmOpen(c)
  <2>1. NewObjects # {} => (CHOOSE o \in NewObjects : TRUE) # 0
    BY ShmAssumption DEF NewObjects
  <2> QED BY <2>1, <1>4, <1>t, FS_EmptySet DEF ShmOpen, Local, TypeOK, Goto, Bare
<1>5. CASE ShmOpenFails(c)
  BY <1>5, <1>t, FS_EmptySet, Files DEF ShmOpenFails, Local, TypeOK, Goto, Bare
<1>6. CASE MapBlock(c)
  <2>1. /\ blocks'[c] = blocks[c] \cup {hnd[c]} /\ hnd[c] \notin blocks[c]
        /\ pc[c] = "map" /\ pc'[c] = "idle"
        /\ UNCHANGED <<hnd, refcnt, fdobj, rc, users>>
    BY <1>6, <1>t DEF MapBlock, Local, TypeOK, Goto, locks
  <2>2. /\ IsFiniteSet(blocks'[c])
        /\ Cardinality(blocks'[c]) = Cardinality(blocks[c]) + 1
    <3>1. IsFiniteSet(blocks[c])
      BY <1>t DEF Local
    <3>2. /\ IsFiniteSet(blocks[c] \cup {hnd[c]})
          /\ Cardinality(blocks[c] \cup {hnd[c]}) = Cardinality(blocks[c]) + 1
      BY <3>1, <2>1, FS_AddElement, Zenon
    <3> QED BY <3>2, <2>1, Zenon
  <2> QED BY <2>1, <2>2, <1>t DEF Local, Bare, Use
<1>7. CASE MapFails(c)
  <2>1. blocks[c] = {} <=> Cardinality(blocks[c]) = 0
    BY <1>t, FS_EmptySet DEF Local
  <2>2. /\ pc[c] = "map" /\ refcnt'[c] = refcnt[c] - 1
        /\ UNCHANGED <<hnd, fdobj, blocks>>
    BY <1>7, <1>t DEF MapFails, close_shm, TypeOK
  <2>3. CASE refcnt[c] > 1
    <3>1. pc'[c] = "idle" /\ UNCHANGED users
      BY <2>3, <1>7, <1>t DEF MapFails, close_shm, TypeOK, Goto
    <3> QED BY <3>1, <2>1, <2>2, <2>3, <1>t DEF Local, Bare, Use
  <2>4. CASE ~(refcnt[c] > 1)
    <3>1. /\ pc'[c] = "e_parent" /\ users' = users \ {Use(c)} /\ rc'[c] <= 1
      BY <2>4, <1>7, <1>t DEF MapFails, close_shm, TypeOK, Goto
    <3> QED BY <3>1, <2>1, <2>2, <2>4, <1>t DEF Local, Bare, Use
  <2> QED BY <2>3, <2>4
<1> QED BY <1>1, <1>2, <1>3, <1>4, <1>5, <1>6, <1>7 DEF Malloc

(* Freeing takes one off the count and, with the last block, drops the     *)
(* descriptor and the lock file; a killed client has neither.              *)
LEMMA FreeLocal ==
  ASSUME IInv, NEW c \in Client, Free(c) \/ Crash(c), TypeOK'
  PROVE  Local(c)'
<1>t. TypeOK /\ Local(c) /\ Cardinality(blocks[c]) \in Nat
  BY FS_CardinalityType DEF IInv, Local
<1>1. CASE DPMI_freeShared(c)
  <2>1. PICK h \in blocks[c] : blocks' = [blocks EXCEPT ![c] = @ \ {h}]
    BY <1>1 DEF DPMI_freeShared
  <2>2. /\ blocks'[c] = blocks[c] \ {h}
        /\ pc[c] = "idle" /\ refcnt'[c] = refcnt[c] - 1
        /\ UNCHANGED <<hnd, fdobj>>
    BY <2>1, <1>1, <1>t DEF DPMI_freeShared, close_shm, TypeOK
  <2>3. /\ IsFiniteSet(blocks'[c])
        /\ Cardinality(blocks'[c]) = Cardinality(blocks[c]) - 1
    <3>1. IsFiniteSet(blocks[c])
      BY <1>t DEF Local
    <3>2. /\ IsFiniteSet(blocks[c] \ {h})
          /\ Cardinality(blocks[c] \ {h}) = Cardinality(blocks[c]) - 1
      BY <3>1, <2>1, FS_RemoveElement, Zenon
    <3> QED BY <3>2, <2>2, Zenon
  <2>4. blocks'[c] = {} <=> Cardinality(blocks'[c]) = 0
    BY <2>3, FS_EmptySet
  <2>5. CASE refcnt[c] > 1
    <3>1. pc'[c] = "f_exlock" /\ UNCHANGED users
      BY <2>5, <1>1, <1>t DEF DPMI_freeShared, close_shm, TypeOK, Goto
    <3> QED BY <3>1, <2>2, <2>3, <2>5, <1>t DEF Local, Bare, Use
  <2>6. CASE ~(refcnt[c] > 1)
    <3>1. pc'[c] = "f_parent" /\ users' = users \ {Use(c)} /\ rc'[c] <= 1
      BY <2>6, <1>1, <1>t DEF DPMI_freeShared, close_shm, TypeOK, Goto
    <3>2. refcnt'[c] = 0 /\ blocks'[c] = {}
      BY <2>2, <2>3, <2>4, <2>6, <1>t, FS_CardinalityType DEF Local
    <3> QED BY <3>1, <3>2, <2>2, <2>3, <2>4, <1>t DEF Local, Bare, Use
  <2> QED BY <2>5, <2>6
<1>2. CASE RmParent(c)
  BY <1>2, <1>t, FS_EmptySet DEF RmParent, Local, TypeOK, Goto, Bare
<1>3. CASE FreeUnlink(c) \/ ErrUnlink(c)
  BY <1>3, <1>t, FS_EmptySet DEF FreeUnlink, ErrUnlink, Local, TypeOK, Goto, locks,
     Bare
<1>4. CASE Crash(c)
  BY <1>4, <1>t, FS_EmptySet DEF Crash, Local, TypeOK, Goto, Bare
<1> QED BY <1>1, <1>2, <1>3, <1>4 DEF Free

(* Both invariants are kept by every step. *)
LEMMA NextIInv == IInv /\ [Next]_vars => IInv'
<1> SUFFICES ASSUME IInv, [Next]_vars PROVE IInv'
  OBVIOUS
<1>1. CASE UNCHANGED vars
  BY <1>1 DEF vars, IInv, TypeOK, Local, Use
<1>2. ASSUME NEW c \in Client, Malloc(c) \/ Free(c) \/ Crash(c) PROVE IInv'
  <2>1. TypeOK'
    BY <1>2, TypeStep
  <2>2. Local(c)'
    BY <1>2, <2>1, MallocLocal, FreeLocal
  <2>3. ASSUME NEW d \in Client, d # c PROVE Local(d)'
    <3>1. Local(d)
      BY DEF IInv
    <3>2. /\ pc'[d] = pc[d] /\ hnd'[d] = hnd[d] /\ refcnt'[d] = refcnt[d]
          /\ fdobj'[d] = fdobj[d] /\ rc'[d] = rc[d] /\ blocks'[d] = blocks[d]
          /\ pc[d] # "dead" => (Use(d) \in users' <=> Use(d) \in users)
          /\ Use(d) \in users' => Use(d) \in users
      BY <1>2, <2>3, OthersKept
    <3>3. refcnt[d] > 0 => pc[d] # "dead"
      BY <3>1, FS_EmptySet DEF Local, Bare
    <3> QED BY <3>1, <3>2, <3>3 DEF Local, Use
  <2> QED BY <2>1, <2>2, <2>3 DEF IInv
<1> QED BY <1>1, <1>2 DEF Next

(* While nobody was killed and no lock was forgotten, an object always has *)
(* somebody who will unlink it: the last user takes the duty over from the *)
(* others, in shlock_close.                                                *)
LEMMA NextOwned == IInv /\ IInv' /\ Owned /\ [Next]_vars => Owned'
<1> SUFFICES ASSUME IInv, IInv', Owned, [Next]_vars, Clean', obj' # 0
             PROVE  \E e \in Client : Responsible(e)'
  BY DEF Owned
<1>1. CASE UNCHANGED vars
  BY <1>1 DEF vars, Owned, Clean, Responsible, Use, Leak
<1>2. ASSUME NEW c \in Client, Malloc(c) \/ Free(c) \/ Crash(c)
      PROVE  \E e \in Client : Responsible(e)'
  <2>t. TypeOK /\ TypeOK' /\ Local(c) /\ Local(c)'
    BY DEF IInv
  <2>k. ASSUME NEW d \in Client, d # c
        PROVE  /\ pc'[d] = pc[d] /\ rc'[d] = rc[d]
               /\ pc[d] # "dead" => (Use(d) \in users' <=> Use(d) \in users)
               /\ pc[d] # "dead" => (Leak(d) \in users' <=> Leak(d) \in users)
    BY <1>2, <2>k, OthersKept
  <2>o. ASSUME NEW d \in Client, d # c, Responsible(d) PROVE Responsible(d)'
    BY <2>k, <2>o DEF Responsible, Clean, Use
  <2>1. CASE DPMI_mallocShared(c) \/ ExLock(c) \/ MapBlock(c)
    <3>1. obj' = obj /\ users' = users /\ rc' = rc
      BY <2>1 DEF DPMI_mallocShared, ExLock, MapBlock, locks
    <3>2. Clean
      BY <3>1, <2>1, <2>k, <2>t DEF Clean, DPMI_mallocShared, ExLock, MapBlock, Leak
    <3>3. Responsible(c) => Responsible(c)'
      BY <3>1, <2>1, <2>t DEF Responsible, DPMI_mallocShared, ExLock, MapBlock,
         Goto, TypeOK, Closing, Use
    <3> QED BY <3>1, <3>2, <3>3, <2>o DEF Owned
  <2>2. CASE ShLock(c) \/ ShmOpen(c)
    <3>1. Use(c) \in users'
      BY <2>2, <2>t DEF ShLock, ShmOpen, Local
    <3> QED BY <3>1 DEF Responsible, Use
  <2>3. CASE ShmOpenFails(c)
    BY <2>3 DEF ShmOpenFails, Clean, Leak
  <2>4. CASE MapFails(c) \/ DPMI_freeShared(c)
    <3>1. /\ obj' = obj /\ Leak(c) \notin users /\ pc[c] # "dead"
          /\ \/ users' = users
             \/ /\ users' = users \ {Use(c)}
                /\ rc'[c] = IF users' = {} THEN 1 ELSE 0
                /\ pc'[c] \in Closing
      BY <2>4, <2>t, Files DEF MapFails, DPMI_freeShared, close_shm, Goto, TypeOK,
         Clean, Closing
    <3>2. Clean
      BY <3>1, <2>k DEF Clean, Leak
    <3>3. CASE users' = users
      <4>1. Responsible(c) => Responsible(c)'
        BY <3>3, <2>4, <2>t DEF Responsible, MapFails, DPMI_freeShared, Closing, Use
      <4> QED BY <4>1, <3>1, <3>2, <2>o DEF Owned
    <3>4. CASE users' # users /\ users' = {}
      BY <3>1, <3>4 DEF Responsible, Closing
    <3>5. CASE users' # {}
      <4>1. PICK u \in users' : TRUE
        BY <3>5
      <4>2. PICK d \in Client : u = Use(d) \/ u = Leak(d)
        BY <4>1, <2>t DEF TypeOK, Use, Leak
      <4> QED BY <4>1, <4>2 DEF Clean, Responsible, Use, Leak
    <3> QED BY <3>3, <3>4, <3>5
  <2>5. CASE RmParent(c)
    <3>1. /\ obj' = obj /\ users' = users /\ rc'[c] >= rc[c]
          /\ pc[c] \in Closing /\ pc'[c] \in Closing
      BY <2>5, <2>t DEF RmParent, Goto, TypeOK, Closing
    <3>2. Clean
      BY <3>1, <2>k DEF Clean, Leak, Closing
    <3>3. Responsible(c) => Responsible(c)'
      BY <3>1, <2>t DEF Responsible, TypeOK, Use
    <3> QED BY <3>1, <3>2, <3>3, <2>o DEF Owned
  <2>6. CASE FreeUnlink(c) \/ ErrUnlink(c)
    <3>1. /\ obj' = obj /\ users' = users /\ ~(rc[c] > 0)
          /\ pc[c] # "dead"
      BY <2>6, <2>t DEF FreeUnlink, ErrUnlink, locks
    <3>2. Clean
      BY <3>1, <2>k DEF Clean, Leak
    <3>3. Responsible(c) => Responsible(c)'
      BY <3>1 DEF Responsible, Use
    <3> QED BY <3>1, <3>2, <3>3, <2>o DEF Owned
  <2>7. CASE Crash(c)
    BY <2>7, <2>t DEF Crash, Goto, TypeOK, Clean
  <2> QED BY <1>2, <2>1, <2>2, <2>3, <2>4, <2>5, <2>6, <2>7 DEF Malloc, Free
<1> QED BY <1>1, <1>2 DEF Next

-----------------------------------------------------------------------------
(* The two invariants hold in every reachable state. *)
THEOREM Invariance == Spec => [](IInv /\ Owned)
<1>1. IInv /\ Owned /\ [Next]_vars => (IInv /\ Owned)'
  BY NextIInv, NextOwned
<1> QED BY <1>1, InitInv, PTL DEF Spec

(* fhm->refcnt is the number of named blocks plus the one being made, so   *)
(* _close_shm drops descriptor and lock with the last of them, whatever    *)
(* malloc, free, failing map and kill of any number of clients did.        *)
THEOREM CountExact == Spec => []RefcntExact
<1>1. IInv => RefcntExact
  <2> SUFFICES ASSUME IInv, NEW c \in Client
               PROVE  /\ TypeOK
                      /\ refcnt[c] = Cardinality(blocks[c])
                                     + (IF pc[c] = "map" THEN 1 ELSE 0)
                      /\ blocks[c] # {} => Use(c) \in users /\ fdobj[c] # 0
    BY DEF RefcntExact, IInv
  <2>1. TypeOK /\ Local(c)
    BY DEF IInv
  <2>2. blocks[c] # {} => refcnt[c] > 0
    BY <2>1, FS_EmptySet, FS_CardinalityType DEF Local, TypeOK
  <2> QED BY <2>1, <2>2 DEF Local
<1> QED BY <1>1, Invariance, PTL

(* Once every client has freed its blocks the object is unlinked, unless a *)
(* client was killed or do_shm_open failed after taking the shared lock.   *)
THEOREM ObjectUnlinked == Spec => []NoOrphan
<1>1. IInv /\ Owned => NoOrphan
  <2> SUFFICES ASSUME IInv, Owned, obj # 0,
                      \A c \in Client : /\ pc[c] = "idle" /\ blocks[c] = {}
                                        /\ Leak(c) \notin users
               PROVE  FALSE
    BY DEF NoOrphan
  <2>1. PICK c \in Client : Responsible(c)
    BY DEF Owned, Clean
  <2>2. Use(c) \in users
    BY <2>1 DEF Responsible, Closing
  <2> QED BY <2>2, FS_EmptySet DEF IInv, Local
<1> QED BY <1>1, Invariance, PTL
=============================================================================
