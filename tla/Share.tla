------------------------------- MODULE Share -------------------------------
(***************************************************************************)
(* DOS file sharing between emulators (src/src/dosext/mfs/share.c).        *)
(*                                                                         *)
(* Every DOS open, create, delete, rename and attribute change of a        *)
(* redirected file goes through here.  What one emulator has open, and     *)
(* with which rights and denials, is visible to the others only as shared  *)
(* shlocks (Shlock.tla) on names derived from the file name: the file name *)
(* itself, and the file name with the suffix compat, noncompat, denyR,     *)
(* denyW, R or W.  A name is probed by trying to lock it exclusively.  An  *)
(* exclusive shlock per file name serialises everything but close.         *)
(*                                                                         *)
(* Each probe and each lock is a step, so that closes of other emulators   *)
(* fall in between.  Locks released under the exclusive lock of the file   *)
(* are released together.                                                  *)
(***************************************************************************)
EXTENDS Naturals, Sequences, Functions

CONSTANTS Proc,       \* emulators
          File,       \* file names
          Slot,       \* entries of open_files, numbers
          Access,     \* open modes in use, out of {"R", "W", "RW"}
          Deny,       \* share modes in use, see DenyModes
          Ops,        \* operations in use
          MaxCalls,   \* calls per emulator (bound)
          Nobody, NoHandle

Kinds == {"compat", "noncompat", "denyR", "denyW", "R", "W"}
DenyModes == {"compat", "all", "write", "read", "none"}
Operations == {"open", "creat", "unlink", "setattr", "rename"}

ASSUME ShareAssumption ==
  /\ Slot \subseteq Nat /\ MaxCalls \in Nat /\ Nobody \notin Proc
  /\ Access \subseteq {"R", "W", "RW"} /\ Deny \subseteq DenyModes
  /\ Ops \subseteq Operations

VARIABLES exists,     \* names of existing files
          ex,         \* ex[f]: owner of the exclusive lock of f
          tab,        \* tab[p][s]: open_files[s] of emulator p
          pc, arg,    \* location in, and arguments of, the current call
          todo,       \* probes or locks it still has to make
          calls

vars == <<exists, ex, tab, pc, arg, todo, calls>>

Goto(p, l) == pc' = [pc EXCEPT ![p] = l]
Handles == {tab[p][s] : p \in Proc, s \in Slot} \ {NoHandle}
(* The lock name of a file with a suffix.  No file is taken to be called   *)
(* like another one with a suffix.                                         *)
Emu(f, k) == <<f, k>>
ASSUME NameAssumption == \A f, g \in File, k \in Kinds : f # Emu(g, k)
(* is_locked_shlock: the exclusive trylock fails iff somebody has the name. *)
Locked(n) == \E h \in Handles : n \in h.locks
Reads(a) == a \in {"R", "RW"}
Writes(a) == a \in {"W", "RW"}
DeniesR(d) == d \in {"read", "all"}
DeniesW(d) == d \in {"write", "all"}

(* The kinds open_compat and open_share probe and then claim, in order. *)
Keep(on, k) == IF on THEN <<k>> ELSE <<>>
Probes_mut(a, d) ==
  IF d = "compat" THEN <<"noncompat">>
  ELSE <<"compat">> \o Keep(Reads(a), "denyR") \o Keep(Writes(a), "denyW")
       \o Keep(DeniesR(d), "R")
Probes(a, d) ==
  IF d = "compat" THEN <<"noncompat">>
  ELSE <<"compat">> \o Keep(Reads(a), "denyR") \o Keep(Writes(a), "denyW")
       \o Keep(DeniesR(d), "R") \o Keep(DeniesW(d), "W")
Claims_mut(a, d) ==
  (IF d = "compat" THEN <<"compat">> ELSE <<"noncompat">>)
  \o Keep(Reads(a), "R")
  \o Keep(DeniesR(d), "denyR") \o Keep(DeniesW(d), "denyW")
Claims(a, d) ==
  (IF d = "compat" THEN <<"compat">> ELSE <<"noncompat">>)
  \o Keep(Reads(a), "R") \o Keep(Writes(a), "W")
  \o Keep(DeniesR(d), "denyR") \o Keep(DeniesW(d), "denyW")
(* When they refuse a read-only open, do_mfs_open admits it without        *)
(* claiming anything if these kinds are locked, or not, as shown.          *)
Loophole(a, d) ==
  IF Writes(a) \/ DeniesR(d) THEN <<>>
  ELSE IF d = "compat" THEN <<<<"denyR", FALSE>>, <<"W", FALSE>>>>
  ELSE <<<<"compat", TRUE>>, <<"W", FALSE>>>>

NoArg == [op |-> "none"]
Init ==
  /\ exists \in SUBSET File
  /\ ex = [f \in File |-> Nobody]
  /\ tab = [p \in Proc |-> [s \in Slot |-> NoHandle]]
  /\ pc = [p \in Proc |-> "idle"] /\ arg = [p \in Proc |-> NoArg]
  /\ todo = [p \in Proc |-> <<>>] /\ calls = [p \in Proc |-> 0]

-----------------------------------------------------------------------------
Begin(p, a, l) ==
  /\ pc[p] = "idle" /\ calls[p] < MaxCalls /\ a.op \in Ops
  /\ calls' = [calls EXCEPT ![p] = @ + 1]
  /\ arg' = [arg EXCEPT ![p] = a] /\ Goto(p, l)
  /\ UNCHANGED <<exists, ex, todo>>

(* mfs_open and mfs_creat: do_claim_fd, then the exclusive lock.  A full   *)
(* table ends the emulator, which is not modelled.                         *)
FirstFree(p, s) ==
  tab[p][s] = NoHandle /\ \A t \in Slot : tab[p][t] = NoHandle => s <= t
Claim(p, s, f, a, d) ==
  /\ FirstFree(p, s)
  /\ tab' = [tab EXCEPT ![p][s] =
               [file |-> f, acc |-> a, deny |-> d, locks |-> {}, st |-> "opening"]]
mfs_open(p) == \E s \in Slot, f \in File, a \in Access, d \in Deny :
  /\ Claim(p, s, f, a, d)
  /\ Begin(p, [op |-> "open", f |-> f, acc |-> a, deny |-> d, slot |-> s], "exlock")
mfs_creat(p) == \E s \in Slot, f \in File :
  /\ Claim(p, s, f, "RW", "compat")
  /\ Begin(p, [op |-> "creat", f |-> f, acc |-> "RW", deny |-> "compat", slot |-> s],
           "exlock")

(* mfs_unlink, mfs_setattr, mfs_rename: refused at once when this emulator *)
(* has the file open in a sharing mode (or for another PSP); force when it *)
(* has it open in compatibility mode.                                      *)
OwnHandles(p, f) == {s \in Slot : tab[p][s] # NoHandle /\ tab[p][s].file = f}
Found(p, f) ==
  tab[p][CHOOSE s \in OwnHandles(p, f) : \A t \in OwnHandles(p, f) : s <= t]
Permitted(p, f) == OwnHandles(p, f) # {} => Found(p, f).deny = "compat"
Modify(p, op, f, g) ==
  /\ Permitted(p, f)
  /\ Begin(p, [op |-> op, f |-> f, g |-> g, force |-> OwnHandles(p, f) # {}],
           "exlock")
  /\ UNCHANGED tab
mfs_unlink(p) == \E f \in File : Modify(p, "unlink", f, f)
mfs_setattr(p) == \E f \in File : Modify(p, "setattr", f, f)
(* dos_rename looks both names up before it calls mfs_rename. *)
mfs_rename(p) == \E f \in exists, g \in File \ exists : Modify(p, "rename", f, g)

(* apply_exlock, blocking. *)
ExLock(p) ==
  /\ pc[p] = "exlock" /\ ex[arg[p].f] = Nobody
  /\ ex' = [ex EXCEPT ![arg[p].f] = p]
  /\ IF arg[p].op \in {"open", "creat"}
       THEN /\ todo' = [todo EXCEPT ![p] = Probes(arg[p].acc, arg[p].deny)]
            /\ Goto(p, "probe")
       ELSE Goto(p, "inuse") /\ UNCHANGED todo
  /\ UNCHANGED <<exists, tab, arg, calls>>

(* Release everything a call holds and end it. *)
Return(p) ==
  /\ ex' = [f \in File |-> IF ex[f] = p THEN Nobody ELSE ex[f]]
  /\ todo' = [todo EXCEPT ![p] = <<>>] /\ arg' = [arg EXCEPT ![p] = NoArg]
  /\ Goto(p, "idle")
Fail_mut(p) ==
  /\ todo' = [todo EXCEPT ![p] = <<>>] /\ arg' = [arg EXCEPT ![p] = NoArg]
  /\ tab' = [tab EXCEPT ![p][arg[p].slot] = NoHandle]
  /\ Goto(p, "idle") /\ UNCHANGED ex
Fail(p) == Return(p) /\ tab' = [tab EXCEPT ![p][arg[p].slot] = NoHandle]

(* open_compat and open_share: one probe after the other. *)
Mine(p) == Emu(arg[p].f, Head(todo[p]))
Probe(p) ==
  /\ pc[p] = "probe" /\ todo[p] # <<>> /\ ~Locked(Mine(p))
  /\ IF Tail(todo[p]) # <<>>
       THEN todo' = [todo EXCEPT ![p] = Tail(@)] /\ UNCHANGED pc
       ELSE /\ todo' = [todo EXCEPT ![p] = Claims(arg[p].acc, arg[p].deny)]
            /\ Goto(p, "claim")
  /\ UNCHANGED <<exists, ex, tab, arg, calls>>
ProbeRefused(p) ==
  /\ pc[p] = "probe" /\ todo[p] # <<>> /\ Locked(Mine(p))
  /\ IF arg[p].op = "open" /\ Loophole(arg[p].acc, arg[p].deny) # <<>>
       THEN /\ todo' = [todo EXCEPT ![p] = Loophole(arg[p].acc, arg[p].deny)]
            /\ Goto(p, "loophole") /\ UNCHANGED <<ex, tab, arg>>
       ELSE Fail(p)
  /\ UNCHANGED <<exists, calls>>
ProbeLoophole(p) ==
  /\ pc[p] = "loophole"
  /\ IF Locked(Emu(arg[p].f, Head(todo[p])[1])) # Head(todo[p])[2]
       THEN Fail(p)
       ELSE /\ todo' = [todo EXCEPT ![p] = Tail(@)]
            /\ IF Tail(todo[p]) = <<>> THEN Goto(p, "claim") ELSE UNCHANGED pc
            /\ UNCHANGED <<ex, tab, arg>>
  /\ UNCHANGED <<exists, calls>>
AddLock(p, n) == tab' = [tab EXCEPT ![p][arg[p].slot].locks = @ \cup {n}]
ClaimLock(p) ==
  /\ pc[p] = "claim" /\ todo[p] # <<>>
  /\ AddLock(p, Mine(p))
  /\ todo' = [todo EXCEPT ![p] = Tail(@)]
  /\ UNCHANGED <<exists, ex, pc, arg, calls>>
(* vfs_creat of mfs_creat; then the lock on the file name itself, and the  *)
(* descriptor; without one everything is undone.                           *)
OpenFile(p) ==
  /\ pc[p] = "claim" /\ todo[p] = <<>>
  /\ arg[p].op = "creat" \/ arg[p].f \in exists
  /\ exists' = exists \cup {arg[p].f}
  /\ tab' = [tab EXCEPT ![p][arg[p].slot].locks = @ \cup {arg[p].f},
                        ![p][arg[p].slot].st = "open"]
  /\ Return(p) /\ UNCHANGED calls
OpenFails(p) ==
  /\ pc[p] = "claim" /\ todo[p] = <<>>
  /\ arg[p].op = "creat" \/ arg[p].f \notin exists
  /\ Fail(p) /\ UNCHANGED <<exists, calls>>

(* file_is_opened of the first name: in use, missing, or neither. *)
InUse(p) ==
  /\ pc[p] = "inuse"
  /\ IF IF Locked(arg[p].f) THEN arg[p].force ELSE arg[p].f \in exists
       THEN Goto(p, IF arg[p].op = "rename" THEN "exlock2" ELSE "modify")
            /\ UNCHANGED <<ex, todo, arg>>
       ELSE Return(p)
  /\ UNCHANGED <<exists, tab, calls>>
(* vfs_unlink or vfs_setxattr. *)
ModifyFile(p) ==
  /\ pc[p] = "modify"
  /\ exists' = IF arg[p].op = "unlink" THEN exists \ {arg[p].f} ELSE exists
  /\ Return(p) /\ UNCHANGED <<tab, calls>>
(* do_mfs_rename takes the exclusive lock of the second name, blocking,    *)
(* while it holds the first, and goes on only if that file is missing.     *)
ExLock2(p) ==
  /\ pc[p] = "exlock2" /\ ex[arg[p].g] = Nobody
  /\ ex' = [ex EXCEPT ![arg[p].g] = p]
  /\ Goto(p, "inuse2")
  /\ UNCHANGED <<exists, tab, arg, todo, calls>>
InUse2_mut(p) ==
  /\ pc[p] = "inuse2"
  /\ IF Locked(arg[p].g)
       THEN Return(p)
       ELSE Goto(p, "rename") /\ UNCHANGED <<ex, todo, arg>>
  /\ UNCHANGED <<exists, tab, calls>>
InUse2(p) ==
  /\ pc[p] = "inuse2"
  /\ IF Locked(arg[p].g) \/ arg[p].g \in exists
       THEN Return(p)
       ELSE Goto(p, "rename") /\ UNCHANGED <<ex, todo, arg>>
  /\ UNCHANGED <<exists, tab, calls>>
Rename(p) ==
  /\ pc[p] = "rename"
  /\ exists' = (exists \ {arg[p].f}) \cup
               (IF arg[p].f \in exists THEN {arg[p].g} ELSE {})
  /\ Return(p) /\ UNCHANGED <<tab, calls>>

(* mfs_close: the lock of the file name first, then the others one by one, *)
(* without the exclusive lock.                                             *)
mfs_close(p) == \E s \in Slot :
  /\ pc[p] = "idle" /\ tab[p][s] # NoHandle
  /\ arg' = [arg EXCEPT ![p] = [op |-> "close", slot |-> s]]
  /\ tab' = [tab EXCEPT ![p][s].locks = @ \ {tab[p][s].file}, ![p][s].st = "closing"]
  /\ Goto(p, "close")
  /\ UNCHANGED <<exists, ex, todo, calls>>
LockOrder == <<"compat", "noncompat", "denyR", "denyW", "R", "W">>
CloseLock(p) ==
  /\ pc[p] = "close"
  /\ LET s == arg[p].slot
         h == tab[p][s]
         left == SelectSeq(LockOrder, LAMBDA k : Emu(h.file, k) \in h.locks) IN
     IF left # <<>>
       THEN /\ tab' = [tab EXCEPT ![p][s].locks = @ \ {Emu(h.file, Head(left))}]
            /\ UNCHANGED <<pc, arg>>
       ELSE /\ tab' = [tab EXCEPT ![p][s] = NoHandle]
            /\ arg' = [arg EXCEPT ![p] = NoArg] /\ Goto(p, "idle")
  /\ UNCHANGED <<exists, ex, todo, calls>>

(* The emulator dies and is started again: the kernel drops its locks.     *)
Crash(p) ==
  /\ pc[p] # "idle" \/ \E s \in Slot : tab[p][s] # NoHandle
  /\ tab' = [tab EXCEPT ![p] = [s \in Slot |-> NoHandle]]
  /\ Return(p) /\ UNCHANGED <<exists, calls>>

OpenCall(p) == \/ mfs_open(p) \/ mfs_creat(p) \/ Probe(p) \/ ProbeRefused(p)
               \/ ProbeLoophole(p) \/ ClaimLock(p) \/ OpenFile(p) \/ OpenFails(p)
ModifyCall(p) == \/ mfs_unlink(p) \/ mfs_setattr(p) \/ mfs_rename(p) \/ InUse(p)
                 \/ ModifyFile(p) \/ ExLock2(p) \/ InUse2(p) \/ Rename(p)
CloseCall(p) == mfs_close(p) \/ CloseLock(p)
Step(p) == OpenCall(p) \/ ModifyCall(p) \/ CloseCall(p) \/ ExLock(p)
Next == \E p \in Proc : Step(p) \/ Crash(p)
Spec == Init /\ [][Next]_vars

-----------------------------------------------------------------------------
Locations == {"idle", "exlock", "probe", "loophole", "claim", "inuse", "modify",
              "exlock2", "inuse2", "rename", "close"}
(* An entry of open_files in use; a free one is none of these. *)
Handle ==
  [file : File, acc : {"R", "W", "RW"}, deny : DenyModes,
   locks : SUBSET (File \cup (File \X Kinds)), st : {"opening", "open", "closing"}]
ASSUME HandleAssumption == NoHandle \notin Handle

(* Handles, locks and locations keep their types, and an exclusive lock is *)
(* held only inside a call that takes it.                                  *)
TypeOK ==
  /\ exists \subseteq File /\ ex \in [File -> Proc \cup {Nobody}]
  /\ pc \in [Proc -> Locations] /\ calls \in [Proc -> 0 .. MaxCalls]
  /\ \A h \in Handles :
       h \in Handle /\ h.locks \subseteq {h.file} \cup {Emu(h.file, k) : k \in Kinds}
  /\ \A f \in File : ex[f] # Nobody => pc[ex[f]] \notin {"idle", "exlock", "close"}

(* Which second opens the first one admits: the table of                   *)
(* test/func_ds3_share_open_twice.py with the entries of OPEN_HYBRID.      *)
All == {"R", "W", "RW"}
Admitted(d, a) ==
  CASE d = "compat" /\ a = "R"  -> ({"compat"} \X All) \cup ({"write", "none"} \X {"R"})
    [] d = "compat" /\ a # "R"  -> {"compat"} \X All
    [] d = "all"                -> {}
    [] d = "write" /\ a = "R"   -> {"write", "none", "compat"} \X {"R"}
    [] d = "write" /\ a = "W"   -> {"read", "none"} \X {"R"}
    [] d = "write" /\ a = "RW"  -> {"none"} \X {"R"}
    [] d = "read" /\ a = "R"    -> {"write", "none"} \X {"W"}
    [] d = "read" /\ a = "W"    -> {"read", "none"} \X {"W"}
    [] d = "read" /\ a = "RW"   -> {"none"} \X {"W"}
    [] d = "none" /\ a = "R"    -> ({"write", "none"} \X All) \cup ({"compat"} \X {"R"})
    [] d = "none" /\ a = "W"    -> {"read", "none"} \X All
    [] d = "none" /\ a = "RW"   -> {"none"} \X All
Agree(h, g) == <<g.deny, g.acc>> \in Admitted(h.deny, h.acc)

Entry == {e \in Proc \X Slot : tab[e[1]][e[2]] # NoHandle}
At(e) == tab[e[1]][e[2]]
Sharing(e, d) == e # d /\ At(e).file = At(d).file
                 /\ At(e).st = "open" /\ At(d).st = "open"
Claimed(h) == \A k \in Range(Claims(h.acc, h.deny)) : Emu(h.file, k) \in h.locks

(* Two emulators that have a file open and have claimed their locks never  *)
(* hold rights the other one denies, however their opens and closes        *)
(* overlapped.                                                             *)
DenyRespected ==
  /\ TypeOK
  /\ \A e, d \in Entry : Sharing(e, d) /\ Claimed(At(e)) /\ Claimed(At(d))
       => Agree(At(e), At(d)) \/ Agree(At(d), At(e))

(* With one handle on a file, the probes of do_mfs_open answer a second    *)
(* open exactly as the table of the test says.                             *)
Answer(f, a, d) ==
  \/ \A k \in Range(Probes(a, d)) : ~Locked(Emu(f, k))
  \/ /\ Loophole(a, d) # <<>>
     /\ \A l \in Range(Loophole(a, d)) : Locked(Emu(f, l[1])) = l[2]
MatrixExact ==
  \A e \in Entry :
    LET h == At(e) IN
    /\ h.st = "open" /\ Claimed(h)
    /\ \A o \in Entry : At(o).file = h.file => o = e
    => \A d \in DenyModes, a \in All :
         Answer(h.file, a, d) <=> <<d, a>> \in Admitted(h.deny, h.acc)

(* What do_mfs_unlink and do_mfs_rename have checked is still so when they *)
(* act: a file removed without force is not open anywhere, and a rename    *)
(* finds its source and never replaces a file ("dest file exists, do not   *)
(* overwrite").                                                            *)
ChecksStillHold ==
  \A p \in Proc :
    /\ pc[p] = "modify" /\ ~arg[p].force =>
         arg[p].f \in exists /\ \A h \in Handles : h.st = "open" => h.file # arg[p].f
    /\ pc[p] = "rename" =>
         arg[p].g \notin exists /\ (arg[p].force \/ arg[p].f \in exists)

(* Calls end: the only way for the emulators to block one another for good *)
(* is a cycle of renames, each holding the exclusive lock on its source    *)
(* and waiting for the one on its destination.                             *)
Blocked(p) == \/ pc[p] = "exlock" /\ ex[arg[p].f] # Nobody
              \/ pc[p] = "exlock2" /\ ex[arg[p].g] # Nobody
OnlyRenamesBlock ==
  (\E p \in Proc : Blocked(p)) /\ (\A p \in Proc : Blocked(p) \/ pc[p] = "idle")
    => \E p, q \in Proc : /\ pc[p] = "exlock2" /\ pc[q] = "exlock2"
                          /\ ex[arg[p].g] = q

(* "Second and subsequent Opens" (func_ds3_share_open_twice.py:236): any   *)
(* two handles on a file are a pair the table admits.                      *)
PairsAdmitted ==
  \A e, d \in Entry : Sharing(e, d) => Agree(At(e), At(d)) \/ Agree(At(d), At(e))
=============================================================================
