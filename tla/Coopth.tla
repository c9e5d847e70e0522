------------------------------- MODULE Coopth -------------------------------
(***************************************************************************)
(* The cooperative threads (src/src/base/core/coopth.c) on their vm86      *)
(* back-end (src/src/base/emu-i386/coopth_vm86.c) as functions from the    *)
(* state before a call to the state after it.                              *)
(*                                                                         *)
(* C.thr[t] is the stack of instances of thread t, the current one last.   *)
(* C.dos is the DOS side: CS:IP first, then the return addresses on the    *)
(* DOS stack.  A location is "code" or the HLT of a thread, named by the   *)
(* thread.  C.rm is the stack of saved registers of lowmem.c, reduced to   *)
(* the saved CS:IP.  C.err is the first failed assertion or fatal error,   *)
(* C.missed tells that a wake-up met a thread that did not sleep.  C.late, *)
(* which the code does not have, tells that a release of the console was   *)
(* joined while an acquisition waited for it.                              *)
(*                                                                         *)
(* Left out: thread classes (all are CTCL_NORMAL), user data, the stacks   *)
(* and their mmap, quick_sched (only a detached thread that sleeps has it, *)
(* and no detached thread of the program sleeps), coopth_detach (nothing   *)
(* calls it), coopth_attach (its callers in vbe.c run on threads that are  *)
(* attached already) and the debug dump.                                   *)
(***************************************************************************)
EXTENDS Integers, Sequences, SequencesExt

CONSTANTS Tids,      \* threads, each with its HLT address
          Detached,  \* coopth_set_detached
          Custom,    \* coopth_create_vm86: DOS calls their HLT address
          CtxH,      \* context handlers sig_ctx_prepare, sig_ctx_restore
          SigTid,    \* the thread of signal.c
          VcTid,     \* the threads of vc.c, one at a time
          Depth      \* MAX_COOP_RECUR_DEPTH

ASSUME CoopthAssumption ==
  /\ Detached \subseteq Tids /\ Custom \subseteq Tids \ Detached
  /\ CtxH \subseteq Tids \ Custom /\ SigTid \in Detached \ {VcTid}
  /\ VcTid \in CtxH \ Detached /\ Depth \in Nat \ {0}
  /\ {"code", "none"} \cap Tids = {}

Loc == Tids \cup {"code", "none"}
Switches == {"SCHED", "LEAVE", "DONE", "AWAKEN", "YIELD", "WAIT"}
Instance ==
  [st : {"RUNNING", "SLEEPING"} \cup Switches, att : BOOLEAN, canc : BOOLEAN,
   left : BOOLEAN, hlt : BOOLEAN, ret : Loc, retf : BOOLEAN, gone : BOOLEAN,
   job : {"none", "alrm", "acq", "wait", "rel", "flush"}]
(* st is the state, or the switch of state COOPTHS_SWITCH; hlt tells that  *)
(* the back-end holds a valid hlt_off; gone, which the code does not have, *)
(* that the DOS side of the instance has disappeared; job is what it       *)
(* handles: a signal ("wait" is an "acq" that waits for the switch in      *)
(* progress), a console switch, or the "flush" of int19.                   *)
NewInstance ==
  [st |-> "RUNNING", att |-> FALSE, canc |-> FALSE, left |-> FALSE,
   hlt |-> FALSE, ret |-> "none", retf |-> FALSE, gone |-> FALSE,
   job |-> "none"]
CoopthInit ==
  [thr |-> [t \in Tids |-> <<>>], dos |-> <<"code">>, rm |-> <<>>,
   active |-> <<>>, joinable |-> 0, lefts |-> 0, total |-> 0,
   inh |-> 0, vc |-> 0, frozen |-> FALSE, err |-> "no", missed |-> FALSE,
   late |-> FALSE]

Live(C, t) == C.thr[t] # <<>>
Cur(C, t) == Last(C.thr[t])
SetCur(C, t, p) == [C EXCEPT !.thr[t][Len(C.thr[t])] = p]
Ip(C) == Head(C.dos)
SetIp(C, l) == [C EXCEPT !.dos = <<l>> \o Tail(@)]
Fail(C, e) == [C EXCEPT !.err = IF @ = "no" THEN e ELSE @]

Waiting(C) == \E n \in DOMAIN C.thr[SigTid] : C.thr[SigTid][n].job = "wait"
Post_mut(C, t, p) ==
  IF t = SigTid THEN [C EXCEPT !.inh = IF @ = 0 THEN 0 ELSE @ - 1] ELSE C
(* The handlers of the thread types: signal_thr_post; vc_switch_done, and  *)
(* post_release when the console was given away.                           *)
Post(C, t, p) ==
  CASE t = SigTid -> [C EXCEPT !.inh = IF @ = 0 THEN 0 ELSE @ - 1]
    [] t = VcTid -> [C EXCEPT !.vc = @ - 1, !.frozen = @ \/ p.job = "rel",
                              !.late = @ \/ (p.job = "rel" /\ Waiting(C))]
    [] OTHER -> C
(* handle_signals_force_enter and handle_signals_force_leave. *)
SleepPre(C, t) ==
  IF t # SigTid THEN C
  ELSE IF C.inh = 0 THEN Fail(C, "in_handle_signals=0")
  ELSE [C EXCEPT !.inh = @ - 1]
SleepPost(C, t) == IF t = SigTid THEN [C EXCEPT !.inh = @ + 1] ELSE C
-----------------------------------------------------------------------------
(* Starting. *)
do_start(C, t) ==
  IF Len(C.thr[t]) >= Depth THEN Fail(C, "recursion depth exceeded")
  ELSE [C EXCEPT !.thr[t] = Append(@, NewInstance),
                 !.active = IF Live(C, t) THEN @ ELSE Append(@, t),
                 !.total = @ + 1]
(* With the context handler: rm_stack_enter saves the registers. *)
coopth_callf(C, t) ==
  SetCur([C EXCEPT !.joinable = @ + 1,
                   !.rm = IF t \in CtxH THEN <<Ip(C)>> \o @ ELSE @],
         t, [Cur(C, t) EXCEPT !.att = TRUE])
do_callf(C, t) ==
  SetIp(SetCur(C, t, [Cur(C, t) EXCEPT !.ret = Ip(C)]), t)
coopth_start(C, t) ==
  LET s == do_start(C, t)
      a == coopth_callf(s, t)
  IN IF s.err # "no" \/ t \in Detached THEN s
     ELSE do_callf(SetCur(a, t, [Cur(a, t) EXCEPT !.hlt = TRUE,
                                                  !.retf = TRUE]), t)
(* DOS calls the HLT address; coopth_auto_hlt skips the HLT and starts. *)
do_start_custom(C, t) ==
  LET s == do_start([C EXCEPT !.dos = <<t>> \o @], t)
      a == coopth_callf(s, t)
  IN IF s.err # "no" THEN s
     ELSE SetCur(a, t, [Cur(a, t) EXCEPT !.hlt = TRUE])
-----------------------------------------------------------------------------
(* Ending. *)
coopth_retf(C, t, restore) ==
  LET p == Cur(C, t)
      a == IF restore THEN SetIp(C, p.ret) ELSE C
      b == IF t \in CtxH
           THEN [SetIp(a, Head(C.rm)) EXCEPT !.rm = Tail(@)] ELSE a
  IN IF ~p.att THEN Fail(C, "retf of a detached thread")
     ELSE SetCur([b EXCEPT !.joinable = @ - 1], t,
                 [p EXCEPT !.att = FALSE, !.hlt = FALSE])
do_del_thread(C, t) ==
  LET p == Cur(C, t)
      d == [C EXCEPT !.lefts = IF p.left THEN @ - 1 ELSE @,
                     !.thr[t] = Front(@),
                     !.active = IF Len(C.thr[t]) = 1 THEN Remove(@, t) ELSE @,
                     !.total = @ - 1]
  IN IF p.canc \/ p.left THEN d ELSE Post(d, t, p)
(* sw_list[].  sw_DONE includes the part of coopth_auto_hlt that runs when *)
(* the thread has terminated: its post handler, a far return.              *)
sw_SCHED(C, t) == SetCur(C, t, [Cur(C, t) EXCEPT !.st = "RUNNING"])
sw_LEAVE_mut(C, t) ==
  LET r == IF Cur(C, t).att THEN coopth_retf(C, t, FALSE) ELSE C
      l == [r EXCEPT !.lefts = @ + 1]
      p == [Cur(l, t) EXCEPT !.left = TRUE, !.st = "RUNNING"]
  IN Post(SetCur(l, t, p), t, p)
sw_LEAVE(C, t) ==
  LET r == IF Cur(C, t).att THEN coopth_retf(C, t, TRUE) ELSE C
      l == [r EXCEPT !.lefts = @ + 1]
      p == [Cur(l, t) EXCEPT !.left = TRUE, !.st = "RUNNING"]
  IN Post(SetCur(l, t, p), t, p)
sw_DONE_mut(C, t) ==
  LET r == coopth_retf(C, t, Cur(C, t).retf)
  IN IF r.err # "no" THEN r ELSE do_del_thread(r, t)
sw_DONE(C, t) ==
  LET r == coopth_retf(C, t, Cur(C, t).retf)
      d == do_del_thread(r, t)
  IN IF r.err # "no" THEN r
     ELSE IF t \in Custom THEN [d EXCEPT !.dos = Tail(@)] ELSE d
sw_AWAKEN(C, t) ==
  LET w == SleepPost(C, t)
  IN SetCur(w, t, [Cur(w, t) EXCEPT !.st = "RUNNING"])
Switch(C, t) ==
  CASE Cur(C, t).st = "SCHED" -> sw_SCHED(C, t)
    [] Cur(C, t).st = "LEAVE" -> sw_LEAVE(C, t)
    [] Cur(C, t).st = "DONE" -> sw_DONE(C, t)
    [] OTHER -> sw_AWAKEN(C, t)
-----------------------------------------------------------------------------
(* Waking, cancelling and detaching from outside.  A cancelled thread that *)
(* is run reaches its cancellation point, cleans up and finishes; one with *)
(* cancellation disabled passes the abort on to its caller and finishes.   *)
do_awake(C, t) ==
  IF Cur(C, t).st # "SLEEPING" THEN [C EXCEPT !.missed = TRUE]
  ELSE SetCur(C, t, [Cur(C, t) EXCEPT !.st = "AWAKEN"])
do_cancel(C, t) ==
  LET c == SetCur(C, t, [Cur(C, t) EXCEPT !.canc = TRUE])
  IN IF ~Cur(C, t).att THEN do_del_thread(c, t)
     ELSE IF Cur(C, t).st = "SLEEPING" THEN do_awake(c, t) ELSE c
do_detach_mut(C, t) ==
  LET a == SetCur(C, t, [Cur(C, t) EXCEPT !.att = FALSE, !.hlt = FALSE])
      p == Cur(a, t)
      s == IF p.st \in Switches \ {"DONE"} THEN Switch(a, t) ELSE a
  IN IF p.st = "DONE" \/ p.canc THEN do_del_thread(s, t) ELSE s
do_detach(C, t) ==
  LET a == SetCur([C EXCEPT !.joinable = @ - 1], t,
                  [Cur(C, t) EXCEPT !.att = FALSE, !.hlt = FALSE])
      p == Cur(a, t)
      s == IF p.st \in Switches \ {"DONE"} THEN Switch(a, t) ELSE a
  IN IF p.st = "DONE" \/ p.canc THEN do_del_thread(s, t) ELSE s
Kill(C, t) == do_detach(do_cancel(C, t), t)
(* Kill the first active thread the test picks, again and again. *)
KillAll(C, Pick(_, _)) ==
  FoldLeft(LAMBDA c, n :
             LET ts == SelectSeq(c.active, LAMBDA t : Pick(c, t))
             IN IF ts = <<>> THEN c ELSE Kill(c, Head(ts)),
           C, [n \in 1..C.total |-> n])
coopth_unsafe_shutdown(C) == KillAll(C, LAMBDA c, t : Cur(c, t).att)
(* fdpp_cleanup: the threads inside do_fdpp_call or do_coopth_wrp. *)
fdpp_cleanup(C) ==
  KillAll(C, LAMBDA c, t : t \in Custom /\
               \E n \in DOMAIN c.thr[t] : c.thr[t][n].st \in {"SCHED", "WAIT"})
(* The thread whose HLT DOS is at, as on_thread and is_active find it. *)
OnThread(C) == {t \in Range(C.active) : Ip(C) = t /\ Cur(C, t).hlt}
wants_sleep(C) == \E t \in OnThread(C) : Cur(C, t).st # "RUNNING"
=============================================================================
