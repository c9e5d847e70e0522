----------------------------- MODULE EventLoop -----------------------------
(***************************************************************************)
(* The main loop (loopstep_run_vm86, run_vm86 and vm86_helper of           *)
(* do_vm86.c, handle_signals and do_periodic_stuff of signal.c) running    *)
(* DOS code, the cooperative threads of Coopth.tla, queued signals and     *)
(* the callbacks of other pthreads.  The clients are the interrupt threads *)
(* of int.c (with the reboot of int19), the fdpp kernel (Custom), the      *)
(* signal thread and the console switch of vc.c with the copying thread    *)
(* of vga.c.                                                               *)
(*                                                                         *)
(* pc is the place in the main loop: "dos" (run_vm86), "pic" (its          *)
(* pic_run), "cb" and "sig" (handle_signals), "run" (coopth_run), or       *)
(* "body" while the thread on top of running is executing.  A thread body  *)
(* is external: it makes any of the calls its type makes in the program.   *)
(***************************************************************************)
EXTENDS Coopth, FiniteSets, FiniteSetsExt

CONSTANTS IntDepth,  \* instances of an interrupt thread (bound)
          FdppDepth, \* instances of a kernel thread (bound)
          DosDepth,  \* length of the DOS stack (bound)
          MaxSigs,   \* queued signals, < MAX_SIG_QUEUE_SIZE (bound)
          MaxAcq,    \* console switches requested and not started (bound)
          MaxAborts, \* aborted DOS programs (bound)
          MaxReboots,\* reboots (bound)
          MaxMishaps,\* aborts and reboots of a behaviour (bound)
          Mixed      \* reboots together with console switches

ASSUME LoopAssumption ==
  /\ {IntDepth, FdppDepth} \subseteq 1..Depth /\ DosDepth \in Nat /\ MaxSigs \in Nat
  /\ MaxAcq \in 1..(Depth - 1) /\ MaxAborts \in Nat /\ MaxReboots \in Nat
  /\ MaxMishaps \in Nat
  /\ Mixed \in BOOLEAN
Ints == Tids \ (Custom \cup {SigTid, VcTid})

VARIABLES co,       \* state of Coopth.tla
          pc, idx,  \* place in the main loop, index in run_traverser
          running,  \* thread bodies on the C stack, innermost first
          join,     \* the instance coopth_flush waits for, or <<>>
          sigq,     \* signal_queue from SIGNAL_head to SIGNAL_tail
          cbks,     \* callbacks queued by add_thread_callback
          copier,   \* vmemcpy_thread
          vt,       \* whose console Linux shows
          aborts, reboots \* how many may still happen
loop == <<pc, idx, running, join>>
async == <<sigq, cbks, copier, vt>>
bounds == <<aborts, reboots>>
vars == <<co, loop, async, bounds>>

Init ==
  /\ co = CoopthInit /\ pc = "dos" /\ idx = 1 /\ running = <<>> /\ join = <<>>
  /\ sigq = <<>> /\ cbks = 0 /\ copier = "idle" /\ vt = "ours"
  /\ aborts \in 0..MaxAborts /\ reboots \in 0..MaxReboots
  /\ aborts + reboots <= MaxMishaps
-----------------------------------------------------------------------------
(* Signals and the copying thread.  Their queues are read in               *)
(* handle_signals only, so what comes in at another time of a pass of the  *)
(* loop commutes; at most MaxSigs come in a pass.  Linux asks for the      *)
(* console only while it is ours, and gives it only after it was released. *)
Requests ==
  Len(SelectSeq(sigq, LAMBDA k : k = "acq"))
    + Len(SelectSeq(co.thr[SigTid], LAMBDA p : p.job \in {"acq", "wait"}))
SIGNAL_save(k) ==
  /\ pc = "cb" /\ Len(sigq) < MaxSigs
  /\ CASE k = "alrm" -> UNCHANGED vt
       [] k = "rel" -> vt = "ours" /\ UNCHANGED vt
       [] k = "acq" -> vt = "away" /\ Requests < MaxAcq /\ vt' = "ours"
  /\ (k # "alrm" => reboots = 0 \/ Mixed)
  /\ sigq' = Append(sigq, k)
  /\ UNCHANGED <<co, loop, cbks, copier, bounds>>
vmemcpy_thread ==
  /\ copier = "copy"
  /\ copier' = "idle" /\ cbks' = cbks + 1
  /\ UNCHANGED <<co, loop, sigq, vt, bounds>>
-----------------------------------------------------------------------------
(* Where the main loop goes on when a thread run from there has switched.  *)
(* Within coopth_join the loop is vm86_helper: one step of DOS, no         *)
(* pic_run, and the signals.                                               *)
Resume(C, from, stk) ==
  IF from # "dos" THEN from
  ELSE IF stk # <<>> THEN "cb"
  ELSE IF wants_sleep(C) THEN "pic" ELSE "dos"
(* What a kernel thread does as soon as it has left: the far return of     *)
(* coopth_leave_vm86, the jump to FFFF:0 and the call of fdpp_call_noret.  *)
fdpp_call_noret(C) == [C EXCEPT !.dos = <<"code", "code">> \o Tail(Tail(@))]
(* thread_run: a switch that makes the thread running lets it run. *)
thread_run(C, t, from) ==
  LET n == Len(C.thr[t])
      w == IF Cur(C, t).st \in Switches THEN Switch(C, t) ELSE C
      s == IF t \in Custom /\ Cur(C, t).st = "LEAVE" THEN fdpp_call_noret(w) ELSE w
      runs == s.err = "no" /\ Len(s.thr[t]) = n /\ Cur(s, t).st = "RUNNING"
  IN /\ co' = s
     /\ IF runs
        THEN /\ running' = <<[t |-> t, n |-> n, from |-> from]>> \o running
             /\ pc' = "body"
        ELSE /\ pc' = Resume(s, from, running) /\ UNCHANGED running
-----------------------------------------------------------------------------
(* DOS.  A HLT of a thread runs the thread. *)
coopth_hlt ==
  /\ pc = "dos" /\ Ip(co) # "code"
  /\ LET t == Ip(co)
     IN IF t = "none" \/ ~Live(co, t) \/ ~Cur(co, t).att
        THEN co' = Fail(co, "HLT on a detached thread") /\ UNCHANGED <<pc, running>>
        ELSE thread_run(co, t, "dos")
  /\ UNCHANGED <<idx, join, async, bounds>>
InCode == pc = "dos" /\ Ip(co) = "code"
DosStep(C) == co' = C /\ pc' = "cb" /\ UNCHANGED <<idx, running, join, async>>
DosInt(t) ==
  /\ InCode /\ Len(co.thr[t]) < IntDepth
  /\ DosStep(coopth_start(co, t)) /\ UNCHANGED bounds
DosCall(t) ==
  /\ InCode /\ Len(co.thr[t]) < FdppDepth /\ Len(co.dos) < DosDepth
  /\ DosStep(do_start_custom(co, t)) /\ UNCHANGED bounds
DosRet ==
  /\ InCode
  /\ DosStep(IF Len(co.dos) = 1 THEN co ELSE [co EXCEPT !.dos = Tail(@)])
  /\ UNCHANGED bounds
(* A program aborted by DOS: its frames go, the threads below them stay.   *)
Strand(C) ==
  [C EXCEPT !.dos = <<"code">>,
            !.thr = [t \in Tids |-> [n \in DOMAIN C.thr[t] |->
                       [C.thr[t][n] EXCEPT !.gone = @ \/ C.thr[t][n].att]]]]
DosAbort ==
  /\ InCode /\ aborts > 0 /\ Len(co.dos) > 1 /\ co.rm = <<>>
  /\ running = <<>>
  /\ DosStep(Strand(co)) /\ aborts' = aborts - 1 /\ UNCHANGED reboots
(* pic_run when the thread at the HLT does not go on: an interrupt starts  *)
(* DOS code and run_vm86 goes on with it, or the loop returns.             *)
pic_run ==
  /\ pc = "pic"
  /\ \/ /\ Len(co.dos) < DosDepth
        /\ co' = [co EXCEPT !.dos = <<"code">> \o @] /\ pc' = "dos"
     \/ pc' = "cb" /\ UNCHANGED co
  /\ UNCHANGED <<idx, running, join, async, bounds>>
-----------------------------------------------------------------------------
(* handle_signals: the callbacks, then one signal thread per signal.       *)
process_callbacks ==
  /\ pc = "cb" /\ cbks > 0
  /\ cbks' = cbks - 1
  /\ co' = IF Live(co, VcTid) THEN do_awake(co, VcTid)
           ELSE Fail(co, "schedule to inactive thread")
  /\ UNCHANGED <<loop, sigq, copier, vt, bounds>>
handle_signals ==
  /\ pc = "sig" \/ (pc = "cb" /\ cbks = 0)
  /\ IF sigq # <<>> /\ co.inh = 0
     THEN /\ LET s == coopth_start([co EXCEPT !.inh = 1], SigTid)
             IN IF s.err # "no" THEN co' = s /\ UNCHANGED <<pc, running>>
                ELSE thread_run(s, SigTid, "sig")
          /\ UNCHANGED idx
     ELSE pc' = "run" /\ idx' = 1 /\ UNCHANGED <<co, running>>
  /\ UNCHANGED <<join, async, bounds>>
(* coopth_run: the detached threads in the order of active_tids.  At the   *)
(* end the next pass of the loop: loopstep_run_vm86 skips DOS while frozen *)
(* or something is pending, do_join ends when the instance is gone.           *)
Runnable ==
  {k \in idx..Len(co.active) :
     LET p == Cur(co, co.active[k]) IN ~p.att /\ ~p.left}
run_traverser ==
  /\ pc = "run" /\ Runnable # {}
  /\ LET k == Min(Runnable)
     IN idx' = k + 1 /\ thread_run(co, co.active[k], "run")
  /\ UNCHANGED <<join, async, bounds>>
coopth_run ==
  /\ pc = "run" /\ Runnable = {}
  /\ idx' = 1
  /\ IF running = <<>>
     THEN /\ pc' = IF co.frozen \/ sigq # <<>> \/ cbks > 0 THEN "cb" ELSE "dos"
          /\ UNCHANGED join
     ELSE IF Len(co.thr[join[1]]) < join[2]
     THEN pc' = "body" /\ join' = <<>>
     ELSE pc' = "dos" /\ UNCHANGED join
  /\ UNCHANGED <<co, running, async, bounds>>
-----------------------------------------------------------------------------
(* A thread body.  The instance that runs need not be the current one of   *)
(* its thread: it may have started another.                                *)
Run == Head(running)
Me == co.thr[Run.t][Run.n]
Body(t) == pc = "body" /\ Run.t = t
SetMe(C, p) == [C EXCEPT !.thr[Run.t][Run.n] = p]
(* do_run_thread after co_call, and what __thread_run does next. *)
Leave(C) ==
  /\ co' = C /\ running' = Tail(running)
  /\ pc' = Resume(C, Run.from, Tail(running))
  /\ UNCHANGED <<idx, join, bounds>>
SwitchTo(C, st) == Leave(SetMe(C, [Me EXCEPT !.st = st]))
coopth_wait(t) ==
  /\ Body(t) /\ Me.att /\ ~Me.canc
  /\ SwitchTo(co, "WAIT") /\ UNCHANGED async
(* do_call_back and do_int_call_back: DOS code, then coopth_sched. *)
do_call_back(t) ==
  /\ Body(t) /\ Me.att /\ ~Me.canc /\ Len(co.dos) < DosDepth
  /\ SwitchTo([co EXCEPT !.dos = <<"code">> \o @], "SCHED") /\ UNCHANGED async
(* do_int of an interrupt handled here: its thread starts at once; the     *)
(* body goes on, to coopth_sched or to its end.                            *)
do_int(t, u) ==
  /\ Body(t) /\ Me.att /\ ~Me.canc /\ Ip(co) = t /\ Len(co.thr[u]) < IntDepth
  /\ co' = coopth_start(co, u)
  /\ UNCHANGED <<loop, async, bounds>>
coopth_sched(t) ==
  /\ Body(t) /\ Me.att /\ ~Me.canc /\ Ip(co) # t
  /\ SwitchTo(co, "SCHED") /\ UNCHANGED async
(* The end of a body: an attached thread waits to be joined, another one   *)
(* is deleted at once.  __SIGRELEASE_call ends with VT_RELDISP.            *)
Finished(C) ==
  IF Me.att THEN SetMe(C, [Me EXCEPT !.st = "DONE"])
  ELSE IF Run.n < Len(C.thr[Run.t]) THEN Fail(C, "deleted below the current one")
  ELSE do_del_thread(C, Run.t)
Finish(t) ==
  /\ Body(t) /\ (t = SigTid => Me.job = "alrm") /\ Me.job # "flush"
  /\ Leave(Finished(co))
  /\ vt' = (IF t = VcTid /\ Me.job = "rel" THEN "away" ELSE vt)
  /\ UNCHANGED <<sigq, cbks, copier>>
coopth_leave(t) ==
  /\ Body(t) /\ Me.att /\ ~Me.canc /\ Ip(co) = t
  /\ SwitchTo(co, "LEAVE") /\ UNCHANGED async
(* int19, left: fdpp_cleanup, then coopth_flush cancels the thread DOS is  *)
(* at and joins it in vm86_helper, until none is found; then the rest is   *)
(* shut down and DOS starts anew.                                          *)
int19(t) ==
  /\ Body(t) /\ Me.left /\ Me.job = "none" /\ reboots > 0
  /\ co' = SetMe(fdpp_cleanup(co), [Me EXCEPT !.job = "flush"])
  /\ UNCHANGED <<loop, async, bounds>>
coopth_flush(t) ==
  /\ Body(t) /\ Me.job = "flush" /\ co.joinable > 0 /\ OnThread(co) # {}
  /\ LET u == Ip(co)
     IN co' = do_cancel(co, u) /\ join' = <<u, Len(co.thr[u])>>
  /\ pc' = "dos"
  /\ UNCHANGED <<idx, running, async, bounds>>
cpu_reset(t) ==
  /\ Body(t) /\ Me.job = "flush" /\ (co.joinable = 0 \/ OnThread(co) = {})
  /\ LET s == IF Cur(co, t).att THEN Fail(co, "cancels own thread")
              ELSE Strand(coopth_unsafe_shutdown(co))
         d == IF Run.n < Len(s.thr[t]) THEN Fail(s, "deleted below the current one")
              ELSE do_del_thread(s, t)
     IN /\ co' = d /\ running' = Tail(running)
        /\ pc' = Resume(d, Run.from, Tail(running))
  /\ reboots' = reboots - 1
  /\ UNCHANGED <<idx, join, async, aborts>>
-----------------------------------------------------------------------------
(* signal_thr takes the signal from the queue. *)
signal_thr ==
  /\ Body(SigTid) /\ Me.job = "none"
  /\ co' = SetMe(co, [Me EXCEPT !.job = Head(sigq)])
  /\ sigq' = Tail(sigq)
  /\ UNCHANGED <<loop, cbks, copier, vt, bounds>>
(* SIGACQUIRE_call lets DOS run, once, waits for the switch in progress,   *)
(* then starts another; SIGRELEASE_call gives up instead of waiting.       *)
vc_start(C, k) ==
  LET s == coopth_start([C EXCEPT !.vc = @ + 1], VcTid)
  IN IF s.err # "no" THEN s ELSE SetCur(s, VcTid, [Cur(s, VcTid) EXCEPT !.job = k])
SIGACQUIRE_call ==
  /\ Body(SigTid) /\ Me.job \in {"acq", "wait"}
  /\ LET c == [co EXCEPT !.frozen = @ /\ Me.job = "wait"]
     IN IF co.vc > 0
        THEN Leave(SetMe(SleepPre(c, SigTid), [Me EXCEPT !.st = "YIELD", !.job = "wait"]))
        ELSE Leave(Finished(vc_start(c, "acq")))
  /\ UNCHANGED async
SIGRELEASE_call ==
  /\ Body(SigTid) /\ Me.job = "rel"
  /\ Leave(Finished(IF co.vc > 0 THEN co ELSE vc_start(co, "rel")))
  /\ UNCHANGED async
coopth_sleep_mut ==
  /\ Body(VcTid) /\ ~Me.canc /\ copier = "idle" /\ cbks = 0
  /\ copier' = "copy"
  /\ UNCHANGED <<co, loop, sigq, cbks, vt, bounds>>
(* The console thread sleeps until the memory is copied. *)
coopth_sleep ==
  /\ Body(VcTid) /\ ~Me.canc /\ copier = "idle" /\ cbks = 0
  /\ copier' = "copy"
  /\ SwitchTo(co, "SLEEPING")
  /\ UNCHANGED <<sigq, cbks, vt>>
-----------------------------------------------------------------------------
Async == (\E k \in {"alrm", "acq", "rel"} : SIGNAL_save(k)) \/ vmemcpy_thread
Loop == coopth_hlt \/ pic_run \/ process_callbacks \/ handle_signals
          \/ run_traverser \/ coopth_run
Dos == \/ (\E t \in Ints : DosInt(t)) \/ (\E t \in Custom : DosCall(t))
       \/ DosRet \/ DosAbort
Bodies ==
  \/ \E t \in Ints \cup Custom : coopth_wait(t)
  \/ \E t \in Tids : do_call_back(t) \/ Finish(t)
  \/ \E t \in Ints \cup Custom, u \in Ints : do_int(t, u)
  \/ \E t \in Ints \cup Custom : coopth_sched(t) \/ coopth_leave(t)
  \/ \E t \in Ints : int19(t) \/ coopth_flush(t) \/ cpu_reset(t)
  \/ signal_thr \/ SIGACQUIRE_call \/ SIGRELEASE_call \/ coopth_sleep
Next == Async \/ Loop \/ Dos \/ Bodies
Spec == Init /\ [][Next]_vars
(* The main loop, the copying thread and signal handlers go on; every DOS  *)
(* call returns and every thread body finishes if it is run again and      *)
(* again. *)
Fairness ==
  /\ WF_vars(Loop) /\ WF_vars(vmemcpy_thread)
  /\ WF_vars(signal_thr) /\ WF_vars(SIGACQUIRE_call \/ SIGRELEASE_call)
  /\ \A d \in 1..(DosDepth + 1) : SF_vars(DosRet /\ Len(co.dos) = d)
  /\ \A t \in Tids, n \in 1..Depth : SF_vars(Finish(t) /\ Run.n = n)
  /\ \A t \in Ints : WF_vars(coopth_flush(t) \/ cpu_reset(t))
FairSpec == Spec /\ Fairness
-----------------------------------------------------------------------------
Instances == UNION {{t} \X DOMAIN co.thr[t] : t \in Tids}
In(i) == co.thr[i[1]][i[2]]
(* The thread table, the DOS stack and the place in the loop.              *)
TypeOK ==
  /\ \A t \in Tids : Len(co.thr[t]) <= Depth
  /\ \A i \in Instances : In(i) \in Instance
  /\ Len(co.dos) >= 1 /\ \A k \in DOMAIN co.dos : co.dos[k] \in Loc
  /\ pc \in {"dos", "pic", "cb", "sig", "run", "body"}
  /\ co.inh \in 0..1 /\ co.vc \in 0..1 /\ cbks \in 0..1
(* None of the fatal errors and assertions of coopth.c that err records is *)
(* reached: DOS never gets to the HLT of a thread that is not attached, no *)
(* thread that is not active is woken, an instance that ends is the        *)
(* current one of its thread.                                              *)
NoFatal == TypeOK /\ co.err = "no"
(* threads_joinable, threads_left and threads_total are the numbers of     *)
(* attached, left and all instances, and active_tids holds every thread    *)
(* with an instance once.  A left instance is on the C stack, so that the  *)
(* traversal may pass over it.  in_handle_signals is the number of signal  *)
(* threads that are not waiting in a yield, never more than one: the next  *)
(* signal is not started before the one being handled is over or yields.   *)
CountersExact ==
  LET all == Instances
      left == {i \in all : In(i).left}
  IN /\ co.joinable = Cardinality({i \in all : In(i).att})
     /\ co.lefts = Cardinality(left)
     /\ co.total = Cardinality(all)
     /\ IsInjective(co.active) /\ Range(co.active) = {t \in Tids : Live(co, t)}
     /\ \A i \in left : \E k \in DOMAIN running : running[k].t = i[1]
                                                /\ running[k].n = i[2]
     /\ co.inh = Cardinality({i \in all : i[1] = SigTid /\ In(i).st # "YIELD"})
(* Except during a reboot, DOS returns once to the HLT of a thread for     *)
(* every attached instance it has, through its stack or through the CS:IP  *)
(* saved by another instance; the saved registers are those of the         *)
(* attached instances that have a context handler.                         *)
FramesMatch ==
  LET all == Instances
      on == {i \in all : In(i).att}
      there == {i \in on : ~In(i).gone}
      ctx == {i \in on : i[1] \in CtxH}
      Returns(t) == Cardinality({k \in DOMAIN co.dos : co.dos[k] = t})
                      + Cardinality({i \in there : In(i).ret = t})
  IN (\A i \in all : In(i).job # "flush") =>
       /\ \A t \in Tids : Returns(t) = Cardinality({i \in there : i[1] = t})
       /\ Len(co.rm) = Cardinality(ctx)
       /\ {co.rm[k] : k \in DOMAIN co.rm} = {In(i).ret : i \in ctx}
(* One console switch at a time, in_vc_call tells it; the copying thread   *)
(* or its callback is outstanding exactly while the console thread sleeps, *)
(* so that no wake-up is early, lost or late.                              *)
WakeMeetsSleeper ==
  /\ co.vc = Len(co.thr[VcTid])
  /\ (copier = "copy" \/ cbks > 0)
       <=> (Live(co, VcTid) /\ Cur(co, VcTid).st = "SLEEPING")
  /\ ~co.missed
(* A requested console switch is started and comes to its end, for which   *)
(* DOS must run: unless the release before it was joined while it waited   *)
(* (co.late).  post_release then freezes DOS behind the unfreeze_dosemu of *)
(* SIGACQUIRE_call, and the console thread never runs.                     *)
SwitchHappens == Requests > 0 ~> (Requests = 0 /\ co.vc = 0) \/ co.late
=============================================================================
