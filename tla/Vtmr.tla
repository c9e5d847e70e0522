-------------------------------- MODULE Vtmr --------------------------------
(***************************************************************************)
(* The virtual timer (src/src/base/dev/misc/vtmr.c) with what feeds it and *)
(* what it feeds: counter 0 of the PIT (timers.c), the interrupt           *)
(* redirection vint.c and the interrupt controllers (I8259.tla).           *)
(*                                                                         *)
(* Three threads take part.  The event timer's thread counts expirations   *)
(* in q_ticks and raises the timer when there were none.  The vtmr thread  *)
(* turns a raise into a request of IRQ 11, or of IRQ 0 when DOS masked     *)
(* IRQ 11.  The DOS thread takes IRQ 11 in vint_handler, which makes it    *)
(* look like IRQ 0 and acknowledges it; the acknowledgement takes a tick   *)
(* off q_ticks and raises the timer again if there are more.  DOS may also *)
(* latch the counter, which can run a late tick by hand or consume one.    *)
(*                                                                         *)
(* Times are left out: whether the timer lags and whether a latch sees an  *)
(* underflow is chosen freely.                                             *)
(***************************************************************************)
EXTENDS I8259, Sequences

CONSTANTS MaxTicks,   \* expirations of the timer (bound)
          MaxBurst,   \* expirations reported at once (bound)
          MaxLatches, \* latches (bound)
          MaxDepth,   \* nested timer handlers (bound)
          Tweaks,     \* values of config.timer_tweaks
          AutoEoi,    \* DOS programmed the master with automatic EOI
          Masks,      \* <<controller, byte>> DOS writes to the mask registers
          Nobody

ASSUME VtmrAssumption ==
  /\ MaxTicks \in Nat /\ MaxBurst \in Nat \ {0} /\ MaxLatches \in Nat
  /\ MaxTicks + MaxLatches < 65536
  /\ MaxDepth \in Nat \ {0} /\ Tweaks \subseteq BOOLEAN /\ AutoEoi \in BOOLEAN
  /\ Nobody \notin {"dos", "vtmr"}
  /\ Masks \subseteq {"m", "s"} \X Byte
VTMR_IRQ == 11
(* q_ticks is unsigned; its width is scaled to 16 bits. *)
Wrap(n) == n % 65536

VARIABLES pics,
          vtmr_irr, vtmr_imr, vtmr_pirr, \* the timer's bit in each register
          vtmr_sem, irr_mtx, done_pred,
          q_ticks, tmr_skip, latched_cnt,
          blocked,       \* evtimer_block
          tweaked,       \* vtmr_set_tweaked, at start-up
          et,            \* location of the event timer's thread
          vt,            \* location of the vtmr thread
          cpu, stack,    \* the DOS thread: running frame and suspended ones
          arg,           \* masked, or rc of a latch, of the frame in vtmr.c
          ticks, latches \* used up of the bounds
regs == <<vtmr_irr, vtmr_imr, vtmr_pirr, vtmr_sem, irr_mtx, done_pred>>
pit == <<q_ticks, tmr_skip, latched_cnt, blocked, tweaked>>
dos == <<cpu, stack, arg>>
vars == <<pics, regs, pit, et, vt, dos, ticks, latches>>

Init ==
  /\ pics = [PicsInit EXCEPT !.m.auto_eoi = AutoEoi]
  /\ vtmr_irr = FALSE /\ vtmr_imr = FALSE /\ vtmr_pirr = FALSE
  /\ vtmr_sem = 0 /\ irr_mtx = Nobody /\ done_pred = TRUE
  /\ q_ticks = 0 /\ tmr_skip = 0 /\ latched_cnt = 0 /\ blocked = FALSE
  /\ tweaked \in Tweaks
  /\ et = "idle" /\ vt = "wait"
  /\ cpu = "dos" /\ stack = <<>> /\ arg = 0
  /\ ticks = 0 /\ latches = 0

(* do_vtmr_raise: one pending bit, one post per setting of it. *)
do_vtmr_raise_mut ==
  /\ vtmr_pirr' = TRUE
  /\ vtmr_sem' = IF q_ticks > 1 THEN vtmr_sem ELSE vtmr_sem + 1
do_vtmr_raise ==
  /\ vtmr_pirr' = TRUE
  /\ vtmr_sem' = IF vtmr_pirr THEN vtmr_sem ELSE vtmr_sem + 1
(* timer_irq_ack, and the raise its answer asks for. *)
timer_irq_ack_mut ==
  /\ q_ticks' = Wrap(q_ticks - 1)
  /\ latched_cnt' = 0
  /\ UNCHANGED <<vtmr_pirr, vtmr_sem>>
timer_irq_ack ==
  /\ q_ticks' = Wrap(q_ticks - 1)
  /\ latched_cnt' = 0
  /\ IF q_ticks' # 0 THEN do_vtmr_raise ELSE UNCHANGED <<vtmr_pirr, vtmr_sem>>
-----------------------------------------------------------------------------
(* The event timer's thread: evthread and timer_activate. *)
Expire(n) ==
  /\ et = "idle" /\ ~blocked /\ ticks + n <= MaxTicks
  /\ ticks' = ticks + n
  /\ IF tmr_skip > 0
     THEN /\ tmr_skip' = tmr_skip - 1
          /\ UNCHANGED <<q_ticks, et>>
     ELSE /\ q_ticks' = Wrap(q_ticks + n)
          /\ et' = IF q_ticks = 0 THEN "raise" ELSE "idle"
          /\ UNCHANGED tmr_skip
  /\ UNCHANGED <<pics, regs, latched_cnt, blocked, tweaked, vt, dos, latches>>
(* vtmr_raise *)
ExpireRaise ==
  /\ et = "raise"
  /\ done_pred' = FALSE
  /\ et' = "post"
  /\ UNCHANGED <<pics, vtmr_irr, vtmr_imr, vtmr_pirr, vtmr_sem, irr_mtx, pit,
                 vt, dos, ticks, latches>>
ExpirePost ==
  /\ et = "post"
  /\ do_vtmr_raise
  /\ done_pred' = (done_pred \/ vtmr_pirr)
  /\ et' = "idle"
  /\ UNCHANGED <<pics, vtmr_irr, vtmr_imr, irr_mtx, pit, vt, dos, ticks, latches>>
-----------------------------------------------------------------------------
(* The vtmr thread: vtmr_thread and vtmr_smi. *)
Rest == <<pit, et, dos, ticks, latches>>
SemWait ==
  /\ vt = "wait" /\ vtmr_sem > 0
  /\ vtmr_sem' = vtmr_sem - 1
  /\ vt' = "vpend"
  /\ UNCHANGED <<pics, vtmr_irr, vtmr_imr, vtmr_pirr, irr_mtx, done_pred, Rest>>
vtmr_vpend_read ==
  /\ vt = "vpend"
  /\ vtmr_pirr' = FALSE
  /\ vt' = IF vtmr_pirr THEN "masked?" ELSE "wait"
  /\ UNCHANGED <<pics, vtmr_irr, vtmr_imr, vtmr_sem, irr_mtx, done_pred, Rest>>
vtmr_is_masked ==
  /\ vt = "masked?"
  /\ vt' = IF 2 \in pics.m.imr \/ 3 \in pics.s.imr THEN "untrigger0" ELSE "request"
  /\ UNCHANGED <<pics, regs, Rest>>
(* VTMR_REQUEST_PORT, not masked. *)
RequestLock ==
  /\ vt = "request" /\ irr_mtx = Nobody
  /\ irr_mtx' = "vtmr"
  /\ vtmr_irr' = TRUE
  /\ vt' = IF vtmr_irr THEN "unlock" ELSE "imr?"
  /\ UNCHANGED <<pics, vtmr_imr, vtmr_pirr, vtmr_sem, done_pred, Rest>>
RequestImr ==
  /\ vt = "imr?"
  /\ vt' = IF vtmr_imr THEN "unlock" ELSE "pic"
  /\ UNCHANGED <<pics, regs, Rest>>
RequestPic ==
  /\ vt = "pic"
  /\ vt' = "unlock"
  /\ pics' = pic_request(pics, VTMR_IRQ)
  /\ UNCHANGED <<regs, Rest>>
RequestUnlock ==
  /\ vt = "unlock"
  /\ irr_mtx' = Nobody
  /\ vt' = "firr"
  /\ UNCHANGED <<pics, vtmr_irr, vtmr_imr, vtmr_pirr, vtmr_sem, done_pred, Rest>>
SetFakeIrr ==
  /\ vt = "firr"
  /\ vt' = "done"
  /\ pics' = write_firr(pics, "m", 1)
  /\ UNCHANGED <<regs, Rest>>
(* VTMR_REQUEST_PORT, masked: IRQ 0 itself, and the tick is over. *)
Untrigger0 ==
  /\ vt = "untrigger0"
  /\ vt' = "request0"
  /\ pics' = pic_untrigger(pics, 0)
  /\ UNCHANGED <<regs, Rest>>
Request0 ==
  /\ vt = "request0"
  /\ vt' = "post_req"
  /\ pics' = pic_request(pics, 0)
  /\ UNCHANGED <<regs, Rest>>
post_req ==
  /\ vt = "post_req"
  /\ timer_irq_ack
  /\ vt' = "done"
  /\ UNCHANGED <<pics, vtmr_irr, vtmr_imr, irr_mtx, done_pred, tmr_skip, blocked,
                 tweaked, et, dos, ticks, latches>>
SmiDone ==
  /\ vt = "done"
  /\ done_pred' = TRUE
  /\ vt' = "wait"
  /\ UNCHANGED <<pics, vtmr_irr, vtmr_imr, vtmr_pirr, vtmr_sem, irr_mtx, Rest>>
-----------------------------------------------------------------------------
(* The DOS thread. *)
Threads == <<et, vt, ticks>>
Goto(l) == cpu' = l /\ UNCHANGED stack
Call(l, ret) == cpu' = l /\ stack' = <<ret>> \o stack
Return == cpu' = Head(stack) /\ stack' = Tail(stack)
(* One port write, or request, of the controllers, and the next location. *)
Port(at, P, next) ==
  /\ cpu = at
  /\ next
  /\ UNCHANGED <<regs, pit, arg, latches, Threads>>
  /\ pics' = P

(* pic_run.  IRQ 11 enters vint_handler, IRQ 0 the timer handler of DOS,   *)
(* and the default handler of IRQ 7 is EOI_OFF.                            *)
Nested == Len(SelectSeq(stack, LAMBDA l : l = "isr_on"))
pic_pending ==
  /\ cpu \in {"dos", "isr_on"} /\ Wants(pics, "m") /\ Nested < MaxDepth
  /\ Call("inum", cpu)
  /\ UNCHANGED <<pics, regs, pit, arg, latches, Threads>>
Handler(v) ==
  CASE v = <<"s", 3>> -> "vint" [] v = <<"m", 0>> -> "isr" [] OTHER -> "eoi"
pic_get_inum == Port("inum", pic_read_irq(pics), Goto(Handler(Vector(pics))))

(* vint_handler: when DOS masked IRQ 0 only acknowledge the timer.         *)
(* Otherwise end IRQ 11, make the master serve IRQ 0 with its poll         *)
(* extension, call the handler of DOS and acknowledge.                     *)
vint_handler ==
  /\ cpu = "vint"
  /\ arg' = IF 0 \in pics.m.imr THEN 1 ELSE 0
  /\ Goto(IF arg' = 1 THEN "ack" ELSE "full_eoi_s")
  /\ UNCHANGED <<pics, regs, pit, latches, Threads>>
FullEoiSlave_mut == Port("full_eoi_s", pics, Goto("full_eoi_m"))
FullEoiSlave ==
  Port("full_eoi_s", pic_ioport_write(pics, "s", 0, 32), Goto("full_eoi_m"))
FullEoiMaster ==
  Port("full_eoi_m", pic_ioport_write(pics, "m", 0, 32), Goto("poll"))
poll_pic0 == Port("poll", pic_ioport_write(pics, "m", 0, 12), Goto("poll_irq"))
PollIrq == Port("poll_irq", pic_ioport_write(pics, "m", 0, 0), Goto("polled"))
(* The handler of DOS returns to do_ret if tweaked, else to DOS. *)
RunHandler ==
  /\ cpu = "polled"
  /\ IF tweaked THEN Call("mask", "do_ret") ELSE Goto("ack")
  /\ UNCHANGED <<pics, regs, pit, arg, latches, Threads>>

(* VTMR_MASK_PORT and VTMR_UNMASK_PORT, which take no mutex. *)
Mask ==
  /\ cpu = "mask"
  /\ vtmr_imr' = TRUE
  /\ Goto(IF vtmr_imr THEN "ack" ELSE "mask_irr?")
  /\ UNCHANGED <<pics, vtmr_irr, vtmr_pirr, vtmr_sem, irr_mtx, done_pred, pit,
                 arg, latches, Threads>>
MaskUntrigger ==
  Port("mask_irr?", IF vtmr_irr THEN pic_untrigger(pics, VTMR_IRQ) ELSE pics,
       Goto("ack"))
do_ret ==
  /\ cpu = "do_ret"
  /\ vtmr_imr' = FALSE
  /\ IF vtmr_imr THEN Goto("unmask_irr?") ELSE Return
  /\ UNCHANGED <<pics, vtmr_irr, vtmr_pirr, vtmr_sem, irr_mtx, done_pred, pit,
                 arg, latches, Threads>>
UnmaskCheck ==
  /\ cpu = "unmask_irr?"
  /\ IF vtmr_irr THEN Goto("unmask_request") ELSE Return
  /\ UNCHANGED <<pics, regs, pit, arg, latches, Threads>>
UnmaskRequest == Port("unmask_request", pic_request(pics, VTMR_IRQ), Return)

(* VTMR_ACK_PORT; the location after it is the handler of DOS, or          *)
(* EOI2_OFF when IRQ 0 is masked.                                          *)
TakeIrr(at, hit, miss) ==
  /\ cpu = at /\ irr_mtx = Nobody
  /\ irr_mtx' = "dos"
  /\ vtmr_irr' = FALSE
  /\ Goto(IF vtmr_irr THEN hit ELSE miss)
  /\ UNCHANGED <<pics, vtmr_imr, vtmr_pirr, vtmr_sem, done_pred, pit, arg,
                 latches, Threads>>
AckTimer(at, next) ==
  /\ cpu = at
  /\ timer_irq_ack
  /\ Goto(next)
  /\ UNCHANGED <<pics, vtmr_irr, vtmr_imr, irr_mtx, done_pred, tmr_skip, blocked,
                 tweaked, arg, latches, Threads>>
Unlock(at, next) ==
  /\ cpu = at
  /\ irr_mtx' = Nobody
  /\ next
  /\ UNCHANGED <<pics, vtmr_irr, vtmr_imr, vtmr_pirr, vtmr_sem, done_pred, pit,
                 arg, latches, Threads>>
Ack == TakeIrr("ack", "ack_untrigger", "ack_unlock")
AckUntrigger ==
  Port("ack_untrigger", pic_untrigger(pics, VTMR_IRQ), Goto("ack_timer"))
AckHandler == AckTimer("ack_timer", "ack_unlock")
AckUnlock == Unlock("ack_unlock", Goto(IF arg = 1 THEN "eoi2" ELSE "isr"))

(* Code of DOS.  int08 of the BIOS ends the interrupt and returns; the     *)
(* handler of a program may go on with interrupts enabled.                 *)
(* EOI2_OFF and EOI_OFF of the BIOS; the masks.                            *)
IsrEoi == Port("isr", pic_ioport_write(pics, "m", 0, 32), Goto("isr_on"))
IsrIret == Port("isr_on", pics, Return)
Eoi2 == Port("eoi2", pic_ioport_write(pics, "s", 0, 32), Goto("eoi"))
Eoi == Port("eoi", pic_ioport_write(pics, "m", 0, 32), Return)
WriteMask(which, v) ==
  /\ cpu \in {"dos", "isr_on"}
  /\ Port(cpu, pic_ioport_write(pics, which, 1, v), UNCHANGED stack /\ cpu' = cpu)
-----------------------------------------------------------------------------
(* DOS latches the counter: vtmr_latch_smi sees whether IRQ 0 is in        *)
(* service, do_pit_latch stops the event timer's thread.                   *)
vtmr_latch_smi ==
  /\ cpu \in {"dos", "isr", "isr_on"} /\ latches < MaxLatches
  /\ latches' = latches + 1
  /\ arg' = IF 0 \in pics.m.isr THEN 1 ELSE 0
  /\ Call("block", cpu)
  /\ UNCHANGED <<pics, regs, pit, Threads>>
evtimer_block ==
  /\ cpu = "block"
  /\ blocked' = TRUE
  /\ Goto("in_cbk?")
  /\ UNCHANGED <<pics, regs, q_ticks, tmr_skip, latched_cnt, tweaked, arg,
                 latches, Threads>>
(* A lagging timer is run by hand; the expiration to come is skipped. *)
do_pit_latch(lagging) ==
  /\ cpu = "in_cbk?" /\ et = "idle"
  /\ IF lagging /\ q_ticks = 0
     THEN /\ q_ticks' = 1 /\ tmr_skip' = tmr_skip + 1
          /\ Goto("l_raise")
     ELSE /\ UNCHANGED <<q_ticks, tmr_skip>>
          /\ Goto("count")
  /\ UNCHANGED <<pics, regs, latched_cnt, blocked, tweaked, arg, latches, Threads>>
LatchRaise ==
  /\ cpu = "l_raise"
  /\ done_pred' = FALSE
  /\ Goto("l_post")
  /\ UNCHANGED <<pics, vtmr_irr, vtmr_imr, vtmr_pirr, vtmr_sem, irr_mtx, pit, arg,
                 latches, Threads>>
LatchPost ==
  /\ cpu = "l_post"
  /\ do_vtmr_raise
  /\ done_pred' = (done_pred \/ vtmr_pirr)
  /\ Goto("count")
  /\ UNCHANGED <<pics, vtmr_irr, vtmr_imr, irr_mtx, pit, arg, latches, Threads>>
(* _pit_latch: an underflow seen outside the handler of IRQ 0, or for the  *)
(* second time, consumes the pending tick; arg becomes that decision.      *)
_pit_count_latch(underflow) ==
  /\ cpu = "count"
  /\ latched_cnt' = latched_cnt + 1
  /\ LET rc == IF underflow THEN latched_cnt' ELSE 0
     IN arg' = IF (rc = 1 /\ arg = 0) \/ rc > 1 THEN 1 ELSE 0
  /\ Goto("sync")
  /\ UNCHANGED <<pics, regs, q_ticks, tmr_skip, blocked, tweaked, latches, Threads>>
vtmr_sync ==
  /\ cpu = "sync" /\ done_pred
  /\ Goto("unblock")
  /\ UNCHANGED <<pics, regs, pit, arg, latches, Threads>>
evtimer_unblock ==
  /\ cpu = "unblock"
  /\ blocked' = FALSE
  /\ IF arg = 1 THEN Goto("l_take") ELSE Return
  /\ UNCHANGED <<pics, regs, q_ticks, tmr_skip, latched_cnt, tweaked, arg,
                 latches, Threads>>
LatchTake == TakeIrr("l_take", "l_untrigger", "l_unlock")
LatchUntrigger ==
  Port("l_untrigger", pic_untrigger(pics, VTMR_IRQ), Goto("l_timer"))
LatchHandler == AckTimer("l_timer", "l_unlock")
LatchUnlock == Unlock("l_unlock", Return)
-----------------------------------------------------------------------------
evthread == ExpireRaise \/ ExpirePost
vtmr_thread ==
  \/ SemWait \/ vtmr_vpend_read \/ vtmr_is_masked
  \/ RequestLock \/ RequestImr \/ RequestPic \/ RequestUnlock \/ SetFakeIrr
  \/ Untrigger0 \/ Request0 \/ post_req \/ SmiDone
Interrupt ==
  \/ pic_pending \/ pic_get_inum \/ vint_handler \/ FullEoiSlave \/ FullEoiMaster
  \/ poll_pic0 \/ PollIrq \/ RunHandler \/ Mask \/ MaskUntrigger
  \/ Ack \/ AckUntrigger \/ AckHandler \/ AckUnlock
  \/ do_ret \/ UnmaskCheck \/ UnmaskRequest
  \/ IsrEoi \/ IsrIret \/ Eoi2 \/ Eoi
Latch ==
  \/ evtimer_block \/ LatchRaise \/ LatchPost
  \/ \E b \in BOOLEAN : do_pit_latch(b) \/ _pit_count_latch(b)
  \/ vtmr_sync \/ evtimer_unblock
  \/ LatchTake \/ LatchUntrigger \/ LatchHandler \/ LatchUnlock
Next ==
  \/ \E n \in 1..MaxBurst : Expire(n)
  \/ evthread \/ vtmr_thread \/ Interrupt \/ vtmr_latch_smi \/ Latch
  \/ \E w \in Masks : WriteMask(w[1], w[2])
Spec == Init /\ [][Next]_vars
(* The two threads run, the DOS thread takes interrupts and its handlers   *)
(* end.                                                                    *)
CanSmi ==
  CASE vt = "wait" -> vtmr_sem > 0 [] vt = "request" -> irr_mtx = Nobody
    [] OTHER -> TRUE
CanStep ==
  CASE cpu = "dos" -> Wants(pics, "m") [] cpu = "in_cbk?" -> et = "idle"
    [] cpu = "sync" -> done_pred
    [] cpu \in {"ack", "l_take"} -> irr_mtx = Nobody [] OTHER -> TRUE
FairSpec ==
  /\ Spec
  /\ []<>(et = "idle") \/ []<><<evthread>>_vars
  /\ []<>~CanSmi \/ []<><<vtmr_thread>>_vars
  /\ []<>~CanStep \/ []<><<Interrupt \/ Latch>>_vars
-----------------------------------------------------------------------------
Locations ==
  {"dos", "inum", "vint", "full_eoi_s", "full_eoi_m", "poll", "poll_irq", "polled",
   "mask", "mask_irr?", "do_ret", "unmask_irr?", "unmask_request", "ack",
   "ack_untrigger", "ack_timer", "ack_unlock", "isr", "isr_on", "eoi2", "eoi",
   "block", "in_cbk?", "l_raise", "l_post", "count", "sync", "unblock",
   "l_take", "l_untrigger", "l_timer", "l_unlock"}
(* Registers, counters and locations have their types; q_ticks never wraps *)
(* and the semaphore never counts more than the one pending bit.           *)
TypeOK ==
  /\ pics \in Pics
  /\ {vtmr_irr, vtmr_imr, vtmr_pirr, done_pred, blocked, tweaked} \subseteq BOOLEAN
  /\ vtmr_sem \in 0..1 /\ irr_mtx \in {"dos", "vtmr", Nobody}
  /\ q_ticks \in 0..MaxTicks + MaxLatches
  /\ tmr_skip \in 0..MaxLatches /\ latched_cnt \in 0..MaxLatches
  /\ et \in {"idle", "raise", "post"}
  /\ vt \in {"wait", "vpend", "masked?", "request", "imr?", "pic", "unlock", "firr",
             "untrigger0", "request0", "post_req", "done"}
  /\ cpu \in Locations /\ stack \in Seq(Locations) /\ arg \in 0..1
  /\ ticks \in 0..MaxTicks /\ latches \in 0..MaxLatches

(* A raise on its way: being made, pending, or in the vtmr thread. *)
Raising == et \in {"raise", "post"} \/ cpu \in {"l_raise", "l_post"}
InSmi == vt \in {"masked?", "request", "untrigger0", "request0", "post_req"}
Acking == cpu \in {"ack_untrigger", "ack_timer", "l_untrigger", "l_timer"}
(* Outside the critical sections and the (un)mask port writes. *)
LineSettled ==
  /\ irr_mtx = Nobody
  /\ cpu \notin {"mask_irr?", "ack", "unmask_irr?", "unmask_request"}
(* The tick being served is in exactly one place, so timer_activate and    *)
(* timer_irq_ack never lose the timer: as long as q_ticks counts a tick,   *)
(* exactly one of the threads is about to raise it, has raised it, has it  *)
(* requested or acknowledges it, and no one does when q_ticks is 0.  And   *)
(* IRQ 11 tells: when settled, the line is high exactly when the timer is  *)
(* requested and not masked.  A request the vtmr thread decided before the *)
(* unmasking may still raise a masked line; the acknowledgement, which     *)
(* waits for irr_mtx, lowers it again.                                     *)
Places == <<Raising, vtmr_pirr, InSmi, vtmr_irr, Acking>>
Holding == {i \in 1..5 : Places[i]}
TickInOnePlace ==
  /\ TypeOK
  /\ IF q_ticks = 0 THEN Holding = {} ELSE \E i \in 1..5 : Holding = {i}
  /\ LineSettled => ((3 \in pics.s.last_irr) = (vtmr_irr /\ ~vtmr_imr))
(* When DOS code runs outside any handler no interrupt is left in service: *)
(* every path of vint_handler ends what pic_get_inum started; after the    *)
(* poll extension the master serves IRQ 0 (the assertion of poll_pic0).    *)
(* And while a tweaked timer handler runs no other is started: the timer   *)
(* stays masked until do_ret.                                              *)
InTweaked == {i \in 1..Len(stack) : stack[i] = "do_ret"}
ServiceEnds ==
  /\ cpu = "dos" => pics.m.isr = {} /\ pics.s.isr = {} /\ ~pics.m.poll
  /\ cpu = "polled" => 0 \in pics.m.isr
  /\ cpu = "vint" => InTweaked = {}
(* Every counted tick reaches DOS or is consumed, unless DOS masks IRQ 11  *)
(* again and again, or for good when it is already requested.              *)
TicksDrain == <>[](3 \notin pics.s.imr) => []<>(q_ticks = 0)
=============================================================================
