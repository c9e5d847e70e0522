-------------------------------- MODULE Virq --------------------------------
(***************************************************************************)
(* The virtual IRQ router (src/src/base/dev/misc/virq.c) on line 15 of the *)
(* interrupt controllers (I8259.tla), with the buffered mouse driver of    *)
(* mousedrv.c and mouse.c as the pattern of what uses it: threads put      *)
(* events into a queue and raise the queue's virtual IRQ, and the thread   *)
(* that runs DOS takes the interrupt, drains the queue and runs bottom     *)
(* halves in DOS.                                                          *)
(*                                                                         *)
(* hndl_mtx and irr_mtx are modelled; each call of the controllers is one  *)
(* step under pic_mtx.  The frames of the DOS thread are a stack of        *)
(* locations with the running one in cpu; "dos" and "bh" are DOS code with *)
(* interrupts enabled.  Two other devices take part: IRQ 1 from a thread   *)
(* and IRQ 12, which the mouse requests from its hardware handler.  Their  *)
(* interrupt handlers are those of the BIOS.                               *)
(***************************************************************************)
EXTENDS I8259, Sequences

CONSTANTS Virq,       \* virtual IRQ numbers in use, each with a queue
          Thread,     \* threads that produce events
          FifoLen,    \* M_FIFO_LEN (bound)
          MaxEvents,  \* events per thread (bound)
          MaxKeys,    \* requests of IRQ 1 (bound)
          MaxReboots, \* reboots (bound)
          Masks,      \* bytes DOS writes to the slave's mask
          Nobody

ASSUME VirqAssumption ==
  /\ Virq \subseteq 0..4 /\ Virq # {} /\ Nobody \notin Thread \cup {"main"}
  /\ "main" \notin Thread
  /\ FifoLen \in Nat \ {0, 1} /\ MaxEvents \in Nat /\ MaxKeys \in Nat
  /\ MaxReboots \in Nat /\ Masks \subseteq Byte
VIRQ_IRQ_NUM == 15

VARIABLES pics, virq_irr, irr_mtx, hndl_mtx, cur_bh,
          fifo,       \* fifo[n]: events in the queue behind virq n
          cpu, stack, \* running frame of the DOS thread and the suspended ones
          cur,        \* inum of virq_handler, or the index of a BIOS write
          tpc, targ,  \* producer threads: location, virq being raised
          events, keys, reboots
dosvars == <<cpu, stack, cur, cur_bh>>
bounds == <<events, keys, reboots>>
vars == <<pics, virq_irr, irr_mtx, hndl_mtx, fifo, tpc, targ, dosvars, bounds>>

Init ==
  /\ pics = PicsInit
  /\ virq_irr = {} /\ irr_mtx = Nobody /\ hndl_mtx = Nobody /\ cur_bh = None
  /\ fifo = [n \in Virq |-> 0]
  /\ cpu = "dos" /\ stack = <<>> /\ cur = 0
  /\ tpc = [t \in Thread |-> "idle"] /\ targ = [t \in Thread |-> None]
  /\ events = [t \in Thread |-> 0] /\ keys = 0 /\ reboots = 0
-----------------------------------------------------------------------------
(* A producer.  fifo_mdrv_add: queue the event, call virq_raise if it is   *)
(* the only one there; a full queue drops it.                              *)
Step(t, l) == tpc' = [tpc EXCEPT ![t] = l]
fifo_mdrv_add(t, n) ==
  /\ tpc[t] = "idle" /\ events[t] < MaxEvents
  /\ events' = [events EXCEPT ![t] = @ + 1]
  /\ LET cnt == IF fifo[n] < FifoLen THEN fifo[n] + 1 ELSE fifo[n]
     IN /\ fifo' = [fifo EXCEPT ![n] = cnt]
        /\ Step(t, IF cnt = 1 THEN "raise" ELSE "idle")
        /\ targ' = [targ EXCEPT ![t] = IF cnt = 1 THEN n ELSE None]
  /\ UNCHANGED <<pics, virq_irr, irr_mtx, hndl_mtx, dosvars, keys, reboots>>
(* virq_raise: both mutexes, the bit, and the line if it is the first bit. *)
RaiseHndl_mut(t) ==
  /\ tpc[t] = "raise"
  /\ Step(t, "irr")
  /\ UNCHANGED <<pics, virq_irr, irr_mtx, hndl_mtx, fifo, targ, dosvars, bounds>>
RaiseHndl(t) ==
  /\ tpc[t] = "raise" /\ hndl_mtx = Nobody
  /\ hndl_mtx' = t /\ Step(t, "irr")
  /\ UNCHANGED <<pics, virq_irr, irr_mtx, fifo, targ, dosvars, bounds>>
RaiseIrr(t) ==
  /\ tpc[t] = "irr" /\ irr_mtx = Nobody
  /\ irr_mtx' = t
  /\ virq_irr' = virq_irr \cup {targ[t]}
  /\ Step(t, IF virq_irr = {} THEN "request" ELSE "unlock")
  /\ UNCHANGED <<pics, hndl_mtx, fifo, targ, dosvars, bounds>>
RaiseRequest(t) ==
  /\ tpc[t] = "request"
  /\ pics' = pic_request(pics, VIRQ_IRQ_NUM)
  /\ Step(t, "unlock")
  /\ UNCHANGED <<virq_irr, irr_mtx, hndl_mtx, fifo, targ, dosvars, bounds>>
RaiseUnlock(t) ==
  /\ tpc[t] = "unlock"
  /\ irr_mtx' = Nobody /\ hndl_mtx' = Nobody
  /\ Step(t, "idle")
  /\ targ' = [targ EXCEPT ![t] = None]
  /\ UNCHANGED <<pics, virq_irr, fifo, dosvars, bounds>>
Key ==
  /\ keys < MaxKeys
  /\ keys' = keys + 1
  /\ pics' = pic_request(pics, 1)
  /\ UNCHANGED <<virq_irr, irr_mtx, hndl_mtx, fifo, tpc, targ, dosvars,
                 events, reboots>>
-----------------------------------------------------------------------------
(* The DOS thread. *)
Others == <<tpc, targ, bounds>>
Goto(l) == cpu' = l /\ UNCHANGED <<stack>>
Return == cpu' = Head(stack) /\ stack' = Tail(stack)

(* pic_run: pic_pending, then pic_get_inum and the handler of the vector. *)
pic_pending ==
  /\ cpu \in {"dos", "bh"} /\ Wants(pics, "m")
  /\ stack' = <<cpu>> \o stack /\ cpu' = "inum"
  /\ UNCHANGED <<pics, virq_irr, irr_mtx, hndl_mtx, fifo, cur, cur_bh, Others>>
Handler(v) ==
  CASE v = <<"s", 7>> -> "virq" [] v = <<"m", 1>> -> "irq1"
    [] v = <<"s", 4>> -> "irq12" [] OTHER -> "spurious"
pic_get_inum ==
  /\ cpu = "inum"
  /\ pics' = pic_read_irq(pics)
  /\ Goto(Handler(Vector(pics)))
  /\ UNCHANGED <<virq_irr, irr_mtx, hndl_mtx, fifo, cur, cur_bh, Others>>

(* Handlers of the other devices.  int09 reads the key, which lowers the   *)
(* line, and ends the interrupt: interrupts are disabled, so both are one  *)
(* step here.  int74 lowers its line in the mouse helper, then EOI2_OFF.   *)
Irq1 ==
  /\ cpu = "irq1"
  /\ pics' = pic_ioport_write(pic_untrigger(pics, 1), "m", 0, 32)
  /\ Return
  /\ UNCHANGED <<virq_irr, irr_mtx, hndl_mtx, fifo, cur, cur_bh, Others>>
Irq12 ==
  /\ cpu = "irq12"
  /\ pics' = pic_untrigger(pics, 12)
  /\ Goto("eoi2")
  /\ UNCHANGED <<virq_irr, irr_mtx, hndl_mtx, fifo, cur, cur_bh, Others>>
(* EOI2_OFF: both controllers, then iret. *)
Eoi2 ==
  /\ cpu = "eoi2"
  /\ pics' = pic_ioport_write(pics, "s", 0, 32)
  /\ Goto("eoi")
  /\ UNCHANGED <<virq_irr, irr_mtx, hndl_mtx, fifo, cur, cur_bh, Others>>
Eoi ==
  /\ cpu = "eoi"
  /\ pics' = pic_ioport_write(pics, "m", 0, 32)
  /\ Return
  /\ UNCHANGED <<virq_irr, irr_mtx, hndl_mtx, fifo, cur, cur_bh, Others>>
WriteMask(v) ==
  /\ cpu = "dos"
  /\ pics' = pic_ioport_write(pics, "s", 1, v)
  /\ UNCHANGED <<virq_irr, irr_mtx, hndl_mtx, fifo, dosvars, Others>>

(* virq_handler: finish the bottom half first.  The software handlers      *)
(* answer what the state of the DOS side makes them answer.                *)
FinishBh(again) ==
  /\ cpu = "virq"
  /\ cur_bh = None => ~again
  /\ cur_bh' = IF again THEN cur_bh ELSE None
  /\ Goto(IF again THEN "bh" ELSE "loop")
  /\ UNCHANGED <<pics, virq_irr, irr_mtx, hndl_mtx, fifo, cur, Others>>
(* while ((irr = port_inw(VIRQ_IRR_PORT))) with inum = find_bit(irr) *)
Loop ==
  /\ cpu = "loop" /\ irr_mtx = Nobody
  /\ IF virq_irr = {} THEN Goto("eoi2") /\ cur' = 0
     ELSE Goto("hwc") /\ cur' = Min(virq_irr)
  /\ UNCHANGED <<pics, virq_irr, irr_mtx, hndl_mtx, fifo, cur_bh, Others>>
(* virq_hwc_write and do_mouse_fifo: take one event; the answer is DONE    *)
(* when none is left.                                                      *)
virq_hwc_write ==
  /\ cpu = "hwc" /\ hndl_mtx = Nobody
  /\ hndl_mtx' = "main"
  /\ Goto("hw")
  /\ UNCHANGED <<pics, virq_irr, irr_mtx, fifo, cur, cur_bh, Others>>
do_mouse_fifo ==
  /\ cpu = "hw"
  /\ fifo' = [fifo EXCEPT ![cur] = IF @ = 0 THEN 0 ELSE @ - 1]
  /\ Goto(CASE fifo[cur] = 0 -> "lower"
            [] fifo[cur] = 1 -> "request12_done"
            [] OTHER -> "request12_cont")
  /\ UNCHANGED <<pics, virq_irr, irr_mtx, hndl_mtx, cur, cur_bh, Others>>
Request12 ==
  /\ cpu \in {"request12_done", "request12_cont"}
  /\ pics' = pic_request(pics, 12)
  /\ Goto(IF cpu = "request12_done" THEN "lower" ELSE "unlock")
  /\ UNCHANGED <<virq_irr, irr_mtx, hndl_mtx, fifo, cur, cur_bh, Others>>
(* virq_lower, then the end of virq_hwc_write. *)
virq_lower ==
  /\ cpu = "lower" /\ irr_mtx = Nobody
  /\ irr_mtx' = "main"
  /\ virq_irr' = virq_irr \ {cur}
  /\ Goto(IF virq_irr' = {} THEN "untrigger" ELSE "unlock")
  /\ UNCHANGED <<pics, hndl_mtx, fifo, cur, cur_bh, Others>>
LowerUntrigger ==
  /\ cpu = "untrigger"
  /\ pics' = pic_untrigger(pics, VIRQ_IRQ_NUM)
  /\ Goto("unlock")
  /\ UNCHANGED <<virq_irr, irr_mtx, hndl_mtx, fifo, cur, cur_bh, Others>>
HwcUnlock ==
  /\ cpu = "unlock"
  /\ irr_mtx' = (IF irr_mtx = "main" THEN Nobody ELSE irr_mtx)
  /\ hndl_mtx' = Nobody
  /\ Goto("sw")
  /\ UNCHANGED <<pics, virq_irr, fifo, cur, cur_bh, Others>>
(* The software handler schedules a bottom half or not. *)
SwHandler_mut(bh) ==
  /\ cpu = "sw"
  /\ cur_bh' = IF bh THEN cur ELSE cur_bh
  /\ pics' = IF ~bh THEN pics
             ELSE pic_ioport_write(pic_ioport_write(pics, "s", 0, 32), "m", 0, 32)
  /\ Goto(IF bh THEN "bh" ELSE "loop")
  /\ UNCHANGED <<virq_irr, irr_mtx, hndl_mtx, fifo, cur, Others>>
SwHandler(bh) ==
  /\ cpu = "sw"
  /\ cur_bh' = IF bh THEN cur ELSE cur_bh
  /\ Goto(IF bh THEN "bh" ELSE "loop")
  /\ UNCHANGED <<pics, virq_irr, irr_mtx, hndl_mtx, fifo, cur, Others>>
(* The bottom half returns to the hlt of virq_handler. *)
BhReturn ==
  /\ cpu = "bh"
  /\ Goto("virq")
  /\ UNCHANGED <<pics, virq_irr, irr_mtx, hndl_mtx, fifo, cur, cur_bh, Others>>
-----------------------------------------------------------------------------
(* Reboot, from DOS code: iodev_reset resets the controllers and virq,     *)
(* bios_setup programs the controllers, virq_setup re-asserts the line.    *)
Reboot ==
  /\ cpu \in {"dos", "bh"} /\ reboots < MaxReboots
  /\ reboots' = reboots + 1
  /\ pics' = pic_reset(pics)
  /\ stack' = <<>> /\ cpu' = "virq_reset"
  /\ UNCHANGED <<virq_irr, irr_mtx, hndl_mtx, fifo, cur, cur_bh, tpc, targ,
                 events, keys>>
virq_reset ==
  /\ cpu = "virq_reset"
  /\ pics' = pic_untrigger(pics, VIRQ_IRQ_NUM)
  /\ cur_bh' = None /\ cur' = 1
  /\ Goto("bios_setup")
  /\ UNCHANGED <<virq_irr, irr_mtx, hndl_mtx, fifo, Others>>
BiosWrites == <<<<"m", 0, 16>>, <<"m", 1, 8>>, <<"m", 1, 4>>,
                <<"s", 0, 16>>, <<"s", 1, 112>>, <<"s", 1, 2>>>>
bios_setup ==
  /\ cpu = "bios_setup"
  /\ LET w == BiosWrites[cur] IN pics' = pic_ioport_write(pics, w[1], w[2], w[3])
  /\ IF cur = Len(BiosWrites) THEN Goto("virq_setup") /\ cur' = 0
     ELSE cur' = cur + 1 /\ UNCHANGED <<cpu, stack>>
  /\ UNCHANGED <<virq_irr, irr_mtx, hndl_mtx, fifo, cur_bh, Others>>
virq_setup_mut ==
  /\ cpu = "virq_setup"
  /\ Goto("dos")
  /\ UNCHANGED <<pics, virq_irr, irr_mtx, hndl_mtx, fifo, cur, cur_bh, Others>>
virq_setup ==
  /\ cpu = "virq_setup" /\ irr_mtx = Nobody
  /\ Goto(IF virq_irr # {} THEN "reassert" ELSE "dos")
  /\ UNCHANGED <<pics, virq_irr, irr_mtx, hndl_mtx, fifo, cur, cur_bh, Others>>
Reassert ==
  /\ cpu = "reassert"
  /\ pics' = pic_request(pics, VIRQ_IRQ_NUM)
  /\ Goto("dos")
  /\ UNCHANGED <<virq_irr, irr_mtx, hndl_mtx, fifo, cur, cur_bh, Others>>
-----------------------------------------------------------------------------
Produce(t) == RaiseHndl(t) \/ RaiseIrr(t) \/ RaiseRequest(t) \/ RaiseUnlock(t)
Interrupt == pic_pending \/ pic_get_inum \/ Irq1 \/ Irq12 \/ Eoi2 \/ Eoi
Route ==
  \/ Loop \/ virq_hwc_write \/ do_mouse_fifo \/ Request12
  \/ virq_lower \/ LowerUntrigger \/ HwcUnlock
  \/ \E bh \in BOOLEAN : SwHandler(bh)
Boot == virq_reset \/ bios_setup \/ virq_setup \/ Reassert
Next ==
  \/ \E t \in Thread : Produce(t) \/ \E n \in Virq : fifo_mdrv_add(t, n)
  \/ Key \/ Interrupt \/ Route \/ BhReturn \/ Reboot \/ Boot
  \/ \E again \in BOOLEAN : FinishBh(again)
  \/ \E v \in Masks : WriteMask(v)
Spec == Init /\ [][Next]_vars
(* The threads run; the DOS thread takes interrupts, its handlers and      *)
(* bottom halves end, and a bottom half is not asked for again for ever.   *)
DosStep == Interrupt \/ Route \/ BhReturn \/ Boot
Free(m) == m = Nobody
CanProduce(t) ==
  CASE tpc[t] = "raise" -> Free(hndl_mtx) [] tpc[t] = "irr" -> Free(irr_mtx)
    [] OTHER -> tpc[t] # "idle"
CanStep ==
  CASE cpu = "dos" -> Wants(pics, "m")
    [] cpu \in {"loop", "lower", "virq_setup"} -> Free(irr_mtx)
    [] cpu = "hwc" -> Free(hndl_mtx)
    [] OTHER -> cpu # "virq"
FairSpec ==
  /\ Spec
  /\ \A t \in Thread : []<>~CanProduce(t) \/ []<><<Produce(t)>>_vars
  /\ []<>~CanStep \/ []<><<DosStep>>_vars
  /\ <>[](cpu # "virq") \/ []<><<FinishBh(FALSE)>>_vars
-----------------------------------------------------------------------------
Booting == cpu \in {"virq_reset", "bios_setup", "virq_setup", "reassert"}
Settled == irr_mtx = Nobody /\ ~Booting

(* The registers and locations have their types; nobody else holds a mutex.*)
TypeOK ==
  /\ pics \in Pics /\ virq_irr \subseteq Virq /\ cur_bh \in Virq \cup {None}
  /\ irr_mtx \in Thread \cup {"main", Nobody}
  /\ hndl_mtx \in Thread \cup {"main", Nobody}
  /\ fifo \in [Virq -> 0..FifoLen] /\ stack \in Seq({"dos", "bh"})
  /\ tpc \in [Thread -> {"idle", "raise", "irr", "request", "unlock"}]
  /\ targ \in [Thread -> Virq \cup {None}] /\ cur \in 0..6

(* A queued event is known all the way down: the virtual IRQ of its queue  *)
(* is pending, or the thread that found the queue empty is about to raise  *)
(* it; and whenever nobody is inside the irr_mtx section and no reboot is  *)
(* under way, the line of IRQ 15 is high exactly when a virtual IRQ is     *)
(* pending, which is then requested or in service at the controller.       *)
(* Conversely the handler never finds its queue empty (mouse.c:2303).      *)
EventsSignalled ==
  /\ TypeOK
  /\ \A n \in Virq : fifo[n] > 0 =>
       \/ n \in virq_irr
       \/ \E t \in Thread : tpc[t] \in {"raise", "irr"} /\ targ[t] = n
  /\ Settled => /\ (virq_irr # {}) = (7 \in pics.s.last_irr)
                /\ virq_irr # {} => 7 \in pics.s.irr \cup pics.s.isr
  /\ cpu = "hw" => fifo[cur] > 0

(* virq_handler is entered by an interrupt only when it is not already     *)
(* active below, with no bottom half to finish and with work to do.        *)
NoReentry ==
  [][(pic_get_inum /\ Handler(Vector(pics)) = "virq")
       => /\ \A i \in 1..Len(stack) : stack[i] = "dos"
          /\ cur_bh = None /\ virq_irr # {}]_vars

(* Every event is eventually taken out of its queue, whatever the threads  *)
(* do and across a reboot too, unless DOS goes on masking IRQ 15.          *)
EventsHandled ==
  <>[](7 \notin pics.s.imr) => \A n \in Virq : []<>(fifo[n] = 0)
=============================================================================
