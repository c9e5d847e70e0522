----------------------------- MODULE SerialPort -----------------------------
(***************************************************************************)
(* A serial port at work: the UART and its host terminal (Uart), the       *)
(* interrupt controllers, the two callbacks of the main loop that serve    *)
(* the port, and a DOS program with an interrupt handler.  All of them run *)
(* on the main thread, so each port access and each callback is one step.  *)
(*                                                                         *)
(* The DOS program writes any register at any time.  It empties the        *)
(* receiver when it starts and when it polls, and its handler is the       *)
(* textbook one: read IIR, serve the cause it names (THRI needs nothing    *)
(* more), repeat until IIR names none, end the interrupt.  It keeps        *)
(* interrupts off while DLAB is set.  drv.saved is where the program was   *)
(* when the handler took over.                                             *)
(***************************************************************************)
EXTENDS Uart

CONSTANTS Iers, Mcrs, Lsrs,  \* values the program writes to IER, MCR, LSR
          Configs,           \* configurations: <<pseudo, system_rtscts>>
          CtsLevels,         \* levels CTS may change to (both: no bound)
          MaxHups            \* bound: ends of file on the line

VARIABLES S, drv, hups
vars == <<S, drv, hups>>

ASSUME SerialAssumption ==
  /\ Iers \subseteq SUBSET Conds /\ Mcrs \subseteq SUBSET {"OUT2", "LOOP", "RTS"}
  /\ Lsrs \subseteq SUBSET {"DR", "OE", "THRE"}
  /\ Configs \subseteq BOOLEAN \X BOOLEAN
  /\ CtsLevels \subseteq BOOLEAN
  /\ MaxHups \in Nat

Init ==
  /\ S \in {UartInit(c[1], c[2]) : c \in Configs}
  /\ drv = [pc |-> "lsr", saved |-> "none"]
  /\ hups = 0
-----------------------------------------------------------------------------
(* The host. *)
(* What a read of the terminal may return, if the handler makes one;       *)
(* nothing is read in loopback mode or into a full buffer.                 *)
Reads(fills) ==
  IF ~fills \/ Loop(S) \/ S.rx >= RxBufferSize THEN {-1}
  ELSE ReadResults(S) \cup (IF hups < MaxHups THEN {0} ELSE {})
HupsAfter(n) == hups' = IF n = 0 THEN hups + 1 ELSE hups
UpdateReads == Reads(S.closed /\ S.rx < S.trigger)

(* The terminal is readable: the callback of the I/O select thread. *)
async_serial_run ==
  /\ ~S.closed /\ S.host > 0 /\ UNCHANGED drv
  /\ \E n \in Reads(TRUE) : S' = tty_uart_fill(S, n) /\ HupsAfter(n)
(* The periodic call. *)
serial_run ==
  /\ UNCHANGED drv
  /\ \E n \in UpdateReads : S' = serial_update(S, n) /\ HupsAfter(n)
Transmitted ==
  /\ S.queued > 0 /\ S' = [S EXCEPT !.queued = @ - 1]
  /\ UNCHANGED <<drv, hups>>
(* The line of a pseudo port keeps its levels. *)
ModemLine ==
  /\ ~S.pseudo
  /\ \E l \in CtsLevels : S' = [S EXCEPT !.cts = l]
  /\ UNCHANGED <<drv, hups>>
-----------------------------------------------------------------------------
(* The DOS program outside its handler. *)
Main == drv.pc = "main" /\ UNCHANGED <<drv, hups>>
Out(T) == S' = do_serial_out(T)
WriteIer == /\ Main
            /\ \E v \in Iers : Out(IF S.dlab THEN S ELSE put_ier(S, v))
WriteMcr == Main /\ \E v \in Mcrs : Out(put_mcr(S, v))
WriteFcr ==
  /\ Main
  /\ \/ Out(put_fcr(S, FALSE, {}, 0))
     \/ \E which \in SUBSET {"RCVR", "XMIT"}, level \in Triggers :
          Out(put_fcr(S, TRUE, which, level))
WriteLcr == Main /\ \E d \in BOOLEAN : Out(put_lcr(S, d))
(* A test of the line-status interrupt, before receive interrupts are on.  *)
(* In loopback mode the write would leave DR out of step with the buffer:  *)
(* receive_engine does nothing there.                                      *)
WriteLsr ==
  Main /\ ~Loop(S) /\ "RX" \notin S.ier /\ \E v \in Lsrs : Out(put_lsr(S, v))
WriteMsr == Main /\ \E d \in BOOLEAN : Out(put_msr(S, d))
(* The bounds: tx_cnt stays within MaxTx, and what is written in loopback  *)
(* mode within the buffer, whose end put_tx does not check.                *)
WriteTx ==
  /\ Main
  /\ S.tx < MaxTx /\ (Loop(S) => S.rx < RxBufferSize)
  /\ \E ok \in BOOLEAN : Out(IF S.dlab THEN S ELSE put_tx(S, ok))
ReadMsr == Main /\ S' = get_msr(S)
Poll ==
  /\ drv.pc = "main" /\ ~S.dlab /\ drv' = [drv EXCEPT !.pc = "lsr"]
  /\ UNCHANGED <<S, hups>>
-----------------------------------------------------------------------------
(* Emptying the receiver: LSR and RBR are read in turn while LSR has DR. *)
Emptied == IF drv.saved = "none" THEN "main" ELSE "iir"
ReadLsr ==
  /\ drv.pc = "lsr" /\ UNCHANGED hups
  /\ drv' = [drv EXCEPT !.pc = IF "DR" \in S.lsr THEN "rbr" ELSE Emptied]
  /\ S' = get_lsr(S)
ReadRbr ==
  /\ drv.pc = "rbr" /\ drv' = [drv EXCEPT !.pc = "lsr"]
  /\ \E n \in Reads(S.closed /\ S.rx = 0) : S' = get_rx(S, n) /\ HupsAfter(n)
-----------------------------------------------------------------------------
(* The interrupt handler. *)
Interrupt ==
  /\ S.pic.out /\ drv.saved = "none" /\ ~S.dlab
  /\ drv' = [pc |-> "iir", saved |-> drv.pc]
  /\ S' = [S EXCEPT !.pic = pic_read_irq(@)]
  /\ UNCHANGED hups
Serving(c) ==
  CASE c = "RX" -> "lsr" [] c = "none" -> "eoi"
    [] c = "TX" -> "iir" [] OTHER -> c
ReadIir ==
  /\ drv.pc = "iir" /\ S' = get_iir(S)
  /\ drv' = [drv EXCEPT !.pc = Serving(IIR(S))]
  /\ UNCHANGED hups
Serve ==
  /\ drv' = [drv EXCEPT !.pc = "iir"]
  /\ \/ drv.pc = "LS" /\ S' = get_lsr(S)
     \/ drv.pc = "MS" /\ S' = get_msr(S)
  /\ UNCHANGED hups
EndOfInterrupt ==
  /\ drv.pc = "eoi"
  /\ drv' = [pc |-> drv.saved, saved |-> "none"]
  /\ S' = [S EXCEPT !.pic = pic_ioport_write(@, "m", 0, 32)]
  /\ UNCHANGED hups
Handler == Interrupt \/ ReadIir \/ Serve \/ EndOfInterrupt
-----------------------------------------------------------------------------
Reboot ==
  /\ S' = serial_reset(S) /\ drv' = [pc |-> "lsr", saved |-> "none"]
  /\ UNCHANGED hups

Host == async_serial_run \/ serial_run \/ Transmitted \/ ModemLine
Program == WriteIer \/ WriteMcr \/ WriteFcr \/ WriteLcr \/ WriteLsr \/ WriteMsr
           \/ WriteTx \/ ReadMsr \/ Poll
Empty == ReadLsr \/ ReadRbr
Next == Host \/ Program \/ Empty \/ Handler \/ Reboot
Spec == Init /\ [][Next]_vars
Runs == \E n \in UpdateReads : serial_update(S, n) # S
Handles ==
  IF drv.saved = "none" THEN S.pic.out /\ ~S.dlab
  ELSE drv.pc \in {"iir", "LS", "MS", "eoi"}
(* The main loop calls serial_run on every tick and the callback of a      *)
(* readable terminal on every pass; the host sends what it was given; the  *)
(* CPU goes on, and takes an interrupt the controllers offer.              *)
FairSpec ==
  /\ Spec
  /\ []<>~(~S.closed /\ S.host > 0) \/ []<><<async_serial_run>>_vars
  /\ []<>~Runs \/ []<><<serial_run>>_vars
  /\ []<>~(S.queued > 0) \/ []<><<Transmitted>>_vars
  /\ []<>~(drv.pc \in {"lsr", "rbr"}) \/ []<><<Empty>>_vars
  /\ []<>~Handles \/ []<><<Handler>>_vars
-----------------------------------------------------------------------------
TypeOK ==
  /\ S \in Uart /\ hups \in 0..MaxHups
  /\ drv \in [pc : {"main", "lsr", "rbr", "iir", "eoi", "LS", "MS"},
              saved : {"none", "main", "lsr", "rbr"}]

(* The interrupt line of the port is high exactly while the port wants an  *)
(* interrupt: a condition is pending and enabled, and OUT2 lets it out.    *)
(* Every path of the port that changes one of the three must call          *)
(* pic_request or pic_untrigger.  Exempt is loopback mode without OUT2,    *)
(* where put_mcr does not lower the line.                                  *)
LineCurrent ==
  \/ Loop(S) /\ ~INT_ENAB(S)
  \/ (Irq \in S.pic.m.last_irr) = (INT_ENAB(S) /\ INT_REQUEST(S) # {})
(* The controller is edge triggered, so an interrupt the port wants is     *)
(* lost if its edge was used up: the line is current, and outside the      *)
(* handler such an interrupt is in the request register.  The handler      *)
(* returns after reading an IIR that names no cause; recalc_IIR and        *)
(* clear_int_cond must then have lowered the line, and what arrives        *)
(* between that read and the EOI raises it.                                *)
NoLostInterrupt ==
  /\ TypeOK /\ LineCurrent
  /\ INT_ENAB(S) /\ INT_REQUEST(S) # {} /\ drv.saved = "none"
       => Irq \in S.pic.m.irr

(* The program is emptying the receiver. *)
Reading == {drv.pc, drv.saved} \cap {"lsr", "rbr"} # {}
(* Bytes that wait have been announced: RX_INTR is pending, or the         *)
(* time-out that will raise it runs, unless the program is just emptying   *)
(* the receiver.  This is for a real line (the others keep their buffer    *)
(* across DLAB), outside loopback mode and with DLAB clear.  DR of LSR     *)
(* tells whether a byte waits; the opposite is an error get_rx reports     *)
(* ("DR set but buffer empty"), and only a reboot out of loopback mode     *)
(* leaves it behind, for the next driver to read away.                     *)
Announced ==
  /\ S.rx > 0 /\ ~Loop(S) /\ ~S.dlab /\ ~S.pseudo /\ ~Reading
       => "RX" \in S.cond \/ (S.fifo /\ S.timeout > 0)
  /\ ~Loop(S) => /\ S.rx > 0 => "DR" \in S.lsr
                 /\ "DR" \in S.lsr => S.rx > 0 \/ Reading

(* Set up to receive by interrupt, and left so. *)
Receiving ==
  "RX" \in S.ier /\ INT_ENAB(S) /\ ~Loop(S) /\ ~S.dlab
(* Every byte a real line gives is read: once the program has set the port *)
(* up to receive, with a trigger level, the buffer and the line run empty. *)
(* The port stops reading the terminal when its buffer is full, in         *)
(* loopback mode and at an end of file, and serial_update has to take it   *)
(* up again; with the trigger level 0 of a port whose FCR was never        *)
(* written its test "RX_BUF_BYTES < rx_fifo_trigger" is never true.        *)
EveryByteRead ==
  <>[](Receiving /\ S.trigger > 0 /\ ~S.pseudo) => <>[](S.host = 0 /\ S.rx = 0)

(* The transmitter becomes ready again after every byte, once the line     *)
(* lets it (CTS, where the host does flow control).                        *)
TransmitterReady ==
  []<>("THRE" \in S.lsr) \/ []<>(S.rtscts /\ ~S.cts)
=============================================================================
