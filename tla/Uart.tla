-------------------------------- MODULE Uart --------------------------------
(***************************************************************************)
(* The emulated 16550 of a serial port (src/src/base/serial/ser_ports.c,   *)
(* ser_irq.c, ser_init.c) on a host terminal (tty_io.c) and the interrupt  *)
(* controllers of I8259, as functions from the state before a call to the  *)
(* state after it.                                                         *)
(*                                                                         *)
(* S is com[num]: a register is the set of its bits that matter, rx and tx *)
(* count the bytes of the receive buffer and tx_cnt.  The host side of the *)
(* port is there too: host counts the bytes the line still has to give,    *)
(* queued those in the terminal's output queue, cts is its input line.     *)
(* The bytes themselves, the divisor, the line format, break and the       *)
(* scratch register are left out, and what only a reader sees: the delta   *)
(* bits of MSR, the time-out flag of IIR.  Of the modem lines RTS, CTS and *)
(* DCD are kept, and a real line has no carrier.  fifo is the flag of IIR, *)
(* fcr bit 0 of FCReg: a reset clears only the latter.  rx_fifo_size is    *)
(* never assigned and stays 0.                                             *)
(***************************************************************************)
EXTENDS I8259

CONSTANTS RxBufferSize,  \* RX_BUFFER_SIZE
          TxThreshold,   \* TX_QUEUE_THRESHOLD
          TimeoutRx,     \* TIMEOUT_RX
          Triggers,      \* the trigger levels of the FCR
          MaxBytes,      \* bound: bytes the line gives
          MaxTx          \* bound: bytes written and not yet counted out

ASSUME UartAssumption ==
  /\ RxBufferSize \in Nat \ {0} /\ TimeoutRx \in Nat \ {0}
  /\ Triggers \subseteq 1..RxBufferSize
  /\ MaxBytes \in Nat /\ TxThreshold \in Nat /\ MaxTx \in Nat

Irq == 4
Conds == {"LS", "RX", "TX", "MS"}
Errors == {"OE"}

Uart ==
  [ier : SUBSET Conds, cond : SUBSET Conds, mask : Conds \cup {"none"},
   fifo : BOOLEAN, fcr : BOOLEAN, dlab : BOOLEAN,
   mcr : SUBSET {"OUT2", "LOOP", "RTS"},
   lsr : SUBSET {"DR", "OE", "THRE", "TEMT"}, msr : SUBSET {"CTS", "DCD"},
   rx : 0..RxBufferSize, trigger : Triggers \cup {0}, timeout : 0..TimeoutRx,
   tx : 0..MaxTx, closed : BOOLEAN, pseudo : BOOLEAN, rtscts : BOOLEAN,
   host : 0..MaxBytes, queued : 0..MaxTx, cts : BOOLEAN, pic : Pics]
(* com[] is zero before the first access opens the port. *)
UartInit(pseudo, rtscts) ==
  [ier |-> {}, cond |-> {}, mask |-> "none", fifo |-> FALSE,
   fcr |-> FALSE, dlab |-> FALSE, mcr |-> {}, lsr |-> {}, msr |-> {},
   rx |-> 0, trigger |-> 0, timeout |-> 0, tx |-> 0, closed |-> FALSE,
   pseudo |-> pseudo, rtscts |-> rtscts, host |-> MaxBytes, queued |-> 0,
   cts |-> FALSE, pic |-> PicsInit]

Loop(S) == "LOOP" \in S.mcr
INT_ENAB(S) == "OUT2" \in S.mcr
INT_REQUEST(S) == S.cond \cap S.ier
Untrigger(S) == [S EXCEPT !.pic = pic_untrigger(S.pic, Irq)]

clear_int_cond(S, v) ==
  LET c == [S EXCEPT !.cond = @ \ v, !.mask = "none"]
  IN IF INT_REQUEST(c) = {} THEN Untrigger(c) ELSE c
-----------------------------------------------------------------------------
(* The engines of ser_irq.c.  transmit_engine and serial_int_engine call   *)
(* each other; the second call finds THRE set and goes no further.         *)
update_tx_cnt(S) == [S EXCEPT !.tx = S.queued]
WithoutDlab(S, v) == IF S.dlab THEN v \ {"RX", "TX"} ELSE v
Request(S, v) ==
  LET c == [S EXCEPT !.cond = @ \cup v]
  IN IF INT_ENAB(c) /\ INT_REQUEST(c) # {}
     THEN [c EXCEPT !.pic = pic_request(c.pic, Irq)] ELSE c
HoldingEmpty_mut(S) ==
  LET u == IF S.tx > TxThreshold THEN update_tx_cnt(S) ELSE S
  IN IF S.rtscts /\ ~S.cts THEN S
     ELSE IF u.tx >= TxThreshold THEN u
     ELSE Request([u EXCEPT !.lsr = @ \cup {"THRE"} \cup
                              IF u.tx = 0 THEN {"TEMT"} ELSE {}],
                  WithoutDlab(u, {"TX"}))
HoldingEmpty(S) ==
  LET u == IF S.tx > TxThreshold THEN update_tx_cnt(S) ELSE S
  IN IF S.rtscts /\ ~S.cts THEN S
     ELSE IF u.tx > TxThreshold THEN u
     ELSE Request([u EXCEPT !.lsr = @ \cup {"THRE"} \cup
                              IF u.tx = 0 THEN {"TEMT"} ELSE {}],
                  WithoutDlab(u, {"TX"}))
transmit_engine(S) ==
  LET u == IF S.tx > 0 THEN update_tx_cnt(S) ELSE S
  IN CASE "THRE" \notin S.lsr -> HoldingEmpty(S)
       [] {"THRE", "TEMT"} \subseteq S.lsr -> S
       [] OTHER -> [u EXCEPT !.lsr = IF u.tx = 0 THEN @ \cup {"TEMT"} ELSE @]
serial_int_engine(S, v) ==
  Request(IF "THRE" \in S.lsr THEN S ELSE HoldingEmpty(S), WithoutDlab(S, v))
receive_engine_mut(S) ==
  LET d == [S EXCEPT !.lsr = @ \cup {"DR"}]
  IN IF Loop(S) \/ S.rx = 0 THEN S
     ELSE IF S.fifo /\ S.rx < S.trigger THEN d
     ELSE serial_int_engine([d EXCEPT !.timeout = 0], {"RX"})
receive_engine(S) ==
  LET d == [S EXCEPT !.lsr = @ \cup {"DR"},
                     !.timeout = IF "DR" \notin S.lsr /\ S.fifo
                                 THEN TimeoutRx ELSE @]
  IN IF Loop(S) \/ S.rx = 0 THEN S
     ELSE IF S.fifo /\ S.rx < S.trigger THEN d
     ELSE serial_int_engine([d EXCEPT !.timeout = 0], {"RX"})
receive_timeouts(S) ==
  IF ~S.fifo \/ S.rx = 0 \/ S.timeout = 0 THEN S
  ELSE IF S.timeout > 1 THEN [S EXCEPT !.timeout = @ - 1]
  ELSE serial_int_engine([S EXCEPT !.timeout = 0], {"RX"})
(* The new state of CTS and DCD; a change requests an interrupt. *)
NewMsr(S, m) ==
  IF m = S.msr THEN S
  ELSE serial_int_engine([S EXCEPT !.msr = m], {"MS"})
modstat_engine(S) ==
  IF Loop(S) THEN S
  ELSE NewMsr(S, CASE S.pseudo /\ S.closed /\ S.rx = 0 -> {}
                   [] S.pseudo /\ ~(S.closed /\ S.rx = 0) -> {"CTS", "DCD"}
                   [] OTHER -> IF S.cts THEN {"CTS"} ELSE {})
-----------------------------------------------------------------------------
(* tty_uart_fill, and receive_engine when it got something.  n is what     *)
(* read() returns: -1 is EAGAIN, of a closed port only, 0 the end of file. *)
tty_uart_fill(S, n) ==
  IF Loop(S) \/ S.rx >= RxBufferSize \/ n = 0 THEN [S EXCEPT !.closed = TRUE]
  ELSE IF n = -1 THEN [S EXCEPT !.closed = FALSE]
  ELSE receive_engine([S EXCEPT !.closed = FALSE, !.rx = @ + n, !.host = @ - n])
ReadResults(S) ==
  1..Min({S.host, RxBufferSize - S.rx}) \cup IF S.closed THEN {-1} ELSE {}
serial_update_mut(S, n) ==
  modstat_engine(transmit_engine(receive_timeouts(S)))
serial_update(S, n) ==
  LET f == IF S.rx < S.trigger /\ S.closed THEN tty_uart_fill(S, n) ELSE S
  IN modstat_engine(transmit_engine(receive_timeouts(f)))
-----------------------------------------------------------------------------
(* Reading the registers. *)
uart_clear_fifo(S, which) ==
  LET r == [S EXCEPT !.lsr = @ \ (Errors \cup {"DR"}), !.rx = 0,
                     !.timeout = 0]
      a == IF "RCVR" \in which THEN clear_int_cond(r, {"LS", "RX"}) ELSE S
      t == [a EXCEPT !.lsr = @ \cup {"TEMT", "THRE"}]
  IN IF "XMIT" \in which THEN clear_int_cond(t, {"TX"}) ELSE a
get_rx(S, n) ==
  LET a == [S EXCEPT !.timeout = 0]
      f == IF a.rx = 0 /\ a.closed THEN tty_uart_fill(a, n) ELSE a
      b == receive_engine(clear_int_cond([f EXCEPT !.rx = @ - 1], {"RX"}))
  IN IF f.rx = 0 THEN [f EXCEPT !.lsr = @ \ {"DR"}]
     ELSE [b EXCEPT !.lsr = IF b.rx = 0 THEN @ \ {"DR"} ELSE @]
get_msr(S) == clear_int_cond(modstat_engine(S), {"MS"})
get_lsr(S) == [clear_int_cond(S, {"LS"}) EXCEPT !.lsr = @ \ Errors]
(* The cause that is found first, and the reading of IIR.  The test of the *)
(* code for THRI holds for RLSI too, whose code has the same bit.          *)
recalc_IIR_mut(S) ==
  LET r == INT_REQUEST(S)
  IN CASE "LS" \in r -> "LS" [] "RX" \in r -> "RX" [] "TX" \in r -> "TX"
       [] OTHER -> "none"
recalc_IIR(S) ==
  LET r == INT_REQUEST(S)
  IN CASE "LS" \in r -> "LS" [] "RX" \in r -> "RX" [] "TX" \in r -> "TX"
       [] "MS" \in r -> "MS" [] OTHER -> "none"
IIR(S) == IF S.mask = "none" THEN recalc_IIR(S) ELSE S.mask
get_iir(S) ==
  IF IIR(S) \in {"TX", "LS"} THEN clear_int_cond(S, {"TX"})
  ELSE [S EXCEPT !.mask = IIR(S)]
-----------------------------------------------------------------------------
(* Writing the registers.  ok tells whether write() takes the byte. *)
Loopback(S) ==
  LET a == [S EXCEPT !.timeout = 0]
      over == [a EXCEPT !.lsr = @ \cup {"OE"}]
      b == [a EXCEPT !.rx = @ + 1]
  IN CASE S.fifo ->
            [serial_int_engine(over, {"LS"}) EXCEPT !.lsr = @ \cup {"DR"}]
       [] ~S.fifo /\ "DR" \in S.lsr ->
            serial_int_engine([b EXCEPT !.lsr = @ \cup {"OE"}], {"LS"})
       [] OTHER -> serial_int_engine([b EXCEPT !.lsr = @ \cup {"DR"}], {"RX"})
put_tx(S, ok) ==
  LET c == clear_int_cond(S, {"TX"})
      w == [c EXCEPT !.lsr = @ \ {"THRE", "TEMT"}, !.tx = @ + 1,
                     !.queued = @ + 1]
  IN CASE Loop(S) -> Loopback(c)
       [] ~Loop(S) /\ ~S.fifo /\ "THRE" \notin S.lsr -> c
       [] OTHER -> transmit_engine(IF ok THEN w ELSE c)
put_ier(S, v) ==
  LET new == "TX" \in v \ S.ier
      a == [S EXCEPT !.ier = v, !.cond = IF new THEN @ \cup {"TX"} ELSE @]
      b == IF INT_REQUEST(a) = {} THEN Untrigger(a) ELSE a
  IN IF new THEN serial_int_engine(b, {}) ELSE b
put_fcr(S, enable, which, level) ==
  LET clear == IF enable /\ S.fcr THEN which ELSE {"RCVR", "XMIT"}
  IN [uart_clear_fifo(S, clear)
        EXCEPT !.fifo = enable, !.fcr = enable,
               !.trigger = IF enable THEN level ELSE @]
(* Only the DLAB bit of LCR changes. *)
put_lcr(S, dlab) ==
  LET a == [S EXCEPT !.dlab = dlab]
  IN IF S.dlab /\ ~dlab /\ ~S.pseudo
     THEN uart_clear_fifo(a, {"RCVR", "XMIT"}) ELSE a
put_mcr(S, v) ==
  LET m == [S EXCEPT !.mcr = v]
      c == IF Loop(S) # Loop(m) /\ S.fifo
           THEN uart_clear_fifo(m, {"RCVR", "XMIT"}) ELSE m
      in == (IF "RTS" \in v THEN {"CTS"} ELSE {})
              \cup (IF "OUT2" \in v THEN {"DCD"} ELSE {})
  IN IF Loop(m) THEN NewMsr(c, in)
     ELSE IF INT_ENAB(c) THEN serial_int_engine(c, {}) ELSE Untrigger(c)
put_lsr(S, v) ==
  LET a == [S EXCEPT !.lsr = v]
      errs == IF v \cap Errors = {} THEN {"LS"} ELSE {}
      off == errs \cup (IF "DR" \in v THEN {} ELSE {"RX"})
                  \cup (IF "THRE" \in v THEN {} ELSE {"TX"})
      on == {"LS", "RX", "TX"} \ off
      b == [clear_int_cond(a, off)
              EXCEPT !.lsr = (@ \ {"TEMT"}) \cup
                             IF "THRE" \in v THEN {"TEMT"} ELSE {}]
  IN receive_engine(IF on = {} THEN b ELSE serial_int_engine(b, on))
(* d tells whether a delta bit is written. *)
put_msr(S, d) == IF d THEN serial_int_engine(S, {"MS"}) ELSE S
(* Every write ends with this. *)
do_serial_out(S) == serial_int_engine(S, {})
(* serial_reset, and pic_reset that follows it (dev_list.c). *)
serial_reset(S) ==
  [S EXCEPT !.ier = {}, !.dlab = FALSE, !.fcr = FALSE, !.mcr = {},
            !.pic = pic_reset(@)]
=============================================================================
