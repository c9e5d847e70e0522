------------------------------- MODULE I8259 -------------------------------
(***************************************************************************)
(* The two interrupt controllers (src/src/base/dev/pic/i8259.c and         *)
(* pic.c) as functions from the state before a call to the state after it. *)
(* Every call runs under pic_mtx, so each is one step of a specification.  *)
(*                                                                         *)
(* P.m and P.s are the master and the slave; a register is the set of its  *)
(* bits.  P.out is the level last given to set_int_out.  The slave's       *)
(* output is line 2 of the master.  The vector bases and the choice of     *)
(* the register a read returns are left out: no other code depends on      *)
(* them and an interrupt is named by its controller and line.              *)
(***************************************************************************)
EXTENDS Integers, FiniteSetsExt

Line == 0..7
Byte == 0..255
None == -1
(* Bit k of a byte, and the register value of a byte. *)
Bit(v, k) == (v \div 2^k) % 2 = 1
BitSet(v) == {k \in Line : Bit(v, k)}

Controller ==
  [irr : SUBSET Line, last_irr : SUBSET Line, imr : SUBSET Line,
   isr : SUBSET Line, elcr : SUBSET Line, fake_irr : SUBSET Line,
   priority_add : Line, poll : BOOLEAN, special_mask : BOOLEAN,
   auto_eoi : BOOLEAN, rotate_on_auto_eoi : BOOLEAN, sfnm : BOOLEAN,
   init_state : 0..3, init4 : BOOLEAN, single_mode : BOOLEAN]
Pics == [m : Controller, s : Controller, out : BOOLEAN]

Zeroed ==
  [irr |-> {}, last_irr |-> {}, imr |-> {}, isr |-> {}, elcr |-> {},
   fake_irr |-> {}, priority_add |-> 0, poll |-> FALSE,
   special_mask |-> FALSE, auto_eoi |-> FALSE, rotate_on_auto_eoi |-> FALSE,
   sfnm |-> FALSE, init_state |-> 0, init4 |-> FALSE, single_mode |-> FALSE]
(* After pic_init and pic_reset. *)
PicsInit == [m |-> Zeroed, s |-> Zeroed, out |-> FALSE]

(* Rank of a line, 0 the most urgent; the rank found in a mask, 8 if none. *)
Rank(c, i) == (i + 8 - c.priority_add) % 8
get_priority(c, mask) ==
  IF mask = {} THEN 8 ELSE Min({Rank(c, i) : i \in mask})
LineOfRank(c, r) == (r + c.priority_add) % 8

InService(c, master) ==
  (c.isr \ (IF c.special_mask THEN c.imr ELSE {}))
         \ (IF c.sfnm /\ master THEN {2} ELSE {})
(* The line the controller wants to interrupt with, or None. *)
pic_get_irq(c, master) ==
  LET r == get_priority(c, c.irr \ c.imr)
  IN IF r < get_priority(c, InService(c, master))
     THEN LineOfRank(c, r) ELSE None

Wants(P, which) ==
  IF which = "m" THEN pic_get_irq(P.m, TRUE) # None
                 ELSE pic_get_irq(P.s, FALSE) # None

(* The registers after an input line changes: an edge requests, a level    *)
(* line requests while it is high, and lowering withdraws in both modes.   *)
SetLine_mut(c, i, level) ==
  IF level
  THEN [c EXCEPT !.last_irr = @ \cup {i},
                 !.irr = IF i \in c.last_irr /\ i \notin c.elcr
                         THEN @ ELSE @ \cup {i}]
  ELSE [c EXCEPT !.last_irr = @ \ {i},
                 !.irr = IF i \in c.elcr THEN @ \ {i} ELSE @]
SetLine(c, i, level) ==
  IF level
  THEN [c EXCEPT !.last_irr = @ \cup {i},
                 !.irr = IF i \in c.last_irr /\ i \notin c.elcr
                         THEN @ ELSE @ \cup {i}]
  ELSE [c EXCEPT !.last_irr = @ \ {i}, !.irr = @ \ {i}]

(* Update the INT output: of the master to the CPU; of the slave through   *)
(* set_irq_level to line 2 of the master, whose output is updated in turn. *)
OutOfMaster(P) == [P EXCEPT !.out = Wants(P, "m")]
pic_update_irq(P, which) ==
  IF which = "m" THEN OutOfMaster(P)
  ELSE OutOfMaster([P EXCEPT !.m = SetLine(P.m, 2, Wants(P, "s"))])

pic_set_irq(P, which, i, level) ==
  pic_update_irq([P EXCEPT ![which] = SetLine(P[which], i, level)], which)
(* pic_request and pic_untrigger with the system's IRQ number. *)
SetIrq(P, irq, level) ==
  IF irq >= 8 THEN pic_set_irq(P, "s", irq - 8, level)
              ELSE pic_set_irq(P, "m", irq, level)
pic_request(P, irq) == SetIrq(P, irq, TRUE)
pic_untrigger(P, irq) == SetIrq(P, irq, FALSE)

(* Acknowledge line i.  The poll extension passes any byte as i: only the  *)
(* low five bits reach the shift and a register keeps eight bits.          *)
Acked(c, i) ==
  LET b == {i % 32} \cap Line
  IN [c EXCEPT !.isr = IF c.auto_eoi THEN @ ELSE @ \cup b,
               !.priority_add = IF c.auto_eoi /\ c.rotate_on_auto_eoi
                                THEN (i + 1) % 8 ELSE @,
               !.irr = @ \ (b \ c.elcr)]
pic_intack(P, which, i) ==
  pic_update_irq([P EXCEPT ![which] = Acked(P[which], i)], which)

(* pic_read_irq: the interrupt the CPU is given, and the controllers after *)
(* it took it.  A controller that wants nothing answers line 7.            *)
Vector(P) ==
  LET i == pic_get_irq(P.m, TRUE)
      j == pic_get_irq(P.s, FALSE)
  IN IF i = None THEN <<"m", 7>>
     ELSE IF i # 2 THEN <<"m", i>>
     ELSE <<"s", IF j = None THEN 7 ELSE j>>
pic_read_irq(P) ==
  LET i == pic_get_irq(P.m, TRUE)
      j == pic_get_irq(P.s, FALSE)
      Q == IF i = 2 /\ j # None THEN pic_intack(P, "s", j) ELSE P
  IN IF i = None THEN P ELSE pic_intack(Q, "m", i)

(* pic_reset_common keeps the level-triggered requests and the ELCR. *)
pic_init_reset(P, which) ==
  pic_update_irq(
    [P EXCEPT ![which] = [Zeroed EXCEPT !.irr = P[which].irr \cap P[which].elcr,
                                        !.elcr = P[which].elcr]], which)
(* qemu_pic_reset of both, in the order of pic_reset. *)
pic_reset(P) ==
  LET Q == pic_init_reset([P EXCEPT !.m.elcr = {}], "m")
  IN pic_init_reset([Q EXCEPT !.s.elcr = {}], "s")

(* OCW2: the bits 5-7 are the command, the bits 0-2 the line it names. *)
EndService_mut(P, which, i, rotate) ==
  [P EXCEPT ![which].isr = @ \ {i},
            ![which].priority_add = IF rotate THEN (i + 1) % 8 ELSE @]
EndService(P, which, i, rotate) ==
  pic_update_irq(
    [P EXCEPT ![which].isr = @ \ {i},
              ![which].priority_add = IF rotate THEN (i + 1) % 8 ELSE @], which)
NonspecificEoi_mut(P, which, rotate) ==
  IF P[which].isr = {} THEN P
  ELSE EndService(P, which, Max(P[which].isr), rotate)
NonspecificEoi(P, which, rotate) ==
  LET r == get_priority(P[which], P[which].isr)
  IN IF r = 8 THEN P
     ELSE EndService(P, which, LineOfRank(P[which], r), rotate)
WriteOcw2(P, which, v) ==
  LET cmd == v \div 32
  IN CASE cmd \in {0, 4} -> [P EXCEPT ![which].rotate_on_auto_eoi = (cmd = 4)]
       [] cmd \in {1, 5} -> NonspecificEoi(P, which, cmd = 5)
       [] cmd \in {3, 7} -> EndService(P, which, v % 8, cmd = 7)
       [] cmd = 6 ->
            pic_update_irq([P EXCEPT ![which].priority_add = (v + 1) % 8], which)
       [] OTHER -> P
(* OCW3: poll and special mask mode; neither updates the INT output. *)
WriteOcw3(P, which, v) ==
  [P EXCEPT ![which].poll = @ \/ Bit(v, 2),
            ![which].special_mask = IF Bit(v, 6) THEN Bit(v, 5) ELSE @]
WriteIcw1(P, which, v) ==
  LET Q == pic_init_reset(P, which)
  IN [Q EXCEPT ![which].init_state = 1, ![which].init4 = Bit(v, 0),
               ![which].single_mode = Bit(v, 1)]
WriteCommand(P, which, v) ==
  IF Bit(v, 4) THEN WriteIcw1(P, which, v)
  ELSE IF Bit(v, 3) THEN WriteOcw3(P, which, v)
  ELSE WriteOcw2(P, which, v)
(* The data port: the mask, or the rest of the initialization. *)
WriteData(P, which, v) ==
  LET c == P[which]
      after2 == IF c.init4 THEN 3 ELSE 0
  IN CASE c.init_state = 0 ->
            pic_update_irq([P EXCEPT ![which].imr = BitSet(v)], which)
       [] c.init_state = 1 ->
            [P EXCEPT ![which].init_state = IF c.single_mode THEN after2 ELSE 2]
       [] c.init_state = 2 -> [P EXCEPT ![which].init_state = after2]
       [] OTHER -> [P EXCEPT ![which].sfnm = Bit(v, 4),
                             ![which].auto_eoi = Bit(v, 1),
                             ![which].init_state = 0]
(* A write to either port: in poll mode it acknowledges the line v. *)
pic_ioport_write(P, which, addr, v) ==
  IF P[which].poll
  THEN [pic_intack([P EXCEPT ![which].fake_irr = @ \ {v % 32}], which, v)
          EXCEPT ![which].poll = FALSE]
  ELSE IF addr = 0 THEN WriteCommand(P, which, v) ELSE WriteData(P, which, v)
(* A read changes something only as the answer to a poll. *)
pic_ioport_read(P, which, addr) ==
  LET i == pic_get_irq(P[which], which = "m")
      Q == IF i # None THEN pic_intack(P, which, i) ELSE P
  IN IF P[which].poll /\ addr = 0 THEN [Q EXCEPT ![which].poll = FALSE] ELSE P
(* Bits the ELCR keeps; its write does not update the INT output either. *)
elcr_mask == [m |-> 3..7, s |-> {1, 2, 3, 4, 6, 7}]
elcr_ioport_write(P, which, v) ==
  [P EXCEPT ![which].elcr = BitSet(v) \cap elcr_mask[which]]
write_firr(P, which, v) == [P EXCEPT ![which].fake_irr = BitSet(v)]

(* What pic_update_irq is there to keep: each output is what the           *)
(* controller wants.                                                       *)
OutCurrent(P) == P.out = Wants(P, "m")
CascadeCurrent(P) == (2 \in P.m.last_irr) = Wants(P, "s")
=============================================================================
