----------------------------- MODULE PicProofs -----------------------------
(***************************************************************************)
(* For any devices, masks and trigger modes, and for a DOS that ends       *)
(* interrupts in any way, rotates or sets priorities and selects the       *)
(* register to read, but leaves the poll, special mask and initialization  *)
(* commands alone: the outputs of the controllers are current, no request  *)
(* of the slave is lost, spurious interrupts have a cause, and a           *)
(* nonspecific EOI ends the latest interrupt.                              *)
(***************************************************************************)
EXTENDS Pic, I8259Lemmas

(* A controller in the mode the BIOS leaves it in: fully nested, edge or   *)
(* level triggered, no automatic EOI, no special mask mode, no poll.       *)
Plain(c) ==
  /\ c \in Controller
  /\ ~c.poll /\ ~c.special_mask /\ ~c.auto_eoi /\ ~c.sfnm /\ c.init_state = 0
(* Line 2 of the master is an edge-triggered line and is requested as long *)
(* as its level is high.                                                   *)
Base(P) ==
  /\ P \in Pics /\ Plain(P.m) /\ Plain(P.s)
  /\ 2 \notin P.m.elcr /\ (2 \in P.m.irr <=> 2 \in P.m.last_irr)
Good(P) == Base(P) /\ OutCurrent(P) /\ CascadeCurrent(P)

(* pic_set_irq on one line: the level is remembered, a rising edge or a    *)
(* high level requests, lowering withdraws, nothing else changes.          *)
LEMMA PlainSetLine ==
  ASSUME NEW c, Plain(c), NEW i \in Line, NEW b \in BOOLEAN
  PROVE  LET d == SetLine(c, i, b)
         IN /\ Plain(d)
            /\ d.elcr = c.elcr /\ d.imr = c.imr /\ d.isr = c.isr
            /\ d.priority_add = c.priority_add
            /\ d.irr \ {i} = c.irr \ {i} /\ d.last_irr \ {i} = c.last_irr \ {i}
            /\ i \in d.last_irr <=> b
            /\ ~b => i \notin d.irr
            /\ b /\ (i \in c.last_irr => i \in c.irr) => i \in d.irr
            /\ b => c.irr \subseteq d.irr
BY Zenon DEF Plain, SetLine, Controller

(* pic_update_irq of the master makes its output current. *)
LEMMA UpdateMaster ==
  ASSUME NEW P, Base(P), CascadeCurrent(P)
  PROVE  LET Q == pic_update_irq(P, "m")
         IN Good(Q) /\ Q.m = P.m /\ Q.s = P.s
<1> DEFINE Q == [P EXCEPT !.out = Wants(P, "m")]
<1>1. Q = pic_update_irq(P, "m")
  BY Zenon DEF pic_update_irq, OutOfMaster
<1>2. Q \in Pics /\ Q.m = P.m /\ Q.s = P.s /\ Q.out = Wants(P, "m")
  <2>1. P \in Pics /\ Wants(P, "m") \in BOOLEAN
    BY WantsType, Zenon DEF Base
  <2> QED BY <2>1, ReplaceOut, Zenon
<1> HIDE DEF Q
<1>3. Wants(Q, "m") = Wants(P, "m") /\ Wants(Q, "s") = Wants(P, "s")
  BY <1>2, WantsType, Zenon
<1>4. Base(Q) /\ OutCurrent(Q) /\ CascadeCurrent(Q)
  BY <1>2, <1>3, Zenon DEF Base, OutCurrent, CascadeCurrent
<1> QED BY <1>1, <1>2, <1>4, Zenon DEF Good

(* pic_update_irq of the slave drives line 2 of the master and then makes  *)
(* the output of the master current.                                       *)
LEMMA UpdateSlave ==
  ASSUME NEW P, Base(P)
  PROVE  LET Q == pic_update_irq(P, "s")
         IN /\ Good(Q) /\ Q.s = P.s /\ Q.m = SetLine(P.m, 2, Wants(P, "s"))
            /\ 2 \in Q.m.irr <=> Wants(P, "s")
<1> DEFINE d == SetLine(P.m, 2, Wants(P, "s"))
           R == [P EXCEPT !.m = d]
<1>1. pic_update_irq(P, "s") = OutOfMaster(R)
  BY Zenon DEF pic_update_irq
<1>2. Plain(P.m) /\ Wants(P, "s") \in BOOLEAN /\ 2 \in Line
  BY WantsType DEF Base, Line
<1>3. /\ Plain(d) /\ d.elcr = P.m.elcr /\ (2 \in d.last_irr <=> Wants(P, "s"))
      /\ 2 \in d.irr <=> Wants(P, "s")
  BY <1>2, PlainSetLine DEF Base
<1> HIDE DEF d
<1>4. R \in Pics /\ R.m = d /\ R.s = P.s
  <2>1. P \in Pics /\ d \in Controller
    BY <1>3, Zenon DEF Base, Plain
  <2> QED BY <2>1, Replace, Zenon
<1> HIDE DEF R
<1>5. Wants(R, "s") = Wants(P, "s")
  BY <1>4, WantsType, Zenon
<1>6. Base(R) /\ CascadeCurrent(R)
  <2>1. Plain(R.m) /\ Plain(R.s) /\ 2 \notin R.m.elcr
    BY <1>3, <1>4, Zenon DEF Base
  <2> QED BY <2>1, <1>3, <1>4, <1>5, <1>2 DEF Base, CascadeCurrent
<1>7. pic_update_irq(R, "m") = OutOfMaster(R)
  BY Zenon DEF pic_update_irq
<1>8. Good(OutOfMaster(R)) /\ OutOfMaster(R).m = R.m /\ OutOfMaster(R).s = R.s
  BY <1>6, <1>7, UpdateMaster, Zenon
<1> QED BY <1>1, <1>3, <1>4, <1>8, Zenon DEF d

(* Storing new registers of the master, with line 2 left to the slave, and *)
(* updating its output.                                                    *)
LEMMA StoreMaster ==
  ASSUME NEW P, Good(P), NEW c, Plain(c), 2 \notin c.elcr,
         2 \in c.irr <=> 2 \in P.m.irr, 2 \in c.last_irr <=> 2 \in P.m.last_irr
  PROVE  LET Q == pic_update_irq([P EXCEPT !.m = c], "m")
         IN Good(Q) /\ Q.m = c /\ Q.s = P.s
<1> DEFINE R == [P EXCEPT !.m = c]
<1>1. R \in Pics /\ R.m = c /\ R.s = P.s
  <2>1. P \in Pics /\ c \in Controller
    BY Zenon DEF Good, Base, Plain
  <2> QED BY <2>1, Replace, Zenon
<1> HIDE DEF R
<1>2. Wants(R, "s") = Wants(P, "s")
  BY <1>1, WantsType, Zenon
<1>3. Base(R) /\ CascadeCurrent(R)
  BY <1>1, <1>2 DEF Good, Base, CascadeCurrent
<1>4. LET Q == pic_update_irq(R, "m") IN Good(Q) /\ Q.m = R.m /\ Q.s = R.s
  BY <1>3, UpdateMaster, Zenon
<1> QED BY <1>1, <1>4, Zenon DEF R

(* Storing new registers of the slave and updating its output changes line *)
(* 2 of the master and nothing else of it.                                 *)
LEMMA StoreSlave ==
  ASSUME NEW P, Good(P), NEW c, Plain(c)
  PROVE  LET Q == pic_update_irq([P EXCEPT !.s = c], "s")
         IN /\ Good(Q) /\ Q.s = c
            /\ Q.m.isr = P.m.isr /\ Q.m.imr = P.m.imr
            /\ Q.m.priority_add = P.m.priority_add /\ Q.m.elcr = P.m.elcr
            /\ Q.m.irr \ {2} = P.m.irr \ {2}
            /\ 2 \in Q.m.irr <=> Wants(Q, "s")
<1> DEFINE R == [P EXCEPT !.s = c]
           Q == pic_update_irq(R, "s")
<1>1. R \in Pics /\ R.s = c /\ R.m = P.m
  <2>1. P \in Pics /\ c \in Controller
    BY Zenon DEF Good, Base, Plain
  <2> QED BY <2>1, Replace, Zenon
<1> HIDE DEF R
<1>2. Base(R)
  BY <1>1, Zenon DEF Good, Base
<1>3. /\ Good(Q) /\ Q.s = R.s /\ Q.m = SetLine(P.m, 2, Wants(R, "s"))
      /\ 2 \in Q.m.irr <=> Wants(R, "s")
  BY <1>1, <1>2, UpdateSlave, Zenon
<1> HIDE DEF Q
<1>4. Wants(Q, "s") = Wants(R, "s") /\ Wants(R, "s") \in BOOLEAN
  BY <1>3, WantsType, Zenon
<1>5. /\ Q.m.isr = P.m.isr /\ Q.m.imr = P.m.imr /\ Q.m.elcr = P.m.elcr
      /\ Q.m.priority_add = P.m.priority_add /\ Q.m.irr \ {2} = P.m.irr \ {2}
  <2>1. Plain(P.m) /\ 2 \in Line
    BY DEF Good, Base, Line
  <2> QED BY <2>1, <1>3, <1>4, PlainSetLine
<1> QED BY <1>1, <1>3, <1>4, <1>5, Zenon DEF R, Q

-----------------------------------------------------------------------------
(* A plain controller wants an interrupt exactly when an unmasked request  *)
(* is more urgent than everything in service.                              *)
LEMMA WantsIff ==
  ASSUME NEW c, Plain(c), NEW b \in BOOLEAN
  PROVE  /\ (pic_get_irq(c, b) # None) <=>
              \E k \in c.irr \ c.imr : \A i \in c.isr : Rank(c, k) < Rank(c, i)
         /\ pic_get_irq(c, b) # None =>
              /\ pic_get_irq(c, b) \in (c.irr \ c.imr) \cap Line
              /\ \A k \in c.irr \ c.imr : Rank(c, pic_get_irq(c, b)) <= Rank(c, k)
              /\ \A i \in c.isr : Rank(c, pic_get_irq(c, b)) < Rank(c, i)
<1>1. /\ c.priority_add \in Line /\ c.irr \subseteq Line /\ c.isr \subseteq Line
      /\ ~c.special_mask /\ ~c.sfnm
  BY Zenon DEF Plain, Controller
<1>2. InService(c, b) = c.isr
  BY <1>1, Zenon DEF InService
<1>3. /\ pic_get_irq(c, b) # None =>
           /\ pic_get_irq(c, b) \in c.irr \ c.imr
           /\ \A k \in c.irr \ c.imr : Rank(c, pic_get_irq(c, b)) <= Rank(c, k)
           /\ \A i \in c.isr : Rank(c, pic_get_irq(c, b)) < Rank(c, i)
      /\ pic_get_irq(c, b) = None =>
           \A k \in c.irr \ c.imr : \E i \in c.isr : Rank(c, i) <= Rank(c, k)
  BY <1>1, <1>2, GetIrq, Zenon
<1>4. \A k \in c.irr \cup c.isr : Rank(c, k) \in 0..7
  BY <1>1, RankOfLine, Zenon DEF Line
<1> QED BY <1>1, <1>3, <1>4

(* More requests do not make a controller want less. *)
LEMMA WantsMonotone ==
  ASSUME NEW c, Plain(c), NEW d, Plain(d), NEW b \in BOOLEAN,
         d.isr = c.isr, d.imr = c.imr, d.priority_add = c.priority_add,
         c.irr \subseteq d.irr, pic_get_irq(c, b) # None
  PROVE  pic_get_irq(d, b) # None
<1>1. \A i : Rank(d, i) = Rank(c, i)
  BY Zenon DEF Rank
<1>2. PICK k \in c.irr \ c.imr : \A i \in c.isr : Rank(c, k) < Rank(c, i)
  BY WantsIff, Zenon
<1>3. k \in d.irr \ d.imr /\ \A i \in d.isr : Rank(d, k) < Rank(d, i)
  BY <1>1, <1>2, Zenon
<1> QED BY <1>3, WantsIff, Zenon

(* pic_intack: the line enters the ISR and, unless it is a level line,     *)
(* leaves the IRR.                                                         *)
LEMMA AckedPlain ==
  ASSUME NEW c, Plain(c), NEW i \in Line
  PROVE  LET d == Acked(c, i)
         IN /\ Plain(d) /\ d.isr = c.isr \cup {i} /\ d.irr = c.irr \ ({i} \ c.elcr)
            /\ d.imr = c.imr /\ d.elcr = c.elcr /\ d.last_irr = c.last_irr
            /\ d.priority_add = c.priority_add
<1>0. i % 32 = i
  BY DEF Line
<1>1. {i % 32} \cap Line = {i}
  BY <1>0, Zenon
<1>2. ~c.auto_eoi
  BY Zenon DEF Plain
<1>3. Acked(c, i) = [c EXCEPT !.isr = @ \cup {i}, !.priority_add = @,
                              !.irr = @ \ ({i} \ c.elcr)]
  BY <1>1, <1>2, Zenon DEF Acked
<1> DEFINE d == Acked(c, i)
<1>4. c \in Controller /\ c.isr \cup {i} \in SUBSET Line
      /\ c.irr \ ({i} \ c.elcr) \in SUBSET Line
  BY Zenon DEF Plain, Controller
<1>5. /\ d.isr = c.isr \cup {i} /\ d.irr = c.irr \ ({i} \ c.elcr)
      /\ d.imr = c.imr /\ d.elcr = c.elcr /\ d.last_irr = c.last_irr
      /\ d.priority_add = c.priority_add
  BY <1>3, <1>4, Zenon DEF Controller
<1>6. Plain(d)
  BY <1>3, <1>4, Zenon DEF Plain, Controller
<1> QED BY <1>5, <1>6, Zenon

(* Once its choice is acknowledged a controller wants nothing more. *)
LEMMA AckedQuiet ==
  ASSUME NEW c, Plain(c), NEW b \in BOOLEAN, pic_get_irq(c, b) # None
  PROVE  pic_get_irq(Acked(c, pic_get_irq(c, b)), b) = None
<1> DEFINE j == pic_get_irq(c, b)
           d == Acked(c, j)
<1>1. /\ j \in (c.irr \ c.imr) \cap Line
      /\ \A k \in c.irr \ c.imr : Rank(c, j) <= Rank(c, k)
  BY WantsIff, Zenon
<1> HIDE DEF j
<1>2. /\ Plain(d) /\ d.isr = c.isr \cup {j} /\ d.irr \subseteq c.irr
      /\ d.imr = c.imr /\ d.priority_add = c.priority_add
  BY <1>1, AckedPlain, Zenon
<1> HIDE DEF d
<1>3. \A i : Rank(d, i) = Rank(c, i)
  BY <1>2, Zenon DEF Rank
<1>4. \A k \in c.irr : Rank(c, k) \in 0..7
  BY RankOfLine, Zenon DEF Plain, Controller, Line
<1>5. ASSUME NEW k \in d.irr \ d.imr, \A i \in d.isr : Rank(d, k) < Rank(d, i)
      PROVE  FALSE
  <2>1. Rank(c, k) < Rank(c, j) /\ Rank(c, j) <= Rank(c, k)
    BY <1>1, <1>2, <1>3, <1>5
  <2> QED BY <2>1, <1>1, <1>2, <1>4
<1> QED BY <1>2, <1>5, WantsIff, Zenon DEF d, j

(* While the output is current, line 2 of the master is requested exactly  *)
(* when the slave wants an interrupt.                                      *)
LEMMA CascadeLine ==
  ASSUME NEW P, Good(P)
  PROVE  /\ 2 \in P.m.irr <=> Wants(P, "s")
         /\ Wants(P, "m") <=> pic_get_irq(P.m, TRUE) # None
         /\ Wants(P, "s") <=> pic_get_irq(P.s, FALSE) # None
         /\ Plain(P.m) /\ Plain(P.s)
BY WantsType, Zenon DEF Good, Base, CascadeCurrent, Wants

(* pic_request and pic_untrigger keep the outputs current; they touch no   *)
(* interrupt in service, and a request does not make the master want less. *)
LEMMA SetIrqGood ==
  ASSUME NEW P, Good(P), NEW q \in (0..15) \ {2}, NEW b \in BOOLEAN
  PROVE  LET Q == SetIrq(P, q, b)
         IN /\ Good(Q)
            /\ Q.m.isr = P.m.isr /\ Q.m.priority_add = P.m.priority_add
            /\ Q.s.isr = P.s.isr /\ Q.s.priority_add = P.s.priority_add
            /\ b /\ Wants(P, "m") => Wants(Q, "m")
<1> DEFINE Q == SetIrq(P, q, b)
<1>1. CASE q < 8
  <2> DEFINE c == SetLine(P.m, q, b)
  <2>0. q \in Line
    BY <1>1 DEF Line
  <2>1. q \in Line /\ Plain(P.m)
    BY <2>0, CascadeLine, Zenon
  <2>2. /\ Plain(c) /\ c.elcr = P.m.elcr /\ c.imr = P.m.imr /\ c.isr = P.m.isr
        /\ c.priority_add = P.m.priority_add /\ (b => P.m.irr \subseteq c.irr)
        /\ c.irr \ {q} = P.m.irr \ {q} /\ c.last_irr \ {q} = P.m.last_irr \ {q}
    BY <2>1, PlainSetLine
  <2>3. Q = pic_update_irq([P EXCEPT !.m = c], "m")
    <3>1. ~(q >= 8)
      BY <1>1
    <3> QED BY <3>1, Zenon DEF SetIrq, pic_set_irq
  <2> HIDE DEF c, Q
  <2>4. /\ 2 \notin c.elcr /\ (2 \in c.irr <=> 2 \in P.m.irr)
        /\ (2 \in c.last_irr <=> 2 \in P.m.last_irr)
    BY <2>2, Zenon DEF Good, Base
  <2>5. Good(Q) /\ Q.m = c /\ Q.s = P.s
    BY <2>2, <2>3, <2>4, StoreMaster
  <2>6. b /\ Wants(P, "m") => Wants(Q, "m")
    BY <2>1, <2>2, <2>5, CascadeLine, WantsMonotone, Zenon
  <2> QED BY <2>2, <2>5, <2>6, Zenon DEF Q
<1>2. CASE ~(q < 8)
  <2> DEFINE c == SetLine(P.s, q - 8, b)
  <2>0. q - 8 \in Line
    BY <1>2 DEF Line
  <2>1. q - 8 \in Line /\ Plain(P.s)
    BY <2>0, CascadeLine, Zenon
  <2>2. /\ Plain(c) /\ c.imr = P.s.imr /\ c.isr = P.s.isr
        /\ c.priority_add = P.s.priority_add /\ (b => P.s.irr \subseteq c.irr)
    BY <2>1, PlainSetLine
  <2>3. Q = pic_update_irq([P EXCEPT !.s = c], "s")
    BY <1>2 DEF SetIrq, pic_set_irq
  <2> HIDE DEF c, Q
  <2>4. /\ Good(Q) /\ Q.s = c /\ Q.m.isr = P.m.isr /\ Q.m.imr = P.m.imr
        /\ Q.m.priority_add = P.m.priority_add /\ Q.m.irr \ {2} = P.m.irr \ {2}
        /\ 2 \in Q.m.irr <=> Wants(Q, "s")
    BY <2>2, <2>3, StoreSlave
  <2>5. ASSUME b, Wants(P, "m") PROVE Wants(Q, "m")
    <3>0. pic_get_irq(P.s, FALSE) # None => pic_get_irq(c, FALSE) # None
      BY <2>1, <2>2, <2>5, WantsMonotone, Zenon
    <3>1. Wants(P, "s") => Wants(Q, "s")
      BY <2>4, <3>0, CascadeLine, Zenon
    <3>2. P.m.irr \subseteq Q.m.irr
      BY <2>4, <3>1, CascadeLine, Zenon
    <3> QED BY <2>4, <2>5, <3>2, CascadeLine, WantsMonotone, Zenon
  <2> QED BY <2>2, <2>4, <2>5, Zenon DEF Q
<1> QED BY <1>1, <1>2, Zenon

(* pic_read_irq gives the CPU the choice of the master, or, through line   *)
(* 2, the choice of the slave, which has one: the slave is acknowledged,   *)
(* stops wanting, lowers line 2, and then the master is acknowledged.      *)
LEMMA ReadIrqGood ==
  ASSUME NEW P, Good(P)
  PROVE  LET i == pic_get_irq(P.m, TRUE)
             j == pic_get_irq(P.s, FALSE)
             Q == pic_read_irq(P)
         IN /\ Good(Q)
            /\ Q.m.priority_add = P.m.priority_add
            /\ Q.s.priority_add = P.s.priority_add
            /\ ~Wants(P, "m") => Q = P /\ Vector(P)[1] = "m"
            /\ Wants(P, "m") /\ i # 2 =>
                 /\ Q.m.isr = P.m.isr \cup {i} /\ Q.s.isr = P.s.isr
                 /\ Vector(P)[1] = "m"
            /\ Wants(P, "m") /\ i = 2 =>
                 /\ Q.m.isr = P.m.isr \cup {2} /\ Q.s.isr = P.s.isr \cup {j}
                 /\ Vector(P)[1] = "s" /\ Wants(P, "s")
<1> DEFINE i == pic_get_irq(P.m, TRUE)
           j == pic_get_irq(P.s, FALSE)
           Q == pic_read_irq(P)
<1>0. /\ Plain(P.m) /\ Plain(P.s)
      /\ 2 \in P.m.irr <=> Wants(P, "s")
      /\ Wants(P, "m") <=> i # None
      /\ Wants(P, "s") <=> j # None
  BY CascadeLine, Zenon
<1>1. CASE i = None
  BY <1>0, <1>1, Zenon DEF pic_read_irq, Vector
<1>2. i # None => i \in P.m.irr /\ i \in Line
  BY <1>0, WantsIff, Zenon
<1>3. j # None => j \in Line
  BY <1>0, WantsIff, Zenon
<1>4. CASE i # None /\ i # 2
  <2> DEFINE c == Acked(P.m, i)
  <2>1. Q = pic_update_irq([P EXCEPT !.m = c], "m") /\ Vector(P)[1] = "m"
    BY <1>4, Zenon DEF pic_read_irq, pic_intack, Vector
  <2>2. /\ Plain(c) /\ c.isr = P.m.isr \cup {i} /\ c.irr = P.m.irr \ ({i} \ P.m.elcr)
        /\ c.elcr = P.m.elcr /\ c.last_irr = P.m.last_irr
        /\ c.priority_add = P.m.priority_add
    BY <1>0, <1>2, <1>4, AckedPlain, Zenon
  <2> HIDE DEF c, Q
  <2>3. /\ 2 \notin c.elcr /\ (2 \in c.irr <=> 2 \in P.m.irr)
        /\ (2 \in c.last_irr <=> 2 \in P.m.last_irr)
    BY <2>2, <1>4, Zenon DEF Good, Base
  <2>4. Good(Q) /\ Q.m = c /\ Q.s = P.s
    <3>1. Plain(c)
      BY <2>2, Zenon
    <3> QED BY <2>1, <2>3, <3>1, StoreMaster, Zenon
  <2> HIDE DEF i
  <2> QED BY <1>0, <1>4, <2>1, <2>2, <2>4, Zenon DEF Q, i
<1>5. CASE i # None /\ i = 2
  <2>0. Wants(P, "s") /\ j # None /\ Vector(P)[1] = "s"
    BY <1>0, <1>2, <1>5, Zenon DEF Vector
  <2> DEFINE d == Acked(P.s, j)
             R == pic_update_irq([P EXCEPT !.s = d], "s")
             c == Acked(R.m, 2)
  <2>1. Q = pic_update_irq([R EXCEPT !.m = c], "m")
    BY <1>5, <2>0, Zenon DEF pic_read_irq, pic_intack
  <2>2. /\ Plain(d) /\ d.isr = P.s.isr \cup {j} /\ d.priority_add = P.s.priority_add
    BY <1>0, <1>3, <2>0, AckedPlain, Zenon
  <2>3. pic_get_irq(d, FALSE) = None
    BY <1>0, <2>0, AckedQuiet, Zenon
  <2> HIDE DEF d, Q
  <2>4. /\ Good(R) /\ R.s = d /\ R.m.isr = P.m.isr
        /\ R.m.priority_add = P.m.priority_add
        /\ 2 \in R.m.irr <=> Wants(R, "s")
    BY <2>2, StoreSlave
  <2> HIDE DEF R
  <2>5. ~Wants(R, "s") /\ 2 \notin R.m.irr /\ 2 \notin R.m.last_irr
    BY <2>3, <2>4, CascadeLine, Zenon DEF Good, CascadeCurrent
  <2>6. /\ Plain(c) /\ c.isr = R.m.isr \cup {2} /\ c.irr = R.m.irr \ ({2} \ R.m.elcr)
        /\ c.elcr = R.m.elcr /\ c.last_irr = R.m.last_irr
        /\ c.priority_add = R.m.priority_add
    <3>1. 2 \in Line
      BY DEF Line
    <3>2. Plain(R.m)
      BY <2>4, Zenon DEF Good, Base
    <3> QED BY <3>1, <3>2, AckedPlain
  <2> HIDE DEF c
  <2>7. /\ 2 \notin c.elcr /\ (2 \in c.irr <=> 2 \in R.m.irr)
        /\ (2 \in c.last_irr <=> 2 \in R.m.last_irr)
    BY <2>4, <2>5, <2>6, Zenon DEF Good, Base
  <2>8. Good(Q) /\ Q.m = c /\ Q.s = R.s
    BY <2>1, <2>4, <2>6, <2>7, StoreMaster
  <2> HIDE DEF i, j
  <2> QED BY <1>0, <1>5, <2>0, <2>2, <2>4, <2>6, <2>8, Zenon DEF Q, i, j
<1> QED BY <1>1, <1>4, <1>5, Zenon

-----------------------------------------------------------------------------
(* A port write that leaves the requests and the trigger modes of its      *)
(* controller alone keeps the outputs current, and touches no interrupt in *)
(* service on the other controller.                                        *)
LEMMA StoreRegs ==
  ASSUME NEW P, Good(P), NEW w \in {"m", "s"}, NEW R \in Pics, Plain(R[w]),
         R[w].irr = P[w].irr, R[w].last_irr = P[w].last_irr, R[w].elcr = P[w].elcr,
         \A o \in {"m", "s"} \ {w} : R[o] = P[o]
  PROVE  LET Q == pic_update_irq(R, w)
         IN /\ Good(Q) /\ Q[w] = R[w]
            /\ \A o \in {"m", "s"} \ {w} :
                 Q[o].isr = P[o].isr /\ Q[o].priority_add = P[o].priority_add
<1>1. CASE w = "m"
  <2>1. Base(R) /\ R.s = P.s
    BY <1>1, Zenon DEF Good, Base
  <2>2. CascadeCurrent(R)
    BY <1>1, <2>1, WantsType, Zenon DEF Good, CascadeCurrent
  <2> QED BY <1>1, <2>1, <2>2, UpdateMaster, ZenonT(40)
<1>2. CASE w = "s"
  <2>1. Base(R) /\ R.m = P.m /\ Plain(R.m)
    BY <1>2, Zenon DEF Good, Base
  <2>2. Wants(R, "s") \in BOOLEAN /\ 2 \in Line
    BY WantsType DEF Line
  <2>3. LET Q == pic_update_irq(R, "s")
        IN Good(Q) /\ Q.s = R.s /\ Q.m = SetLine(R.m, 2, Wants(R, "s"))
    BY <2>1, UpdateSlave, Zenon
  <2>4. LET d == SetLine(R.m, 2, Wants(R, "s"))
        IN d.isr = R.m.isr /\ d.priority_add = R.m.priority_add
    BY <2>1, <2>2, PlainSetLine
  <2> QED BY <1>2, <2>1, <2>3, <2>4, Zenon
<1> QED BY <1>1, <1>2, Zenon

(* OCW2: ending the service of one line, perhaps rotating the priorities. *)
LEMMA EndServiceGood ==
  ASSUME NEW P, Good(P), NEW w \in {"m", "s"}, NEW i \in Line, NEW r \in BOOLEAN
  PROVE  LET Q == EndService(P, w, i, r)
         IN /\ Good(Q) /\ Q[w].isr = P[w].isr \ {i}
            /\ Q[w].priority_add = IF r THEN (i + 1) % 8 ELSE P[w].priority_add
            /\ \A o \in {"m", "s"} \ {w} :
                 Q[o].isr = P[o].isr /\ Q[o].priority_add = P[o].priority_add
<1> DEFINE a == IF r THEN (i + 1) % 8 ELSE P[w].priority_add
           R == [P EXCEPT ![w].isr = @ \ {i},
                          ![w].priority_add = IF r THEN (i + 1) % 8 ELSE @]
           Q == EndService(P, w, i, r)
<1>1. Plain(P[w]) /\ P \in Pics
  BY Zenon DEF Good, Base
<1>2. a \in Line
  BY <1>1 DEF Plain, Controller, Line
<1>3. Q = pic_update_irq(R, w)
  BY Zenon DEF EndService
<1>4. R[w] = [P[w] EXCEPT !.isr = @ \ {i}, !.priority_add = a]
  BY <1>1, Zenon DEF Plain, Controller, Pics
<1> HIDE DEF a, Q
<1>5. /\ Plain(R[w]) /\ R[w].irr = P[w].irr /\ R[w].last_irr = P[w].last_irr
      /\ R[w].elcr = P[w].elcr /\ R[w].isr = P[w].isr \ {i}
      /\ R[w].priority_add = a
  <2> HIDE DEF R
  <2> QED BY <1>1, <1>2, <1>4, ZenonT(40) DEF Plain, Controller
<1>6. R \in Pics /\ \A o \in {"m", "s"} \ {w} : R[o] = P[o]
  <2>1. R[w] \in Controller
    BY <1>5, Zenon DEF Plain
  <2> QED BY <1>1, <2>1, Zenon DEF Pics
<1> HIDE DEF R
<1>7. /\ Good(Q) /\ Q[w] = R[w]
      /\ \A o \in {"m", "s"} \ {w} :
           Q[o].isr = P[o].isr /\ Q[o].priority_add = P[o].priority_add
  BY <1>3, <1>5, <1>6, StoreRegs
<1> QED BY <1>5, <1>7, Zenon DEF a, Q

(* A nonspecific EOI ends the most urgent interrupt in service. *)
LEMMA NonspecificEoiGood ==
  ASSUME NEW P, Good(P), NEW w \in {"m", "s"}, NEW r \in BOOLEAN
  PROVE  LET Q == NonspecificEoi(P, w, r)
         IN /\ Good(Q)
            /\ P[w].isr = {} => Q = P
            /\ P[w].isr # {} => \E i \in P[w].isr :
                 /\ \A k \in P[w].isr : Rank(P[w], i) <= Rank(P[w], k)
                 /\ Q = EndService(P, w, i, r)
<1> DEFINE p == get_priority(P[w], P[w].isr)
           i == LineOfRank(P[w], p)
           Q == NonspecificEoi(P, w, r)
<1>1. P[w].priority_add \in Line /\ P[w].isr \in SUBSET Line
  BY Zenon DEF Good, Base, Plain, Controller
<1>2. /\ \A k \in P[w].isr : p <= Rank(P[w], k)
      /\ p # 8 => i \in P[w].isr /\ Rank(P[w], i) = p
      /\ p = 8 <=> P[w].isr = {}
  BY <1>1, LeastRank, Zenon
<1>3. Q = IF p = 8 THEN P ELSE EndService(P, w, i, r)
  BY Zenon DEF NonspecificEoi
<1> HIDE DEF p, i, Q
<1>4. p # 8 => Good(EndService(P, w, i, r))
  BY <1>1, <1>2, EndServiceGood, Zenon
<1> QED BY <1>2, <1>3, <1>4, Zenon DEF Q

-----------------------------------------------------------------------------
(* OCW2, and OCW3 without poll and without special mask mode. *)
PlainCommand(v) == ~Bit(v, 4) /\ (Bit(v, 3) => ~Bit(v, 2) /\ ~Bit(v, 6))
PlainCommands == \A v \in Commands : PlainCommand(v)
(* No command sets the lowest priority to a line of its choice. *)
RotatesOnEoi == \A v \in Commands : v \div 32 \notin {6, 7}

(* What an operation may do to the interrupts in service on a controller:  *)
(* nothing, begin one more urgent than all others, end any one, or end the *)
(* most urgent one and rotate the priorities past it.                      *)
Kept(c, d) == d.isr = c.isr /\ d.priority_add = c.priority_add
Begun(c, d, i) ==
  /\ \A k \in c.isr : Rank(c, i) < Rank(c, k)
  /\ d.isr = c.isr \cup {i} /\ d.priority_add = c.priority_add
Ended(c, d, i) == d.isr = c.isr \ {i} /\ d.priority_add = c.priority_add
EndedTop(c, d, i) ==
  /\ i \in c.isr /\ \A k \in c.isr : Rank(c, i) <= Rank(c, k)
  /\ d.isr = c.isr \ {i} /\ d.priority_add \in {c.priority_add, (i + 1) % 8}
Moves(c, d) ==
  \/ Kept(c, d)
  \/ \E i \in Line : Begun(c, d, i) \/ Ended(c, d, i) \/ EndedTop(c, d, i)

(* Of two interrupts in service the more urgent one came later. *)
Ordered ==
  \A c \in Ctl : \A i, j \in pics[c].isr :
    Rank(pics[c], i) < Rank(pics[c], j) => <<i, j>> \in newer[c]

IInv ==
  /\ Good(pics) /\ cpu \in {"run", "inum"} /\ withdrawn \in BOOLEAN
  /\ newer \in [Ctl -> SUBSET (Line \X Line)]
  /\ cpu = "inum" => Wants(pics, "m") \/ withdrawn

-----------------------------------------------------------------------------
(* What a controller wants depends on few of its registers. *)
LEMMA SameWants ==
  ASSUME NEW c, NEW d, NEW b \in BOOLEAN, d.irr = c.irr, d.imr = c.imr,
         d.isr = c.isr, d.priority_add = c.priority_add,
         d.special_mask = c.special_mask, d.sfnm = c.sfnm
  PROVE  pic_get_irq(d, b) = pic_get_irq(c, b)
<1>1. \A i : Rank(d, i) = Rank(c, i)
  BY DEF Rank
<1>2. \A M : get_priority(d, M) = get_priority(c, M)
  BY <1>1 DEF get_priority
<1>3. InService(d, b) = InService(c, b)
  BY DEF InService
<1>4. \A r : LineOfRank(d, r) = LineOfRank(c, r)
  BY DEF LineOfRank
<1> QED BY <1>2, <1>3, <1>4 DEF pic_get_irq

(* A write that changes none of those keeps the outputs current although   *)
(* it does not update them.                                                *)
LEMMA NoUpdate ==
  ASSUME NEW P, Good(P), NEW w \in Ctl, NEW R \in Pics, Plain(R[w]),
         R[w].irr = P[w].irr, R[w].last_irr = P[w].last_irr, R[w].imr = P[w].imr,
         Kept(P[w], R[w]), R.out = P.out, w = "m" => 2 \notin R.m.elcr,
         \A o \in Ctl \ {w} : R[o] = P[o]
  PROVE  Good(R) /\ \A o \in Ctl : Kept(P[o], R[o])
<1>1. Plain(P[w])
  BY DEF Good, Base, Ctl
<1>2. ASSUME NEW b \in BOOLEAN PROVE pic_get_irq(R[w], b) = pic_get_irq(P[w], b)
  BY <1>1, SameWants DEF Kept, Plain, Controller
<1>3. Wants(R, "m") = Wants(P, "m") /\ Wants(R, "s") = Wants(P, "s")
  BY <1>2 DEF Wants, Ctl
<1>4. Base(R)
  BY DEF Good, Base, Ctl
<1>5. OutCurrent(R) /\ CascadeCurrent(R)
  BY <1>3 DEF Good, OutCurrent, CascadeCurrent, Ctl
<1> QED BY <1>4, <1>5 DEF Good, Kept

(* pic_read_irq begins at most one interrupt on each controller. *)
LEMMA ReadIrqMoves ==
  ASSUME NEW P, Good(P)
  PROVE  \A w \in Ctl : Moves(P[w], pic_read_irq(P)[w])
<1> DEFINE i == pic_get_irq(P.m, TRUE)
           j == pic_get_irq(P.s, FALSE)
           Q == pic_read_irq(P)
<1>1. /\ Plain(P.m) /\ Plain(P.s)
      /\ Wants(P, "m") <=> i # None
      /\ Wants(P, "s") <=> j # None
  BY CascadeLine
<1>2. i # None => i \in Line /\ \A k \in P.m.isr : Rank(P.m, i) < Rank(P.m, k)
  BY <1>1, WantsIff
<1>3. j # None => j \in Line /\ \A k \in P.s.isr : Rank(P.s, j) < Rank(P.s, k)
  BY <1>1, WantsIff
<1>4. /\ Q.m.priority_add = P.m.priority_add /\ Q.s.priority_add = P.s.priority_add
      /\ ~Wants(P, "m") => Q = P
      /\ Wants(P, "m") /\ i # 2 => Q.m.isr = P.m.isr \cup {i} /\ Q.s.isr = P.s.isr
      /\ Wants(P, "m") /\ i = 2 => /\ Q.m.isr = P.m.isr \cup {2}
                                   /\ Q.s.isr = P.s.isr \cup {j}
                                   /\ Wants(P, "s")
  BY ReadIrqGood
<1> HIDE DEF i, j, Q
<1>5. Moves(P.m, Q.m)
  BY <1>1, <1>2, <1>4 DEF Moves, Kept, Begun
<1>6. Moves(P.s, Q.s)
  BY <1>1, <1>3, <1>4 DEF Moves, Kept, Begun
<1> QED BY <1>5, <1>6 DEF Q, Ctl

(* Replacing one register of one controller. *)
LEMMA OneRegister ==
  ASSUME NEW P \in Pics, NEW w \in Ctl, NEW c \in Controller
  PROVE  LET R == [P EXCEPT ![w] = c]
         IN /\ R \in Pics /\ R[w] = c /\ R.out = P.out
            /\ \A o \in Ctl \ {w} : R[o] = P[o]
BY DEF Ctl, Pics

(* OCW2. *)
LEMMA Ocw2Good ==
  ASSUME NEW P, Good(P), NEW w \in Ctl, NEW v \in Byte
  PROVE  LET Q == WriteOcw2(P, w, v)
         IN /\ Good(Q)
            /\ \A o \in Ctl \ {w} : Kept(P[o], Q[o])
            /\ v \div 32 \notin {6, 7} => Moves(P[w], Q[w])
            /\ v \div 32 \in {1, 5} /\ P[w].isr # {} =>
                 \E i \in Line : EndedTop(P[w], Q[w], i)
<1> DEFINE cmd == v \div 32
           Q == WriteOcw2(P, w, v)
<1>0. cmd \in 0..7 /\ v % 8 \in Line
  BY DEF Byte, Line
<1>1. w \in {"m", "s"} /\ Plain(P[w]) /\ P[w] \in Controller /\ P \in Pics
  BY DEF Ctl, Good, Base, Plain
<1>2. CASE cmd \in {0, 4}
  <2> DEFINE c == [P[w] EXCEPT !.rotate_on_auto_eoi = (cmd = 4)]
             R == [P EXCEPT ![w] = c]
  <2>1. Q = R
    BY <1>2 DEF WriteOcw2
  <2>2. /\ Plain(c) /\ c.irr = P[w].irr /\ c.last_irr = P[w].last_irr
        /\ c.imr = P[w].imr /\ c.elcr = P[w].elcr /\ Kept(P[w], c)
    BY <1>1 DEF Plain, Controller, Kept
  <2>3. /\ R \in Pics /\ R[w] = c /\ R.out = P.out
        /\ \A o \in Ctl \ {w} : R[o] = P[o]
    BY <1>1, <2>2, OneRegister DEF Plain
  <2> HIDE DEF R, c
  <2>4. w = "m" => 2 \notin R.m.elcr
    BY <2>2, <2>3 DEF Good, Base
  <2>5. Good(R) /\ \A o \in Ctl : Kept(P[o], R[o])
    BY <2>2, <2>3, <2>4, NoUpdate
  <2> QED BY <1>2, <2>1, <2>5 DEF Moves
<1>3. CASE cmd \in {1, 5}
  <2> DEFINE rot == (cmd = 5)
  <2>1. Q = NonspecificEoi(P, w, rot) /\ rot \in BOOLEAN
    BY <1>3 DEF WriteOcw2
  <2> HIDE DEF rot
  <2>2. /\ Good(Q)
        /\ P[w].isr = {} => Q = P
        /\ P[w].isr # {} => \E i \in P[w].isr :
             /\ \A k \in P[w].isr : Rank(P[w], i) <= Rank(P[w], k)
             /\ Q = EndService(P, w, i, rot)
    BY <1>1, <2>1, NonspecificEoiGood
  <2> HIDE DEF Q
  <2>3. CASE P[w].isr = {}
    BY <1>3, <2>2, <2>3 DEF Moves, Kept, Q
  <2>4. CASE P[w].isr # {}
    <3>1. PICK i \in P[w].isr :
            /\ \A k \in P[w].isr : Rank(P[w], i) <= Rank(P[w], k)
            /\ Q = EndService(P, w, i, rot)
      BY <2>2, <2>4
    <3>2. i \in Line
      BY <1>1 DEF Plain, Controller
    <3>3. /\ Q[w].isr = P[w].isr \ {i}
          /\ Q[w].priority_add \in {P[w].priority_add, (i + 1) % 8}
          /\ \A o \in {"m", "s"} \ {w} :
               Q[o].isr = P[o].isr /\ Q[o].priority_add = P[o].priority_add
      BY <1>1, <2>1, <3>1, <3>2, EndServiceGood
    <3>4. EndedTop(P[w], Q[w], i)
      BY <3>1, <3>3 DEF EndedTop
    <3> QED BY <1>3, <2>2, <3>2, <3>3, <3>4 DEF Moves, Kept, Q, Ctl
  <2> QED BY <2>3, <2>4
<1>4. CASE cmd \in {3, 7}
  <2> DEFINE rot == (cmd = 7)
             l == v % 8
  <2>1. Q = EndService(P, w, l, rot) /\ rot \in BOOLEAN /\ l \in Line
    BY <1>0, <1>4 DEF WriteOcw2
  <2> HIDE DEF rot, l
  <2>2. /\ Good(Q) /\ Q[w].isr = P[w].isr \ {l}
        /\ ~rot => Q[w].priority_add = P[w].priority_add
        /\ \A o \in {"m", "s"} \ {w} :
             Q[o].isr = P[o].isr /\ Q[o].priority_add = P[o].priority_add
    BY <1>1, <2>1, EndServiceGood
  <2> HIDE DEF Q
  <2>3. cmd # 7 => Ended(P[w], Q[w], l)
    BY <2>2 DEF Ended, rot
  <2> QED BY <1>4, <2>1, <2>2, <2>3 DEF Moves, Kept, Q, Ctl
<1>5. CASE cmd = 6
  <2> DEFINE c == [P[w] EXCEPT !.priority_add = (v + 1) % 8]
             R == [P EXCEPT ![w] = c]
  <2>1. Q = pic_update_irq(R, w)
    BY <1>5 DEF WriteOcw2
  <2>2. (v + 1) % 8 \in Line
    BY DEF Byte, Line
  <2>3. /\ Plain(c) /\ c.irr = P[w].irr /\ c.last_irr = P[w].last_irr
        /\ c.elcr = P[w].elcr
    BY <1>1, <2>2 DEF Plain, Controller
  <2>4. R \in Pics /\ R[w] = c /\ \A o \in Ctl \ {w} : R[o] = P[o]
    BY <1>1, <2>3, OneRegister DEF Plain
  <2> HIDE DEF R, c, Q
  <2>5. /\ Good(Q) /\ \A o \in {"m", "s"} \ {w} :
             Q[o].isr = P[o].isr /\ Q[o].priority_add = P[o].priority_add
    BY <1>1, <2>1, <2>3, <2>4, StoreRegs DEF Ctl
  <2> QED BY <1>5, <2>5 DEF Kept, Q, Ctl
<1>6. CASE cmd = 2
  BY <1>6 DEF WriteOcw2, Moves, Kept
<1> QED BY <1>0, <1>2, <1>3, <1>4, <1>5, <1>6

(* The command port. *)
LEMMA WriteCmdGood ==
  ASSUME NEW P, Good(P), NEW w \in Ctl, NEW v \in Byte, PlainCommand(v)
  PROVE  LET Q == pic_ioport_write(P, w, 0, v)
         IN /\ Good(Q)
            /\ \A o \in Ctl \ {w} : Kept(P[o], Q[o])
            /\ v \div 32 \notin {6, 7} => Moves(P[w], Q[w])
            /\ v \div 32 \in {1, 5} /\ ~Bit(v, 3) /\ P[w].isr # {} =>
                 \E i \in Line : EndedTop(P[w], Q[w], i)
<1> DEFINE Q == pic_ioport_write(P, w, 0, v)
<1>1. Plain(P[w]) /\ P[w] \in Controller /\ P \in Pics
  BY DEF Ctl, Good, Base, Plain
<1>2. Q = WriteCommand(P, w, v)
  BY <1>1 DEF pic_ioport_write, Plain
<1>3. CASE Bit(v, 3)
  <2>1. Q = WriteOcw3(P, w, v)
    BY <1>2, <1>3 DEF WriteCommand, PlainCommand
  <2>2. WriteOcw3(P, w, v) = P
    BY <1>1, <1>3 DEF WriteOcw3, PlainCommand, Controller, Pics, Ctl
  <2> QED BY <1>3, <2>1, <2>2 DEF Moves, Kept
<1>4. CASE ~Bit(v, 3)
  BY <1>2, <1>4, Ocw2Good DEF WriteCommand, PlainCommand
<1> QED BY <1>3, <1>4

(* The mask register. *)
LEMMA WriteImrGood ==
  ASSUME NEW P, Good(P), NEW w \in Ctl, NEW v
  PROVE  LET Q == pic_ioport_write(P, w, 1, v)
         IN Good(Q) /\ \A o \in Ctl : Kept(P[o], Q[o])
<1> DEFINE c == [P[w] EXCEPT !.imr = BitSet(v)]
           R == [P EXCEPT ![w] = c]
           Q == pic_ioport_write(P, w, 1, v)
<1>1. Plain(P[w]) /\ P[w] \in Controller /\ P \in Pics
  BY DEF Ctl, Good, Base, Plain
<1>2. Q = pic_update_irq(R, w)
  BY <1>1 DEF pic_ioport_write, WriteData, Plain
<1>3. BitSet(v) \in SUBSET Line
  BY DEF BitSet
<1>4. /\ Plain(c) /\ c.irr = P[w].irr /\ c.last_irr = P[w].last_irr
      /\ c.elcr = P[w].elcr /\ Kept(P[w], c)
  BY <1>1, <1>3 DEF Plain, Controller, Kept
<1>5. R \in Pics /\ R[w] = c /\ \A o \in Ctl \ {w} : R[o] = P[o]
  BY <1>1, <1>4, OneRegister DEF Plain
<1> HIDE DEF R, c, Q
<1>6. /\ Good(Q) /\ Q[w] = R[w]
      /\ \A o \in {"m", "s"} \ {w} :
           Q[o].isr = P[o].isr /\ Q[o].priority_add = P[o].priority_add
  BY <1>2, <1>4, <1>5, StoreRegs DEF Ctl
<1> QED BY <1>4, <1>5, <1>6 DEF Kept, Q, Ctl

(* The trigger modes. *)
LEMMA WriteElcrGood ==
  ASSUME NEW P, Good(P), NEW w \in Ctl, NEW v
  PROVE  LET Q == elcr_ioport_write(P, w, v)
         IN Good(Q) /\ \A o \in Ctl : Kept(P[o], Q[o])
<1> DEFINE e == BitSet(v) \cap elcr_mask[w]
           c == [P[w] EXCEPT !.elcr = e]
           R == [P EXCEPT ![w] = c]
<1>1. Plain(P[w]) /\ P[w] \in Controller /\ P \in Pics
  BY DEF Ctl, Good, Base, Plain
<1>2. elcr_ioport_write(P, w, v) = R
  BY DEF elcr_ioport_write
<1>3. e \in SUBSET Line
  BY DEF BitSet
<1>4. w = "m" => 2 \notin e
  BY DEF elcr_mask
<1> HIDE DEF e
<1>5. /\ Plain(c) /\ c.irr = P[w].irr /\ c.last_irr = P[w].last_irr
      /\ c.imr = P[w].imr /\ c.elcr = e /\ Kept(P[w], c)
  BY <1>1, <1>3 DEF Plain, Controller, Kept
<1>6. R \in Pics /\ R[w] = c /\ R.out = P.out /\ \A o \in Ctl \ {w} : R[o] = P[o]
  BY <1>1, <1>5, OneRegister DEF Plain
<1> HIDE DEF R, c
<1>7. Good(R) /\ \A o \in Ctl : Kept(P[o], R[o])
  BY <1>4, <1>5, <1>6, NoUpdate
<1> QED BY <1>2, <1>7

(* The poll read does nothing in a plain mode. *)
LEMMA ReadCmdGood ==
  ASSUME NEW P, Good(P), NEW w \in Ctl
  PROVE  pic_ioport_read(P, w, 0) = P
BY DEF pic_ioport_read, Good, Base, Plain, Ctl
-----------------------------------------------------------------------------
(* Rotating past the most urgent line keeps the order of the others. *)
LEMMA RotatePast ==
  ASSUME NEW a \in 0..7, NEW b \in 0..7, NEW i \in 0..7, NEW x \in 0..7, NEW y \in 0..7,
         b = (i + 1) % 8, x # i, y # i,
         (i + 8 - a) % 8 <= (x + 8 - a) % 8, (i + 8 - a) % 8 <= (y + 8 - a) % 8,
         (x + 8 - b) % 8 < (y + 8 - b) % 8
  PROVE  (x + 8 - a) % 8 < (y + 8 - a) % 8
OBVIOUS

(* Whatever an operation does to a controller, of two interrupts in        *)
(* service the more urgent one stays the newer one.                        *)
LEMMA OrderKept ==
  ASSUME NEW c \in Controller, NEW d \in Controller, Moves(c, d), NEW N,
         \A i, j \in c.isr : Rank(c, i) < Rank(c, j) => <<i, j>> \in N,
         NEW i \in d.isr, NEW j \in d.isr, Rank(d, i) < Rank(d, j)
  PROVE  <<i, j>> \in {p \in N : p[1] \in d.isr /\ p[2] \in d.isr}
                      \cup ((d.isr \ c.isr) \X (d.isr \cap c.isr))
<1>1. /\ c.isr \in SUBSET Line /\ d.isr \in SUBSET Line
      /\ c.priority_add \in Line /\ d.priority_add \in Line
  BY DEF Controller
<1>2. i \in Line /\ j \in Line
  BY <1>1
<1>3. ASSUME i \in c.isr, j \in c.isr, Rank(c, i) < Rank(c, j)
      PROVE  <<i, j>> \in {p \in N : p[1] \in d.isr /\ p[2] \in d.isr}
    BY <1>3
<1>4. CASE d.priority_add = c.priority_add
  <2>1. Rank(c, i) < Rank(c, j) /\ Rank(c, i) \in 0..7 /\ Rank(c, j) \in 0..7
    BY <1>1, <1>2, <1>4, RankOfLine DEF Rank, Line
  <2>2. CASE i \in c.isr /\ j \in c.isr
    BY <1>3, <2>1, <2>2
  <2>3. CASE i \in c.isr /\ j \notin c.isr
    BY <2>1, <2>3, <1>4 DEF Moves, Kept, Begun, Ended, EndedTop
  <2>4. CASE i \notin c.isr /\ j \notin c.isr
    BY <2>1, <2>4, <1>4 DEF Moves, Kept, Begun, Ended, EndedTop
  <2>5. CASE i \notin c.isr /\ j \in c.isr
    BY <2>5
  <2> QED BY <2>2, <2>3, <2>4, <2>5
<1>5. CASE d.priority_add # c.priority_add
  <2>1. PICK k \in Line : EndedTop(c, d, k) /\ d.priority_add = (k + 1) % 8
    BY <1>5 DEF Moves, Kept, Begun, Ended, EndedTop
  <2>2. i \in c.isr /\ j \in c.isr /\ i # k /\ j # k
    BY <2>1 DEF EndedTop
  <2>3. Rank(c, k) <= Rank(c, i) /\ Rank(c, k) <= Rank(c, j)
    BY <2>1, <2>2 DEF EndedTop
  <2> DEFINE a == c.priority_add
             b == d.priority_add
  <2>4. a \in 0..7 /\ b \in 0..7 /\ i \in 0..7 /\ j \in 0..7 /\ k \in 0..7
    BY <1>1, <1>2 DEF Line
  <2>5. /\ (k + 8 - a) % 8 <= (i + 8 - a) % 8 /\ (k + 8 - a) % 8 <= (j + 8 - a) % 8
        /\ (i + 8 - b) % 8 < (j + 8 - b) % 8 /\ b = (k + 1) % 8
    BY <2>1, <2>3 DEF Rank
  <2> HIDE DEF a, b
  <2>6. (i + 8 - a) % 8 < (j + 8 - a) % 8
    BY <2>2, <2>4, <2>5, RotatePast
  <2>7. Rank(c, i) < Rank(c, j)
    BY <2>6 DEF Rank, a
  <2> QED BY <1>3, <2>2, <2>7
<1> QED BY <1>4, <1>5

-----------------------------------------------------------------------------
(* Reset leaves both controllers quiet. *)
LEMMA InitIInv == Init => IInv /\ Ordered
<1> SUFFICES ASSUME Init PROVE IInv /\ Ordered
  OBVIOUS
<1>1. Zeroed \in Controller /\ Plain(Zeroed)
  BY DEF Zeroed, Controller, Plain, Line
<1>2. PicsInit \in Pics /\ Base(PicsInit)
  BY <1>1 DEF PicsInit, Pics, Base, Zeroed
<1>3. Zeroed.irr = {} /\ Zeroed.isr = {} /\ Zeroed.last_irr = {}
  BY DEF Zeroed
<1>4. PicsInit.m = Zeroed /\ PicsInit.s = Zeroed /\ PicsInit.out = FALSE
  BY DEF PicsInit
<1>5. pic_get_irq(Zeroed, TRUE) = None /\ pic_get_irq(Zeroed, FALSE) = None
  BY <1>1, <1>3, WantsIff
<1>6. OutCurrent(PicsInit) /\ CascadeCurrent(PicsInit)
  <2>1. Wants(PicsInit, "m") = FALSE /\ Wants(PicsInit, "s") = FALSE
    BY <1>4, <1>5, Zenon DEF Wants
  <2>2. OutCurrent(PicsInit)
    BY <1>4, <2>1, Zenon DEF OutCurrent
  <2>3. CascadeCurrent(PicsInit)
    <3>1. 2 \notin PicsInit.m.last_irr
      BY <1>3, <1>4
    <3>2. ~Wants(PicsInit, "s") /\ Wants(PicsInit, "s") \in BOOLEAN
      BY <2>1, WantsType
    <3> QED BY <3>1, <3>2 DEF CascadeCurrent
  <2> QED BY <2>2, <2>3
<1>7. IInv
  BY <1>2, <1>6 DEF Init, IInv, Good
<1>8. Ordered
  BY <1>3, <1>4 DEF Init, Ordered, Ctl
<1> QED BY <1>7, <1>8

(* The history of the acknowledgements keeps its type. *)
LEMMA NewerType ==
  ASSUME IInv, NEW P, Become(P), Good(P)
  PROVE  Good(pics') /\ newer' \in [Ctl -> SUBSET (Line \X Line)]
<1>1. \A c \in Ctl : pics'[c].isr \in SUBSET Line
  BY DEF Become, Good, Base, Plain, Controller, Ctl
<1>2. \A c \in Ctl : History(c) \in SUBSET (Line \X Line)
  BY <1>1 DEF IInv, History
<1> QED BY <1>2 DEF Become

(* Every step keeps the outputs current.  Between pic_pending and          *)
(* pic_get_inum only devices run, and only a lowered line can make the     *)
(* master stop wanting.                                                    *)
LEMMA NextIInv ==
  ASSUME PlainCommands
  PROVE  IInv /\ [Next]_vars => IInv'
<1> SUFFICES ASSUME IInv, [Next]_vars PROVE IInv'
  OBVIOUS
<1>0. Good(pics)
  BY DEF IInv
<1>1. ASSUME NEW irq \in Dev, Request(irq) PROVE IInv'
  <2>1. irq \in (0..15) \ {2} /\ TRUE \in BOOLEAN
    BY PicAssumption
  <2>2. /\ Good(SetIrq(pics, irq, TRUE))
        /\ Wants(pics, "m") => Wants(SetIrq(pics, irq, TRUE), "m")
    BY <1>0, <2>1, SetIrqGood
  <2>3. Become(SetIrq(pics, irq, TRUE)) /\ UNCHANGED <<cpu, withdrawn>>
    BY <1>1 DEF Request, pic_request
  <2> QED BY <2>2, <2>3, NewerType DEF IInv, Become
<1>2. ASSUME NEW irq \in Dev, Untrigger(irq) PROVE IInv'
  <2>1. irq \in (0..15) \ {2} /\ FALSE \in BOOLEAN
    BY PicAssumption
  <2>2. Good(SetIrq(pics, irq, FALSE))
    BY <1>0, <2>1, SetIrqGood
  <2>3. /\ Become(SetIrq(pics, irq, FALSE)) /\ UNCHANGED cpu
        /\ withdrawn' = (cpu = "inum")
    BY <1>2 DEF Untrigger, pic_untrigger
  <2> QED BY <2>2, <2>3, NewerType DEF IInv
<1>3. CASE pic_pending
  BY <1>3 DEF pic_pending, IInv
<1>4. CASE pic_get_inum
  <2>1. Good(pic_read_irq(pics))
    BY <1>0, ReadIrqGood
  <2> QED BY <1>4, <2>1, NewerType DEF pic_get_inum, IInv
<1>5. ASSUME NEW c \in Ctl, NEW v \in Commands, WriteCmd(c, v) PROVE IInv'
  <2>1. v \in Byte /\ PlainCommand(v)
    BY PicAssumption DEF PlainCommands
  <2>2. Good(pic_ioport_write(pics, c, 0, v))
    BY <1>0, <2>1, WriteCmdGood
  <2> QED BY <1>5, <2>2, NewerType DEF WriteCmd, IInv
<1>6. ASSUME NEW c \in Ctl, NEW v \in Data, WriteImr(c, v) PROVE IInv'
  <2>1. Good(pic_ioport_write(pics, c, 1, v))
    BY <1>0, WriteImrGood
  <2> QED BY <1>6, <2>1, NewerType DEF WriteImr, IInv
<1>7. ASSUME NEW c \in Ctl, ReadCmd(c) PROVE IInv'
  <2>1. pic_ioport_read(pics, c, 0) = pics
    BY <1>0, ReadCmdGood
  <2> QED BY <1>0, <1>7, <2>1, NewerType DEF ReadCmd, IInv
<1>8. ASSUME NEW c \in Ctl, NEW v \in Elcr, WriteElcr(c, v) PROVE IInv'
  <2>1. Good(elcr_ioport_write(pics, c, v))
    BY <1>0, WriteElcrGood
  <2> QED BY <1>8, <2>1, NewerType DEF WriteElcr, IInv
<1>9. CASE UNCHANGED vars
  BY <1>9 DEF vars, IInv
<1> QED BY <1>1, <1>2, <1>3, <1>4, <1>5, <1>6, <1>7, <1>8, <1>9
        DEF Next, Device, Dos

(* Every step keeps the order of the interrupts in service, if priorities  *)
(* are rotated by EOIs only.                                               *)
LEMMA NextOrdered ==
  ASSUME PlainCommands, RotatesOnEoi
  PROVE  IInv /\ IInv' /\ Ordered /\ [Next]_vars => Ordered'
<1> SUFFICES ASSUME IInv, IInv', Ordered, [Next]_vars PROVE Ordered'
  OBVIOUS
<1>0. Good(pics)
  BY DEF IInv
<1>1. ASSUME NEW P, Become(P), \A c \in Ctl : Moves(pics[c], P[c]) PROVE Ordered'
  <2> SUFFICES ASSUME NEW c \in Ctl, NEW i \in pics'[c].isr, NEW j \in pics'[c].isr,
                      Rank(pics'[c], i) < Rank(pics'[c], j)
               PROVE  <<i, j>> \in newer'[c]
    BY DEF Ordered
  <2>1. pics[c] \in Controller /\ pics'[c] \in Controller
    BY DEF IInv, Good, Base, Plain, Ctl
  <2>2. /\ Moves(pics[c], pics'[c])
        /\ newer'[c] = {p \in newer[c] : p[1] \in pics'[c].isr /\ p[2] \in pics'[c].isr}
                       \cup ((pics'[c].isr \ pics[c].isr)
                             \X (pics'[c].isr \cap pics[c].isr))
    BY <1>1 DEF Become, History
  <2>3. \A x, y \in pics[c].isr :
          Rank(pics[c], x) < Rank(pics[c], y) => <<x, y>> \in newer[c]
    BY DEF Ordered
  <2> QED BY <2>1, <2>2, <2>3, OrderKept
<1>2. ASSUME NEW P, Become(P), \A c \in Ctl : Kept(pics[c], P[c]) PROVE Ordered'
  BY <1>1, <1>2 DEF Moves
<1>3. ASSUME NEW irq \in Dev, NEW b \in BOOLEAN, Become(SetIrq(pics, irq, b))
      PROVE  Ordered'
  <2>1. irq \in (0..15) \ {2}
    BY PicAssumption
  <2>2. \A c \in Ctl : Kept(pics[c], SetIrq(pics, irq, b)[c])
    BY <1>0, <2>1, SetIrqGood DEF Kept, Ctl
  <2> QED BY <1>2, <1>3, <2>2
<1>4. CASE pic_pending \/ UNCHANGED vars
  BY <1>4 DEF pic_pending, vars, Ordered
<1>5. CASE pic_get_inum
  BY <1>0, <1>1, <1>5, ReadIrqMoves DEF pic_get_inum
<1>6. ASSUME NEW c \in Ctl, NEW v \in Commands, WriteCmd(c, v) PROVE Ordered'
  <2> DEFINE P == pic_ioport_write(pics, c, 0, v)
  <2>1. v \in Byte /\ PlainCommand(v) /\ v \div 32 \notin {6, 7}
    BY PicAssumption DEF PlainCommands, RotatesOnEoi
  <2>2. Moves(pics[c], P[c]) /\ \A o \in Ctl \ {c} : Kept(pics[o], P[o])
    BY <1>0, <2>1, WriteCmdGood
  <2>3. Become(P)
    BY <1>6 DEF WriteCmd
  <2> HIDE DEF P
  <2> QED BY <1>1, <2>2, <2>3 DEF Moves
<1>7. ASSUME NEW c \in Ctl, NEW v \in Data, WriteImr(c, v) PROVE Ordered'
  BY <1>0, <1>2, <1>7, WriteImrGood DEF WriteImr
<1>8. ASSUME NEW c \in Ctl, ReadCmd(c) PROVE Ordered'
  BY <1>0, <1>2, <1>8, ReadCmdGood DEF ReadCmd, Kept
<1>9. ASSUME NEW c \in Ctl, NEW v \in Elcr, WriteElcr(c, v) PROVE Ordered'
  BY <1>0, <1>2, <1>9, WriteElcrGood DEF WriteElcr
<1>10. ASSUME NEW irq \in Dev, Request(irq) \/ Untrigger(irq) PROVE Ordered'
  BY <1>3, <1>10 DEF Request, Untrigger, pic_request, pic_untrigger
<1> QED BY <1>4, <1>5, <1>6, <1>7, <1>8, <1>9, <1>10 DEF Next, Device, Dos

-----------------------------------------------------------------------------
(* The invariants hold in every reachable state. *)
THEOREM Invariance == ASSUME PlainCommands PROVE Spec => []IInv
<1>1. Init => IInv
  BY InitIInv
<1>2. IInv /\ [Next]_vars => IInv'
  BY NextIInv
<1> QED BY <1>1, <1>2, PTL DEF Spec

(* With programs that change priorities only at an end of interrupt, the  *)
(* lines in service also stay ordered by the time they were acknowledged, *)
(* which the non-specific EOI of i8259.c relies on.                       *)
THEOREM InvarianceOrdered ==
  ASSUME PlainCommands, RotatesOnEoi PROVE Spec => [](IInv /\ Ordered)
<1>1. Init => IInv /\ Ordered
  BY InitIInv
<1>2. IInv /\ Ordered /\ [Next]_vars => (IInv /\ Ordered)'
  BY NextIInv, NextOrdered
<1> QED BY <1>1, <1>2, PTL DEF Spec

(* pic_update_irq is called wherever it must be: after every request,      *)
(* untrigger, acknowledgement and plain port write the two INT outputs     *)
(* follow the registers, and a wanting slave is requested on the master.   *)
THEOREM OutputsFollow == ASSUME PlainCommands PROVE Spec => []OutputsCurrent
<1>1. IInv => OutputsCurrent
  <2> SUFFICES ASSUME IInv PROVE OutputsCurrent
    OBVIOUS
  <2>1. 2 \in pics.m.irr <=> Wants(pics, "s")
    BY CascadeLine DEF IInv
  <2> QED BY <2>1 DEF IInv, Good, Base, OutputsCurrent, TypeOK
<1> QED BY <1>1, Invariance, PTL

(* pic_get_inum answers a spurious interrupt only as IRQ 7 of the master,  *)
(* and only after a device lowered a line since pic_pending said yes.      *)
THEOREM SpuriousHasCause ==
  ASSUME PlainCommands PROVE Spec => SpuriousOnlyIfWithdrawn
<1>1. IInv /\ [Next]_vars =>
        [(~Wants(pics, Vector(pics)[1]) /\ pic_get_inum)
           => withdrawn /\ Vector(pics)[1] = "m"]_vars
  <2> SUFFICES ASSUME IInv, ~Wants(pics, Vector(pics)[1]), pic_get_inum
               PROVE  withdrawn /\ Vector(pics)[1] = "m"
    OBVIOUS
  <2>1. Good(pics)
    BY DEF IInv
  <2>2. /\ ~Wants(pics, "m") => Vector(pics)[1] = "m"
        /\ Wants(pics, "m") => \/ Vector(pics)[1] = "m"
                               \/ Vector(pics)[1] = "s" /\ Wants(pics, "s")
    BY <2>1, ReadIrqGood
  <2> QED BY <2>2 DEF IInv, pic_get_inum
<1> QED BY <1>1, Invariance, PTL DEF SpuriousOnlyIfWithdrawn, Spec

(* With priorities fixed or rotated by EOIs, a nonspecific EOI ends the    *)
(* interrupt that was acknowledged last, on either controller and however  *)
(* interrupts were nested, masked or ended specifically before.            *)
THEOREM EoiEndsNewest ==
  ASSUME PlainCommands, RotatesOnEoi PROVE Spec => EoiEndsLatest
<1> DEFINE A == \A c \in Ctl, v \in Commands :
       (/\ v \div 32 \in {1, 5} /\ ~Bit(v, 4) /\ ~Bit(v, 3)
        /\ ~pics[c].poll /\ pics[c].isr # {} /\ WriteCmd(c, v))
       => \E i \in pics[c].isr :
            /\ pics'[c].isr = pics[c].isr \ {i}
            /\ \A j \in pics'[c].isr : <<i, j>> \in newer[c]
<1>1. IInv /\ Ordered /\ [Next]_vars => [A]_vars
  <2> SUFFICES ASSUME IInv, Ordered, NEW c \in Ctl, NEW v \in Commands,
                      v \div 32 \in {1, 5}, ~Bit(v, 3), pics[c].isr # {},
                      WriteCmd(c, v)
               PROVE  \E i \in pics[c].isr :
                        /\ pics'[c].isr = pics[c].isr \ {i}
                        /\ \A j \in pics'[c].isr : <<i, j>> \in newer[c]
    OBVIOUS
  <2>1. v \in Byte /\ PlainCommand(v)
    BY PicAssumption DEF PlainCommands
  <2>2. pics' = pic_ioport_write(pics, c, 0, v) /\ Good(pics)
    BY DEF WriteCmd, Become, IInv
  <2>3. PICK i \in Line : EndedTop(pics[c], pics'[c], i)
    BY <2>1, <2>2, WriteCmdGood
  <2>4. /\ pics[c].priority_add \in Line /\ pics[c].isr \in SUBSET Line
    BY <2>2 DEF Good, Base, Plain, Controller, Ctl
  <2>5. /\ i \in pics[c].isr /\ pics'[c].isr = pics[c].isr \ {i}
        /\ \A k \in pics[c].isr : Rank(pics[c], i) <= Rank(pics[c], k)
    BY <2>3 DEF EndedTop
  <2>6. ASSUME NEW j \in pics'[c].isr PROVE <<i, j>> \in newer[c]
    <3>1. j \in pics[c].isr /\ j # i /\ i \in Line /\ j \in Line
      BY <2>4, <2>5
    <3>2. Rank(pics[c], i) # Rank(pics[c], j)
      BY <2>4, <3>1, RankInjective
    <3>3. Rank(pics[c], i) \in 0..7 /\ Rank(pics[c], j) \in 0..7
      BY <2>4, <3>1, RankOfLine DEF Line
    <3>4. Rank(pics[c], i) < Rank(pics[c], j)
      BY <2>5, <3>1, <3>2, <3>3
    <3> QED BY <2>5, <3>1, <3>4 DEF Ordered
  <2> QED BY <2>5, <2>6
<1> QED BY <1>1, InvarianceOrdered, PTL DEF EoiEndsLatest, Spec
=============================================================================
