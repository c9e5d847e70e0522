----------------------------- MODULE VirqProofs -----------------------------
(***************************************************************************)
(* For any threads, virtual IRQs, queue lengths and masks, and across any  *)
(* number of reboots: a queued event is signalled all the way down to the  *)
(* controller, the hardware handler never finds its queue empty, and       *)
(* virq_handler is never entered while it is active.                       *)
(***************************************************************************)
EXTENDS Virq, I8259Lemmas

(* A controller in the mode of the BIOS: edge triggered, fixed priorities, *)
(* fully nested; it may be in the middle of an initialization without      *)
(* ICW4.                                                                   *)
Std(c) ==
  /\ c \in Controller /\ c.elcr = {} /\ c.priority_add = 0
  /\ ~c.poll /\ ~c.special_mask /\ ~c.auto_eoi /\ ~c.sfnm
  /\ ~c.init4 /\ c.init_state # 3
(* The lines in use, and a request of IRQ 15 only while its line is high.  *)
Master(c) == Std(c) /\ c.irr \subseteq {1, 2}
Slave(c) == Std(c) /\ c.irr \subseteq {4, 7} /\ (7 \in c.irr => 7 \in c.last_irr)
Regs(P) == P \in Pics /\ Master(P.m) /\ Slave(P.s)
(* The cascade is requested only for a slave that wants an interrupt. *)
Cascade(P) == Regs(P) /\ (2 \in P.m.irr => Wants(P, "s"))

(* What a controller in the mode of the BIOS wants: the least unmasked     *)
(* request, if it is below everything in service (pic_get_irq).            *)
LEMMA StdWants ==
  ASSUME NEW c, Std(c), NEW b \in BOOLEAN
  PROVE  LET r == pic_get_irq(c, b)
         IN /\ r # None <=> \E k \in c.irr \ c.imr : \A i \in c.isr : k < i
            /\ r # None => /\ r \in c.irr \ c.imr
                           /\ \A k \in c.irr \ c.imr : r <= k
                           /\ \A i \in c.isr : r < i
<1>1. /\ c.priority_add = 0 /\ c.irr \subseteq Line /\ c.isr \subseteq Line
      /\ ~c.special_mask /\ ~c.sfnm
  BY Zenon DEF Std, Controller
<1>2. InService(c, b) = c.isr
  BY <1>1, Zenon DEF InService
<1>3. \A i \in Line : Rank(c, i) = i
  BY <1>1 DEF Rank, Line
<1>4. c.priority_add \in Line
  BY <1>1 DEF Line
<1>5. /\ pic_get_irq(c, b) # None =>
           /\ pic_get_irq(c, b) \in c.irr \ c.imr
           /\ \A k \in c.irr \ c.imr : Rank(c, pic_get_irq(c, b)) <= Rank(c, k)
           /\ \A i \in c.isr : Rank(c, pic_get_irq(c, b)) < Rank(c, i)
      /\ pic_get_irq(c, b) = None =>
           \A k \in c.irr \ c.imr : \E i \in c.isr : Rank(c, i) <= Rank(c, k)
  BY <1>1, <1>2, <1>4, GetIrq, Zenon
<1>6. \A k \in c.irr \cup c.isr : k \in Int /\ Rank(c, k) = k
  BY <1>1, <1>3 DEF Line
<1> QED BY <1>5, <1>6

(* A line that changes (pic_set_irq): its level is remembered, an edge     *)
(* requests, lowering withdraws.                                           *)
LEMMA StdSetLine ==
  ASSUME NEW c, Std(c), NEW i \in Line, NEW b \in BOOLEAN
  PROVE  LET d == SetLine(c, i, b)
         IN /\ Std(d) /\ d.imr = c.imr /\ d.isr = c.isr
            /\ d.irr \ {i} = c.irr \ {i} /\ d.last_irr \ {i} = c.last_irr \ {i}
            /\ i \in d.last_irr <=> b
            /\ i \in d.irr <=> b /\ (i \notin c.last_irr \/ i \in c.irr)
BY Zenon DEF Std, SetLine, Controller

(* pic_update_irq of the slave drives the cascade line. *)
LEMMA UpdateS ==
  ASSUME NEW P, Regs(P)
  PROVE  LET Q == pic_update_irq(P, "s")
         IN /\ Cascade(Q) /\ Q.s = P.s /\ Q.m.isr = P.m.isr /\ Q.m.imr = P.m.imr
            /\ Q.m.irr \ {2} = P.m.irr \ {2}
            /\ 2 \in P.m.irr /\ Wants(P, "s") => 2 \in Q.m.irr
<1> DEFINE d == SetLine(P.m, 2, Wants(P, "s"))
           R == [P EXCEPT !.m = d]
           Q == [R EXCEPT !.out = Wants(R, "m")]
<1>1. pic_update_irq(P, "s") = Q
  BY Zenon DEF pic_update_irq, OutOfMaster
<1>2. Std(P.m) /\ Wants(P, "s") \in BOOLEAN /\ 2 \in Line
  BY WantsType DEF Regs, Master, Line
<1>3. /\ Std(d) /\ d.imr = P.m.imr /\ d.isr = P.m.isr /\ d.irr \ {2} = P.m.irr \ {2}
      /\ 2 \in d.irr <=> Wants(P, "s") /\ (2 \notin P.m.last_irr \/ 2 \in P.m.irr)
  BY <1>2, StdSetLine
<1> HIDE DEF d
<1>4. R \in Pics /\ R.m = d /\ R.s = P.s
  <2>1. P \in Pics /\ d \in Controller
    BY <1>3, Zenon DEF Regs, Std
  <2> QED BY <2>1, Replace, Zenon
<1> HIDE DEF R
<1>5. Q \in Pics /\ Q.m = d /\ Q.s = P.s
  <2>1. Wants(R, "m") \in BOOLEAN
    BY WantsType, Zenon
  <2> QED BY <2>1, <1>4, ReplaceOut, Zenon
<1> HIDE DEF Q
<1>6. Wants(Q, "s") = Wants(P, "s")
  BY <1>5, WantsType, Zenon
<1>7. Master(d)
  BY <1>3, Zenon DEF Regs, Master
<1>8. Cascade(Q)
  BY <1>3, <1>5, <1>6, <1>7, Zenon DEF Regs, Cascade
<1> QED BY <1>1, <1>3, <1>5, <1>8, Zenon

(* pic_update_irq of the master leaves the registers alone. *)
LEMMA UpdateM ==
  ASSUME NEW P, Cascade(P)
  PROVE  LET Q == pic_update_irq(P, "m")
         IN Cascade(Q) /\ Q.m = P.m /\ Q.s = P.s
<1> DEFINE Q == [P EXCEPT !.out = Wants(P, "m")]
<1>1. pic_update_irq(P, "m") = Q
  BY Zenon DEF pic_update_irq, OutOfMaster
<1>2. Q \in Pics /\ Q.m = P.m /\ Q.s = P.s
  <2>1. Wants(P, "m") \in BOOLEAN /\ P \in Pics
    BY WantsType, Zenon DEF Cascade, Regs
  <2> QED BY <2>1, ReplaceOut, Zenon
<1> HIDE DEF Q
<1>3. Wants(Q, "s") = Wants(P, "s")
  BY <1>2, WantsType, Zenon
<1>4. Cascade(Q)
  BY <1>2, <1>3, Zenon DEF Regs, Cascade
<1> QED BY <1>1, <1>2, <1>4, Zenon

(* New registers of the slave, and its output. *)
LEMMA PutSlave ==
  ASSUME NEW P, Regs(P), NEW c, Slave(c),
         NEW Q, Q = pic_update_irq([P EXCEPT !.s = c], "s")
  PROVE  /\ Cascade(Q) /\ Q.s = c /\ Q.m.isr = P.m.isr /\ Q.m.imr = P.m.imr
         /\ Q.m.irr \ {2} = P.m.irr \ {2}
         /\ 2 \in P.m.irr /\ Wants(Q, "s") => 2 \in Q.m.irr
<1> DEFINE R == [P EXCEPT !.s = c]
<1>1. R \in Pics /\ R.s = c /\ R.m = P.m
  <2>1. P \in Pics /\ c \in Controller
    BY Zenon DEF Regs, Slave, Std
  <2> QED BY <2>1, Replace, Zenon
<1> HIDE DEF R
<1>2. Regs(R)
  BY <1>1, Zenon DEF Regs
<1>3. /\ Cascade(Q) /\ Q.s = R.s /\ Q.m.isr = R.m.isr /\ Q.m.imr = R.m.imr
      /\ Q.m.irr \ {2} = R.m.irr \ {2}
      /\ 2 \in R.m.irr /\ Wants(R, "s") => 2 \in Q.m.irr
  BY <1>2, UpdateS, Zenon DEF R
<1>4. Wants(Q, "s") = Wants(R, "s")
  BY <1>3, WantsType
<1> QED BY <1>1, <1>3, <1>4, Zenon

(* New registers of the master, and its output. *)
LEMMA PutMaster ==
  ASSUME NEW P, Cascade(P), NEW c, Master(c),
         2 \in c.irr => 2 \in P.m.irr,
         NEW Q, Q = pic_update_irq([P EXCEPT !.m = c], "m")
  PROVE  Cascade(Q) /\ Q.m = c /\ Q.s = P.s
<1> DEFINE R == [P EXCEPT !.m = c]
<1>1. R \in Pics /\ R.m = c /\ R.s = P.s
  <2>1. P \in Pics /\ c \in Controller
    BY Zenon DEF Cascade, Regs, Master, Std
  <2> QED BY <2>1, Replace, Zenon
<1> HIDE DEF R
<1>2. Wants(R, "s") = Wants(P, "s")
  BY <1>1, WantsType, Zenon
<1>3. Cascade(R)
  BY <1>1, <1>2, Zenon DEF Cascade, Regs
<1> QED BY <1>1, <1>3, UpdateM, Zenon DEF R

(* A controller with more requests wants an interrupt if it did before. *)
LEMMA MoreRequests ==
  ASSUME NEW c, Std(c), NEW d, Std(d), NEW b \in BOOLEAN, d.isr = c.isr, d.imr = c.imr,
         c.irr \subseteq d.irr, pic_get_irq(c, b) # None
  PROVE  pic_get_irq(d, b) # None
<1>1. PICK k \in c.irr \ c.imr : \A i \in c.isr : k < i
  BY StdWants, Zenon
<1>2. k \in d.irr \ d.imr /\ \A i \in d.isr : k < i
  BY <1>1, Zenon
<1> QED BY <1>2, StdWants, Zenon

(* pic_request and pic_untrigger of IRQ 15 and 12, lines 7 and 4 of the    *)
(* slave.                                                                  *)
LEMMA SlaveIrq ==
  ASSUME NEW P, Cascade(P), NEW q \in {12, 15}, NEW b \in BOOLEAN
  PROVE  LET Q == SetIrq(P, q, b)
             i == q - 8
         IN /\ Cascade(Q) /\ Q.s = SetLine(P.s, i, b) /\ Std(P.s)
            /\ Q.m.isr = P.m.isr /\ Q.s.isr = P.s.isr
            /\ b /\ Wants(P, "m") => Wants(Q, "m")
<1> DEFINE i == q - 8
           c == SetLine(P.s, i, b)
           Q == SetIrq(P, q, b)
<1>1. i \in {4, 7} /\ i \in Line /\ q >= 8
  BY DEF Line
<1>2. Q = pic_update_irq([P EXCEPT !.s = c], "s")
  BY <1>1, Zenon DEF SetIrq, pic_set_irq
<1>3. Regs(P) /\ Std(P.s) /\ Std(P.m) /\ (2 \in P.m.irr => pic_get_irq(P.s, FALSE) # None)
  BY Zenon DEF Cascade, Regs, Wants, Master, Slave
<1>4. /\ Std(c) /\ c.imr = P.s.imr /\ c.isr = P.s.isr
      /\ c.irr \ {i} = P.s.irr \ {i} /\ c.last_irr \ {i} = P.s.last_irr \ {i}
      /\ i \in c.last_irr <=> b
      /\ i \in c.irr <=> b /\ (i \notin P.s.last_irr \/ i \in P.s.irr)
  BY <1>1, <1>3, StdSetLine
<1> HIDE DEF c, i, Q
<1>5. Slave(c) /\ (b => P.s.irr \subseteq c.irr)
  BY <1>1, <1>3, <1>4, Zenon DEF Regs, Slave
<1>6. /\ Cascade(Q) /\ Q.s = c /\ Q.m.isr = P.m.isr /\ Q.m.imr = P.m.imr
      /\ Q.m.irr \ {2} = P.m.irr \ {2}
      /\ 2 \in P.m.irr /\ Wants(Q, "s") => 2 \in Q.m.irr
  BY <1>2, <1>3, <1>5, PutSlave
<1>7. ASSUME b, Wants(P, "m") PROVE Wants(Q, "m")
  <2>1. 2 \in P.m.irr => 2 \in Q.m.irr
    BY <1>3, <1>4, <1>5, <1>6, <1>7, MoreRequests, Zenon DEF Wants
  <2>2. P.m.irr \subseteq Q.m.irr /\ Std(Q.m)
    BY <2>1, <1>6, Zenon DEF Cascade, Regs, Master
  <2>3. pic_get_irq(P.m, TRUE) # None
    BY <1>7, Zenon DEF Wants
  <2> QED BY <2>2, <2>3, <1>3, <1>6, MoreRequests, Zenon DEF Wants
<1> QED BY <1>3, <1>4, <1>6, <1>7, Zenon DEF c, i, Q

(* pic_request and pic_untrigger of IRQ 1. *)
LEMMA MasterIrq ==
  ASSUME NEW P, Cascade(P), NEW b \in BOOLEAN
  PROVE  LET Q == SetIrq(P, 1, b)
         IN /\ Cascade(Q) /\ Q.s = P.s /\ Q.m.isr = P.m.isr
            /\ b /\ Wants(P, "m") => Wants(Q, "m")
<1> DEFINE c == SetLine(P.m, 1, b)
           Q == SetIrq(P, 1, b)
<1>1. Q = pic_update_irq([P EXCEPT !.m = c], "m")
  BY DEF SetIrq, pic_set_irq
<1>2. Std(P.m) /\ 1 \in Line
  BY DEF Cascade, Regs, Master, Line
<1>3. /\ Std(c) /\ c.imr = P.m.imr /\ c.isr = P.m.isr /\ c.irr \ {1} = P.m.irr \ {1}
      /\ 1 \in c.irr <=> b /\ (1 \notin P.m.last_irr \/ 1 \in P.m.irr)
  BY <1>2, StdSetLine
<1> HIDE DEF c, Q
<1>4. /\ Master(c) /\ (2 \in c.irr => 2 \in P.m.irr)
      /\ b => P.m.irr \subseteq c.irr
  BY <1>3 DEF Cascade, Regs, Master
<1>5. Cascade(Q) /\ Q.m = c /\ Q.s = P.s
  BY <1>1, <1>3, <1>4, PutMaster
<1>6. ASSUME b, Wants(P, "m") PROVE Wants(Q, "m")
  BY <1>2, <1>3, <1>4, <1>5, <1>6, MoreRequests, Zenon DEF Wants
<1> QED BY <1>3, <1>5, <1>6, Zenon DEF Q

(* An acknowledged line moves from the request to the in-service register. *)
LEMMA StdAcked ==
  ASSUME NEW c, Std(c), NEW i \in Line
  PROVE  LET d == Acked(c, i)
         IN /\ Std(d) /\ d.isr = c.isr \cup {i} /\ d.irr = c.irr \ {i}
            /\ d.imr = c.imr /\ d.last_irr = c.last_irr
<1>1. i % 32 = i
  BY DEF Line
<1>2. {i % 32} \cap Line = {i}
  BY <1>1, Zenon
<1> HIDE DEF Line
<1> DEFINE d == [c EXCEPT !.isr = c.isr \cup {i}, !.priority_add = c.priority_add,
                          !.irr = c.irr \ ({i} \ c.elcr)]
<1>3. ~c.auto_eoi
  BY Zenon DEF Std
<1>4. Acked(c, i) = d
  <2> HIDE DEF d
  <2> QED BY <1>2, <1>3, Zenon DEF Acked, d
<1>5. Std(d) /\ d.isr = c.isr \cup {i} /\ d.irr = c.irr \ {i} /\ d.imr = c.imr
      /\ d.last_irr = c.last_irr
  BY Zenon DEF Std, Controller
<1> QED BY <1>4, <1>5, Zenon

(* pic_read_irq when the master wants an interrupt: it is IRQ 1, or one of *)
(* the slave, which wants it too.                                          *)
Took1(P, Q) ==
  /\ Vector(P) = <<"m", 1>> /\ (\A k \in P.m.isr : 1 < k)
  /\ Q.m.isr = P.m.isr \cup {1} /\ Q.s = P.s
TookSlave(P, Q, j) ==
  /\ Vector(P) = <<"s", j>> /\ (\A k \in P.m.isr : 2 < k) /\ (\A k \in P.s.isr : j < k)
  /\ j \in P.s.irr
  /\ Q.m.isr = P.m.isr \cup {2} /\ Q.s.isr = P.s.isr \cup {j}
  /\ Q.s.irr = P.s.irr \ {j} /\ Q.s.last_irr = P.s.last_irr
(* pic_read_irq of a wanted interrupt is never the spurious one. *)
LEMMA ReadIrq ==
  ASSUME NEW P, Cascade(P), Wants(P, "m")
  PROVE  LET Q == pic_read_irq(P)
         IN Cascade(Q) /\ (Took1(P, Q) \/ \E j \in {4, 7} : TookSlave(P, Q, j))
<1> DEFINE i == pic_get_irq(P.m, TRUE)
           j == pic_get_irq(P.s, FALSE)
           Q == pic_read_irq(P)
<1>1. /\ Std(P.m) /\ Std(P.s) /\ Regs(P) /\ i # None /\ (j # None <=> Wants(P, "s"))
  BY Zenon DEF Cascade, Regs, Wants, Master, Slave
<1>2. i \in P.m.irr /\ i \in {1, 2} /\ \A k \in P.m.isr : i < k
  BY <1>1, StdWants, Zenon DEF Regs, Master
<1>3. j # None => /\ j \in P.s.irr /\ j \in {4, 7} /\ (\A k \in P.s.isr : j < k)
                  /\ \A k \in P.s.irr \ P.s.imr : j <= k
  BY <1>1, StdWants, Zenon DEF Regs, Slave
<1> HIDE DEF i, j, Q
<1>4. CASE i = 1
  <2> DEFINE c == Acked(P.m, 1)
  <2>1. Q = pic_update_irq([P EXCEPT !.m = c], "m") /\ Vector(P) = <<"m", 1>>
    <3>1. i # None /\ i # 2
      BY <1>1, <1>4
    <3>2. Q = pic_intack(P, "m", 1)
      BY <3>1, <1>4, Zenon DEF pic_read_irq, i, j, Q
    <3>3. Vector(P) = <<"m", 1>>
      BY <3>1, <1>4, Zenon DEF Vector, i, j
    <3> QED BY <3>2, <3>3, Zenon DEF pic_intack
  <2>2. Std(c) /\ c.isr = P.m.isr \cup {1} /\ c.irr = P.m.irr \ {1}
    BY <1>1, StdAcked DEF Line
  <2> HIDE DEF c
  <2>3. Master(c) /\ (2 \in c.irr => 2 \in P.m.irr)
    BY <2>2, <1>1, Zenon DEF Regs, Master
  <2>4. Cascade(Q) /\ Q.m = c /\ Q.s = P.s
    BY <2>1, <2>2, <2>3, PutMaster
  <2>5. Took1(P, Q)
    BY <2>1, <2>2, <2>4, <1>2, <1>4, Zenon DEF Took1
  <2> QED BY <2>4, <2>5, Zenon DEF Q
<1>5. CASE i = 2
  <2>1. j # None
    BY <1>1, <1>2, <1>5, Zenon DEF Cascade
  <2>2. j \in {4, 7} /\ j \in Line /\ j \in P.s.irr /\ 2 \in Line
    BY <2>1, <1>3 DEF Line
  <2> DEFINE d == Acked(P.s, j)
             R == pic_update_irq([P EXCEPT !.s = d], "s")
             c == Acked(R.m, 2)
  <2>3. Q = pic_update_irq([R EXCEPT !.m = c], "m") /\ Vector(P) = <<"s", j>>
    <3> HIDE DEF d
    <3>1. R = pic_intack(P, "s", j)
      BY Zenon DEF pic_intack, d
    <3> HIDE DEF R
    <3>2. Q = pic_intack(R, "m", 2)
      BY <3>1, <1>1, <1>5, <2>1, Zenon DEF pic_read_irq, i, j, Q
    <3>3. pic_intack(R, "m", 2) = pic_update_irq([R EXCEPT !.m = c], "m")
      BY Zenon DEF pic_intack
    <3>4. Vector(P) = <<"s", j>>
      BY <1>1, <1>5, <2>1, Zenon DEF Vector, i, j
    <3> QED BY <3>2, <3>3, <3>4, Zenon
  <2>4. /\ Std(d) /\ d.isr = P.s.isr \cup {j} /\ d.irr = P.s.irr \ {j}
        /\ d.imr = P.s.imr /\ d.last_irr = P.s.last_irr
    BY <1>1, <2>2, StdAcked, Zenon
  <2> HIDE DEF d
  <2>5. Slave(d)
    BY <2>2, <2>4, <1>1, Zenon DEF Regs, Slave
  <2>6. Cascade(R) /\ R.s = d /\ R.m.isr = P.m.isr
    BY <2>5, <1>1, PutSlave
  <2> HIDE DEF R
  <2>7. Std(R.m) /\ Master(R.m)
    BY <2>6, Zenon DEF Cascade, Regs, Master
  <2>8. Std(c) /\ c.isr = R.m.isr \cup {2} /\ c.irr = R.m.irr \ {2}
    BY <2>7, <2>2, StdAcked
  <2> HIDE DEF c
  <2>9. Master(c) /\ (2 \in c.irr => 2 \in R.m.irr)
    BY <2>7, <2>8, Zenon DEF Master
  <2>10. Cascade(Q) /\ Q.m = c /\ Q.s = R.s
    BY <2>3, <2>6, <2>8, <2>9, PutMaster
  <2>11. TookSlave(P, Q, j)
    BY <2>1, <2>2, <2>3, <2>4, <2>6, <2>8, <2>10, <1>2, <1>3, <1>5, Zenon DEF TookSlave
  <2> QED BY <2>2, <2>10, <2>11, Zenon DEF Q
<1> QED BY <1>2, <1>4, <1>5, Zenon

(* A nonspecific EOI ends the interrupt in service with the least line. *)
LEMMA Eoi32 ==
  ASSUME NEW P, Cascade(P), NEW w \in {"m", "s"}, NEW i \in P[w].isr,
         \A k \in P[w].isr : i <= k
  PROVE  LET Q == pic_ioport_write(P, w, 0, 32)
         IN /\ Cascade(Q) /\ Q[w].isr = P[w].isr \ {i}
            /\ Q.s.irr = P.s.irr /\ Q.s.last_irr = P.s.last_irr
            /\ w = "m" => Q.s = P.s
            /\ w = "s" => Q.m.isr = P.m.isr
<1> DEFINE c == P[w]
           Q == pic_ioport_write(P, w, 0, 32)
           R == [P EXCEPT ![w].isr = @ \ {i}, ![w].priority_add = @]
           d == [c EXCEPT !.isr = @ \ {i}]
<1>1. Std(c) /\ P \in Pics /\ Regs(P) /\ c.isr \subseteq Line /\ ~c.poll /\ i \in Line
  BY Zenon DEF Cascade, Regs, Master, Slave, Std, Controller
<1>2. Q = WriteOcw2(P, w, 32)
  BY <1>1 DEF pic_ioport_write, WriteCommand, Bit
<1> DEFINE rot == (32 \div 32 = 5)
<1>3. Q = NonspecificEoi(P, w, rot) /\ ~rot
  <2>1. 32 \div 32 = 1
    OBVIOUS
  <2>2. WriteOcw2(P, w, 32) = NonspecificEoi(P, w, rot)
    BY <2>1 DEF WriteOcw2
  <2> QED BY <2>1, <2>2, <1>2
<1> HIDE DEF rot
<1>4. get_priority(c, c.isr) = i
  <2>1. c.priority_add = 0 /\ c.priority_add \in Line
    BY <1>1 DEF Std, Line
  <2>2. \A k \in Line : Rank(c, k) = k
    BY <2>1 DEF Rank, Line
  <2>3. /\ get_priority(c, c.isr) \in 0..8
        /\ \A k \in c.isr : get_priority(c, c.isr) <= Rank(c, k)
        /\ get_priority(c, c.isr) # 8 =>
              LineOfRank(c, get_priority(c, c.isr)) \in c.isr
              /\ Rank(c, LineOfRank(c, get_priority(c, c.isr))) = get_priority(c, c.isr)
        /\ get_priority(c, c.isr) = 8 <=> c.isr = {}
    BY <1>1, <2>1, LeastRank, Zenon
  <2> HIDE DEF c
  <2> QED BY <1>1, <2>2, <2>3 DEF Line, c
<1>5. LineOfRank(c, i) = i /\ i # 8
  BY <1>1 DEF LineOfRank, Std, Line
<1>6. Q = EndService(P, w, i, rot)
  BY <1>3, <1>4, <1>5, Zenon DEF NonspecificEoi
<1>7. Q = pic_update_irq(R, w)
  BY <1>3, <1>6, Zenon DEF EndService
<1>8. R[w] = d
  BY <1>1, Zenon DEF Std, Controller, Pics
<1>9. Std(d) /\ d.irr = c.irr /\ d.last_irr = c.last_irr /\ d.isr = c.isr \ {i}
  BY <1>1, Zenon DEF Std, Controller
<1>10. R \in Pics /\ \A o \in {"m", "s"} \ {w} : R[o] = P[o]
  <2>1. R[w] \in Controller
    BY <1>8, <1>9, Zenon DEF Std
  <2> QED BY <1>1, <2>1, Zenon DEF Pics
<1> HIDE DEF c, d, R, Q
<1>11. CASE w = "m"
  <2>1. R.m = d /\ R.s = P.s /\ c = P.m
    BY <1>8, <1>10, <1>11, Zenon DEF c
  <2>2. Wants(R, "s") = Wants(P, "s")
    BY <2>1, WantsType, Zenon
  <2>3. Cascade(R)
    BY <2>1, <2>2, <1>1, <1>9, <1>10, Zenon DEF Cascade, Regs, Master
  <2>4. Cascade(Q) /\ Q.m = R.m /\ Q.s = R.s
    BY <2>3, <1>7, <1>11, UpdateM, Zenon
  <2> QED BY <2>1, <2>4, <1>9, <1>11, Zenon DEF Q
<1>12. CASE w = "s"
  <2>1. R.s = d /\ R.m = P.m /\ c = P.s
    BY <1>8, <1>10, <1>12, Zenon DEF c
  <2>2. Regs(R)
    BY <2>1, <1>1, <1>9, <1>10, Zenon DEF Regs, Slave
  <2>3. Cascade(Q) /\ Q.s = R.s /\ Q.m.isr = R.m.isr
    BY <2>2, <1>7, <1>12, UpdateS, Zenon
  <2> QED BY <2>1, <2>3, <1>9, <1>12, Zenon DEF Q
<1> QED BY <1>11, <1>12, Zenon

(* A write that leaves the registers of requests, masks and services alone. *)
LEMMA Untouched ==
  ASSUME NEW P, Cascade(P), NEW R \in Pics, Std(R.m), Std(R.s),
         R.m.irr = P.m.irr, R.s.irr = P.s.irr, R.s.last_irr = P.s.last_irr,
         R.s.imr = P.s.imr, R.s.isr = P.s.isr
  PROVE  Cascade(R)
<1>1. Std(P.s) /\ Regs(R)
  BY Zenon DEF Cascade, Regs, Master, Slave
<1>2. Wants(P, "s") => Wants(R, "s")
  BY <1>1, MoreRequests, Zenon DEF Wants
<1> QED BY <1>1, <1>2, Zenon DEF Cascade

(* pic_reset_common clears the registers of an edge-triggered controller. *)
Cleared(c) == Std(c) /\ c.irr = {} /\ c.isr = {} /\ c.last_irr = {}
(* A controller as pic_reset_common leaves it. *)
LEMMA ZeroedIs ==
  ASSUME NEW c, Std(c), NEW d, d = [Zeroed EXCEPT !.irr = c.irr \cap c.elcr, !.elcr = c.elcr]
  PROVE  Cleared(d)
<1>1. Zeroed \in Controller /\ Cleared(Zeroed)
  BY DEF Zeroed, Controller, Line, Cleared, Std
<1>2. c.elcr = {} /\ c.irr \cap c.elcr = {}
  BY Zenon DEF Std
<1>3. d = [Zeroed EXCEPT !.irr = {}, !.elcr = {}]
  BY <1>2, Zenon
<1> HIDE DEF Zeroed
<1> QED BY <1>1, <1>3, Zenon DEF Cleared, Std, Controller

(* pic_init_reset, of one controller. *)
LEMMA InitReset ==
  ASSUME NEW P, Cascade(P), NEW w \in {"m", "s"}, NEW Q, Q = pic_init_reset(P, w)
  PROVE  /\ Cascade(Q) /\ Cleared(Q[w])
         /\ w = "m" => Q.s = P.s
         /\ w = "s" => Q.m.isr = P.m.isr
<1> DEFINE c == P[w]
           d == [Zeroed EXCEPT !.irr = c.irr \cap c.elcr, !.elcr = c.elcr]
<1>1. Q = pic_update_irq([P EXCEPT ![w] = d], w)
  BY Zenon DEF pic_init_reset
<1>2. Std(c) /\ Regs(P)
  BY Zenon DEF Cascade, Regs, Master, Slave
<1>3. Cleared(d)
  BY <1>2, ZeroedIs, Zenon
<1> HIDE DEF c, d
<1>4. Master(d) /\ Slave(d) /\ 2 \notin d.irr
  BY <1>3, Zenon DEF Cleared, Master, Slave
<1>5. CASE w = "m"
  <2>1. Q = pic_update_irq([P EXCEPT !.m = d], "m")
    BY <1>1, <1>5, Zenon
  <2>2. Cascade(Q) /\ Q.m = d /\ Q.s = P.s
    BY <2>1, <1>4, PutMaster
  <2> QED BY <2>2, <1>3, <1>5, Zenon
<1>6. CASE w = "s"
  <2>1. Q = pic_update_irq([P EXCEPT !.s = d], "s")
    BY <1>1, <1>6, Zenon
  <2>2. Cascade(Q) /\ Q.s = d /\ Q.m.isr = P.m.isr
    BY <2>1, <1>2, <1>4, PutSlave
  <2> QED BY <2>2, <1>3, <1>6, Zenon
<1> QED BY <1>5, <1>6, Zenon

(* pic_reset of both controllers. *)
LEMMA Reset ==
  ASSUME NEW P, Cascade(P), NEW Q, Q = pic_reset(P)
  PROVE  Cascade(Q) /\ Q.m.isr = {} /\ Cleared(Q.s)
<1> DEFINE c == [P.m EXCEPT !.elcr = {}]
           P1 == [P EXCEPT !.m = c]
           P2 == pic_init_reset(P1, "m")
           d == [P2.s EXCEPT !.elcr = {}]
           P3 == [P2 EXCEPT !.s = d]
<1>1. Q = pic_init_reset(P3, "s")
  BY Zenon DEF pic_reset
<1>2. Std(P.m) /\ Std(P.s) /\ P \in Pics
  BY Zenon DEF Cascade, Regs, Master, Slave
<1>3. Std(c) /\ c.irr = P.m.irr
  BY <1>2, Zenon DEF Std, Controller
<1> HIDE DEF c
<1>4. P1 \in Pics /\ P1.m = c /\ P1.s = P.s
  BY <1>2, <1>3, Replace, Zenon DEF Std
<1> HIDE DEF P1
<1>5. Cascade(P1)
  BY <1>2, <1>3, <1>4, Untouched, Zenon
<1>6. Cascade(P2) /\ Cleared(P2.m)
  BY <1>5, InitReset, Zenon
<1> HIDE DEF P2
<1>7. Std(P2.m) /\ Std(P2.s) /\ P2 \in Pics /\ P2.m.isr = {}
  BY <1>6, Zenon DEF Cascade, Regs, Slave, Cleared
<1>8. /\ Std(d) /\ d.irr = P2.s.irr /\ d.last_irr = P2.s.last_irr
      /\ d.imr = P2.s.imr /\ d.isr = P2.s.isr
  BY <1>7, Zenon DEF Std, Controller
<1> HIDE DEF d
<1>9. P3 \in Pics /\ P3.s = d /\ P3.m = P2.m
  BY <1>7, <1>8, Replace, Zenon DEF Std
<1> HIDE DEF P3
<1>10. Cascade(P3)
  BY <1>6, <1>7, <1>8, <1>9, Untouched, Zenon
<1>11. Cascade(Q) /\ Cleared(Q.s) /\ Q.m.isr = P3.m.isr
  BY <1>10, <1>1, InitReset, Zenon
<1> QED BY <1>11, <1>9, <1>7, Zenon

(* ICW1 without ICW4 (the byte 16 bios_setup writes) clears a controller. *)
LEMMA Icw1 ==
  ASSUME NEW P, Cascade(P), NEW w \in {"m", "s"}, NEW Q, Q = pic_ioport_write(P, w, 0, 16)
  PROVE  /\ Cascade(Q) /\ Cleared(Q[w])
         /\ w = "m" => Q.s = P.s
         /\ w = "s" => Q.m.isr = P.m.isr
<1> DEFINE R == pic_init_reset(P, w)
           b0 == Bit(16, 0)
           b1 == Bit(16, 1)
           c == [R[w] EXCEPT !.init_state = 1, !.init4 = b0, !.single_mode = b1]
<1>1. ~P[w].poll
  BY Zenon DEF Cascade, Regs, Master, Slave, Std
<1>2. Q = WriteIcw1(P, w, 16)
  BY <1>1 DEF pic_ioport_write, WriteCommand, Bit
<1>3. /\ Cascade(R) /\ Cleared(R[w]) /\ (w = "m" => R.s = P.s)
      /\ w = "s" => R.m.isr = P.m.isr
  BY InitReset, Zenon
<1>4. Q = [R EXCEPT ![w].init_state = 1, ![w].init4 = b0, ![w].single_mode = b1]
  BY <1>2, Zenon DEF WriteIcw1
<1>7. b0 = FALSE /\ b1 = FALSE
  BY DEF Bit
<1> HIDE DEF R, b0, b1
<1>5. R[w] \in Controller /\ Cleared(R[w]) /\ R \in Pics
  BY <1>3, Zenon DEF Cleared, Std, Cascade, Regs
<1>6. Q = [R EXCEPT ![w] = c]
  BY <1>4, <1>5, Zenon DEF Pics
<1>8. c \in Controller /\ Cleared(c) /\ c.imr = R[w].imr
  <2> DEFINE r == R[w]
  <2>1. r \in Controller /\ Std(r) /\ r.irr = {} /\ r.isr = {} /\ r.last_irr = {}
    BY <1>5, Zenon DEF Cleared
  <2> HIDE DEF r
  <2>2. c = [r EXCEPT !.init_state = 1, !.init4 = FALSE, !.single_mode = FALSE]
    BY <1>7, Zenon DEF r
  <2> HIDE DEF c
  <2>3. c \in Controller
    <3>1. 1 \in 0..3 /\ FALSE \in BOOLEAN
      OBVIOUS
    <3> QED BY <2>1, <2>2, <3>1, Zenon DEF Controller
  <2>5. c.irr = r.irr /\ c.isr = r.isr /\ c.last_irr = r.last_irr /\ c.imr = r.imr
    BY <2>1, <2>2, Zenon DEF Controller
  <2>4. Std(c)
    BY <2>1, <2>2, <2>3 DEF Controller, Std
  <2> QED BY <2>1, <2>3, <2>4, <2>5, Zenon DEF r, Cleared
<1> HIDE DEF c
<1>9. /\ Q \in Pics /\ Q[w] = c
      /\ w = "m" => Q.m = c /\ Q.s = R.s
      /\ w = "s" => Q.s = c /\ Q.m = R.m
  BY <1>5, <1>6, <1>8, SetPart
<1>10. Cascade(Q)
  <2>1. Std(R.m) /\ Std(R.s) /\ Std(c) /\ c.irr = {} /\ c.isr = {} /\ c.last_irr = {}
    BY <1>3, <1>8, Zenon DEF Cascade, Regs, Master, Slave, Cleared
  <2>2. R[w].irr = {} /\ R[w].isr = {} /\ R[w].last_irr = {}
    BY <1>3, Zenon DEF Cleared
  <2>3. CASE w = "m"
    BY <2>1, <2>2, <2>3, <1>3, <1>9, Untouched, Zenon
  <2>4. CASE w = "s"
    BY <2>1, <2>2, <2>4, <1>3, <1>8, <1>9, Untouched, Zenon
  <2> QED BY <2>3, <2>4, Zenon
<1> QED BY <1>3, <1>8, <1>9, <1>10, Zenon

(* A write to a data port: a new mask, or a step of the initialization. *)
LEMMA DataWrite ==
  ASSUME NEW P, Cascade(P), NEW w \in {"m", "s"}, NEW v, NEW Q,
         Q = pic_ioport_write(P, w, 1, v)
  PROVE  /\ Cascade(Q) /\ Q.m.isr = P.m.isr /\ Q.s.isr = P.s.isr
         /\ Q.s.irr = P.s.irr /\ Q.s.last_irr = P.s.last_irr
<1> DEFINE c == P[w]
           R == [P EXCEPT ![w].imr = BitSet(v)]
           d == [c EXCEPT !.imr = BitSet(v)]
           n == IF c.init_state = 1 /\ ~c.single_mode THEN 2 ELSE 0
           e == [c EXCEPT !.init_state = n]
<1>1. Std(c) /\ c \in Controller /\ P \in Pics /\ Regs(P)
  BY Zenon DEF Cascade, Regs, Master, Slave, Std
<1>2. Std(P.m) /\ Std(P.s)
  BY Zenon DEF Cascade, Regs, Master, Slave
<1>3. CASE c.init_state = 0
  <2>1. Q = pic_update_irq(R, w)
    BY <1>1, <1>3 DEF pic_ioport_write, WriteData, Std
  <2>2. R = [P EXCEPT ![w] = d]
    BY <1>1, Zenon DEF Pics
  <2>3. BitSet(v) \subseteq Line
    BY Zenon DEF BitSet
  <2>4. /\ Std(d) /\ d \in Controller /\ d.irr = c.irr /\ d.isr = c.isr
        /\ d.last_irr = c.last_irr
    BY <1>1, <2>3, Zenon DEF Std, Controller
  <2> HIDE DEF d, R, c
  <2>5. CASE w = "m"
    <3>1. Master(d) /\ (2 \in d.irr => 2 \in P.m.irr)
      BY <2>4, <2>5, <1>1, Zenon DEF Regs, Master, c
    <3>2. Q = pic_update_irq([P EXCEPT !.m = d], "m")
      BY <2>1, <2>2, <2>5, Zenon
    <3>3. Cascade(Q) /\ Q.m = d /\ Q.s = P.s
      BY <3>1, <3>2, PutMaster, Zenon
    <3> QED BY <3>3, <2>4, <2>5, Zenon DEF c
  <2>6. CASE w = "s"
    <3>1. Slave(d)
      BY <2>4, <2>6, <1>1, Zenon DEF Regs, Slave, c
    <3>2. Q = pic_update_irq([P EXCEPT !.s = d], "s")
      BY <2>1, <2>2, <2>6, Zenon
    <3>3. Cascade(Q) /\ Q.s = d /\ Q.m.isr = P.m.isr
      BY <3>1, <3>2, <1>1, PutSlave
    <3> QED BY <3>3, <2>4, <2>6, Zenon DEF c
  <2> QED BY <2>5, <2>6, Zenon
<1>4. CASE c.init_state # 0
  <2>1. c.init_state \in {1, 2} /\ ~c.init4
    BY <1>1, <1>4 DEF Std, Controller
  <2>2. Q = [P EXCEPT ![w].init_state = n]
    <3>1. ~P[w].poll
      BY <1>1, Zenon DEF Std
    <3>2. Q = WriteData(P, w, v)
      BY <3>1 DEF pic_ioport_write
    <3>3. CASE c.init_state = 1
      BY <3>2, <3>3, <2>1 DEF WriteData
    <3>4. CASE c.init_state = 2
      BY <3>2, <3>4, <2>1 DEF WriteData
    <3> QED BY <3>3, <3>4, <2>1, Zenon
  <2>3. Q = [P EXCEPT ![w] = e]
    BY <1>1, <2>2, Zenon DEF Pics
  <2>4. n \in {0, 2}
    BY Zenon
  <2> HIDE DEF n
  <2>5. /\ Std(e) /\ e \in Controller /\ e.irr = c.irr /\ e.isr = c.isr
        /\ e.last_irr = c.last_irr /\ e.imr = c.imr
    BY <1>1, <2>4 DEF Std, Controller
  <2> HIDE DEF e
  <2>6. /\ Q \in Pics
        /\ w = "m" => Q.m = e /\ Q.s = P.s
        /\ w = "s" => Q.s = e /\ Q.m = P.m
    BY <1>1, <2>3, <2>5, SetPart
  <2>7. CASE w = "m"
    BY <1>2, <2>5, <2>6, <2>7, Untouched, Zenon
  <2>8. CASE w = "s"
    BY <1>2, <2>5, <2>6, <2>8, Untouched, Zenon
  <2> QED BY <2>7, <2>8, Zenon
<1> QED BY <1>3, <1>4, Zenon

(* What a change of the line of IRQ 15 does to line 7 of the slave, and    *)
(* that one of IRQ 12 leaves it alone.                                     *)
LEMMA Line15 ==
  ASSUME NEW P, Cascade(P), NEW b \in BOOLEAN, NEW Q, Q = SetIrq(P, 15, b)
  PROVE  /\ Cascade(Q) /\ Q.m.isr = P.m.isr /\ Q.s.isr = P.s.isr
         /\ 7 \in Q.s.last_irr <=> b
         /\ 7 \in Q.s.irr <=> b /\ (7 \notin P.s.last_irr \/ 7 \in P.s.irr)
         /\ b /\ Wants(P, "m") => Wants(Q, "m")
<1>1. 15 - 8 = 7 /\ 7 \in Line
  BY DEF Line
<1>2. Std(P.s) /\ Q.s = SetLine(P.s, 7, b)
  BY <1>1, SlaveIrq, Zenon
<1> DEFINE c == P.s
           d == Q.s
<1> HIDE DEF c, d
<1>3. /\ 7 \in d.last_irr <=> b
      /\ 7 \in d.irr <=> b /\ (7 \notin c.last_irr \/ 7 \in c.irr)
  <2>1. Std(c) /\ d = SetLine(c, 7, b)
    BY <1>2, Zenon DEF c, d
  <2> QED BY <1>1, <2>1, StdSetLine, Zenon
<1> QED BY <1>3, SlaveIrq, Zenon DEF c, d

(* The same for IRQ 12. *)
LEMMA Line12 ==
  ASSUME NEW P, Cascade(P), NEW b \in BOOLEAN, NEW Q, Q = SetIrq(P, 12, b)
  PROVE  /\ Cascade(Q) /\ Q.m.isr = P.m.isr /\ Q.s.isr = P.s.isr
         /\ 7 \in Q.s.last_irr <=> 7 \in P.s.last_irr
         /\ 7 \in Q.s.irr <=> 7 \in P.s.irr
         /\ b /\ Wants(P, "m") => Wants(Q, "m")
<1>1. 12 - 8 = 4 /\ 4 \in Line /\ 4 # 7
  BY DEF Line
<1>2. Std(P.s) /\ Q.s = SetLine(P.s, 4, b)
  BY <1>1, SlaveIrq, Zenon
<1> DEFINE c == P.s
           d == Q.s
<1> HIDE DEF c, d
<1>4. /\ 7 \in d.last_irr <=> 7 \in c.last_irr
      /\ 7 \in d.irr <=> 7 \in c.irr
  <2>1. Std(c) /\ d = SetLine(c, 4, b)
    BY <1>2, Zenon DEF c, d
  <2> QED BY <1>1, <2>1, StdSetLine
<1> QED BY <1>4, SlaveIrq, Zenon DEF c, d

(* virq_raise: pic_request(VIRQ_IRQ_NUM). *)
LEMMA Request15 ==
  ASSUME NEW P, Cascade(P), NEW Q, Q = pic_request(P, 15)
  PROVE  /\ Cascade(Q) /\ Q.m.isr = P.m.isr /\ Q.s.isr = P.s.isr
         /\ 7 \in Q.s.last_irr /\ (7 \in Q.s.irr <=> 7 \notin P.s.last_irr \/ 7 \in P.s.irr)
         /\ Wants(P, "m") => Wants(Q, "m")
<1>1. Q = SetIrq(P, 15, TRUE) /\ TRUE \in BOOLEAN
  BY Zenon DEF pic_request
<1>2. /\ Cascade(Q) /\ Q.m.isr = P.m.isr /\ Q.s.isr = P.s.isr
      /\ Wants(P, "m") => Wants(Q, "m")
  BY <1>1, Line15, Zenon
<1>3. 7 \in Q.s.last_irr
  BY <1>1, Line15, Zenon
<1>4. 7 \in Q.s.irr <=> 7 \notin P.s.last_irr \/ 7 \in P.s.irr
  <2>1. 7 \in Q.s.irr <=> TRUE /\ (7 \notin P.s.last_irr \/ 7 \in P.s.irr)
    BY <1>1, Line15, ZenonT(30), Zenon
  <2> QED BY <2>1, Zenon
<1> QED BY <1>2, <1>3, <1>4, Zenon

(* virq_lower: pic_untrigger(VIRQ_IRQ_NUM). *)
LEMMA Lower15 ==
  ASSUME NEW P, Cascade(P), NEW Q, Q = pic_untrigger(P, 15)
  PROVE  /\ Cascade(Q) /\ Q.m.isr = P.m.isr /\ Q.s.isr = P.s.isr
         /\ 7 \notin Q.s.last_irr
<1>1. Q = SetIrq(P, 15, FALSE) /\ FALSE \in BOOLEAN
  BY Zenon DEF pic_untrigger
<1>2. Cascade(Q) /\ Q.m.isr = P.m.isr /\ Q.s.isr = P.s.isr
  BY <1>1, Line15, Zenon
<1>3. 7 \notin Q.s.last_irr
  BY <1>1, Line15, Zenon
<1> QED BY <1>2, <1>3, Zenon

(* The request of IRQ 12 by the hardware handler of the mouse. *)
LEMMA Request12Line ==
  ASSUME NEW P, Cascade(P), NEW Q, Q = pic_request(P, 12)
  PROVE  /\ Cascade(Q) /\ Q.m.isr = P.m.isr /\ Q.s.isr = P.s.isr
         /\ 7 \in Q.s.last_irr <=> 7 \in P.s.last_irr
         /\ 7 \in Q.s.irr <=> 7 \in P.s.irr
         /\ Wants(P, "m") => Wants(Q, "m")
BY Line12, ZenonT(40) DEF pic_request

(* IRQ 12 is served. *)
LEMMA Lower12 ==
  ASSUME NEW P, Cascade(P), NEW Q, Q = pic_untrigger(P, 12)
  PROVE  /\ Cascade(Q) /\ Q.m.isr = P.m.isr /\ Q.s.isr = P.s.isr
         /\ 7 \in Q.s.last_irr <=> 7 \in P.s.last_irr
         /\ 7 \in Q.s.irr <=> 7 \in P.s.irr
<1>1. Q = SetIrq(P, 12, FALSE) /\ FALSE \in BOOLEAN
  BY Zenon DEF pic_untrigger
<1>2. Cascade(Q) /\ Q.m.isr = P.m.isr /\ Q.s.isr = P.s.isr
  BY <1>1, Line12, Zenon
<1>3. 7 \in Q.s.last_irr <=> 7 \in P.s.last_irr
  BY <1>1, Line12, Zenon
<1>4. 7 \in Q.s.irr <=> 7 \in P.s.irr
  BY <1>1, Line12, Zenon
<1> QED BY <1>2, <1>3, <1>4, Zenon

(* A request of IRQ 1. *)
LEMMA Request1 ==
  ASSUME NEW P, Cascade(P), NEW Q, Q = pic_request(P, 1)
  PROVE  /\ Cascade(Q) /\ Q.m.isr = P.m.isr /\ Q.s = P.s
         /\ Wants(P, "m") => Wants(Q, "m")
BY MasterIrq, Zenon DEF pic_request

(* IRQ 1 is served and ended. *)
LEMMA Serve1 ==
  ASSUME NEW P, Cascade(P), 1 \in P.m.isr, P.m.isr \subseteq {1, 2}, NEW Q,
         Q = pic_ioport_write(pic_untrigger(P, 1), "m", 0, 32)
  PROVE  Cascade(Q) /\ Q.m.isr = P.m.isr \ {1} /\ Q.s = P.s
<1> DEFINE R == pic_untrigger(P, 1)
<1>1. Cascade(R) /\ R.m.isr = P.m.isr /\ R.s = P.s
  BY MasterIrq, Zenon DEF pic_untrigger
<1> HIDE DEF R
<1>2. 1 \in R.m.isr /\ \A k \in R.m.isr : 1 <= k
  BY <1>1
<1>3. Cascade(Q) /\ Q.m.isr = R.m.isr \ {1} /\ Q.s = R.s
  <2>1. Q = pic_ioport_write(R, "m", 0, 32)
    BY Zenon DEF R
  <2>2. 1 \in R["m"].isr /\ \A k \in R["m"].isr : 1 <= k
    BY <1>2, Zenon
  <2> QED BY <1>1, <2>1, <2>2, Eoi32
<1> QED BY <1>1, <1>3, Zenon

-----------------------------------------------------------------------------
(* The locations of virq_handler, its bottom half included. *)
InHandler == {"virq", "loop", "hwc", "hw", "request12_done", "request12_cont",
              "lower", "untrigger", "unlock", "sw", "bh"}
(* The frames of the DOS thread and what is in service with them.  While a *)
(* bottom half runs the master serves line 2, so only IRQ 1 gets through.  *)
Frame(l, st, m, s) == cpu \in l /\ stack = st /\ pics.m.isr = m /\ pics.s.isr = s
Frames ==
  \/ Frame({"dos", "virq_reset", "bios_setup", "virq_setup", "reassert"}, <<>>, {}, {})
  \/ Frame(InHandler, <<"dos">>, {2}, {7})
  \/ Frame({"inum"}, <<"dos">>, {}, {}) \/ Frame({"inum"}, <<"bh", "dos">>, {2}, {7})
  \/ Frame({"irq1"}, <<"dos">>, {1}, {}) \/ Frame({"irq1"}, <<"bh", "dos">>, {1, 2}, {7})
  \/ Frame({"irq12", "eoi2"}, <<"dos">>, {2}, {4})
  \/ Frame({"eoi2"}, <<"dos">>, {2}, {7})
  \/ Frame({"eoi"}, <<"dos">>, {2}, {})

(* Who holds the mutexes. *)
Mutexes ==
  /\ \A t \in Thread : (irr_mtx = t) <=> tpc[t] \in {"request", "unlock"}
  /\ \A t \in Thread : (hndl_mtx = t) <=> tpc[t] \in {"irr", "request", "unlock"}
  /\ (hndl_mtx = "main") <=>
       cpu \in {"hw", "request12_done", "request12_cont", "lower", "untrigger", "unlock"}
  /\ irr_mtx = "main" => cpu \in {"untrigger", "unlock"}
  /\ cpu = "untrigger" => irr_mtx = "main"

(* A thread that found the queue of n empty and has not set its bit yet;   *)
(* the handler that emptied the queue of n and has not cleared its bit.    *)
Raises(t, n) == tpc[t] \in {"raise", "irr"} /\ targ[t] = n
Drained(n) == cpu \in {"request12_done", "lower"} /\ cur = n
Queues ==
  /\ \A t \in Thread : tpc[t] # "idle" => targ[t] \in Virq
  /\ \A t \in Thread, n \in Virq : Raises(t, n) =>
       fifo[n] > 0 /\ (n \notin virq_irr \/ Drained(n))
  /\ \A t, u \in Thread, n \in Virq : Raises(t, n) /\ Raises(u, n) => t = u
  /\ \A n \in Virq : fifo[n] > 0 /\ (n \notin virq_irr \/ Drained(n))
       => \E t \in Thread : Raises(t, n)
  /\ \A n \in virq_irr : fifo[n] > 0 \/ Drained(n)
Current ==
  /\ cpu \in {"hwc", "hw", "request12_done", "request12_cont", "lower"} => cur \in virq_irr
  /\ cpu \in {"untrigger", "unlock", "sw"} => cur \in Virq
  /\ cpu = "bios_setup" => cur \in 1..6
  /\ cur_bh # None => \/ cpu \in {"bh", "virq", "virq_reset"}
                      \/ stack = <<"bh", "dos">>

(* The line of IRQ 15 against the register it stands for. *)
Requesting == \E t \in Thread : tpc[t] = "request"
LineOf15 ==
  /\ 7 \in pics.s.last_irr /\ cpu # "untrigger" => virq_irr # {}
  /\ virq_irr # {} /\ ~Booting /\ ~Requesting => 7 \in pics.s.last_irr
  /\ 7 \in pics.s.last_irr =>
       7 \in pics.s.irr \/ (7 \in pics.s.isr /\ cpu # "eoi2")
  /\ cpu = "untrigger" => virq_irr = {}
  /\ cpu = "reassert" \/ Requesting => virq_irr # {}

Types ==
  /\ virq_irr \subseteq Virq /\ cur_bh \in Virq \cup {None}
  /\ irr_mtx \in Thread \cup {"main", Nobody}
  /\ hndl_mtx \in Thread \cup {"main", Nobody}
  /\ fifo \in [Virq -> 0..FifoLen]
  /\ tpc \in [Thread -> {"idle", "raise", "irr", "request", "unlock"}]
  /\ targ \in [Thread -> Virq \cup {None}] /\ cur \in 0..6
IInv ==
  /\ Types /\ Cascade(pics) /\ Frames /\ (cpu = "inum" => Wants(pics, "m"))
  /\ Mutexes /\ Queues /\ Current /\ LineOf15

-----------------------------------------------------------------------------
(* The locations of the DOS thread inside virq_hwc_write, with hndl_mtx.   *)
InHwc == {"hw", "request12_done", "request12_cont", "lower", "untrigger", "unlock"}
Shared == <<virq_irr, irr_mtx, hndl_mtx, fifo, tpc, targ>>

(* Steps of the DOS thread outside virq_hwc_write do not matter to the     *)
(* mutexes and the queues.                                                 *)
LEMMA Outside ==
  ASSUME IInv, UNCHANGED Shared, cpu \notin InHwc, cpu' \notin InHwc,
         cur' \in 0..6, cur_bh' \in Virq \cup {None}
  PROVE  Types' /\ Mutexes' /\ Queues'
<1>1. Types'
  BY Zenon DEF IInv, Types, Shared
<1>2. Mutexes'
  BY Zenon DEF IInv, Mutexes, Shared, InHwc
<1>3. \A n \in Virq : ~Drained(n) /\ ~Drained(n)'
  BY Zenon DEF Drained, InHwc
<1>4. \A t \in Thread, n \in Virq : Raises(t, n)' <=> Raises(t, n)
  BY Zenon DEF Raises, Shared
<1>5. virq_irr \subseteq Virq
  BY Zenon DEF IInv, Types
<1>6. Queues'
  BY <1>3, <1>4, <1>5, Zenon DEF IInv, Queues, Shared
<1> QED BY <1>1, <1>2, <1>6, Zenon

(* What a step that leaves the DOS thread where it is has to keep of the   *)
(* rest.                                                                   *)
LEMMA Elsewhere ==
  ASSUME IInv, UNCHANGED <<pics, dosvars>>
  PROVE  /\ Cascade(pics)' /\ Frames' /\ (cpu = "inum" => Wants(pics, "m"))'
         /\ \A n \in Virq : Drained(n)' <=> Drained(n)
BY Zenon DEF IInv, dosvars, Frames, Frame, Wants, Drained

(* fifo_mdrv_add: the event that makes a queue non-empty finds its bit     *)
(* clear or about to be cleared, and nobody else about to set it.          *)
LEMMA AddKeeps ==
  ASSUME IInv, NEW t \in Thread, NEW n \in Virq, fifo_mdrv_add(t, n)
  PROVE  IInv'
<1> DEFINE cnt == IF fifo[n] < FifoLen THEN fifo[n] + 1 ELSE fifo[n]
<1>1. /\ tpc[t] = "idle" /\ fifo' = [fifo EXCEPT ![n] = cnt]
      /\ tpc' = [tpc EXCEPT ![t] = IF cnt = 1 THEN "raise" ELSE "idle"]
      /\ targ' = [targ EXCEPT ![t] = IF cnt = 1 THEN n ELSE None]
      /\ UNCHANGED <<pics, virq_irr, irr_mtx, hndl_mtx, cpu, stack, cur, cur_bh>>
  BY Zenon DEF fifo_mdrv_add, Step, dosvars
<1>2. Types /\ Mutexes /\ Queues /\ LineOf15
  BY Zenon DEF IInv
<1>3. cnt \in 0..FifoLen /\ cnt > 0 /\ (cnt = 1 => fifo[n] = 0)
      /\ (fifo[n] = 0 => cnt = 1)
  BY <1>2, VirqAssumption DEF Types
<1> HIDE DEF cnt
<1>4. Types'
  BY <1>1, <1>2, <1>3, Zenon DEF Types
<1>5. \A u \in Thread : u # t => tpc'[u] = tpc[u] /\ targ'[u] = targ[u]
  BY <1>1, <1>2, Zenon DEF Types
<1>6. /\ tpc'[t] = IF cnt = 1 THEN "raise" ELSE "idle"
      /\ cnt = 1 => targ'[t] = n
      /\ \A k \in Virq : fifo'[k] = IF k = n THEN cnt ELSE fifo[k]
  BY <1>1, <1>2, Zenon DEF Types
<1>7. Mutexes'
  BY <1>1, <1>2, <1>5, <1>6 DEF Mutexes
<1>8. Requesting' <=> Requesting
  BY <1>1, <1>5, <1>6 DEF Requesting
<1>9. Queues'
  <2>1. \A u \in Thread, k \in Virq :
           Raises(u, k)' <=> IF u = t THEN cnt = 1 /\ k = n ELSE Raises(u, k)
    BY <1>5, <1>6, Zenon DEF Raises
  <2>2. ~\E k \in Virq : Raises(t, k)
    BY <1>1, Zenon DEF Raises
  <2>3. \A k \in Virq : Drained(k)' <=> Drained(k)
    BY <1>1, Zenon DEF Drained
  <2>4. \A k \in Virq : fifo[k] \in Nat
    BY <1>2 DEF Types
  <2>5. \A u \in Thread : tpc'[u] # "idle" => targ'[u] \in Virq
    BY <1>2, <1>5, <1>6, Zenon DEF Queues
  <2>6. \A u \in Thread, k \in Virq : Raises(u, k)' =>
          fifo'[k] > 0 /\ (k \notin virq_irr' \/ Drained(k)')
    BY <1>1, <1>2, <1>3, <1>6, <2>1, <2>3, <2>4 DEF Queues
  <2>7. \A u, x \in Thread, k \in Virq : Raises(u, k)' /\ Raises(x, k)' => u = x
    BY <1>2, <1>3, <2>1, <2>4 DEF Queues
  <2>8. \A k \in Virq : fifo'[k] > 0 /\ (k \notin virq_irr' \/ Drained(k)')
          => \E u \in Thread : Raises(u, k)'
    BY <1>1, <1>2, <1>3, <1>6, <2>1, <2>2, <2>3, <2>4 DEF Queues
  <2>9. \A k \in virq_irr' : fifo'[k] > 0 \/ Drained(k)'
    BY <1>1, <1>2, <1>3, <1>6, <2>3, Zenon DEF Queues, Types
  <2> QED BY <2>5, <2>6, <2>7, <2>8, <2>9, Zenon DEF Queues
<1>10. Current' /\ LineOf15'
  BY <1>1, <1>8, Zenon DEF IInv, Current, LineOf15, Booting
<1>11. Cascade(pics)' /\ Frames' /\ (cpu = "inum" => Wants(pics, "m"))'
  BY Elsewhere, Zenon DEF fifo_mdrv_add
<1> QED BY <1>11, <1>4, <1>7, <1>9, <1>10, Zenon DEF IInv

(* virq_raise takes hndl_mtx. *)
LEMMA RaiseHndlKeeps ==
  ASSUME IInv, NEW t \in Thread, RaiseHndl(t)
  PROVE  IInv'
<1>1. /\ tpc[t] = "raise" /\ hndl_mtx = Nobody /\ hndl_mtx' = t
      /\ tpc' = [tpc EXCEPT ![t] = "irr"]
      /\ UNCHANGED <<pics, virq_irr, irr_mtx, fifo, targ, cpu, stack, cur, cur_bh>>
  BY Zenon DEF RaiseHndl, Step, dosvars
<1>2. Types /\ Mutexes /\ Queues /\ LineOf15 /\ Current
  BY Zenon DEF IInv
<1>3. Types'
  BY <1>1, <1>2, Zenon DEF Types
<1>4. /\ \A u \in Thread : u # t => tpc'[u] = tpc[u]
      /\ tpc'[t] = "irr"
  BY <1>1, <1>2, Zenon DEF Types
<1>5. Mutexes'
  BY <1>1, <1>2, <1>4, VirqAssumption, Zenon DEF Mutexes
<1>6. \A u \in Thread, k \in Virq : Raises(u, k)' <=> Raises(u, k)
  BY <1>1, <1>4, Zenon DEF Raises
<1>7. /\ Cascade(pics)' /\ Frames' /\ (cpu = "inum" => Wants(pics, "m"))'
      /\ \A n \in Virq : Drained(n)' <=> Drained(n)
  BY Elsewhere, Zenon DEF RaiseHndl
<1>8. Queues'
  BY <1>1, <1>2, <1>4, <1>6, <1>7, Zenon DEF Queues, Types
<1>9. Current' /\ LineOf15'
  BY <1>1, <1>2, <1>4, Zenon DEF Current, LineOf15, Requesting, Booting
<1> QED BY <1>3, <1>5, <1>7, <1>8, <1>9, Zenon DEF IInv

(* virq_raise sets its bit under irr_mtx: nobody else raises that virtual  *)
(* IRQ, and the handler is not between draining its queue and lowering it. *)
LEMMA RaiseIrrKeeps ==
  ASSUME IInv, NEW t \in Thread, RaiseIrr(t)
  PROVE  IInv'
<1> DEFINE n == targ[t]
           l == IF virq_irr = {} THEN "request" ELSE "unlock"
<1>1. /\ tpc[t] = "irr" /\ irr_mtx = Nobody /\ irr_mtx' = t
      /\ virq_irr' = virq_irr \cup {n}
      /\ tpc' = [tpc EXCEPT ![t] = l]
      /\ UNCHANGED <<pics, hndl_mtx, fifo, targ, cpu, stack, cur, cur_bh>>
  BY Zenon DEF RaiseIrr, Step, dosvars
<1>2. Types /\ Mutexes /\ Queues /\ LineOf15 /\ Current
  BY Zenon DEF IInv
<1>3. n \in Virq /\ Raises(t, n)
  BY <1>1, <1>2, Zenon DEF Queues, Raises
<1>4. l \in {"request", "unlock"}
  BY Zenon
<1>5. Types'
  BY <1>1, <1>2, <1>3, <1>4, Zenon DEF Types
<1>6. /\ \A u \in Thread : u # t => tpc'[u] = tpc[u]
      /\ tpc'[t] = l
  BY <1>1, <1>2, Zenon DEF Types
<1>7. hndl_mtx = t /\ cpu \notin InHwc
  BY <1>1, <1>2, VirqAssumption, Zenon DEF Mutexes, InHwc
<1>8. \A k \in Virq : ~Drained(k) /\ ~Drained(k)'
  BY <1>1, <1>7, Zenon DEF Drained, InHwc
<1>9. Mutexes'
  BY <1>1, <1>2, <1>4, <1>6, <1>7, VirqAssumption, Zenon DEF Mutexes
<1>10. \A u \in Thread, k \in Virq : Raises(u, k)' <=> Raises(u, k) /\ u # t
  BY <1>1, <1>4, <1>6, Zenon DEF Raises
<1>11. Queues'
  <2>1. \A u \in Thread : tpc'[u] # "idle" => targ'[u] \in Virq
    BY <1>1, <1>2, <1>3, <1>6, Zenon DEF Queues
  <2>2. \A u \in Thread, k \in Virq : Raises(u, k)' =>
          fifo'[k] > 0 /\ (k \notin virq_irr' \/ Drained(k)')
    <3> SUFFICES ASSUME NEW u \in Thread, NEW k \in Virq, Raises(u, k), u # t
                 PROVE  fifo[k] > 0 /\ k \notin virq_irr'
      BY <1>1, <1>10, Zenon
    <3>1. fifo[k] > 0 /\ k \notin virq_irr
      BY <1>2, <1>8, Zenon DEF Queues
    <3>2. k # n
      BY <1>2, <1>3, Zenon DEF Queues
    <3> QED BY <1>1, <3>1, <3>2, Zenon
  <2>3. \A u, x \in Thread, k \in Virq : Raises(u, k)' /\ Raises(x, k)' => u = x
    BY <1>2, <1>10, Zenon DEF Queues
  <2>4. \A k \in Virq : fifo'[k] > 0 /\ (k \notin virq_irr' \/ Drained(k)')
          => \E u \in Thread : Raises(u, k)'
    <3> SUFFICES ASSUME NEW k \in Virq, fifo[k] > 0, k \notin virq_irr, k # n
                 PROVE  \E u \in Thread : Raises(u, k)'
      BY <1>1, <1>8, Zenon
    <3>1. PICK u \in Thread : Raises(u, k)
      BY <1>2, Zenon DEF Queues
    <3>2. u # t
      BY <3>1, Zenon DEF Raises
    <3> QED BY <3>1, <3>2, <1>10, Zenon
  <2>5. \A k \in virq_irr' : fifo'[k] > 0 \/ Drained(k)'
    BY <1>1, <1>2, <1>3, <1>8, Zenon DEF Queues, Types
  <2> QED BY <2>1, <2>2, <2>3, <2>4, <2>5, Zenon DEF Queues
<1>12. Current'
  BY <1>1, <1>2, Zenon DEF Current
<1>13. LineOf15'
  <2>1. ~Requesting /\ cpu # "untrigger" /\ virq_irr' # {}
    BY <1>1, <1>2, VirqAssumption, Zenon DEF Requesting, Mutexes
  <2>2. ~Requesting' => virq_irr # {}
    BY <1>6, Zenon DEF Requesting
  <2> QED BY <1>1, <1>2, <2>1, <2>2, Zenon DEF LineOf15, Booting
<1>14. Cascade(pics)' /\ Frames' /\ (cpu = "inum" => Wants(pics, "m"))'
  BY Elsewhere, Zenon DEF RaiseIrr
<1> QED BY <1>5, <1>9, <1>11, <1>12, <1>13, <1>14, Zenon DEF IInv

(* virq_raise raises the line for the first bit. *)
LEMMA RaiseRequestKeeps ==
  ASSUME IInv, NEW t \in Thread, RaiseRequest(t)
  PROVE  IInv'
<1>1. /\ tpc[t] = "request" /\ pics' = pic_request(pics, 15)
      /\ tpc' = [tpc EXCEPT ![t] = "unlock"]
      /\ UNCHANGED <<virq_irr, irr_mtx, hndl_mtx, fifo, targ, cpu, stack, cur, cur_bh>>
  BY Zenon DEF RaiseRequest, Step, dosvars, VIRQ_IRQ_NUM
<1>2. Types /\ Mutexes /\ Queues /\ LineOf15 /\ Current /\ Frames /\ Cascade(pics)
  BY Zenon DEF IInv
<1>3. Types'
  BY <1>1, <1>2, Zenon DEF Types
<1>4. /\ \A u \in Thread : u # t => tpc'[u] = tpc[u]
      /\ tpc'[t] = "unlock"
  BY <1>1, <1>2, Zenon DEF Types
<1>5. Mutexes'
  BY <1>1, <1>2, <1>4, Zenon DEF Mutexes
<1>6. \A u \in Thread, k \in Virq : Raises(u, k)' <=> Raises(u, k)
  BY <1>1, <1>4, Zenon DEF Raises
<1>7. \A k \in Virq : Drained(k)' <=> Drained(k)
  BY <1>1, Zenon DEF Drained
<1>8. Queues'
  BY <1>1, <1>2, <1>4, <1>6, <1>7, Zenon DEF Queues, Types
<1>9. /\ Cascade(pics') /\ pics'.m.isr = pics.m.isr /\ pics'.s.isr = pics.s.isr
      /\ 7 \in pics'.s.last_irr
      /\ 7 \in pics'.s.irr <=> 7 \notin pics.s.last_irr \/ 7 \in pics.s.irr
      /\ Wants(pics, "m") => Wants(pics', "m")
  BY <1>1, <1>2, Request15
<1>10. Current' /\ Frames' /\ (cpu' = "inum" => Wants(pics', "m"))
  BY <1>1, <1>2, <1>9, Zenon DEF IInv, Current, Frames, Frame
<1>11. LineOf15'
  <2>1. Requesting /\ virq_irr # {} /\ cpu # "untrigger"
    BY <1>1, <1>2, VirqAssumption, Zenon DEF Requesting, LineOf15, Mutexes
  <2> QED BY <1>1, <1>2, <1>9, <2>1, Zenon DEF LineOf15
<1> QED BY <1>3, <1>5, <1>8, <1>9, <1>10, <1>11, Zenon DEF IInv, Wants

(* virq_raise releases both mutexes. *)
LEMMA RaiseUnlockKeeps ==
  ASSUME IInv, NEW t \in Thread, RaiseUnlock(t)
  PROVE  IInv'
<1>1. /\ tpc[t] = "unlock" /\ irr_mtx' = Nobody /\ hndl_mtx' = Nobody
      /\ tpc' = [tpc EXCEPT ![t] = "idle"] /\ targ' = [targ EXCEPT ![t] = None]
      /\ UNCHANGED <<pics, virq_irr, fifo, cpu, stack, cur, cur_bh>>
  BY Zenon DEF RaiseUnlock, Step, dosvars
<1>2. Types /\ Mutexes /\ Queues /\ LineOf15 /\ Current
  BY Zenon DEF IInv
<1>3. Types'
  BY <1>1, <1>2, Zenon DEF Types
<1>4. /\ \A u \in Thread : u # t => tpc'[u] = tpc[u] /\ targ'[u] = targ[u]
      /\ tpc'[t] = "idle"
  BY <1>1, <1>2, Zenon DEF Types
<1>5. irr_mtx = t /\ hndl_mtx = t
  BY <1>1, <1>2, Zenon DEF Mutexes
<1>6. Mutexes'
  BY <1>1, <1>2, <1>4, <1>5, VirqAssumption, Zenon DEF Mutexes
<1>7. \A u \in Thread, k \in Virq : Raises(u, k)' <=> Raises(u, k)
  BY <1>1, <1>4, Zenon DEF Raises
<1>8. /\ Cascade(pics)' /\ Frames' /\ (cpu = "inum" => Wants(pics, "m"))'
      /\ \A n \in Virq : Drained(n)' <=> Drained(n)
  BY Elsewhere, Zenon DEF RaiseUnlock
<1>9. Queues'
  BY <1>1, <1>2, <1>4, <1>7, <1>8, Zenon DEF Queues, Types
<1>10. Current' /\ LineOf15'
  BY <1>1, <1>2, <1>4, Zenon DEF Current, LineOf15, Requesting, Booting
<1> QED BY <1>3, <1>6, <1>8, <1>9, <1>10, Zenon DEF IInv

(* A request of IRQ 1 by another thread. *)
LEMMA KeyKeeps ==
  ASSUME IInv, Key
  PROVE  IInv'
<1>1. /\ pics' = pic_request(pics, 1) /\ UNCHANGED <<Shared, dosvars>>
  BY Zenon DEF Key, Shared
<1>2. Types /\ Mutexes /\ Queues /\ LineOf15 /\ Current /\ Frames /\ Cascade(pics)
  BY Zenon DEF IInv
<1>3. /\ Cascade(pics') /\ pics'.m.isr = pics.m.isr /\ pics'.s = pics.s
      /\ Wants(pics, "m") => Wants(pics', "m")
  BY <1>1, <1>2, Request1, Zenon
<1>4. Types' /\ Mutexes' /\ Current' /\ Frames' /\ LineOf15'
  BY <1>1, <1>2, <1>3
     DEF Types, Mutexes, Current, Frames, Frame, LineOf15, Requesting, Booting, Shared,
         dosvars
<1>5. Queues'
  BY <1>1, <1>2, Zenon DEF Queues, Raises, Drained, Shared, dosvars
<1> QED BY <1>1, <1>3, <1>4, <1>5, Zenon DEF IInv, dosvars, Wants

-----------------------------------------------------------------------------
(* The frames of an interrupt in DOS and of one in a bottom half. *)
LEMMA PushPop ==
  /\ <<"dos">> \o <<>> = <<"dos">> /\ <<"bh">> \o <<"dos">> = <<"bh", "dos">>
  /\ Head(<<"dos">>) = "dos" /\ Tail(<<"dos">>) = <<>>
  /\ Head(<<"bh", "dos">>) = "bh" /\ Tail(<<"bh", "dos">>) = <<"dos">>
<1>1. <<"bh">> \o <<"dos">> = <<"bh", "dos">>
  <2> DEFINE a == <<"bh">> \o <<"dos">>
  <2>1. a \in Seq({"bh", "dos"}) /\ Len(a) = 2
    OBVIOUS
  <2>2. a[1] = "bh"
    OBVIOUS
  <2>3. a[2] = "dos"
    OBVIOUS
  <2> HIDE DEF a
  <2>4. a = <<"bh", "dos">>
    BY <2>1, <2>2, <2>3
  <2> QED BY <2>4 DEF a
<1>2. <<"dos">> \o <<>> = <<"dos">>
  OBVIOUS
<1>3. /\ Head(<<"dos">>) = "dos" /\ Tail(<<"dos">>) = <<>>
      /\ Head(<<"bh", "dos">>) = "bh" /\ Tail(<<"bh", "dos">>) = <<"dos">>
  OBVIOUS
<1> QED BY <1>1, <1>2, <1>3, Zenon

(* pic_run finds an interrupt pending in DOS or in a bottom half. *)
LEMMA PendingKeeps ==
  ASSUME IInv, pic_pending
  PROVE  IInv'
<1>1. /\ cpu \in {"dos", "bh"} /\ Wants(pics, "m") /\ stack' = <<cpu>> \o stack
      /\ cpu' = "inum" /\ UNCHANGED <<pics, cur, cur_bh, Shared>>
  BY Zenon DEF pic_pending, Shared, Others
<1>2. Types /\ LineOf15 /\ Current /\ Frames /\ Cascade(pics)
  BY Zenon DEF IInv
<1>3. \/ Frame({"dos"}, <<>>, {}, {}) \/ Frame({"bh"}, <<"dos">>, {2}, {7})
  BY <1>1, <1>2, Zenon DEF Frames, Frame, InHandler
<1>4. Frames' /\ (cpu = "bh" => stack' = <<"bh", "dos">>)
  <2>1. CASE Frame({"dos"}, <<>>, {}, {})
    <3>1. stack' = <<"dos">> /\ cpu = "dos"
      BY <1>1, <2>1, PushPop, Zenon DEF Frame
    <3> QED BY <1>1, <2>1, <3>1, Zenon DEF Frames, Frame
  <2>2. CASE Frame({"bh"}, <<"dos">>, {2}, {7})
    <3>1. stack' = <<"bh", "dos">>
      BY <1>1, <2>2, PushPop, Zenon DEF Frame
    <3> QED BY <1>1, <2>2, <3>1, Zenon DEF Frames, Frame
  <2> QED BY <1>3, <2>1, <2>2, Zenon
<1>5. Current'
  BY <1>1, <1>2, <1>3, <1>4 DEF Current, Frame, Shared
<1>6. LineOf15'
  BY <1>1, <1>2, Zenon DEF LineOf15, Booting, Requesting, Shared
<1>7. Types' /\ Mutexes' /\ Queues'
  BY <1>1, <1>2, Outside, Zenon DEF InHwc, Types
<1> QED BY <1>1, <1>2, <1>4, <1>5, <1>6, <1>7, Zenon DEF IInv, Wants

(* The interrupt pic_get_inum takes: IRQ 1 anywhere, one of the slave only *)
(* in DOS with nothing in service.                                         *)
LEMMA Taken ==
  ASSUME IInv, pic_get_inum
  PROVE  /\ Cascade(pics')
         /\ \/ /\ cpu' = "irq1" /\ pics'.s = pics.s
               /\ \/ stack = <<"dos">> /\ pics.s.isr = {} /\ pics'.m.isr = {1}
                  \/ stack = <<"bh", "dos">> /\ pics.s.isr = {7} /\ pics'.m.isr = {1, 2}
            \/ \E j \in {4, 7} :
                 /\ cpu' = (IF j = 7 THEN "virq" ELSE "irq12") /\ stack = <<"dos">>
                 /\ pics.s.isr = {} /\ pics'.m.isr = {2} /\ pics'.s.isr = {j}
                 /\ j \in pics.s.irr /\ pics'.s.irr = pics.s.irr \ {j}
                 /\ pics'.s.last_irr = pics.s.last_irr
<1>1. /\ cpu = "inum" /\ pics' = pic_read_irq(pics) /\ cpu' = Handler(Vector(pics))
  BY Zenon DEF pic_get_inum, Goto
<1>2. Cascade(pics) /\ Frames /\ Wants(pics, "m")
  BY <1>1, Zenon DEF IInv
<1>3. \/ stack = <<"dos">> /\ pics.m.isr = {} /\ pics.s.isr = {}
      \/ stack = <<"bh", "dos">> /\ pics.m.isr = {2} /\ pics.s.isr = {7}
  BY <1>1, <1>2, Zenon DEF Frames, Frame, InHandler
<1>4. Cascade(pics') /\ (Took1(pics, pics') \/ \E j \in {4, 7} : TookSlave(pics, pics', j))
  BY <1>1, <1>2, ReadIrq, Zenon
<1>5. CASE Took1(pics, pics')
  <2>1. Vector(pics) = <<"m", 1>> /\ pics'.m.isr = pics.m.isr \cup {1} /\ pics'.s = pics.s
    BY <1>5, Zenon DEF Took1
  <2>2. Handler(<<"m", 1>>) = "irq1"
    BY Zenon DEF Handler
  <2>3. cpu' = "irq1"
    BY <1>1, <2>1, <2>2, Zenon
  <2>4. {2} \cup {1} = {1, 2} /\ {} \cup {1} = {1}
    BY Zenon
  <2> QED BY <1>3, <1>4, <2>1, <2>3, <2>4, Zenon
<1>6. ASSUME NEW j \in {4, 7}, TookSlave(pics, pics', j)
      PROVE  /\ cpu' = (IF j = 7 THEN "virq" ELSE "irq12") /\ stack = <<"dos">>
             /\ pics.s.isr = {} /\ pics'.m.isr = {2} /\ pics'.s.isr = {j}
             /\ j \in pics.s.irr /\ pics'.s.irr = pics.s.irr \ {j}
             /\ pics'.s.last_irr = pics.s.last_irr
  <2>1. /\ Vector(pics) = <<"s", j>> /\ (\A k \in pics.m.isr : 2 < k) /\ j \in pics.s.irr
        /\ pics'.m.isr = pics.m.isr \cup {2} /\ pics'.s.isr = pics.s.isr \cup {j}
        /\ pics'.s.irr = pics.s.irr \ {j} /\ pics'.s.last_irr = pics.s.last_irr
    BY <1>6, Zenon DEF TookSlave
  <2>2. stack = <<"dos">> /\ pics.m.isr = {} /\ pics.s.isr = {}
    BY <1>3, <2>1
  <2>3. Handler(<<"s", j>>) = IF j = 7 THEN "virq" ELSE "irq12"
    BY DEF Handler
  <2>4. cpu' = IF j = 7 THEN "virq" ELSE "irq12"
    BY <1>1, <2>1, <2>3, Zenon
  <2> QED BY <2>1, <2>2, <2>4, Zenon
<1> QED BY <1>4, <1>5, <1>6, Zenon

(* pic_get_inum. *)
LEMMA GetInumKeeps ==
  ASSUME IInv, pic_get_inum
  PROVE  IInv'
<1>1. cpu = "inum" /\ UNCHANGED <<stack, cur, cur_bh, Shared>>
  BY Zenon DEF pic_get_inum, Goto, Others, Shared
<1>2. Types /\ LineOf15 /\ Current /\ Cascade(pics')
  BY Taken, Zenon DEF IInv
<1>3. CASE /\ cpu' = "irq1" /\ pics'.s = pics.s
           /\ \/ stack = <<"dos">> /\ pics.s.isr = {} /\ pics'.m.isr = {1}
              \/ stack = <<"bh", "dos">> /\ pics.s.isr = {7} /\ pics'.m.isr = {1, 2}
  <2>1. Frames'
    BY <1>1, <1>3, Zenon DEF Frames, Frame
  <2>2. Current' /\ LineOf15'
    BY <1>1, <1>2, <1>3, Zenon DEF Current, LineOf15, Booting, Requesting, Shared
  <2>3. Types' /\ Mutexes' /\ Queues'
    BY <1>1, <1>2, <1>3, Outside, Zenon DEF InHwc, Types
  <2> QED BY <1>2, <1>3, <2>1, <2>2, <2>3, Zenon DEF IInv
<1>4. ASSUME NEW j \in {4, 7},
             cpu' = (IF j = 7 THEN "virq" ELSE "irq12"), stack = <<"dos">>,
             pics.s.isr = {}, pics'.m.isr = {2}, pics'.s.isr = {j},
             j \in pics.s.irr, pics'.s.irr = pics.s.irr \ {j},
             pics'.s.last_irr = pics.s.last_irr
      PROVE  IInv'
  <2>1. cpu' \in {"virq", "irq12"} /\ (j = 7 <=> cpu' = "virq")
    BY <1>4, Zenon
  <2>2. Frames'
    BY <1>1, <1>4, <2>1, Zenon DEF Frames, Frame, InHandler
  <2>3. <<"dos">> # <<"bh", "dos">>
    BY Zenon
  <2>4. cur_bh = None
    BY <1>1, <1>2, <1>4, <2>3, Zenon DEF Current
  <2>5. Current'
    BY <1>1, <2>1, <2>4, Zenon DEF Current
  <2>6. LineOf15'
    BY <1>1, <1>2, <1>4, <2>1, Zenon DEF LineOf15, Booting, Requesting, Shared
  <2>7. Types' /\ Mutexes' /\ Queues'
    BY <1>1, <1>2, <2>1, Outside, Zenon DEF InHwc, Types
  <2> QED BY <1>2, <2>1, <2>2, <2>5, <2>6, <2>7, Zenon DEF IInv
<1> QED BY <1>3, <1>4, Taken, Zenon

(* The handler of IRQ 1 returns to DOS or to the bottom half. *)
LEMMA Irq1Keeps ==
  ASSUME IInv, Irq1
  PROVE  IInv'
<1>1. /\ cpu = "irq1" /\ cpu' = Head(stack) /\ stack' = Tail(stack)
      /\ pics' = pic_ioport_write(pic_untrigger(pics, 1), "m", 0, 32)
      /\ UNCHANGED <<cur, cur_bh, Shared>>
  BY Zenon DEF Irq1, Return, Others, Shared
<1>2. Types /\ LineOf15 /\ Current /\ Frames /\ Cascade(pics)
  BY Zenon DEF IInv
<1>3. \/ stack = <<"dos">> /\ pics.m.isr = {1} /\ pics.s.isr = {}
      \/ stack = <<"bh", "dos">> /\ pics.m.isr = {1, 2} /\ pics.s.isr = {7}
  BY <1>1, <1>2, Zenon DEF Frames, Frame, InHandler
<1>4. Cascade(pics') /\ pics'.m.isr = pics.m.isr \ {1} /\ pics'.s = pics.s
  BY <1>1, <1>2, <1>3, Serve1, Zenon
<1>5. \/ /\ stack = <<"dos">> /\ cpu' = "dos" /\ stack' = <<>>
         /\ pics'.m.isr = {} /\ pics'.s.isr = {}
      \/ /\ stack = <<"bh", "dos">> /\ cpu' = "bh" /\ stack' = <<"dos">>
         /\ pics'.m.isr = {2} /\ pics'.s.isr = {7}
  <2>1. {1} \ {1} = {} /\ {1, 2} \ {1} = {2}
    OBVIOUS
  <2> QED BY <1>1, <1>3, <1>4, <2>1, PushPop, Zenon
<1>6. Frames'
  BY <1>5, Zenon DEF Frames, Frame, InHandler
<1>7. Current'
  <2>1. <<"dos">> # <<"bh", "dos">>
    BY Zenon
  <2> QED BY <1>1, <1>2, <1>5, <2>1, Zenon DEF Current
<1>8. LineOf15'
  BY <1>1, <1>2, <1>4, <1>5, Zenon DEF LineOf15, Booting, Requesting, Shared
<1>9. Types' /\ Mutexes' /\ Queues'
  BY <1>1, <1>2, <1>5, Outside, Zenon DEF InHwc, Types
<1> QED BY <1>4, <1>5, <1>6, <1>7, <1>8, <1>9, Zenon DEF IInv

(* The handler of IRQ 12 serves it. *)
LEMMA Irq12Keeps ==
  ASSUME IInv, Irq12
  PROVE  IInv'
<1>1. /\ cpu = "irq12" /\ cpu' = "eoi2" /\ pics' = pic_untrigger(pics, 12)
      /\ UNCHANGED <<stack, cur, cur_bh, Shared>>
  BY Zenon DEF Irq12, Goto, Others, Shared
<1>2. Types /\ LineOf15 /\ Current /\ Frames /\ Cascade(pics)
  BY Zenon DEF IInv
<1>3. stack = <<"dos">> /\ pics.m.isr = {2} /\ pics.s.isr = {4}
  BY <1>1, <1>2, Zenon DEF Frames, Frame, InHandler
<1>4. /\ Cascade(pics') /\ pics'.m.isr = pics.m.isr /\ pics'.s.isr = pics.s.isr
      /\ 7 \in pics'.s.last_irr <=> 7 \in pics.s.last_irr
      /\ 7 \in pics'.s.irr <=> 7 \in pics.s.irr
  BY <1>1, <1>2, Lower12, Zenon
<1>5. Frames'
  BY <1>1, <1>3, <1>4, Zenon DEF Frames, Frame
<1>6. Current'
  BY <1>1, <1>2, <1>3, Zenon DEF Current
<1>7. LineOf15'
  BY <1>1, <1>2, <1>3, <1>4 DEF LineOf15, Booting, Requesting, Shared
<1>8. Types' /\ Mutexes' /\ Queues'
  BY <1>1, <1>2, Outside, Zenon DEF InHwc, Types
<1> QED BY <1>1, <1>4, <1>5, <1>6, <1>7, <1>8, Zenon DEF IInv

(* EOI2_OFF, the slave: IRQ 15 is ended with its line low, or requested    *)
(* again.                                                                  *)
LEMMA Eoi2Keeps ==
  ASSUME IInv, Eoi2
  PROVE  IInv'
<1>1. /\ cpu = "eoi2" /\ cpu' = "eoi" /\ pics' = pic_ioport_write(pics, "s", 0, 32)
      /\ UNCHANGED <<stack, cur, cur_bh, Shared>>
  BY Zenon DEF Eoi2, Goto, Others, Shared
<1>2. Types /\ LineOf15 /\ Current /\ Frames /\ Cascade(pics)
  BY Zenon DEF IInv
<1>3. stack = <<"dos">> /\ pics.m.isr = {2} /\ (pics.s.isr = {4} \/ pics.s.isr = {7})
  BY <1>1, <1>2, Zenon DEF Frames, Frame, InHandler
<1>4. /\ Cascade(pics') /\ pics'.m.isr = {2} /\ pics'.s.isr = {}
      /\ pics'.s.irr = pics.s.irr /\ pics'.s.last_irr = pics.s.last_irr
  <2>1. PICK i \in {4, 7} : pics.s.isr = {i}
    BY <1>3, Zenon
  <2>2. i \in pics["s"].isr /\ \A k \in pics["s"].isr : i <= k
    BY <2>1
  <2>3. /\ Cascade(pics') /\ pics'["s"].isr = pics["s"].isr \ {i}
        /\ pics'.s.irr = pics.s.irr /\ pics'.s.last_irr = pics.s.last_irr
        /\ pics'.m.isr = pics.m.isr
    BY <1>1, <1>2, <2>2, Eoi32
  <2> QED BY <1>3, <2>1, <2>3, Zenon
<1>5. Frames'
  BY <1>1, <1>3, <1>4, Zenon DEF Frames, Frame
<1>6. Current'
  BY <1>1, <1>2, <1>3, Zenon DEF Current
<1>7. LineOf15'
  BY <1>1, <1>2, <1>4, Zenon DEF LineOf15, Booting, Requesting, Shared
<1>8. Types' /\ Mutexes' /\ Queues'
  BY <1>1, <1>2, Outside, Zenon DEF InHwc, Types
<1> QED BY <1>1, <1>4, <1>5, <1>6, <1>7, <1>8, Zenon DEF IInv

(* EOI2_OFF, the master, and iret. *)
LEMMA EoiKeeps ==
  ASSUME IInv, Eoi
  PROVE  IInv'
<1>1. /\ cpu = "eoi" /\ cpu' = Head(stack) /\ stack' = Tail(stack)
      /\ pics' = pic_ioport_write(pics, "m", 0, 32)
      /\ UNCHANGED <<cur, cur_bh, Shared>>
  BY Zenon DEF Eoi, Return, Others, Shared
<1>2. Types /\ LineOf15 /\ Current /\ Frames /\ Cascade(pics)
  BY Zenon DEF IInv
<1>3. stack = <<"dos">> /\ pics.m.isr = {2} /\ pics.s.isr = {}
  BY <1>1, <1>2, Zenon DEF Frames, Frame, InHandler
<1>4. Cascade(pics') /\ pics'.m.isr = {} /\ pics'.s = pics.s
  <2>1. 2 \in pics["m"].isr /\ \A k \in pics["m"].isr : 2 <= k
    BY <1>3
  <2>2. /\ Cascade(pics') /\ pics'["m"].isr = pics["m"].isr \ {2} /\ pics'.s = pics.s
    BY <1>1, <1>2, <2>1, Eoi32
  <2> QED BY <1>3, <2>2, Zenon
<1>5. cpu' = "dos" /\ stack' = <<>>
  BY <1>1, <1>3, PushPop, Zenon
<1>6. Frames'
  BY <1>3, <1>4, <1>5, Zenon DEF Frames, Frame
<1>7. Current'
  <2>1. <<"dos">> # <<"bh", "dos">>
    BY Zenon
  <2> QED BY <1>1, <1>2, <1>3, <1>5, <2>1, Zenon DEF Current
<1>8. LineOf15'
  BY <1>1, <1>2, <1>4, <1>5, Zenon DEF LineOf15, Booting, Requesting, Shared
<1>9. Types' /\ Mutexes' /\ Queues'
  BY <1>1, <1>2, <1>5, Outside, Zenon DEF InHwc, Types
<1> QED BY <1>4, <1>5, <1>6, <1>7, <1>8, <1>9, Zenon DEF IInv

(* DOS writes the mask of the slave. *)
LEMMA MaskKeeps ==
  ASSUME IInv, NEW v \in Masks, WriteMask(v)
  PROVE  IInv'
<1>1. /\ cpu = "dos" /\ pics' = pic_ioport_write(pics, "s", 1, v)
      /\ UNCHANGED <<cpu, stack, cur, cur_bh, Shared>>
  BY Zenon DEF WriteMask, dosvars, Others, Shared
<1>2. Types /\ LineOf15 /\ Current /\ Frames /\ Cascade(pics)
  BY Zenon DEF IInv
<1>3. /\ Cascade(pics') /\ pics'.m.isr = pics.m.isr /\ pics'.s.isr = pics.s.isr
      /\ pics'.s.irr = pics.s.irr /\ pics'.s.last_irr = pics.s.last_irr
  BY <1>1, <1>2, DataWrite
<1>4. Frames' /\ Current' /\ LineOf15'
  BY <1>1, <1>2, <1>3, Zenon
     DEF Frames, Frame, Current, LineOf15, Booting, Requesting, Shared
<1>5. Types' /\ Mutexes' /\ Queues'
  BY <1>1, <1>2, Outside, Zenon DEF InHwc, Types
<1> QED BY <1>1, <1>3, <1>4, <1>5, Zenon DEF IInv

-----------------------------------------------------------------------------
(* Steps of virq_handler that leave the controllers and the shared state   *)
(* alone: FinishBh, SwHandler, BhReturn and Loop.                          *)
LEMMA HandlerStep ==
  ASSUME IInv, UNCHANGED <<pics, stack, Shared>>, cpu \in InHandler \ InHwc,
         cpu' \in {"virq", "loop", "hwc", "bh", "eoi2"}, Current',
         cur' \in 0..6, cur_bh' \in Virq \cup {None},
         cpu' = "eoi2" => virq_irr = {}
  PROVE  IInv'
<1>1. Types /\ LineOf15 /\ Frames /\ Cascade(pics)
  BY Zenon DEF IInv
<1>2. stack = <<"dos">> /\ pics.m.isr = {2} /\ pics.s.isr = {7}
  BY <1>1, Zenon DEF Frames, Frame, InHandler, InHwc
<1>3. Frames'
  BY <1>2, Zenon DEF Frames, Frame, InHandler
<1>4. cpu # "untrigger" /\ ~Booting /\ cpu # "eoi2" /\ cpu # "reassert"
  BY Zenon DEF InHandler, InHwc, Booting
<1>5. LineOf15'
  BY <1>1, <1>2, <1>4, Zenon DEF LineOf15, Booting, Requesting, Shared
<1>6. Types' /\ Mutexes' /\ Queues'
  <2>1. cpu \notin InHwc /\ cpu' \notin InHwc /\ UNCHANGED Shared
    BY Zenon DEF InHwc
  <2> QED BY <2>1, Outside, Zenon
<1> QED BY <1>1, <1>3, <1>5, <1>6, Zenon DEF IInv

(* The end of a bottom half. *)
LEMMA FinishBhKeeps ==
  ASSUME IInv, NEW again \in BOOLEAN, FinishBh(again)
  PROVE  IInv'
<1>1. /\ cpu = "virq" /\ cpu' \in {"bh", "loop"} /\ (cpu' = "loop" => cur_bh' = None)
      /\ cur_bh' \in {cur_bh, None}
      /\ UNCHANGED <<pics, stack, cur, Shared>>
  BY Zenon DEF FinishBh, Goto, Others, Shared
<1>2. Types /\ Current
  BY Zenon DEF IInv
<1>3. Current'
  BY <1>1, Zenon DEF Current
<1> QED BY <1>1, <1>2, <1>3, HandlerStep, Zenon DEF Types, InHandler, InHwc

(* find_bit of the pending virtual IRQs is one of them. *)
LEMMA LoopKeeps ==
  ASSUME IInv, Loop
  PROVE  IInv'
<1>1. /\ cpu = "loop" /\ UNCHANGED <<pics, stack, cur_bh, Shared>>
      /\ \/ virq_irr = {} /\ cpu' = "eoi2" /\ cur' = 0
         \/ virq_irr # {} /\ cpu' = "hwc" /\ cur' = Min(virq_irr)
  BY Zenon DEF Loop, Goto, Others, Shared
<1>2. Types /\ Current /\ Frames
  BY Zenon DEF IInv
<1>3. virq_irr \subseteq 0..4
  BY <1>2, VirqAssumption, Zenon DEF Types
<1>4. virq_irr # {} => Min(virq_irr) \in virq_irr
  BY <1>3, MinRank
<1>5. cur_bh = None
  <2>1. stack = <<"dos">> /\ <<"dos">> # <<"bh", "dos">>
    BY <1>1, <1>2, Zenon DEF Frames, Frame, InHandler
  <2> QED BY <1>1, <1>2, <2>1, Zenon DEF Current
<1>6. Current'
  BY <1>1, <1>4, <1>5, Zenon DEF Current, Shared
<1>7. cur' \in 0..6
  <2>1. cur' = 0 \/ cur' \in virq_irr
    BY <1>1, <1>4, Zenon
  <2>2. cur' = 0 \/ cur' \in 0..4
    BY <1>3, <2>1, Zenon
  <2> QED BY <2>2
<1> QED BY <1>1, <1>2, <1>6, <1>7, HandlerStep, Zenon DEF Types, InHandler, InHwc

(* The software handler. *)
LEMMA SwHandlerKeeps ==
  ASSUME IInv, NEW bh \in BOOLEAN, SwHandler(bh)
  PROVE  IInv'
<1>1. /\ cpu = "sw" /\ UNCHANGED <<pics, stack, cur, Shared>>
      /\ \/ cpu' = "bh" /\ cur_bh' = cur
         \/ cpu' = "loop" /\ cur_bh' = cur_bh
  BY Zenon DEF SwHandler, Goto, Others, Shared
<1>2. Types /\ Current /\ Frames
  BY Zenon DEF IInv
<1>3. cur_bh = None
  <2>1. stack = <<"dos">> /\ <<"dos">> # <<"bh", "dos">>
    BY <1>1, <1>2, Zenon DEF Frames, Frame, InHandler
  <2> QED BY <1>1, <1>2, <2>1, Zenon DEF Current
<1>4. Current' /\ cur \in Virq
  BY <1>1, <1>2, <1>3, Zenon DEF Current
<1> QED BY <1>1, <1>2, <1>3, <1>4, HandlerStep, Zenon DEF Types, InHandler, InHwc

(* The bottom half returns. *)
LEMMA BhReturnKeeps ==
  ASSUME IInv, BhReturn
  PROVE  IInv'
<1>1. cpu = "bh" /\ cpu' = "virq" /\ UNCHANGED <<pics, stack, cur, cur_bh, Shared>>
  BY Zenon DEF BhReturn, Goto, Others, Shared
<1>2. Types /\ Current
  BY Zenon DEF IInv
<1>3. Current'
  BY <1>1, Zenon DEF Current
<1> QED BY <1>1, <1>2, <1>3, HandlerStep, Zenon DEF Types, InHandler, InHwc

(* virq_hwc_write takes hndl_mtx. *)
LEMMA HwcKeeps ==
  ASSUME IInv, virq_hwc_write
  PROVE  IInv'
<1>1. /\ cpu = "hwc" /\ hndl_mtx = Nobody /\ hndl_mtx' = "main" /\ cpu' = "hw"
      /\ UNCHANGED <<pics, virq_irr, irr_mtx, fifo, tpc, targ, stack, cur, cur_bh>>
  BY Zenon DEF virq_hwc_write, Goto, Others
<1>2. Types /\ Mutexes /\ Queues /\ LineOf15 /\ Current /\ Frames /\ Cascade(pics)
  BY Zenon DEF IInv
<1>3. Types' /\ Mutexes'
  BY <1>1, <1>2, VirqAssumption, Zenon DEF Types, Mutexes
<1>4. Queues'
  <2>1. \A k \in Virq : ~Drained(k) /\ ~Drained(k)'
    BY <1>1, Zenon DEF Drained
  <2>2. \A u \in Thread, k \in Virq : Raises(u, k)' <=> Raises(u, k)
    BY <1>1, Zenon DEF Raises
  <2> QED BY <1>1, <1>2, <2>1, <2>2, Zenon DEF Queues, Types
<1>5. Current' /\ LineOf15' /\ Frames'
  BY <1>1, <1>2, Zenon DEF Current, LineOf15, Requesting, Booting, Frames, Frame, InHandler
<1> QED BY <1>1, <1>2, <1>3, <1>4, <1>5, Zenon DEF IInv

(* do_mouse_fifo takes one event of a queue that is not empty; when it was *)
(* the last one the bit stays set until virq_lower.                        *)
LEMMA FifoKeeps ==
  ASSUME IInv, do_mouse_fifo
  PROVE  IInv'
<1>1. /\ cpu = "hw" /\ fifo' = [fifo EXCEPT ![cur] = IF @ = 0 THEN 0 ELSE @ - 1]
      /\ cpu' = CASE fifo[cur] = 0 -> "lower"
                  [] fifo[cur] = 1 -> "request12_done"
                  [] OTHER -> "request12_cont"
      /\ UNCHANGED <<pics, virq_irr, irr_mtx, hndl_mtx, tpc, targ, stack, cur, cur_bh>>
  BY Zenon DEF do_mouse_fifo, Goto, Others
<1>2. Types /\ Mutexes /\ Queues /\ LineOf15 /\ Current /\ Frames /\ Cascade(pics)
  BY Zenon DEF IInv
<1>3. \A k \in Virq : ~Drained(k)
  BY <1>1, Zenon DEF Drained
<1>4. cur \in virq_irr /\ cur \in Virq /\ fifo[cur] > 0 /\ fifo[cur] \in 0..FifoLen
  BY <1>1, <1>2, <1>3, Zenon DEF Current, Queues, Types
<1>5. /\ cpu' = IF fifo[cur] = 1 THEN "request12_done" ELSE "request12_cont"
      /\ fifo' = [fifo EXCEPT ![cur] = fifo[cur] - 1]
  <2>1. fifo[cur] # 0
    BY <1>4
  <2>2. fifo' = [fifo EXCEPT ![cur] = IF fifo[cur] = 0 THEN 0 ELSE fifo[cur] - 1]
    BY <1>1, Zenon
  <2> QED BY <1>1, <2>1, <2>2, Zenon
<1>6. /\ \A k \in Virq : fifo'[k] = IF k = cur THEN fifo[cur] - 1 ELSE fifo[k]
      /\ fifo' \in [Virq -> 0..FifoLen] /\ FifoLen \in Nat
  BY <1>2, <1>4, <1>5, VirqAssumption DEF Types
<1>7. Types'
  BY <1>1, <1>2, <1>6, Zenon DEF Types
<1>8. Mutexes'
  BY <1>1, <1>2, <1>5, Zenon DEF Mutexes
<1>9. Queues'
  <2>1. \A k \in Virq : Drained(k)' <=> k = cur /\ fifo[cur] = 1
    BY <1>1, <1>5, Zenon DEF Drained
  <2>2. \A u \in Thread, k \in Virq : Raises(u, k)' <=> Raises(u, k)
    BY <1>1, Zenon DEF Raises
  <2>3. \A u \in Thread : ~Raises(u, cur)
    BY <1>2, <1>3, <1>4, Zenon DEF Queues
  <2>4. \A u \in Thread, k \in Virq : Raises(u, k)' =>
          fifo'[k] > 0 /\ (k \notin virq_irr' \/ Drained(k)')
    <3> SUFFICES ASSUME NEW u \in Thread, NEW k \in Virq, Raises(u, k)
                 PROVE  fifo'[k] > 0 /\ k \notin virq_irr
      BY <1>1, <2>2, Zenon
    <3>1. k # cur /\ fifo[k] > 0 /\ k \notin virq_irr
      BY <1>2, <1>3, <2>3, Zenon DEF Queues
    <3> QED BY <1>6, <3>1, Zenon
  <2>5. \A k \in Virq : fifo'[k] > 0 /\ (k \notin virq_irr' \/ Drained(k)')
          => \E u \in Thread : Raises(u, k)'
    <3> SUFFICES ASSUME NEW k \in Virq, fifo'[k] > 0, k \notin virq_irr \/ Drained(k)'
                 PROVE  \E u \in Thread : Raises(u, k)
      BY <1>1, <2>2, Zenon
    <3>1. k # cur /\ k \notin virq_irr
      BY <1>4, <1>6, <2>1
    <3> QED BY <1>2, <1>6, <3>1, Zenon DEF Queues
  <2>6. \A k \in virq_irr' : fifo'[k] > 0 \/ Drained(k)'
    BY <1>1, <1>2, <1>3, <1>4, <1>6, <2>1 DEF Queues, Types
  <2>7. /\ \A u \in Thread : tpc'[u] # "idle" => targ'[u] \in Virq
        /\ \A u, x \in Thread, k \in Virq : Raises(u, k)' /\ Raises(x, k)' => u = x
    BY <1>1, <1>2, <2>2, Zenon DEF Queues
  <2> QED BY <2>4, <2>5, <2>6, <2>7, Zenon DEF Queues
<1>10. Current' /\ LineOf15' /\ Frames'
  BY <1>1, <1>2, <1>4, <1>5, Zenon
     DEF Current, LineOf15, Requesting, Booting, Frames, Frame, InHandler
<1> QED BY <1>1, <1>2, <1>5, <1>7, <1>8, <1>9, <1>10, Zenon DEF IInv

(* The hardware handler requests IRQ 12 for the event it took. *)
LEMMA Request12Keeps ==
  ASSUME IInv, Request12
  PROVE  IInv'
<1>1. /\ \/ cpu = "request12_done" /\ cpu' = "lower"
         \/ cpu = "request12_cont" /\ cpu' = "unlock"
      /\ pics' = pic_request(pics, 12)
      /\ UNCHANGED <<virq_irr, irr_mtx, hndl_mtx, fifo, tpc, targ, stack, cur, cur_bh>>
  BY Zenon DEF Request12, Goto, Others
<1>2. Types /\ Mutexes /\ Queues /\ LineOf15 /\ Current /\ Frames /\ Cascade(pics)
  BY Zenon DEF IInv
<1>3. /\ Cascade(pics') /\ pics'.m.isr = pics.m.isr /\ pics'.s.isr = pics.s.isr
      /\ 7 \in pics'.s.last_irr <=> 7 \in pics.s.last_irr
      /\ 7 \in pics'.s.irr <=> 7 \in pics.s.irr
  BY <1>1, <1>2, Request12Line, Zenon
<1>4. Types' /\ Mutexes'
  BY <1>1, <1>2, Zenon DEF Types, Mutexes
<1>5. Queues'
  <2>1. \A k \in Virq : Drained(k)' <=> Drained(k)
    BY <1>1, Zenon DEF Drained
  <2>2. \A u \in Thread, k \in Virq : Raises(u, k)' <=> Raises(u, k)
    BY <1>1, Zenon DEF Raises
  <2> QED BY <1>1, <1>2, <2>1, <2>2, Zenon DEF Queues, Types
<1>6. Frames'
  BY <1>1, <1>2, <1>3, Zenon DEF Frames, Frame, InHandler
<1>7. Current' /\ LineOf15'
  BY <1>1, <1>2, <1>3, Zenon DEF Current, LineOf15, Requesting, Booting, Types
<1> QED BY <1>1, <1>3, <1>4, <1>5, <1>6, <1>7, Zenon DEF IInv

(* virq_lower clears the bit of the queue it drained: an event added since *)
(* has its own thread about to raise it.                                   *)
LEMMA LowerKeeps ==
  ASSUME IInv, virq_lower
  PROVE  IInv'
<1>1. /\ cpu = "lower" /\ irr_mtx = Nobody /\ irr_mtx' = "main"
      /\ virq_irr' = virq_irr \ {cur}
      /\ cpu' = IF virq_irr' = {} THEN "untrigger" ELSE "unlock"
      /\ UNCHANGED <<pics, hndl_mtx, fifo, tpc, targ, stack, cur, cur_bh>>
  BY Zenon DEF virq_lower, Goto, Others
<1>2. Types /\ Mutexes /\ Queues /\ LineOf15 /\ Current /\ Frames /\ Cascade(pics)
  BY Zenon DEF IInv
<1>3. Types'
  BY <1>1, <1>2, Zenon DEF Types
<1>4. Mutexes'
  BY <1>1, <1>2, VirqAssumption, Zenon DEF Mutexes
<1>5. cur \in virq_irr /\ cur \in Virq
  BY <1>1, <1>2, Zenon DEF Current, Types
<1>6. Queues'
  <2>1. \A k \in Virq : (Drained(k) <=> k = cur) /\ ~Drained(k)'
    BY <1>1, Zenon DEF Drained
  <2>2. \A u \in Thread, k \in Virq : Raises(u, k)' <=> Raises(u, k)
    BY <1>1, Zenon DEF Raises
  <2> QED BY <1>1, <1>2, <1>5, <2>1, <2>2, Zenon DEF Queues, Types
<1>7. Frames'
  BY <1>1, <1>2, Zenon DEF Frames, Frame, InHandler
<1>8. Current'
  BY <1>1, <1>2, <1>5, Zenon DEF Current
<1>9. LineOf15'
  <2>1. ~Requesting /\ ~Requesting'
    BY <1>1, <1>2, VirqAssumption, Zenon DEF Requesting, Mutexes
  <2> QED BY <1>1, <1>2, <1>5, <2>1, Zenon DEF LineOf15, Booting
<1> QED BY <1>1, <1>2, <1>3, <1>4, <1>6, <1>7, <1>8, <1>9, Zenon DEF IInv

(* virq_lower lowers the line with the last bit. *)
LEMMA UntriggerKeeps ==
  ASSUME IInv, LowerUntrigger
  PROVE  IInv'
<1>1. /\ cpu = "untrigger" /\ cpu' = "unlock" /\ pics' = pic_untrigger(pics, 15)
      /\ UNCHANGED <<virq_irr, irr_mtx, hndl_mtx, fifo, tpc, targ, stack, cur, cur_bh>>
  BY Zenon DEF LowerUntrigger, Goto, Others, VIRQ_IRQ_NUM
<1>2. Types /\ Mutexes /\ Queues /\ LineOf15 /\ Current /\ Frames /\ Cascade(pics)
  BY Zenon DEF IInv
<1>3. /\ Cascade(pics') /\ pics'.m.isr = pics.m.isr /\ pics'.s.isr = pics.s.isr
      /\ 7 \notin pics'.s.last_irr
  BY <1>1, <1>2, Lower15, Zenon
<1>4. Types' /\ Mutexes'
  BY <1>1, <1>2, Zenon DEF Types, Mutexes
<1>5. Queues'
  <2>1. \A k \in Virq : ~Drained(k)' /\ ~Drained(k)
    BY <1>1, Zenon DEF Drained
  <2>2. \A u \in Thread, k \in Virq : Raises(u, k)' <=> Raises(u, k)
    BY <1>1, Zenon DEF Raises
  <2> QED BY <1>1, <1>2, <2>1, <2>2, Zenon DEF Queues, Types
<1>6. Frames'
  BY <1>1, <1>2, <1>3, Zenon DEF Frames, Frame, InHandler
<1>7. Current' /\ LineOf15'
  BY <1>1, <1>2, <1>3, Zenon DEF Current, LineOf15, Requesting, Booting
<1> QED BY <1>1, <1>3, <1>4, <1>5, <1>6, <1>7, Zenon DEF IInv

(* The end of virq_hwc_write. *)
LEMMA HwcUnlockKeeps ==
  ASSUME IInv, HwcUnlock
  PROVE  IInv'
<1>1. /\ cpu = "unlock" /\ cpu' = "sw" /\ hndl_mtx' = Nobody
      /\ irr_mtx' = (IF irr_mtx = "main" THEN Nobody ELSE irr_mtx)
      /\ UNCHANGED <<pics, virq_irr, fifo, tpc, targ, stack, cur, cur_bh>>
  BY Zenon DEF HwcUnlock, Goto, Others
<1>2. Types /\ Mutexes /\ Queues /\ LineOf15 /\ Current /\ Frames /\ Cascade(pics)
  BY Zenon DEF IInv
<1>3. Types' /\ Mutexes'
  BY <1>1, <1>2, VirqAssumption, Zenon DEF Types, Mutexes
<1>4. Queues'
  <2>1. \A k \in Virq : ~Drained(k)' /\ ~Drained(k)
    BY <1>1, Zenon DEF Drained
  <2>2. \A u \in Thread, k \in Virq : Raises(u, k)' <=> Raises(u, k)
    BY <1>1, Zenon DEF Raises
  <2> QED BY <1>1, <1>2, <2>1, <2>2, Zenon DEF Queues, Types
<1>5. Frames' /\ Current' /\ LineOf15'
  BY <1>1, <1>2, Zenon DEF Current, LineOf15, Requesting, Booting, Frames, Frame, InHandler
<1> QED BY <1>1, <1>2, <1>3, <1>4, <1>5, Zenon DEF IInv

-----------------------------------------------------------------------------
(* A reboot resets the controllers under a bit that may be set. *)
LEMMA RebootKeeps ==
  ASSUME IInv, Reboot
  PROVE  IInv'
<1>1. /\ cpu \in {"dos", "bh"} /\ pics' = pic_reset(pics) /\ stack' = <<>>
      /\ cpu' = "virq_reset" /\ UNCHANGED <<cur, cur_bh, Shared>>
  BY Zenon DEF Reboot, Shared
<1>2. Types /\ LineOf15 /\ Current /\ Frames /\ Cascade(pics)
  BY Zenon DEF IInv
<1>3. /\ Cascade(pics') /\ pics'.m.isr = {} /\ pics'.s.isr = {} /\ pics'.s.last_irr = {}
  <2>1. Cascade(pics') /\ pics'.m.isr = {} /\ Cleared(pics'.s)
    BY <1>1, <1>2, Reset, Zenon
  <2> QED BY <2>1, Zenon DEF Cleared
<1>4. Frames' /\ Current'
  BY <1>1, <1>2, <1>3, Zenon DEF Frames, Frame, Current
<1>5. LineOf15'
  BY <1>1, <1>2, <1>3, Zenon DEF LineOf15, Booting, Requesting, Shared
<1>6. Types' /\ Mutexes' /\ Queues'
  BY <1>1, <1>2, Outside, Zenon DEF InHwc, Types
<1> QED BY <1>1, <1>3, <1>4, <1>5, <1>6, Zenon DEF IInv

(* virq_reset lowers the line, whatever the bits are. *)
LEMMA VirqResetKeeps ==
  ASSUME IInv, virq_reset
  PROVE  IInv'
<1>1. /\ cpu = "virq_reset" /\ pics' = pic_untrigger(pics, 15) /\ cur_bh' = None
      /\ cur' = 1 /\ cpu' = "bios_setup" /\ UNCHANGED <<stack, Shared>>
  BY Zenon DEF virq_reset, Goto, Others, Shared, VIRQ_IRQ_NUM
<1>2. Types /\ LineOf15 /\ Current /\ Frames /\ Cascade(pics)
  BY Zenon DEF IInv
<1>3. /\ Cascade(pics') /\ pics'.m.isr = pics.m.isr /\ pics'.s.isr = pics.s.isr
      /\ 7 \notin pics'.s.last_irr
  BY <1>1, <1>2, Lower15, Zenon
<1>4. Frames' /\ Current'
  BY <1>1, <1>2, <1>3 DEF Frames, Frame, Current, InHandler
<1>5. LineOf15'
  BY <1>1, <1>2, <1>3, Zenon DEF LineOf15, Booting, Requesting, Shared
<1>6. Types' /\ Mutexes' /\ Queues'
  BY <1>1, <1>2, Outside DEF InHwc, Types
<1> QED BY <1>1, <1>3, <1>4, <1>5, <1>6, Zenon DEF IInv

(* bios_setup programs the controllers while threads may raise lines. *)
LEMMA BiosSetupKeeps ==
  ASSUME IInv, bios_setup
  PROVE  IInv'
<1>1. /\ cpu = "bios_setup" /\ UNCHANGED <<stack, cur_bh, Shared>>
      /\ pics' = pic_ioport_write(pics, BiosWrites[cur][1], BiosWrites[cur][2],
                                  BiosWrites[cur][3])
      /\ \/ cur = Len(BiosWrites) /\ cpu' = "virq_setup" /\ cur' = 0
         \/ cur # Len(BiosWrites) /\ cpu' = cpu /\ cur' = cur + 1
  BY Zenon DEF bios_setup, Goto, Others, Shared
<1>2. Types /\ LineOf15 /\ Current /\ Frames /\ Cascade(pics)
  BY Zenon DEF IInv
<1>3. cur \in 1..6 /\ Len(BiosWrites) = 6
  BY <1>1, <1>2, Zenon DEF Current, BiosWrites
<1>4. stack = <<>> /\ pics.m.isr = {} /\ pics.s.isr = {} /\ cur_bh = None
  <2>1. stack = <<>> /\ pics.m.isr = {} /\ pics.s.isr = {}
    BY <1>1, <1>2, Zenon DEF Frames, Frame, InHandler
  <2>2. <<>> # <<"bh", "dos">>
    BY Zenon
  <2> QED BY <1>1, <1>2, <2>1, <2>2, Zenon DEF Current
<1>5. /\ Cascade(pics') /\ pics'.m.isr = {} /\ pics'.s.isr = {}
      /\ \/ pics'.s.last_irr = {}
         \/ pics'.s.irr = pics.s.irr /\ pics'.s.last_irr = pics.s.last_irr
  <2>1. CASE cur = 1
    <3>1. pics' = pic_ioport_write(pics, "m", 0, 16)
      BY <1>1, <2>1, Zenon DEF BiosWrites
    <3>2. Cascade(pics') /\ Cleared(pics'["m"]) /\ pics'.s = pics.s
      BY <1>2, <3>1, Icw1, Zenon
    <3> QED BY <1>4, <3>2, Zenon DEF Cleared
  <2>2. CASE cur = 4
    <3>1. pics' = pic_ioport_write(pics, "s", 0, 16)
      BY <1>1, <2>2, Zenon DEF BiosWrites
    <3>2. Cascade(pics') /\ Cleared(pics'["s"]) /\ pics'.m.isr = pics.m.isr
      BY <1>2, <3>1, Icw1, Zenon
    <3> QED BY <1>4, <3>2, Zenon DEF Cleared
  <2>3. CASE cur \in {2, 3}
    <3>1. pics' = pic_ioport_write(pics, "m", 1, BiosWrites[cur][3])
      BY <1>1, <2>3 DEF BiosWrites
    <3> HIDE DEF BiosWrites
    <3> QED BY <1>2, <1>4, <3>1, DataWrite
  <2>4. CASE cur \in {5, 6}
    <3>1. pics' = pic_ioport_write(pics, "s", 1, BiosWrites[cur][3])
      BY <1>1, <2>4 DEF BiosWrites
    <3> HIDE DEF BiosWrites
    <3> QED BY <1>2, <1>4, <3>1, DataWrite
  <2> QED BY <1>3, <2>1, <2>2, <2>3, <2>4
<1>6. cpu' \in {"bios_setup", "virq_setup"} /\ cur' \in 0..6
      /\ (cpu' = "bios_setup" => cur' \in 1..6)
  BY <1>1, <1>3
<1>7. Frames' /\ Current'
  BY <1>1, <1>4, <1>5, <1>6, Zenon DEF Frames, Frame, Current
<1>8. LineOf15'
  BY <1>1, <1>2, <1>4, <1>5, <1>6, Zenon DEF LineOf15, Booting, Requesting, Shared
<1>9. Types' /\ Mutexes' /\ Queues'
  <2>1. cpu \notin InHwc /\ cpu' \notin InHwc
    BY <1>1, <1>6, Zenon DEF InHwc
  <2> QED BY <1>1, <1>4, <1>6, <2>1, Outside, Zenon
<1> QED BY <1>5, <1>6, <1>7, <1>8, <1>9, Zenon DEF IInv

(* virq_setup looks at the bits under irr_mtx. *)
LEMMA VirqSetupKeeps ==
  ASSUME IInv, virq_setup
  PROVE  IInv'
<1>1. /\ cpu = "virq_setup" /\ irr_mtx = Nobody
      /\ UNCHANGED <<pics, stack, cur, cur_bh, Shared>>
      /\ cpu' = IF virq_irr # {} THEN "reassert" ELSE "dos"
  BY Zenon DEF virq_setup, Goto, Others, Shared
<1>2. Types /\ LineOf15 /\ Current /\ Frames /\ Cascade(pics)
  BY Zenon DEF IInv
<1>3. Frames' /\ Current'
  BY <1>1, <1>2, Zenon DEF Frames, Frame, Current, InHandler
<1>4. LineOf15'
  BY <1>1, <1>2, Zenon DEF LineOf15, Booting, Requesting, Shared
<1>5. Types' /\ Mutexes' /\ Queues'
  BY <1>1, <1>2, Outside, Zenon DEF InHwc, Types
<1> QED BY <1>1, <1>2, <1>3, <1>4, <1>5, Zenon DEF IInv

(* virq_setup raises the line again. *)
LEMMA ReassertKeeps ==
  ASSUME IInv, Reassert
  PROVE  IInv'
<1>1. /\ cpu = "reassert" /\ cpu' = "dos" /\ pics' = pic_request(pics, 15)
      /\ UNCHANGED <<stack, cur, cur_bh, Shared>>
  BY Zenon DEF Reassert, Goto, Others, Shared, VIRQ_IRQ_NUM
<1>2. Types /\ LineOf15 /\ Current /\ Frames /\ Cascade(pics)
  BY Zenon DEF IInv
<1>3. /\ Cascade(pics') /\ pics'.m.isr = pics.m.isr /\ pics'.s.isr = pics.s.isr
      /\ 7 \in pics'.s.last_irr
      /\ 7 \in pics'.s.irr <=> 7 \notin pics.s.last_irr \/ 7 \in pics.s.irr
  BY <1>1, <1>2, Request15
<1>4. Frames' /\ Current'
  BY <1>1, <1>2, <1>3, Zenon DEF Frames, Frame, Current, InHandler
<1>5. LineOf15'
  BY <1>1, <1>2, <1>3, Zenon DEF LineOf15, Booting, Requesting, Shared
<1>6. Types' /\ Mutexes' /\ Queues'
  BY <1>1, <1>2, Outside, Zenon DEF InHwc, Types
<1> QED BY <1>1, <1>3, <1>4, <1>5, <1>6, Zenon DEF IInv

(* After pic_init and pic_reset nothing is requested or in service. *)
LEMMA InitHolds == Init => IInv
<1> SUFFICES ASSUME Init
             PROVE  IInv
  BY Zenon
<1>1. Zeroed \in Controller /\ Std(Zeroed)
  BY DEF Zeroed, Controller, Line, Std
<1>2. Zeroed.irr = {} /\ Zeroed.isr = {} /\ Zeroed.last_irr = {}
  BY Zenon DEF Zeroed
<1>3. pics \in Pics /\ pics.m = Zeroed /\ pics.s = Zeroed
  <2> HIDE DEF Zeroed
  <2> QED BY <1>1, Zenon DEF Init, PicsInit, Pics
<1>4. Cascade(pics)
  <2> HIDE DEF Zeroed
  <2> QED BY <1>1, <1>2, <1>3, Zenon DEF Cascade, Regs, Master, Slave
<1>5. Frames /\ cpu # "inum"
  BY <1>2, <1>3, Zenon DEF Init, Frames, Frame
<1>6. Types
  BY VirqAssumption DEF Init, Types
<1>7. Mutexes
  BY VirqAssumption, Zenon DEF Init, Mutexes
<1>8. Queues
  BY DEF Init, Queues, Raises
<1>9. Current
  BY Zenon DEF Init, Current
<1>10. LineOf15
  BY <1>2, <1>3, Zenon DEF Init, LineOf15, Requesting
<1> QED BY <1>4, <1>5, <1>6, <1>7, <1>8, <1>9, <1>10, Zenon DEF IInv

(* Every step keeps it, and so does a stuttering one. *)
LEMMA StepKeeps == IInv /\ [Next]_vars => IInv'
<1> SUFFICES ASSUME IInv, [Next]_vars
             PROVE  IInv'
  BY Zenon
<1>1. ASSUME NEW t \in Thread, Produce(t)
      PROVE  IInv'
  BY <1>1, RaiseHndlKeeps, RaiseIrrKeeps, RaiseRequestKeeps, RaiseUnlockKeeps, Zenon
     DEF Produce
<1>2. CASE Interrupt
  BY <1>2, PendingKeeps, GetInumKeeps, Irq1Keeps, Irq12Keeps, Eoi2Keeps, EoiKeeps, Zenon
     DEF Interrupt
<1>3. CASE Route
  BY <1>3, LoopKeeps, HwcKeeps, FifoKeeps, Request12Keeps, LowerKeeps, UntriggerKeeps,
     HwcUnlockKeeps, SwHandlerKeeps, Zenon DEF Route
<1>4. CASE Boot
  BY <1>4, VirqResetKeeps, BiosSetupKeeps, VirqSetupKeeps, ReassertKeeps, Zenon DEF Boot
<1>5. CASE Next
  BY <1>1, <1>2, <1>3, <1>4, <1>5, AddKeeps, KeyKeeps, BhReturnKeeps, RebootKeeps,
     FinishBhKeeps, MaskKeeps, Zenon DEF Next
<1>6. CASE UNCHANGED vars
  <2>1. UNCHANGED <<pics, dosvars, virq_irr, irr_mtx, hndl_mtx, fifo, tpc, targ>>
    BY <1>6, Zenon DEF vars
  <2>2. Cascade(pics)' /\ Frames' /\ (cpu = "inum" => Wants(pics, "m"))'
    BY <2>1, Elsewhere, Zenon
  <2>3. Types' /\ Mutexes'
    BY <2>1, Zenon DEF IInv, Types, Mutexes, dosvars
  <2>4. Queues'
    BY <2>1, Zenon DEF IInv, Queues, Raises, Drained, dosvars
  <2>5. Current' /\ LineOf15'
    BY <2>1, Zenon DEF IInv, Current, LineOf15, Requesting, Booting, dosvars
  <2> QED BY <2>2, <2>3, <2>4, <2>5, Zenon DEF IInv
<1> QED BY <1>5, <1>6, Zenon

-----------------------------------------------------------------------------
(* The inductive invariant holds for any number of threads and events. *)
THEOREM Invariance == Spec => []IInv
<1>1. Init => IInv
  BY InitHolds, Zenon
<1>2. IInv /\ [Next]_vars => IInv'
  BY StepKeeps, Zenon
<1> QED BY <1>1, <1>2, PTL DEF Spec

(* A queued event is signalled down to the controller, and virq_hwc_write  *)
(* never runs a hardware handler on an empty queue.                        *)
THEOREM EventsReach == Spec => []EventsSignalled
<1>1. IInv => EventsSignalled
  <2> SUFFICES ASSUME IInv
               PROVE  EventsSignalled
    BY Zenon
  <2>1. Types /\ Mutexes /\ Queues /\ Current /\ Frames /\ LineOf15 /\ pics \in Pics
    BY Zenon DEF IInv, Cascade, Regs
  <2>2. stack \in Seq({"dos", "bh"})
    <3>1. stack = <<>> \/ stack = <<"dos">> \/ stack = <<"bh", "dos">>
      BY <2>1, Zenon DEF Frames, Frame
    <3>2. <<>> \in Seq({"dos", "bh"}) /\ <<"dos">> \in Seq({"dos", "bh"})
      OBVIOUS
    <3>3. <<"bh", "dos">> \in Seq({"dos", "bh"})
      OBVIOUS
    <3> QED BY <3>1, <3>2, <3>3, Zenon
  <2>3. TypeOK
    BY <2>1, <2>2, Zenon DEF TypeOK, Types
  <2>4. \A n \in Virq : fifo[n] > 0 =>
          n \in virq_irr \/ \E t \in Thread : tpc[t] \in {"raise", "irr"} /\ targ[t] = n
    BY <2>1, Zenon DEF Queues, Raises
  <2>5. ASSUME Settled
        PROVE  /\ (virq_irr # {}) = (7 \in pics.s.last_irr)
               /\ virq_irr # {} => 7 \in pics.s.irr \cup pics.s.isr
    <3>1. ~Requesting /\ cpu # "untrigger" /\ ~Booting
      BY <2>1, <2>5, VirqAssumption, Zenon DEF Settled, Mutexes, Requesting
    <3> QED BY <2>1, <3>1 DEF LineOf15
  <2>6. cpu = "hw" => fifo[cur] > 0
    <3>1. cpu = "hw" => cur \in virq_irr /\ ~Drained(cur)
      BY <2>1, Zenon DEF Current, Drained
    <3> QED BY <2>1, <3>1, Zenon DEF Queues
  <2> QED BY <2>3, <2>4, <2>5, <2>6, Zenon DEF EventsSignalled
<1> QED BY <1>1, Invariance, PTL

(* virq_handler is not entered while it is active: what its interrupt has  *)
(* in service keeps the other interrupts of the slave out.                 *)
THEOREM NoReentrance == Spec => NoReentry
<1> DEFINE Quiet == /\ \A i \in 1..Len(stack) : stack[i] = "dos"
                    /\ cur_bh = None /\ virq_irr # {}
<1>1. IInv /\ pic_get_inum /\ Handler(Vector(pics)) = "virq" => Quiet
  <2> SUFFICES ASSUME IInv, pic_get_inum, Handler(Vector(pics)) = "virq"
               PROVE  Quiet
    BY Zenon
  <2>1. cpu = "inum" /\ cpu' = "virq"
    BY Zenon DEF pic_get_inum, Goto
  <2>2. stack = <<"dos">> /\ 7 \in pics.s.irr
    BY <2>1, Taken, Zenon
  <2>3. Current /\ LineOf15 /\ Slave(pics.s)
    BY Zenon DEF IInv, Cascade, Regs
  <2>4. virq_irr # {}
    BY <2>1, <2>2, <2>3, Zenon DEF Slave, LineOf15
  <2>5. cur_bh = None
    <3>1. <<"dos">> # <<"bh", "dos">>
      BY Zenon
    <3> QED BY <2>1, <2>2, <2>3, <3>1, Zenon DEF Current
  <2>6. \A i \in 1..Len(stack) : stack[i] = "dos"
    BY <2>2
  <2> QED BY <2>4, <2>5, <2>6, Zenon
<1>2. IInv /\ [Next]_vars => [pic_get_inum /\ Handler(Vector(pics)) = "virq" => Quiet]_vars
  BY <1>1, Zenon
<1> HIDE DEF Quiet
<1>3. Spec => [][pic_get_inum /\ Handler(Vector(pics)) = "virq" => Quiet]_vars
  BY <1>2, Invariance, PTL DEF Spec
<1> QED BY <1>3, Zenon DEF NoReentry, Quiet
=============================================================================
