----------------------------- MODULE VtmrProofs -----------------------------
(***************************************************************************)
(* The tick being served is in one place and IRQ 11 tells (TickInOnePlace) *)
(* and services end (ServiceEnds), for any number of ticks, latches,       *)
(* nested handlers and mask writes.                                        *)
(***************************************************************************)
EXTENDS Vtmr, I8259Lemmas

(* The part of do_pit_latch and vtmr_latch_smi on the DOS thread. *)
Latching ==
  {"block", "in_cbk?", "l_raise", "l_post", "count", "sync", "unblock", "l_take",
   "l_untrigger", "l_timer", "l_unlock"}
Acks == {"ack", "ack_untrigger", "ack_timer", "ack_unlock"}
InMutex == {"ack_untrigger", "ack_timer", "ack_unlock", "l_untrigger", "l_timer", "l_unlock"}
VtLocations ==
  {"wait", "vpend", "masked?", "request", "imr?", "pic", "unlock", "firr",
   "untrigger0", "request0", "post_req", "done"}

(* The controllers: no initialisation, only IRQ 0, the cascade and IRQ 11, *)
(* and a request of IRQ 11 only while its line is high.                    *)
MasterOK(c) ==
  /\ c \in Controller /\ c.init_state = 0 /\ c.auto_eoi = AutoEoi
  /\ c.irr \subseteq {0, 2}
SlaveOK(c) ==
  /\ c \in Controller /\ c.init_state = 0 /\ c.auto_eoi = FALSE /\ c.poll = FALSE
  /\ c.irr \subseteq {3} /\ c.irr \subseteq c.last_irr
Chips(P) == P \in Pics /\ MasterOK(P.m) /\ SlaveOK(P.s)

Types ==
  /\ vtmr_irr \in BOOLEAN /\ vtmr_imr \in BOOLEAN /\ vtmr_pirr \in BOOLEAN
  /\ done_pred \in BOOLEAN /\ blocked \in BOOLEAN /\ tweaked \in BOOLEAN
  /\ irr_mtx \in {"dos", "vtmr", Nobody} /\ et \in {"idle", "raise", "post"}
  /\ vt \in VtLocations /\ cpu \in Locations /\ arg \in 0..1
  /\ ticks \in 0..MaxTicks /\ latches \in 0..MaxLatches
  /\ q_ticks \in Nat /\ tmr_skip \in Nat /\ latched_cnt \in Nat
(* Counters: a latch adds at most one tick and skips at most one, and      *)
(* counts itself once.                                                     *)
Counters ==
  /\ IF cpu \in {"block", "in_cbk?"}
     THEN q_ticks < ticks + latches /\ tmr_skip < latches
     ELSE q_ticks <= ticks + latches /\ tmr_skip <= latches
  /\ IF cpu \in {"block", "in_cbk?", "l_raise", "l_post", "count"}
     THEN latched_cnt < latches ELSE latched_cnt <= latches
(* The semaphore is posted once for each setting of the pending bit. *)
Pending ==
  /\ vtmr_sem \in 0..1
  /\ vtmr_pirr <=> vtmr_sem = 1 \/ vt = "vpend"
  /\ ~(vtmr_sem = 1 /\ vt = "vpend")
Mutex ==
  /\ irr_mtx = "vtmr" <=> vt \in {"imr?", "pic", "unlock"}
  /\ irr_mtx = "dos" <=> cpu \in InMutex
(* The event timer's thread is stopped during a latch. *)
Stopped ==
  /\ cpu \in {"in_cbk?", "l_raise", "l_post", "count", "sync", "unblock"} => blocked
  /\ cpu \in {"l_raise", "l_post", "count", "sync", "unblock"} => et = "idle"
(* One place for the tick, and none without a tick. *)
OnePlace ==
  /\ Raising => ~vtmr_pirr /\ ~InSmi /\ ~vtmr_irr /\ ~Acking
  /\ vtmr_pirr => ~InSmi /\ ~vtmr_irr /\ ~Acking
  /\ InSmi => ~vtmr_irr /\ ~Acking
  /\ vtmr_irr => ~Acking
  /\ q_ticks # 0 <=> Raising \/ vtmr_pirr \/ InSmi \/ vtmr_irr \/ Acking
(* The line of IRQ 11 against the request and the mask of the timer. *)
High == 3 \in pics.s.last_irr
LineOf11 ==
  /\ vt \in {"imr?", "pic"} => vtmr_irr
  /\ cpu = "unmask_request" => vtmr_irr
  /\ cpu \in {"unmask_irr?", "unmask_request"} => ~vtmr_imr
  /\ High => vtmr_irr \/ cpu \in {"ack_untrigger", "l_untrigger"}
  /\ vtmr_irr /\ ~vtmr_imr /\ ~High =>
       vt \in {"imr?", "pic"} \/ cpu \in {"unmask_irr?", "unmask_request"}
  /\ vtmr_imr /\ High => cpu \in {"mask_irr?", "ack", "ack_untrigger"}
  /\ vt = "pic" /\ vtmr_imr => cpu \in {"mask_irr?", "ack"}
(* The suspended frames, innermost first: DOS is the last, a handler is    *)
(* suspended before its EOI only by a latch, and at most one is tweaked.   *)
Tweaked(st) == \E k \in 1..Len(st) : st[k] = "do_ret"
Shape(l, st) ==
  /\ st \in Seq({"dos", "isr", "isr_on", "do_ret"})
  /\ l = "dos" <=> st = <<>>
  /\ \A k \in 1..Len(st) : st[k] = "dos" <=> k = Len(st)
  /\ \A k \in 1..Len(st) : st[k] = "isr" => k = 1 /\ l \in Latching
  /\ \A j, k \in 1..Len(st) : st[j] = "do_ret" /\ st[k] = "do_ret" => j = k
  /\ l \in Latching => st[1] # "do_ret"
(* While a tweaked handler runs the timer is masked, and no other starts. *)
Masking ==
  /\ Tweaked(stack) =>
       cpu \notin {"vint", "full_eoi_s", "full_eoi_m", "poll", "poll_irq", "polled",
                   "do_ret", "unmask_irr?", "unmask_request"}
  /\ cpu \in {"mask", "mask_irr?"} => Tweaked(stack)
  /\ vtmr_imr <=> (Tweaked(stack) /\ cpu # "mask") \/ cpu = "do_ret"
  /\ cpu \in {"full_eoi_s", "full_eoi_m", "poll", "poll_irq", "polled", "mask",
              "mask_irr?"} => arg = 0
  /\ pics.m.poll <=> cpu = "poll_irq"
(* What is in service at each location. *)
Serves(m, s) == pics.m.isr = m /\ pics.s.isr = s
Services ==
  /\ cpu \in {"dos", "inum", "isr_on", "do_ret", "unmask_irr?", "unmask_request", "poll",
              "poll_irq"} => Serves({}, {})
  /\ cpu \in {"vint", "full_eoi_s", "eoi2"} => Serves({2}, {3})
  /\ cpu \in Acks /\ arg = 1 => Serves({2}, {3})
  /\ cpu = "full_eoi_m" => Serves({2}, {})
  /\ cpu \in {"polled", "mask", "mask_irr?", "isr"} => Serves({0}, {})
  /\ cpu \in Acks /\ arg = 0 => Serves({0}, {})
  /\ cpu = "eoi" => pics.m.isr \subseteq {2} /\ pics.s.isr = {}
  /\ cpu \in Latching => Serves(IF stack[1] = "isr" THEN {0} ELSE {}, {})

(* What the threads share, and what only the DOS thread changes. *)
Shared == Types /\ Counters /\ Pending /\ Mutex /\ Stopped /\ OnePlace /\ LineOf11
OfDos == Shape(cpu, stack) /\ Masking /\ (~AutoEoi => Services)
IInv == Chips(pics) /\ Shared /\ OfDos

-----------------------------------------------------------------------------
(* pic_set_irq on one line keeps what is in service and the modes. *)
LEMMA VSetLine ==
  ASSUME NEW c \in Controller, NEW i \in Line, NEW b \in BOOLEAN
  PROVE  LET d == SetLine(c, i, b)
         IN /\ d \in Controller /\ d.isr = c.isr /\ d.poll = c.poll
            /\ d.auto_eoi = c.auto_eoi /\ d.init_state = c.init_state
            /\ d.irr \subseteq c.irr \cup {i} /\ (i \in d.last_irr <=> b)
            /\ d.last_irr \ {i} = c.last_irr \ {i}
            /\ ~b => i \notin d.irr
BY Zenon DEF SetLine, Controller

(* pic_update_irq changes the cascade line of the master at most. *)
LEMMA VUpdate ==
  ASSUME NEW P, Chips(P), NEW w \in {"m", "s"}, NEW Q, Q = pic_update_irq(P, w)
  PROVE  Chips(Q) /\ Q.s = P.s /\ Q.m.isr = P.m.isr /\ Q.m.poll = P.m.poll
<1> DEFINE d == SetLine(P.m, 2, Wants(P, "s"))
           R == IF w = "m" THEN P ELSE [P EXCEPT !.m = d]
<1>1. Q = [R EXCEPT !.out = Wants(R, "m")]
  BY Zenon DEF pic_update_irq, OutOfMaster
<1>2. P \in Pics /\ P.m \in Controller /\ 2 \in Line /\ Wants(P, "s") \in BOOLEAN
  BY WantsType DEF Chips, MasterOK, Line
<1>3. /\ d \in Controller /\ d.isr = P.m.isr /\ d.poll = P.m.poll
      /\ d.auto_eoi = P.m.auto_eoi /\ d.init_state = P.m.init_state
      /\ d.irr \subseteq P.m.irr \cup {2}
  BY <1>2, VSetLine
<1> HIDE DEF d
<1>4. MasterOK(d)
  BY <1>3, Zenon DEF Chips, MasterOK
<1>5. R \in Pics /\ R.s = P.s /\ R.m \in {P.m, d}
  BY <1>2, <1>3, Replace, Zenon
<1> HIDE DEF R
<1>6. Q \in Pics /\ Q.m = R.m /\ Q.s = R.s
  <2>1. Wants(R, "m") \in BOOLEAN
    BY WantsType, Zenon
  <2> QED BY <2>1, <1>1, <1>5, ReplaceOut
<1> QED BY <1>3, <1>4, <1>5, <1>6, Zenon DEF Chips

(* New registers of one controller, and its output. *)
LEMMA VPut ==
  ASSUME NEW P, Chips(P), NEW w \in {"m", "s"}, NEW c,
         w = "m" => MasterOK(c), w = "s" => SlaveOK(c),
         NEW Q, Q = pic_update_irq([P EXCEPT ![w] = c], w)
  PROVE  /\ Chips(Q)
         /\ w = "m" => Q.s = P.s /\ Q.m.isr = c.isr /\ Q.m.poll = c.poll
         /\ w = "s" => Q.s = c /\ Q.m.isr = P.m.isr /\ Q.m.poll = P.m.poll
<1> DEFINE R == [P EXCEPT ![w] = c]
<1>1. P \in Pics /\ c \in Controller
  BY Zenon DEF Chips, MasterOK, SlaveOK
<1>0. R = [P EXCEPT ![w] = c]
  BY Zenon
<1> HIDE DEF R
<1>2. /\ R \in Pics /\ (w = "m" => R.m = c /\ R.s = P.s)
      /\ w = "s" => R.s = c /\ R.m = P.m
  BY <1>0, <1>1, Zenon DEF Pics
<1>3. Chips(R)
  BY <1>2, Zenon DEF Chips
<1>4. Q = pic_update_irq(R, w)
  BY Zenon DEF R
<1>5. Chips(Q) /\ Q.s = R.s /\ Q.m.isr = R.m.isr /\ Q.m.poll = R.m.poll
  BY <1>3, <1>4, VUpdate, Zenon
<1> QED BY <1>2, <1>5, Zenon

(* pic_request and pic_untrigger of IRQ 11, and of IRQ 0. *)
LEMMA VSetIrq11 ==
  ASSUME NEW P, Chips(P), NEW b \in BOOLEAN, NEW Q, Q = SetIrq(P, 11, b)
  PROVE  /\ Chips(Q) /\ Q.m.isr = P.m.isr /\ Q.s.isr = P.s.isr
         /\ Q.m.poll = P.m.poll /\ (3 \in Q.s.last_irr <=> b)
<1> DEFINE c == SetLine(P.s, 3, b)
<1>1. Q = pic_update_irq([P EXCEPT !["s"] = c], "s")
  BY DEF SetIrq, pic_set_irq
<1>2. SlaveOK(P.s) /\ P.s \in Controller /\ 3 \in Line
  BY DEF Chips, SlaveOK, Line
<1>3. /\ c \in Controller /\ c.isr = P.s.isr /\ c.poll = P.s.poll
      /\ c.auto_eoi = P.s.auto_eoi /\ c.init_state = P.s.init_state
      /\ c.irr \subseteq P.s.irr \cup {3} /\ (3 \in c.last_irr <=> b)
      /\ ~b => 3 \notin c.irr
  BY <1>2, VSetLine
<1> HIDE DEF c
<1>4. SlaveOK(c)
  BY <1>2, <1>3, Zenon DEF SlaveOK
<1> QED BY <1>1, <1>3, <1>4, VPut

(* pic_request and pic_untrigger of IRQ 0 do not reach the slave. *)
LEMMA VSetIrq0 ==
  ASSUME NEW P, Chips(P), NEW b \in BOOLEAN, NEW Q, Q = SetIrq(P, 0, b)
  PROVE  /\ Chips(Q) /\ Q.m.isr = P.m.isr /\ Q.s = P.s /\ Q.m.poll = P.m.poll
<1> DEFINE c == SetLine(P.m, 0, b)
<1>1. Q = pic_update_irq([P EXCEPT !["m"] = c], "m")
  BY DEF SetIrq, pic_set_irq
<1>2. MasterOK(P.m) /\ P.m \in Controller /\ 0 \in Line
  BY DEF Chips, MasterOK, Line
<1>3. /\ c \in Controller /\ c.isr = P.m.isr /\ c.poll = P.m.poll
      /\ c.auto_eoi = P.m.auto_eoi /\ c.init_state = P.m.init_state
      /\ c.irr \subseteq P.m.irr \cup {0}
  BY <1>2, VSetLine
<1> HIDE DEF c
<1>4. MasterOK(c)
  BY <1>2, <1>3, Zenon DEF MasterOK
<1> QED BY <1>1, <1>3, <1>4, VPut

(* The fake request of IRQ 0 is seen by a poll only. *)
LEMMA VFirr ==
  ASSUME NEW P, Chips(P), NEW Q, Q = write_firr(P, "m", 1)
  PROVE  /\ Chips(Q) /\ Q.m.isr = P.m.isr /\ Q.s = P.s /\ Q.m.poll = P.m.poll
<1> DEFINE f == BitSet(1)
           c == [P.m EXCEPT !.fake_irr = f]
<1>1. f \in SUBSET Line /\ P \in Pics /\ P.m \in Controller
  BY Zenon DEF BitSet, Chips, MasterOK
<1>2. Q = [P EXCEPT !.m.fake_irr = f]
  BY Zenon DEF write_firr
<1> HIDE DEF f
<1>3. Q = [P EXCEPT !.m = c]
  BY <1>1, <1>2, Zenon DEF Pics, Controller
<1>4. /\ c \in Controller /\ c.isr = P.m.isr /\ c.poll = P.m.poll /\ c.irr = P.m.irr
      /\ c.auto_eoi = P.m.auto_eoi /\ c.init_state = P.m.init_state
  BY <1>1, Zenon DEF Controller
<1> HIDE DEF c
<1>5. Q \in Pics /\ Q.m = c /\ Q.s = P.s
  BY <1>1, <1>3, <1>4, Zenon DEF Pics
<1> QED BY <1>4, <1>5, Zenon DEF Chips, MasterOK

(* pic_intack of a line of a controller. *)
LEMMA VAcked ==
  ASSUME NEW c \in Controller, NEW i \in Line
  PROVE  LET d == Acked(c, i)
         IN /\ d \in Controller /\ d.irr \subseteq c.irr /\ d.last_irr = c.last_irr
            /\ d.poll = c.poll /\ d.auto_eoi = c.auto_eoi
            /\ d.init_state = c.init_state
            /\ d.isr = IF c.auto_eoi THEN c.isr ELSE c.isr \cup {i}
<1>1. i % 32 = i /\ (i + 1) % 8 \in Line
  BY DEF Line
<1> DEFINE d == Acked(c, i)
           b == {i % 32} \cap Line
           s == IF c.auto_eoi THEN c.isr ELSE c.isr \cup b
           p == IF c.auto_eoi /\ c.rotate_on_auto_eoi THEN (i + 1) % 8 ELSE c.priority_add
           r == c.irr \ (b \ c.elcr)
<1>2. b = {i}
  BY <1>1, Zenon
<1> HIDE DEF b
<1>3. d = [c EXCEPT !.isr = s, !.priority_add = p, !.irr = r]
  BY Zenon DEF Acked, b
<1>4. s \in SUBSET Line /\ p \in Line /\ r \in SUBSET c.irr /\ r \in SUBSET Line
  BY <1>1, <1>2, Zenon DEF Controller
<1>5. s = IF c.auto_eoi THEN c.isr ELSE c.isr \cup {i}
  BY <1>2, Zenon
<1> HIDE DEF s, p, r, d
<1>6. d \in Controller /\ d.irr = r /\ d.last_irr = c.last_irr /\ d.poll = c.poll
      /\ d.auto_eoi = c.auto_eoi /\ d.init_state = c.init_state /\ d.isr = s
  BY <1>3, <1>4, Zenon DEF Controller
<1> QED BY <1>4, <1>5, <1>6, Zenon DEF d

(* pic_read_irq enters the timer handler of DOS, vint_handler (only for a  *)
(* request of IRQ 11, whose line is then high) or the default handler.     *)
LEMMA VReadIrq ==
  ASSUME NEW P, Chips(P), NEW Q, Q = pic_read_irq(P), NEW h, h = Handler(Vector(P))
  PROVE  /\ Chips(Q) /\ Q.m.poll = P.m.poll /\ Q.s.last_irr = P.s.last_irr
         /\ h \in {"eoi", "isr", "vint"} /\ (h = "vint" => 3 \in P.s.last_irr)
         /\ ~AutoEoi =>
              /\ h = "eoi" => Q.m.isr \subseteq P.m.isr \cup {2} /\ Q.s.isr = P.s.isr
              /\ h = "isr" => Q.m.isr = P.m.isr \cup {0} /\ Q.s.isr = P.s.isr
              /\ h = "vint" => Q.m.isr = P.m.isr \cup {2} /\ Q.s.isr = P.s.isr \cup {3}
<1> DEFINE i == pic_get_irq(P.m, TRUE)
           j == pic_get_irq(P.s, FALSE)
<1>1. /\ MasterOK(P.m) /\ SlaveOK(P.s) /\ P.m \in Controller /\ P.s \in Controller
      /\ P.m.auto_eoi = AutoEoi /\ ~P.s.auto_eoi
      /\ P.m.irr \subseteq {0, 2} /\ P.s.irr \subseteq {3} /\ P.s.irr \subseteq P.s.last_irr
  BY Zenon DEF Chips, MasterOK, SlaveOK
<1>2. /\ P.m.priority_add \in Line /\ P.m.irr \subseteq Line /\ P.m.isr \subseteq Line
      /\ P.s.priority_add \in Line /\ P.s.irr \subseteq Line /\ P.s.isr \subseteq Line
  BY <1>1, Zenon DEF Controller
<1>3. i # None => i \in {0, 2}
  BY <1>1, <1>2, GetIrq, Zenon
<1>4. j # None => j = 3 /\ 3 \in P.s.last_irr
  BY <1>1, <1>2, GetIrq, Zenon
<1>5. None \notin {0, 2, 3} /\ 0 # 2 /\ 0 \in Line /\ 2 \in Line /\ 3 \in Line
  BY DEF None, Line
<1>6. CASE i = None
  <2>1. Q = P /\ Vector(P) = <<"m", 7>>
    BY <1>6, Zenon DEF pic_read_irq, Vector
  <2>2. h = "eoi"
    BY <2>1 DEF Handler
  <2> QED BY <2>1, <2>2, Zenon
<1>7. CASE i = 0
  <2> DEFINE c == Acked(P.m, 0)
  <2>1. Vector(P) = <<"m", 0>> /\ Q = pic_intack(P, "m", 0)
    <3>1. i # None /\ i # 2
      BY <1>7, <1>5, Zenon
    <3>2. Vector(P) = <<"m", i>>
      BY <3>1, Zenon DEF Vector
    <3>3. Q = pic_intack(P, "m", i)
      BY <3>1, Zenon DEF pic_read_irq
    <3> QED BY <1>7, <3>2, <3>3, Zenon
  <2>2. Q = pic_update_irq([P EXCEPT !["m"] = c], "m")
    BY <2>1, Zenon DEF pic_intack
  <2>3. h = "isr"
    BY <2>1 DEF Handler
  <2>4. /\ c \in Controller /\ c.irr \subseteq P.m.irr /\ c.poll = P.m.poll
        /\ c.auto_eoi = P.m.auto_eoi /\ c.init_state = P.m.init_state
        /\ c.isr = IF P.m.auto_eoi THEN P.m.isr ELSE P.m.isr \cup {0}
    BY <1>1, <1>5, VAcked, Zenon
  <2> HIDE DEF c
  <2>5. MasterOK(c)
    BY <1>1, <2>4, Zenon DEF MasterOK
  <2>6. Chips(Q) /\ Q.s = P.s /\ Q.m.isr = c.isr /\ Q.m.poll = c.poll
    BY <2>2, <2>5, VPut
  <2> QED BY <1>1, <2>3, <2>4, <2>6, Zenon
<1>8. CASE i = 2
  <2> DEFINE d == Acked(P.s, j)
             R == IF j # None THEN pic_update_irq([P EXCEPT !["s"] = d], "s") ELSE P
  <2>1. /\ Vector(P) = <<"s", IF j = None THEN 7 ELSE j>>
        /\ Q = pic_intack(R, "m", 2)
    BY <1>8, <1>5, Zenon DEF pic_read_irq, Vector, pic_intack
  <2>2. h = IF j = None THEN "eoi" ELSE "vint"
    <3> HIDE DEF i, j
    <3>1. CASE j = None
      <4>1. Vector(P) = <<"s", 7>>
        BY <2>1, <3>1, Zenon
      <4> QED BY <3>1, <4>1 DEF Handler
    <3>2. CASE j # None
      <4>1. Vector(P) = <<"s", 3>>
        BY <2>1, <1>4, <3>2, Zenon
      <4> QED BY <3>2, <4>1 DEF Handler
    <3> QED BY <3>1, <3>2, Zenon
  <2>3. /\ Chips(R) /\ R.m.isr = P.m.isr /\ R.m.poll = P.m.poll
        /\ R.s.last_irr = P.s.last_irr
        /\ R.s.isr = IF j = None THEN P.s.isr ELSE P.s.isr \cup {3}
    <3>1. CASE j = None
      BY <3>1, Zenon
    <3>2. CASE j # None
      <4>1. R = pic_update_irq([P EXCEPT !["s"] = d], "s") /\ j \in Line /\ j = 3
        BY <3>2, <1>4, <1>5, Zenon
      <4>2. /\ d \in Controller /\ d.irr \subseteq P.s.irr /\ d.last_irr = P.s.last_irr
            /\ d.auto_eoi = P.s.auto_eoi /\ d.init_state = P.s.init_state
            /\ d.poll = P.s.poll
            /\ d.isr = IF P.s.auto_eoi THEN P.s.isr ELSE P.s.isr \cup {j}
        BY <1>1, <4>1, VAcked, Zenon
      <4> HIDE DEF d, R, j
      <4>3. SlaveOK(d)
        BY <1>1, <4>2, Zenon DEF SlaveOK
      <4>4. Chips(R) /\ R.s = d /\ R.m.isr = P.m.isr /\ R.m.poll = P.m.poll
        BY <4>1, <4>3, VPut
      <4> QED BY <1>1, <3>2, <4>1, <4>2, <4>4, Zenon
    <3> QED BY <3>1, <3>2, Zenon
  <2> HIDE DEF R
  <2> DEFINE c == Acked(R.m, 2)
  <2>4. Q = pic_update_irq([R EXCEPT !["m"] = c], "m")
    BY <2>1, Zenon DEF pic_intack
  <2>5. MasterOK(R.m) /\ R.m \in Controller /\ R.m.auto_eoi = AutoEoi
    BY <2>3, Zenon DEF Chips, MasterOK
  <2>6. /\ c \in Controller /\ c.irr \subseteq R.m.irr /\ c.poll = R.m.poll
        /\ c.auto_eoi = R.m.auto_eoi /\ c.init_state = R.m.init_state
        /\ c.isr = IF R.m.auto_eoi THEN R.m.isr ELSE R.m.isr \cup {2}
    BY <2>5, <1>5, VAcked, Zenon
  <2> HIDE DEF c
  <2>7. MasterOK(c)
    BY <2>5, <2>6, Zenon DEF MasterOK
  <2>8. Chips(Q) /\ Q.s = R.s /\ Q.m.isr = c.isr /\ Q.m.poll = c.poll
    BY <2>3, <2>4, <2>7, VPut
  <2> HIDE DEF i, j
  <2>9. CASE j = None
    BY <2>2, <2>3, <2>5, <2>6, <2>8, <2>9
  <2>10. CASE j # None
    BY <1>4, <2>2, <2>3, <2>5, <2>6, <2>8, <2>10
  <2> QED BY <2>9, <2>10, Zenon
<1> QED BY <1>3, <1>6, <1>7, <1>8, Zenon

(* A nonspecific EOI ends the one interrupt in service. *)
LEMMA VEoi ==
  ASSUME NEW P, Chips(P), NEW w \in {"m", "s"}, ~P[w].poll,
         NEW Q, Q = pic_ioport_write(P, w, 0, 32)
  PROVE  /\ Chips(Q) /\ Q.m.poll = P.m.poll /\ Q.s.last_irr = P.s.last_irr
         /\ \A i \in Line : P[w].isr \subseteq {i} => Q[w].isr = {}
         /\ \A o \in {"m", "s"} \ {w} : Q[o].isr = P[o].isr
<1> DEFINE c == P[w]
           p == get_priority(c, c.isr)
           i == LineOfRank(c, p)
           R == [P EXCEPT ![w].isr = @ \ {i}, ![w].priority_add = @]
           d == [c EXCEPT !.isr = @ \ {i}]
           rot == (32 \div 32 = 5)
<1>1. c \in Controller /\ P \in Pics
  BY Zenon DEF Chips, MasterOK, SlaveOK
<1>2. Q = WriteOcw2(P, w, 32)
  BY DEF pic_ioport_write, WriteCommand, Bit
<1>3. Q = NonspecificEoi(P, w, rot) /\ ~rot
  <2>1. 32 \div 32 = 1
    OBVIOUS
  <2>2. WriteOcw2(P, w, 32) = NonspecificEoi(P, w, rot)
    BY <2>1 DEF WriteOcw2
  <2> QED BY <2>1, <2>2, <1>2
<1> HIDE DEF rot
<1>4. /\ c.priority_add \in Line /\ c.isr \in SUBSET Line
  BY <1>1, Zenon DEF Controller
<1>5. (p # 8 => i \in c.isr) /\ (p = 8 <=> c.isr = {})
  BY <1>4, LeastRank, Zenon
<1>6. Q = IF p = 8 THEN P ELSE EndService(P, w, i, rot)
  BY <1>3, Zenon DEF NonspecificEoi
<1>7. EndService(P, w, i, rot) = pic_update_irq(R, w)
  BY <1>3, Zenon DEF EndService
<1> HIDE DEF p, i
<1>8. R = [P EXCEPT ![w] = d]
  BY <1>1, Zenon DEF Controller, Pics
<1>9. /\ d \in Controller /\ d.irr = c.irr /\ d.last_irr = c.last_irr
      /\ d.isr = c.isr \ {i} /\ d.poll = c.poll /\ d.auto_eoi = c.auto_eoi
      /\ d.init_state = c.init_state
  BY <1>1, Zenon DEF Controller
<1> HIDE DEF d, R, c
<1>10. CASE p = 8
  BY <1>5, <1>6, <1>10, Zenon DEF c
<1>11. CASE p # 8
  <2>1. Q = pic_update_irq([P EXCEPT ![w] = d], w)
    BY <1>6, <1>7, <1>8, <1>11, Zenon
  <2>2. (w = "m" => MasterOK(d)) /\ (w = "s" => SlaveOK(d))
    BY <1>9, Zenon DEF Chips, MasterOK, SlaveOK, c
  <2>3. /\ Chips(Q)
        /\ w = "m" => Q.s = P.s /\ Q.m.isr = d.isr /\ Q.m.poll = d.poll
        /\ w = "s" => Q.s = d /\ Q.m.isr = P.m.isr /\ Q.m.poll = P.m.poll
    BY <2>1, <2>2, VPut
  <2>4. \A k \in Line : c.isr \subseteq {k} => d.isr = {}
    BY <1>5, <1>9, <1>11, Zenon
  <2>5. CASE w = "m"
    BY <2>3, <2>4, <2>5, <1>9, Zenon DEF c
  <2>6. CASE w = "s"
    BY <2>3, <2>4, <2>6, <1>9, Zenon DEF c
  <2> QED BY <2>5, <2>6, Zenon
<1> QED BY <1>10, <1>11, Zenon

(* The command 12 of poll_pic0 sets the poll mode of the master. *)
LEMMA VPoll ==
  ASSUME NEW P, Chips(P), ~P.m.poll, NEW Q, Q = pic_ioport_write(P, "m", 0, 12)
  PROVE  Chips(Q) /\ Q.m.poll /\ Q.m.isr = P.m.isr /\ Q.s = P.s
<1> DEFINE c == [P.m EXCEPT !.poll = TRUE]
<1>1. P \in Pics /\ P.m \in Controller
  BY Zenon DEF Chips, MasterOK
<1>2. Q = WriteOcw3(P, "m", 12)
  BY DEF pic_ioport_write, WriteCommand, Bit
<1>3. Bit(12, 2) = TRUE /\ Bit(12, 6) = FALSE
  BY DEF Bit
<1>4. Q = [P EXCEPT !["m"].poll = TRUE, !["m"].special_mask = @]
  BY <1>2, <1>3, Zenon DEF WriteOcw3
<1>5. Q = [P EXCEPT !.m = c]
  BY <1>1, <1>4, Zenon DEF Pics, Controller
<1>6. /\ c \in Controller /\ c.isr = P.m.isr /\ c.poll /\ c.irr = P.m.irr
      /\ c.auto_eoi = P.m.auto_eoi /\ c.init_state = P.m.init_state
  BY <1>1, Zenon DEF Controller
<1> HIDE DEF c
<1>7. Q \in Pics /\ Q.m = c /\ Q.s = P.s
  BY <1>1, <1>5, <1>6, Zenon DEF Pics
<1> QED BY <1>6, <1>7, Zenon DEF Chips, MasterOK

(* In poll mode the byte 0 acknowledges IRQ 0 and ends the mode. *)
LEMMA VPollIrq ==
  ASSUME NEW P, Chips(P), P.m.poll, NEW Q, Q = pic_ioport_write(P, "m", 0, 0)
  PROVE  /\ Chips(Q) /\ ~Q.m.poll /\ Q.s = P.s
         /\ Q.m.isr = IF AutoEoi THEN P.m.isr ELSE P.m.isr \cup {0}
<1> DEFINE c == [P.m EXCEPT !.fake_irr = @ \ {0 % 32}]
           P1 == [P EXCEPT !["m"].fake_irr = @ \ {0 % 32}]
           d == Acked(c, 0)
           R == pic_update_irq([P1 EXCEPT !["m"] = d], "m")
           e == [R.m EXCEPT !.poll = FALSE]
<1>1. P \in Pics /\ P.m \in Controller /\ P.m.auto_eoi = AutoEoi /\ 0 \in Line
  BY DEF Chips, MasterOK, Line
<1>2. P1 = [P EXCEPT !.m = c]
  BY <1>1, Zenon DEF Pics, Controller
<1>3. /\ c \in Controller /\ c.isr = P.m.isr /\ c.irr = P.m.irr
      /\ c.auto_eoi = P.m.auto_eoi /\ c.init_state = P.m.init_state
  BY <1>1, Zenon DEF Controller
<1> HIDE DEF c
<1>4. P1 \in Pics /\ P1.m = c /\ P1.s = P.s
  BY <1>1, <1>2, <1>3, Zenon DEF Pics
<1>5. Q = [R EXCEPT !["m"].poll = FALSE]
  BY <1>4, Zenon DEF pic_ioport_write, pic_intack
<1> HIDE DEF P1
<1>6. Chips(P1)
  BY <1>3, <1>4, Zenon DEF Chips, MasterOK
<1>7. /\ d \in Controller /\ d.irr \subseteq c.irr
      /\ d.auto_eoi = c.auto_eoi /\ d.init_state = c.init_state
      /\ d.isr = IF c.auto_eoi THEN c.isr ELSE c.isr \cup {0}
  BY <1>1, <1>3, VAcked, Zenon
<1> HIDE DEF d
<1>8. MasterOK(d)
  BY <1>3, <1>7, Zenon DEF Chips, MasterOK
<1>9. Chips(R) /\ R.s = P1.s /\ R.m.isr = d.isr
  BY <1>6, <1>8, VPut
<1> HIDE DEF R
<1>10. R \in Pics /\ R.m \in Controller
  BY <1>9, Zenon DEF Chips, MasterOK
<1>11. Q = [R EXCEPT !.m = e]
  BY <1>5, <1>10, Zenon DEF Pics, Controller
<1>12. /\ e \in Controller /\ e.isr = R.m.isr /\ ~e.poll /\ e.irr = R.m.irr
       /\ e.auto_eoi = R.m.auto_eoi /\ e.init_state = R.m.init_state
  BY <1>10, Zenon DEF Controller
<1> HIDE DEF e
<1>13. Q \in Pics /\ Q.m = e /\ Q.s = R.s
  BY <1>10, <1>11, <1>12, Zenon DEF Pics
<1>14. Chips(Q)
  BY <1>9, <1>12, <1>13, Zenon DEF Chips, MasterOK
<1> QED BY <1>1, <1>3, <1>4, <1>7, <1>9, <1>12, <1>13, <1>14, Zenon

(* A write to a mask register leaves what is in service and the lines. *)
LEMMA VMask ==
  ASSUME NEW P, Chips(P), NEW w \in {"m", "s"}, ~P[w].poll, NEW v,
         NEW Q, Q = pic_ioport_write(P, w, 1, v)
  PROVE  /\ Chips(Q) /\ Q.m.poll = P.m.poll /\ Q.s.last_irr = P.s.last_irr
         /\ Q.m.isr = P.m.isr /\ Q.s.isr = P.s.isr
<1> DEFINE c == P[w]
           b == BitSet(v)
           R == [P EXCEPT ![w].imr = b]
           d == [c EXCEPT !.imr = b]
<1>1. c \in Controller /\ P \in Pics /\ c.init_state = 0 /\ b \in SUBSET Line
  BY Zenon DEF Chips, MasterOK, SlaveOK, BitSet
<1>2. Q = WriteData(P, w, v)
  BY DEF pic_ioport_write
<1>3. Q = pic_update_irq(R, w)
  BY <1>1, <1>2 DEF WriteData
<1> HIDE DEF b
<1>4. R = [P EXCEPT ![w] = d]
  BY <1>1, Zenon DEF Controller, Pics
<1>5. /\ d \in Controller /\ d.irr = c.irr /\ d.last_irr = c.last_irr
      /\ d.isr = c.isr /\ d.poll = c.poll /\ d.auto_eoi = c.auto_eoi
      /\ d.init_state = c.init_state
  BY <1>1, Zenon DEF Controller
<1> HIDE DEF d, R, c
<1>6. (w = "m" => MasterOK(d)) /\ (w = "s" => SlaveOK(d))
  BY <1>5, Zenon DEF Chips, MasterOK, SlaveOK, c
<1>7. Q = pic_update_irq([P EXCEPT ![w] = d], w)
  BY <1>3, <1>4, Zenon
<1>8. /\ Chips(Q)
      /\ w = "m" => Q.s = P.s /\ Q.m.isr = d.isr /\ Q.m.poll = d.poll
      /\ w = "s" => Q.s = d /\ Q.m.isr = P.m.isr /\ Q.m.poll = P.m.poll
  BY <1>6, <1>7, VPut
<1>9. CASE w = "m"
  BY <1>5, <1>8, <1>9, Zenon DEF c
<1>10. CASE w = "s"
  BY <1>5, <1>8, <1>10, Zenon DEF c
<1> QED BY <1>9, <1>10, Zenon

-----------------------------------------------------------------------------
(* A jump within a frame, outside or inside of a latch. *)
LEMMA ShapeGoto ==
  ASSUME NEW l, NEW st, Shape(l, st), l # "dos", NEW m, m # "dos",
         l \in Latching <=> m \in Latching
  PROVE  Shape(m, st)
BY Zenon DEF Shape

(* A call: the suspended frame is the new head. *)
CanCall(l, st, r, m) ==
  /\ Shape(l, st) /\ l \notin Latching /\ m # "dos"
  /\ r \in {"dos", "isr", "isr_on", "do_ret"} /\ (r = "dos" <=> l = "dos")
  /\ r = "isr" => m \in Latching
  /\ r = "do_ret" => ~Tweaked(st) /\ m \notin Latching
(* A call keeps the order of the frames. *)
LEMMA ShapeCall ==
  ASSUME NEW l, NEW st, NEW r, NEW m, CanCall(l, st, r, m)
  PROVE  LET n == <<r>> \o st
         IN /\ Shape(m, n) /\ n[1] = r
            /\ Tweaked(n) <=> r = "do_ret" \/ Tweaked(st)
<1> USE DEF CanCall
<1> DEFINE n == <<r>> \o st
<1>1. st \in Seq({"dos", "isr", "isr_on", "do_ret"}) /\ Len(st) \in Nat
  BY DEF Shape
<1>2. /\ n \in Seq({"dos", "isr", "isr_on", "do_ret"}) /\ Len(n) = Len(st) + 1
      /\ n[1] = r /\ \A k \in 1..Len(st) : n[k + 1] = st[k]
  BY <1>1
<1>3. st = <<>> <=> Len(st) = 0
  BY <1>1
<1> HIDE DEF n
<1>4. \A k \in 1..Len(n) : k = 1 \/ (k - 1 \in 1..Len(st) /\ n[k] = st[k - 1])
  BY <1>1, <1>2
<1>5. n # <<>>
  BY <1>1, <1>2
<1>6. \A k \in 1..Len(n) : n[k] = "dos" <=> k = Len(n)
  <2>1. n[1] = "dos" <=> 1 = Len(n)
    BY <1>1, <1>2, <1>3 DEF Shape
  <2>2. \A k \in 1..Len(st) : st[k] = "dos" <=> k = Len(st)
    BY Zenon DEF Shape
  <2>3. TAKE k \in 1..Len(n)
  <2>4. CASE k = 1
    BY <2>1, <2>4, Zenon
  <2>5. CASE k # 1
    <3>1. n[k] = "dos" <=> k - 1 = Len(st)
      BY <1>4, <2>2, <2>5, Zenon
    <3>2. Len(n) = Len(st) + 1 /\ Len(st) \in Nat
      BY <1>1, <1>2, Zenon
    <3> QED BY <3>1, <3>2
  <2> QED BY <2>4, <2>5, Zenon
<1>7. \A k \in 1..Len(n) : n[k] = "isr" => k = 1 /\ m \in Latching
  BY <1>1, <1>2, <1>4 DEF Shape
<1>8. \A j, k \in 1..Len(n) : n[j] = "do_ret" /\ n[k] = "do_ret" => j = k
  <2>1. \A j, k \in 1..Len(st) : st[j] = "do_ret" /\ st[k] = "do_ret" => j = k
    BY Zenon DEF Shape
  <2>2. r = "do_ret" => \A k \in 1..Len(st) : st[k] # "do_ret"
    BY Zenon DEF Tweaked
  <2>3. SUFFICES ASSUME NEW j \in 1..Len(n), NEW k \in 1..Len(n),
                        n[j] = "do_ret", n[k] = "do_ret"
                 PROVE  j = k
    BY Zenon
  <2>4. CASE j = 1 \/ k = 1
    BY <1>2, <1>4, <2>2, <2>3, <2>4, Zenon
  <2>5. CASE ~(j = 1 \/ k = 1)
    <3>1. j - 1 = k - 1
      BY <1>4, <2>1, <2>3, <2>5, Zenon
    <3> QED BY <3>1
  <2> QED BY <2>4, <2>5, Zenon
<1>9. Tweaked(n) <=> r = "do_ret" \/ Tweaked(st)
  <2>1. ASSUME Tweaked(n) PROVE r = "do_ret" \/ Tweaked(st)
    BY <1>2, <1>4, <2>1, Zenon DEF Tweaked
  <2>2. 1 \in 1..Len(n) /\ \A k \in 1..Len(st) : k + 1 \in 1..Len(n)
    BY <1>1, <1>2
  <2>3. ASSUME r = "do_ret" \/ Tweaked(st) PROVE Tweaked(n)
    BY <1>2, <2>2, <2>3, Zenon DEF Tweaked
  <2> QED BY <2>1, <2>3, Zenon
<1>10. Shape(m, n)
  BY <1>2, <1>5, <1>6, <1>7, <1>8 DEF Shape
<1> QED BY <1>2, <1>9, <1>10, Zenon DEF n

(* A return: the head is where the thread goes on. *)
LEMMA ShapeReturn ==
  ASSUME NEW l, NEW st, Shape(l, st), l # "dos"
  PROVE  LET h == Head(st)
             n == Tail(st)
         IN /\ Shape(h, n) /\ h \in {"dos", "isr", "isr_on", "do_ret"} /\ h = st[1]
            /\ h = "isr" => l \in Latching
            /\ h = "do_ret" => l \notin Latching /\ ~Tweaked(n)
            /\ Tweaked(st) <=> h = "do_ret" \/ Tweaked(n)
<1> DEFINE h == Head(st)
           n == Tail(st)
<1>1. /\ st \in Seq({"dos", "isr", "isr_on", "do_ret"}) /\ Len(st) \in Nat
      /\ Len(st) # 0
  BY DEF Shape
<1>2. /\ n \in Seq({"dos", "isr", "isr_on", "do_ret"}) /\ Len(n) = Len(st) - 1
      /\ h = st[1] /\ \A k \in 1..Len(n) : n[k] = st[k + 1]
  BY <1>1
<1> HIDE DEF n, h
<1>3. n = <<>> <=> Len(n) = 0
  BY <1>2
<1>4. h \in {"dos", "isr", "isr_on", "do_ret"} /\ 1 \in 1..Len(st)
  BY <1>1, <1>2
<1>5. \A k \in 1..Len(n) : k + 1 \in 1..Len(st) /\ k + 1 # 1
  BY <1>1, <1>2
<1>6. h = "dos" <=> n = <<>>
  BY <1>1, <1>2, <1>3, <1>4 DEF Shape
<1>7. \A k \in 1..Len(n) : n[k] = "dos" <=> k = Len(n)
  BY <1>1, <1>2, <1>5 DEF Shape
<1>8. \A k \in 1..Len(n) : n[k] # "isr"
  BY <1>2, <1>5, Zenon DEF Shape
<1>9. \A j, k \in 1..Len(n) : n[j] = "do_ret" /\ n[k] = "do_ret" => j = k
  BY <1>1, <1>2, <1>5 DEF Shape
<1>10. h \notin Latching
  BY <1>4 DEF Latching
<1>11. Shape(h, n)
  BY <1>2, <1>6, <1>7, <1>8, <1>9, <1>10, Zenon DEF Shape
<1>12. /\ h = "isr" => l \in Latching
       /\ h = "do_ret" => l \notin Latching /\ ~Tweaked(n)
  <2>1. \A j, k \in 1..Len(st) : st[j] = "do_ret" /\ st[k] = "do_ret" => j = k
    BY Zenon DEF Shape
  <2>2. h = "do_ret" => \A k \in 1..Len(n) : n[k] # "do_ret"
    BY <2>1, <1>2, <1>4, <1>5, Zenon
  <2> QED BY <2>2, <1>2, <1>4, Zenon DEF Shape, Tweaked
<1>13. Tweaked(st) <=> h = "do_ret" \/ Tweaked(n)
  <2>1. \A k \in 1..Len(st) : k = 1 \/ (k - 1 \in 1..Len(n) /\ n[k - 1] = st[k])
    BY <1>1, <1>2
  <2>2. Tweaked(st) => h = "do_ret" \/ Tweaked(n)
    BY <1>2, <2>1, Zenon DEF Tweaked
  <2>3. h = "do_ret" \/ Tweaked(n) => Tweaked(st)
    BY <1>2, <1>4, <1>5, Zenon DEF Tweaked
  <2> QED BY <2>2, <2>3, Zenon
<1> QED BY <1>2, <1>4, <1>11, <1>12, <1>13, Zenon DEF h, n

-----------------------------------------------------------------------------
(* A count within the bounds does not wrap. *)
LEMMA WrapSmall ==
  ASSUME NEW n \in Nat, n <= MaxTicks + MaxLatches
  PROVE  Wrap(n) = n
BY VtmrAssumption DEF Wrap

(* timer_irq_ack while a tick is counted and no raise is pending. *)
LEMMA AckEffect ==
  ASSUME Types, Counters, Pending, q_ticks # 0, ~vtmr_pirr, timer_irq_ack
  PROVE  /\ q_ticks' = q_ticks - 1 /\ q_ticks - 1 \in Nat /\ latched_cnt' = 0
         /\ q_ticks' # 0 => vtmr_pirr' = TRUE /\ vtmr_sem' = 1
         /\ q_ticks' = 0 => vtmr_pirr' = FALSE /\ vtmr_sem' = vtmr_sem
<1>1. q_ticks - 1 \in Nat /\ q_ticks - 1 <= MaxTicks + MaxLatches
  BY VtmrAssumption DEF Types, Counters
<1>2. q_ticks' = q_ticks - 1
  BY <1>1, WrapSmall DEF timer_irq_ack
<1>3. vtmr_sem = 0 /\ vtmr_pirr = FALSE
  BY DEF Pending, Types
<1> QED BY <1>1, <1>2, <1>3 DEF timer_irq_ack, do_vtmr_raise

(* A step of another thread leaves the DOS thread's part as it is. *)
LEMMA DosKept ==
  ASSUME OfDos, UNCHANGED dos, UNCHANGED vtmr_imr, pics'.m.poll = pics.m.poll,
         pics'.m.isr = pics.m.isr, pics'.s.isr = pics.s.isr
  PROVE  OfDos'
<1>1. cpu' = cpu /\ stack' = stack /\ arg' = arg
  BY Zenon DEF dos
<1>2. Shape(cpu, stack)'
  BY <1>1 DEF OfDos, Shape
<1>3. Masking'
  BY <1>1, Zenon DEF OfDos, Masking
<1>4. (~AutoEoi => Services)'
  BY <1>1, Zenon DEF OfDos, Services, Serves
<1> QED BY <1>2, <1>3, <1>4, Zenon DEF OfDos

(* The event timer's thread. *)
LEMMA ExpireStep ==
  ASSUME IInv, NEW n \in 1..MaxBurst, Expire(n)
  PROVE  IInv'
<1>1. /\ UNCHANGED <<pics, regs, latched_cnt, blocked, tweaked, vt, dos, latches>>
      /\ et = "idle" /\ ~blocked /\ ticks' = ticks + n /\ ticks' <= MaxTicks
  BY Zenon DEF Expire
<1>2. Types /\ Counters /\ Pending /\ Mutex /\ Stopped /\ OnePlace /\ LineOf11 /\ n \in Nat \ {0}
  BY VtmrAssumption DEF IInv, Shared
<1>3. cpu \notin {"in_cbk?", "l_raise", "l_post", "count", "sync", "unblock"}
  BY <1>1, <1>2, Zenon DEF Stopped
<1>4. \/ /\ tmr_skip > 0 /\ tmr_skip' = tmr_skip - 1 /\ q_ticks' = q_ticks /\ et' = et
      \/ /\ tmr_skip' = tmr_skip /\ q_ticks' = q_ticks + n
         /\ et' = IF q_ticks = 0 THEN "raise" ELSE "idle"
  <2>1. q_ticks + n \in Nat /\ q_ticks + n <= MaxTicks + MaxLatches
    BY <1>1, <1>2, VtmrAssumption DEF Types, Counters
  <2> QED BY <2>1, WrapSmall DEF Expire
<1>5. Types' /\ Counters'
  BY <1>1, <1>2, <1>3, <1>4 DEF Types, Counters, regs, dos
<1>6. Pending' /\ Mutex' /\ Stopped'
  BY <1>1, <1>2, <1>3, <1>4 DEF Pending, Mutex, Stopped, regs, dos
<1>7. OnePlace' /\ LineOf11'
  BY <1>1, <1>2, <1>3, <1>4 DEF OnePlace, LineOf11, regs, dos, Types,
     Raising, InSmi, Acking, High
<1>8. OfDos'
  BY <1>1, DosKept DEF IInv, regs
<1> QED BY <1>1, <1>5, <1>6, <1>7, <1>8 DEF IInv, Shared

(* The threads' steps that leave the controllers alone. *)
LEMMA ThreadStep ==
  ASSUME IInv,
         \/ evthread
         \/ SemWait \/ vtmr_vpend_read \/ vtmr_is_masked
         \/ RequestLock \/ RequestImr \/ RequestUnlock \/ post_req \/ SmiDone
  PROVE  IInv'
<1>1. Types /\ Counters /\ Pending /\ Mutex /\ Stopped /\ OnePlace /\ LineOf11
  BY Zenon DEF IInv, Shared
<1>0. ASSUME Shared', UNCHANGED <<pics, vtmr_imr, dos>> PROVE IInv'
  <2>1. pics' = pics /\ vtmr_imr' = vtmr_imr /\ dos' = dos
    BY <1>0, Zenon
  <2>2. OfDos'
    BY <2>1, DosKept, Zenon DEF IInv
  <2>3. Chips(pics)'
    BY <2>1, Zenon DEF IInv, Chips
  <2> QED BY <1>0, <2>2, <2>3, Zenon DEF IInv
<1>2. CASE ExpireRaise
  <2>1. Types' /\ Counters'
    BY <1>1, <1>2, ZenonT(40) DEF ExpireRaise, Rest, regs, pit, dos, Types, Counters, VtLocations
  <2>2. Pending' /\ Mutex' /\ Stopped'
    BY <1>1, <1>2, VtmrAssumption DEF ExpireRaise, Rest, regs, pit, dos, Types, Pending, Mutex, Stopped
  <2>3. OnePlace' /\ LineOf11'
    BY <1>1, <1>2 DEF ExpireRaise, Rest, regs, pit, dos, Types, Pending, Mutex, Stopped, OnePlace,
       LineOf11, Raising, InSmi, Acking, High, InMutex
  <2>4. UNCHANGED <<pics, vtmr_imr, dos>>
    BY <1>2, Zenon DEF ExpireRaise, Rest, regs
  <2> QED BY <2>1, <2>2, <2>3, <2>4, <1>0, Zenon DEF Shared
<1>3. CASE ExpirePost
  <2>1. Types' /\ Counters'
    BY <1>1, <1>3 DEF ExpirePost, do_vtmr_raise, Rest, regs, pit, dos, Types, Counters, VtLocations
  <2>2. Pending' /\ Mutex' /\ Stopped'
    BY <1>1, <1>3, VtmrAssumption DEF ExpirePost, do_vtmr_raise, Rest, regs, pit, dos, Types, Pending, Mutex, Stopped
  <2>3. OnePlace' /\ LineOf11'
    BY <1>1, <1>3 DEF ExpirePost, do_vtmr_raise, Rest, regs, pit, dos, Types, Pending, Mutex, Stopped, OnePlace,
       LineOf11, Raising, InSmi, Acking, High, InMutex
  <2>4. UNCHANGED <<pics, vtmr_imr, dos>>
    BY <1>3, Zenon DEF ExpirePost, Rest, regs
  <2> QED BY <2>1, <2>2, <2>3, <2>4, <1>0, Zenon DEF Shared
<1>4. CASE SemWait
  <2>1. Types' /\ Counters'
    BY <1>1, <1>4 DEF SemWait, Rest, regs, pit, dos, Types, Counters, VtLocations
  <2>2. Pending' /\ Mutex' /\ Stopped'
    BY <1>1, <1>4, VtmrAssumption DEF SemWait, Rest, regs, pit, dos, Types, Pending, Mutex, Stopped
  <2>3. OnePlace' /\ LineOf11'
    BY <1>1, <1>4 DEF SemWait, Rest, regs, pit, dos, Types, Pending, Mutex, Stopped, OnePlace,
       LineOf11, Raising, InSmi, Acking, High, InMutex
  <2>4. UNCHANGED <<pics, vtmr_imr, dos>>
    BY <1>4, Zenon DEF SemWait, Rest, regs
  <2> QED BY <2>1, <2>2, <2>3, <2>4, <1>0, Zenon DEF Shared
<1>5. CASE vtmr_vpend_read
  <2>1. Types' /\ Counters'
    BY <1>1, <1>5, ZenonT(40) DEF vtmr_vpend_read, Rest, regs, pit, dos, Types, Counters, VtLocations
  <2>2. Pending' /\ Mutex' /\ Stopped'
    BY <1>1, <1>5, VtmrAssumption DEF vtmr_vpend_read, Rest, regs, pit, dos, Types, Pending, Mutex, Stopped
  <2>3. OnePlace' /\ LineOf11'
    BY <1>1, <1>5 DEF vtmr_vpend_read, Rest, regs, pit, dos, Types, Pending, Mutex, Stopped, OnePlace,
       LineOf11, Raising, InSmi, Acking, High, InMutex
  <2>4. UNCHANGED <<pics, vtmr_imr, dos>>
    BY <1>5, Zenon DEF vtmr_vpend_read, Rest, regs
  <2> QED BY <2>1, <2>2, <2>3, <2>4, <1>0, Zenon DEF Shared
<1>6. CASE vtmr_is_masked
  <2>1. Types' /\ Counters'
    BY <1>1, <1>6 DEF vtmr_is_masked, Rest, regs, pit, dos, Types, Counters, VtLocations
  <2>2. Pending' /\ Mutex' /\ Stopped'
    BY <1>1, <1>6, VtmrAssumption DEF vtmr_is_masked, Rest, regs, pit, dos, Types, Pending, Mutex, Stopped
  <2>3. OnePlace' /\ LineOf11'
    BY <1>1, <1>6 DEF vtmr_is_masked, Rest, regs, pit, dos, Types, Pending, Mutex, Stopped, OnePlace,
       LineOf11, Raising, InSmi, Acking, High, InMutex
  <2>4. UNCHANGED <<pics, vtmr_imr, dos>>
    BY <1>6, Zenon DEF vtmr_is_masked, Rest, regs
  <2> QED BY <2>1, <2>2, <2>3, <2>4, <1>0, Zenon DEF Shared
<1>7. CASE RequestLock
  <2>1. Types' /\ Counters'
    BY <1>1, <1>7 DEF RequestLock, Rest, regs, pit, dos, Types, Counters, VtLocations
  <2>2. Pending' /\ Mutex' /\ Stopped'
    BY <1>1, <1>7, VtmrAssumption DEF RequestLock, Rest, regs, pit, dos, Types, Pending, Mutex, Stopped
  <2>3. OnePlace' /\ LineOf11'
    BY <1>1, <1>7 DEF RequestLock, Rest, regs, pit, dos, Types, Pending, Mutex, Stopped, OnePlace,
       LineOf11, Raising, InSmi, Acking, High, InMutex
  <2>4. UNCHANGED <<pics, vtmr_imr, dos>>
    BY <1>7, Zenon DEF RequestLock, Rest, regs
  <2> QED BY <2>1, <2>2, <2>3, <2>4, <1>0, Zenon DEF Shared
<1>8. CASE RequestImr
  <2>1. Types' /\ Counters'
    BY <1>1, <1>8 DEF RequestImr, Rest, regs, pit, dos, Types, Counters, VtLocations
  <2>2. Pending' /\ Mutex' /\ Stopped'
    BY <1>1, <1>8, VtmrAssumption DEF RequestImr, Rest, regs, pit, dos, Types, Pending, Mutex, Stopped
  <2>3. OnePlace' /\ LineOf11'
    BY <1>1, <1>8 DEF RequestImr, Rest, regs, pit, dos, Types, Pending, Mutex, Stopped, OnePlace,
       LineOf11, Raising, InSmi, Acking, High, InMutex
  <2>4. UNCHANGED <<pics, vtmr_imr, dos>>
    BY <1>8, Zenon DEF RequestImr, Rest, regs
  <2> QED BY <2>1, <2>2, <2>3, <2>4, <1>0, Zenon DEF Shared
<1>9. CASE RequestUnlock
  <2>1. Types' /\ Counters'
    BY <1>1, <1>9 DEF RequestUnlock, Rest, regs, pit, dos, Types, Counters, VtLocations
  <2>2. Pending' /\ Mutex' /\ Stopped'
    BY <1>1, <1>9, VtmrAssumption DEF RequestUnlock, Rest, regs, pit, dos, Types, Pending, Mutex, Stopped
  <2>3. OnePlace' /\ LineOf11'
    BY <1>1, <1>9 DEF RequestUnlock, Rest, regs, pit, dos, Types, Pending, Mutex, Stopped, OnePlace,
       LineOf11, Raising, InSmi, Acking, High, InMutex
  <2>4. UNCHANGED <<pics, vtmr_imr, dos>>
    BY <1>9, Zenon DEF RequestUnlock, Rest, regs
  <2> QED BY <2>1, <2>2, <2>3, <2>4, <1>0, Zenon DEF Shared
<1>10. CASE SmiDone
  <2>1. Types' /\ Counters'
    BY <1>1, <1>10 DEF SmiDone, Rest, regs, pit, dos, Types, Counters, VtLocations
  <2>2. Pending' /\ Mutex' /\ Stopped'
    BY <1>1, <1>10, VtmrAssumption DEF SmiDone, Rest, regs, pit, dos, Types, Pending, Mutex, Stopped
  <2>3. OnePlace' /\ LineOf11'
    BY <1>1, <1>10 DEF SmiDone, Rest, regs, pit, dos, Types, Pending, Mutex, Stopped, OnePlace,
       LineOf11, Raising, InSmi, Acking, High, InMutex
  <2>4. UNCHANGED <<pics, vtmr_imr, dos>>
    BY <1>10, Zenon DEF SmiDone, Rest, regs
  <2> QED BY <2>1, <2>2, <2>3, <2>4, <1>0, Zenon DEF Shared
<1>11. CASE post_req
  <2>0. /\ q_ticks' = q_ticks - 1 /\ q_ticks - 1 \in Nat /\ latched_cnt' = 0
        /\ q_ticks' # 0 => vtmr_pirr' = TRUE /\ vtmr_sem' = 1
        /\ q_ticks' = 0 => vtmr_pirr' = FALSE /\ vtmr_sem' = vtmr_sem
        /\ ~vtmr_pirr /\ q_ticks # 0
    <3>1. timer_irq_ack /\ vt = "post_req"
      BY <1>11, Zenon DEF post_req
    <3>2. ~vtmr_pirr /\ q_ticks # 0
      BY <1>1, <3>1 DEF OnePlace, InSmi
    <3> QED BY <1>1, <3>1, <3>2, AckEffect, Zenon
  <2>1. Types' /\ Counters'
    <3>1. Types'
      BY <1>1, <1>11, <2>0, ZenonT(40) DEF post_req, dos, Types, VtLocations
    <3>2. cpu' = cpu /\ tmr_skip' = tmr_skip /\ ticks' = ticks /\ latches' = latches
      BY <1>11, Zenon DEF post_req, dos
    <3>3. Counters'
      BY <1>1, <2>0, <3>2 DEF Types, Counters
    <3> QED BY <3>1, <3>3, Zenon
  <2>2. Pending' /\ Mutex' /\ Stopped'
    BY <1>1, <1>11, <2>0, VtmrAssumption DEF post_req, Rest, regs, pit, dos, Types, Pending, Mutex, Stopped
  <2>3. OnePlace' /\ LineOf11'
    BY <1>1, <1>11, <2>0 DEF post_req, Rest, regs, pit, dos, Types, Pending, Mutex, Stopped, OnePlace,
       LineOf11, Raising, InSmi, Acking, High, InMutex
  <2>4. UNCHANGED <<pics, vtmr_imr, dos>>
    BY <1>11, Zenon DEF post_req, Rest, regs
  <2> QED BY <2>1, <2>2, <2>3, <2>4, <1>0, Zenon DEF Shared
<1> QED BY <1>2, <1>3, <1>4, <1>5, <1>6, <1>7, <1>8, <1>9, <1>10, <1>11, Zenon DEF evthread

(* The vtmr thread's calls of the controllers, and DOS writing a mask. *)
LEMMA ThreadPicStep ==
  ASSUME IInv,
         \/ RequestPic \/ SetFakeIrr \/ Untrigger0 \/ Request0
         \/ \E w \in Masks : WriteMask(w[1], w[2])
  PROVE  IInv'
<1> DEFINE Kept == /\ Chips(pics') /\ pics'.m.poll = pics.m.poll
                   /\ pics'.m.isr = pics.m.isr /\ pics'.s.isr = pics.s.isr
<1>1. /\ Types /\ Counters /\ Pending /\ Mutex /\ Stopped /\ OnePlace /\ LineOf11
      /\ Chips(pics) /\ OfDos
  BY Zenon DEF IInv, Shared
<1>2. ASSUME Shared', Kept, UNCHANGED <<vtmr_imr, dos>> PROVE IInv'
  <2>1. Chips(pics)'
    BY <1>2, Zenon DEF Chips
  <2> QED BY <1>1, <1>2, <2>1, DosKept, Zenon DEF IInv
<1>3. CASE RequestPic
  <2>1. Kept /\ (High')
    BY <1>1, <1>3, VSetIrq11, ZenonT(40) DEF RequestPic, pic_request, VTMR_IRQ, High
  <2> HIDE DEF Kept
  <2>2. Types' /\ Counters' /\ Pending' /\ Mutex' /\ Stopped'
    BY <1>1, <1>3, VtmrAssumption DEF RequestPic, Rest, regs, pit, dos, Types, Counters,
       VtLocations, Pending, Mutex, Stopped
  <2>3. OnePlace' /\ LineOf11'
    BY <1>1, <1>3, <2>1 DEF RequestPic, Rest, regs, pit, dos, Types, Mutex, OnePlace,
       LineOf11, Raising, InSmi, Acking, InMutex
  <2>4. UNCHANGED <<vtmr_imr, dos>>
    BY <1>3, Zenon DEF RequestPic, Rest, regs
  <2> QED BY <2>1, <2>2, <2>3, <2>4, <1>2, Zenon DEF Shared
<1>4. CASE SetFakeIrr
  <2>1. Kept /\ (High' <=> High)
    BY <1>1, <1>4, VFirr DEF SetFakeIrr, High
  <2> HIDE DEF Kept
  <2>2. Types' /\ Counters' /\ Pending' /\ Mutex' /\ Stopped'
    BY <1>1, <1>4, VtmrAssumption DEF SetFakeIrr, Rest, regs, pit, dos, Types, Counters,
       VtLocations, Pending, Mutex, Stopped
  <2>3. OnePlace' /\ LineOf11'
    BY <1>1, <1>4, <2>1 DEF SetFakeIrr, Rest, regs, pit, dos, Types, Mutex, OnePlace,
       LineOf11, Raising, InSmi, Acking, InMutex
  <2>4. UNCHANGED <<vtmr_imr, dos>>
    BY <1>4, Zenon DEF SetFakeIrr, Rest, regs
  <2> QED BY <2>1, <2>2, <2>3, <2>4, <1>2, Zenon DEF Shared
<1>5. CASE Untrigger0
  <2>1. Kept /\ (High' <=> High)
    BY <1>1, <1>5, VSetIrq0, ZenonT(40) DEF Untrigger0, pic_untrigger, High
  <2> HIDE DEF Kept
  <2>2. Types' /\ Counters' /\ Pending' /\ Mutex' /\ Stopped'
    BY <1>1, <1>5, VtmrAssumption DEF Untrigger0, Rest, regs, pit, dos, Types, Counters,
       VtLocations, Pending, Mutex, Stopped
  <2>3. OnePlace' /\ LineOf11'
    BY <1>1, <1>5, <2>1 DEF Untrigger0, Rest, regs, pit, dos, Types, Mutex, OnePlace,
       LineOf11, Raising, InSmi, Acking, InMutex
  <2>4. UNCHANGED <<vtmr_imr, dos>>
    BY <1>5, Zenon DEF Untrigger0, Rest, regs
  <2> QED BY <2>1, <2>2, <2>3, <2>4, <1>2, Zenon DEF Shared
<1>6. CASE Request0
  <2>1. Kept /\ (High' <=> High)
    BY <1>1, <1>6, VSetIrq0, ZenonT(40) DEF Request0, pic_request, High
  <2> HIDE DEF Kept
  <2>2. Types' /\ Counters' /\ Pending' /\ Mutex' /\ Stopped'
    BY <1>1, <1>6, VtmrAssumption DEF Request0, Rest, regs, pit, dos, Types, Counters,
       VtLocations, Pending, Mutex, Stopped
  <2>3. OnePlace' /\ LineOf11'
    BY <1>1, <1>6, <2>1 DEF Request0, Rest, regs, pit, dos, Types, Mutex, OnePlace,
       LineOf11, Raising, InSmi, Acking, InMutex
  <2>4. UNCHANGED <<vtmr_imr, dos>>
    BY <1>6, Zenon DEF Request0, Rest, regs
  <2> QED BY <2>1, <2>2, <2>3, <2>4, <1>2, Zenon DEF Shared
<1>7. CASE \E w \in Masks : WriteMask(w[1], w[2])
  <2>0. PICK w \in Masks : WriteMask(w[1], w[2])
    BY <1>7, Zenon
  <2>1. /\ pics' = pic_ioport_write(pics, w[1], 1, w[2]) /\ cpu \in {"dos", "isr_on"}
        /\ UNCHANGED <<regs, pit, dos, latches, Threads>>
    BY <2>0 DEF WriteMask, Port, dos
  <2>2. w[1] \in {"m", "s"} /\ ~pics[w[1]].poll
    <3>1. w[1] \in {"m", "s"}
      BY VtmrAssumption
    <3>2. ~pics.m.poll
      BY <1>1, <2>1 DEF OfDos, Masking
    <3> QED BY <1>1, <3>1, <3>2, Zenon DEF Chips, SlaveOK
  <2>3. Kept /\ (High' <=> High)
    BY <1>1, <2>1, <2>2, VMask DEF High
  <2> HIDE DEF Kept
  <2>4. Types' /\ Counters' /\ Pending' /\ Mutex' /\ Stopped'
    BY <1>1, <2>1 DEF regs, pit, dos, Threads, Types, Counters, Pending, Mutex, Stopped
  <2>5. OnePlace' /\ LineOf11'
    BY <1>1, <2>1, <2>3 DEF regs, pit, dos, Threads, OnePlace, LineOf11, Raising, InSmi,
       Acking
  <2>6. UNCHANGED <<vtmr_imr, dos>>
    BY <2>1, Zenon DEF regs
  <2> QED BY <2>3, <2>4, <2>5, <2>6, <1>2, Zenon DEF Shared
<1> QED BY <1>3, <1>4, <1>5, <1>6, <1>7, Zenon

(* The locations outside of latches and of the mutex, and the variables *)
(* that a step between two of them leaves alone.                           *)
Quiet == Locations \ (Latching \cup InMutex)
timer == <<vtmr_irr, vtmr_pirr, vtmr_sem, irr_mtx, done_pred, pit, latches, Threads>>
(* A step of the DOS thread between quiet locations, if it leaves the      *)
(* timer alone, concerns only its own part of the state and IRQ 11.        *)
LEMMA QuietStep ==
  ASSUME IInv, cpu \in Quiet, cpu' \in Quiet, UNCHANGED timer,
         arg' \in 0..1, vtmr_imr' \in BOOLEAN, Chips(pics'), LineOf11',
         Shape(cpu, stack)', Masking', ~AutoEoi => Services'
  PROVE  IInv'
<1>1. Types /\ Counters /\ Pending /\ Mutex /\ Stopped /\ OnePlace
  BY Zenon DEF IInv, Shared
<1>2. /\ vtmr_irr' = vtmr_irr /\ vtmr_pirr' = vtmr_pirr /\ vtmr_sem' = vtmr_sem
      /\ irr_mtx' = irr_mtx /\ done_pred' = done_pred /\ q_ticks' = q_ticks
      /\ tmr_skip' = tmr_skip /\ latched_cnt' = latched_cnt /\ blocked' = blocked
      /\ tweaked' = tweaked /\ latches' = latches /\ et' = et /\ vt' = vt /\ ticks' = ticks
  BY Zenon DEF timer, pit, Threads
<1>3. cpu' \in Locations
  BY Zenon DEF Quiet
<1>4. \A l \in Quiet :
        /\ l \notin InMutex
        /\ l \notin {"block", "in_cbk?", "l_raise", "l_post", "count", "sync", "unblock"}
        /\ l \notin {"block", "in_cbk?"} /\ l \notin {"l_raise", "l_post"}
        /\ l \notin {"block", "in_cbk?", "l_raise", "l_post", "count"}
        /\ l \notin {"in_cbk?", "l_raise", "l_post", "count", "sync", "unblock"}
        /\ l \notin {"l_raise", "l_post", "count", "sync", "unblock"}
        /\ l \notin {"ack_untrigger", "ack_timer", "l_untrigger", "l_timer"}
  BY DEF Quiet, Latching, InMutex
<1>5. Types'
  BY <1>1, <1>2, <1>3, Zenon DEF Types
<1>6. Counters'
  BY <1>1, <1>2, <1>4, Zenon DEF Counters
<1>7. Pending' /\ Mutex' /\ Stopped'
  BY <1>1, <1>2, <1>4, Zenon DEF Pending, Mutex, Stopped
<1>8. OnePlace'
  BY <1>1, <1>2, <1>4, Zenon DEF OnePlace, Raising, InSmi, Acking
<1> QED BY <1>5, <1>6, <1>7, <1>8, Zenon DEF IInv, Shared, OfDos, Chips

(* IRQ 11 stays right when neither the line, the request nor the mask      *)
(* changes.                                                                *)
LEMMA LineKept ==
  ASSUME LineOf11, cpu \in Quiet, cpu' \in Quiet, UNCHANGED timer, vtmr_imr' = vtmr_imr,
         High' <=> High, cpu \notin {"unmask_irr?", "unmask_request", "mask_irr?", "ack"},
         cpu' \notin {"unmask_irr?", "unmask_request"}
  PROVE  LineOf11'
<1>1. vtmr_irr' = vtmr_irr /\ vt' = vt
  BY Zenon DEF timer, Threads
<1>2. \A l \in Quiet : l # "ack_untrigger" /\ l # "l_untrigger"
  BY DEF Quiet, InMutex
<1>3. cpu \notin {"ack_untrigger", "l_untrigger"} /\ cpu' \notin {"ack_untrigger", "l_untrigger"}
  BY <1>2, Zenon
<1>4. cpu \notin {"mask_irr?", "ack", "ack_untrigger"}
  BY <1>3, Zenon
<1> QED BY <1>1, <1>3, <1>4, Zenon DEF LineOf11

(* A step inside an acknowledgement or inside a latch. *)
LEMMA InFrame ==
  ASSUME OfDos, stack' = stack, vtmr_imr' = vtmr_imr, pics'.m.poll = pics.m.poll,
         pics'.m.isr = pics.m.isr, pics'.s.isr = pics.s.isr,
         \/ cpu \in Acks /\ cpu' \in Acks /\ arg' = arg
         \/ cpu \in Latching /\ cpu' \in Latching
  PROVE  OfDos'
<1> DEFINE X == {"vint", "full_eoi_s", "full_eoi_m", "poll", "poll_irq", "polled",
                 "do_ret", "unmask_irr?", "unmask_request"}
<1>1. /\ \A l \in Acks \cup Latching :
           /\ l # "dos" /\ l \notin X /\ l \notin {"mask", "mask_irr?"} /\ l # "mask"
           /\ l # "do_ret" /\ l # "poll_irq"
           /\ l \notin {"full_eoi_s", "full_eoi_m", "poll", "poll_irq", "polled", "mask",
                        "mask_irr?"}
           /\ l \notin {"dos", "inum", "isr_on", "do_ret", "unmask_irr?", "unmask_request",
                        "poll", "poll_irq"}
           /\ l \notin {"vint", "full_eoi_s", "eoi2"} /\ l # "full_eoi_m"
           /\ l \notin {"polled", "mask", "mask_irr?", "isr"} /\ l # "eoi"
      /\ \A l \in Acks : l \notin Latching
  BY DEF Acks, Latching
<1>2. Shape(cpu, stack)'
  BY <1>1, ShapeGoto, Zenon DEF OfDos
<1>3. Masking'
  BY <1>1, Zenon DEF OfDos, Masking
<1>4. ~AutoEoi => Services'
  BY <1>1, Zenon DEF OfDos, Services, Serves
<1> QED BY <1>2, <1>3, <1>4, Zenon DEF OfDos

(* A step between quiet locations of one frame. *)
LEMMA QuietGoto ==
  ASSUME IInv, cpu \in Quiet, cpu # "dos", cpu' \in Quiet, cpu' # "dos", stack' = stack,
         UNCHANGED timer, arg' \in 0..1, vtmr_imr' \in BOOLEAN, Chips(pics'), LineOf11',
         Masking', ~AutoEoi => Services'
  PROVE  IInv'
<1>1. \A l \in Quiet : l \notin Latching
  BY DEF Quiet
<1>2. Shape(cpu, stack)'
  BY <1>1, ShapeGoto, Zenon DEF IInv, OfDos
<1> QED BY <1>2, QuietStep, Zenon

(* A nonspecific EOI of the master. *)
LEMMA EoiM ==
  ASSUME NEW P, Chips(P), ~P.m.poll, NEW Q, Q = pic_ioport_write(P, "m", 0, 32)
  PROVE  /\ Chips(Q) /\ Q.m.poll = P.m.poll /\ Q.s.last_irr = P.s.last_irr
         /\ \A i \in Line : P.m.isr \subseteq {i} => Q.m.isr = {}
         /\ Q.s.isr = P.s.isr
<1>1. "m" \in {"m", "s"} /\ "s" \in {"m", "s"} \ {"m"}
  OBVIOUS
<1>2. P["m"] = P.m /\ Q["m"] = Q.m /\ P["s"] = P.s /\ Q["s"] = Q.s
  OBVIOUS
<1> QED BY <1>1, <1>2, VEoi

(* A nonspecific EOI of the slave. *)
LEMMA EoiS ==
  ASSUME NEW P, Chips(P), ~P.s.poll, NEW Q, Q = pic_ioport_write(P, "s", 0, 32)
  PROVE  /\ Chips(Q) /\ Q.m.poll = P.m.poll /\ Q.s.last_irr = P.s.last_irr
         /\ \A i \in Line : P.s.isr \subseteq {i} => Q.s.isr = {}
         /\ Q.m.isr = P.m.isr
<1>1. "s" \in {"m", "s"} /\ "m" \in {"m", "s"} \ {"s"}
  OBVIOUS
<1>2. P["s"] = P.s /\ Q["s"] = Q.s /\ P["m"] = P.m /\ Q["m"] = Q.m
  OBVIOUS
<1> QED BY <1>1, <1>2, VEoi

(* The port writes of the interrupt handlers. *)
LEMMA PortStep ==
  ASSUME IInv,
         \/ pic_get_inum \/ FullEoiSlave \/ FullEoiMaster \/ poll_pic0 \/ PollIrq
         \/ MaskUntrigger \/ IsrEoi \/ Eoi2
  PROVE  IInv'
<1>1. /\ Types /\ Counters /\ Pending /\ Mutex /\ Stopped /\ OnePlace /\ LineOf11
      /\ Shape(cpu, stack) /\ Masking /\ (~AutoEoi => Services) /\ Chips(pics)
  BY Zenon DEF IInv, Shared, OfDos
<1>2. /\ cpu \in Locations /\ arg \in 0..1 /\ vtmr_imr \in BOOLEAN
      /\ \A l \in Locations : l \notin Latching /\ l \notin InMutex => l \in Quiet
  BY <1>1, Zenon DEF Types, Quiet
<1>3. CASE pic_get_inum
  <2>1. /\ cpu = "inum" /\ cpu' = Handler(Vector(pics)) /\ stack' = stack /\ arg' = arg
        /\ vtmr_imr' = vtmr_imr /\ UNCHANGED timer
    BY <1>3, Zenon DEF pic_get_inum, Port, Goto, regs, timer
  <2>2. /\ Chips(pics')
        /\ pics'.m.poll = pics.m.poll /\ (High' <=> High)
        /\ cpu' \in {"eoi", "isr", "vint"} /\ (cpu' = "vint" => High)
        /\ ~AutoEoi =>
             /\ cpu' = "eoi" => pics'.m.isr \subseteq pics.m.isr \cup {2} /\ pics'.s.isr = pics.s.isr
             /\ cpu' = "isr" => pics'.m.isr = pics.m.isr \cup {0} /\ pics'.s.isr = pics.s.isr
             /\ cpu' = "vint" => /\ pics'.m.isr = pics.m.isr \cup {2}
                                  /\ pics'.s.isr = pics.s.isr \cup {3}
    BY <1>1, <1>3, <2>1, VReadIrq, Zenon DEF pic_get_inum, Port, High
  <2>3. cpu \in Quiet /\ cpu # "dos" /\ cpu' \in Quiet /\ cpu' # "dos"
    BY <2>1, <2>2, <1>2, Zenon DEF Quiet, Locations, Latching, InMutex
  <2>4. LineOf11'
    BY <1>1, <2>1, <2>2, <2>3, LineKept, Zenon
  <2>5. Masking'
    BY <1>1, <2>1, <2>2, Zenon DEF Masking, LineOf11
  <2>6. ~AutoEoi => Services'
    BY <1>1, <2>1, <2>2, Zenon DEF Services, Serves, Acks, Latching
  <2> QED BY <1>2, <2>1, <2>2, <2>3, <2>4, <2>5, <2>6, QuietGoto, Zenon
<1>4. CASE FullEoiSlave
  <2>1. /\ cpu = "full_eoi_s" /\ cpu' = "full_eoi_m" /\ stack' = stack /\ arg' = arg
        /\ vtmr_imr' = vtmr_imr /\ UNCHANGED timer
    BY <1>4, Zenon DEF FullEoiSlave, Port, Goto, regs, timer
  <2>2. /\ Chips(pics')
        /\ pics'.m.poll = pics.m.poll /\ (High' <=> High)
        /\ pics.s.isr \subseteq {3} => pics'.s.isr = {}
        /\ pics'.m.isr = pics.m.isr
    <3>1. ~pics.s.poll
      BY <1>1, Zenon DEF Chips, SlaveOK
    <3>2. pics' = pic_ioport_write(pics, "s", 0, 32)
      BY <1>4, Zenon DEF FullEoiSlave, Port
    <3>3. 3 \in Line
      BY DEF Line
    <3> QED BY <1>1, <3>1, <3>2, <3>3, EoiS DEF High
  <2>3. cpu \in Quiet /\ cpu # "dos" /\ cpu' \in Quiet /\ cpu' # "dos"
    BY <2>1, <1>2, Zenon DEF Quiet, Locations, Latching, InMutex
  <2>4. LineOf11'
    BY <1>1, <2>1, <2>2, <2>3, LineKept, Zenon
  <2>5. Masking'
    BY <1>1, <2>1, <2>2, Zenon DEF Masking
  <2>6. ~AutoEoi => Services'
    BY <1>1, <2>1, <2>2, Zenon DEF Services, Serves, Acks, Latching
  <2> QED BY <1>2, <2>1, <2>2, <2>3, <2>4, <2>5, <2>6, QuietGoto, Zenon
<1>5. CASE FullEoiMaster
  <2>1. /\ cpu = "full_eoi_m" /\ cpu' = "poll" /\ stack' = stack /\ arg' = arg
        /\ vtmr_imr' = vtmr_imr /\ UNCHANGED timer
    BY <1>5, Zenon DEF FullEoiMaster, Port, Goto, regs, timer
  <2>2. /\ Chips(pics')
        /\ pics'.m.poll = pics.m.poll /\ (High' <=> High)
        /\ pics.m.isr \subseteq {2} => pics'.m.isr = {}
        /\ pics'.s.isr = pics.s.isr
    <3>1. ~pics.m.poll
      BY <1>1, <2>1, Zenon DEF Masking
    <3>2. pics' = pic_ioport_write(pics, "m", 0, 32)
      BY <1>5, Zenon DEF FullEoiMaster, Port
    <3>3. 2 \in Line
      BY DEF Line
    <3> QED BY <1>1, <3>1, <3>2, <3>3, EoiM DEF High
  <2>3. cpu \in Quiet /\ cpu # "dos" /\ cpu' \in Quiet /\ cpu' # "dos"
    BY <2>1, <1>2, Zenon DEF Quiet, Locations, Latching, InMutex
  <2>4. LineOf11'
    BY <1>1, <2>1, <2>2, <2>3, LineKept, Zenon
  <2>5. Masking'
    BY <1>1, <2>1, <2>2, Zenon DEF Masking
  <2>6. ~AutoEoi => Services'
    BY <1>1, <2>1, <2>2, Zenon DEF Services, Serves, Acks, Latching
  <2> QED BY <1>2, <2>1, <2>2, <2>3, <2>4, <2>5, <2>6, QuietGoto, Zenon
<1>6. CASE IsrEoi
  <2>1. /\ cpu = "isr" /\ cpu' = "isr_on" /\ stack' = stack /\ arg' = arg
        /\ vtmr_imr' = vtmr_imr /\ UNCHANGED timer
    BY <1>6, Zenon DEF IsrEoi, Port, Goto, regs, timer
  <2>2. /\ Chips(pics')
        /\ pics'.m.poll = pics.m.poll /\ (High' <=> High)
        /\ pics.m.isr \subseteq {0} => pics'.m.isr = {}
        /\ pics'.s.isr = pics.s.isr
    <3>1. ~pics.m.poll
      BY <1>1, <2>1, Zenon DEF Masking
    <3>2. pics' = pic_ioport_write(pics, "m", 0, 32)
      BY <1>6, Zenon DEF IsrEoi, Port
    <3>3. 0 \in Line
      BY DEF Line
    <3> QED BY <1>1, <3>1, <3>2, <3>3, EoiM DEF High
  <2>3. cpu \in Quiet /\ cpu # "dos" /\ cpu' \in Quiet /\ cpu' # "dos"
    BY <2>1, <1>2, Zenon DEF Quiet, Locations, Latching, InMutex
  <2>4. LineOf11'
    BY <1>1, <2>1, <2>2, <2>3, LineKept, Zenon
  <2>5. Masking'
    BY <1>1, <2>1, <2>2, Zenon DEF Masking
  <2>6. ~AutoEoi => Services'
    BY <1>1, <2>1, <2>2, Zenon DEF Services, Serves, Acks, Latching
  <2> QED BY <1>2, <2>1, <2>2, <2>3, <2>4, <2>5, <2>6, QuietGoto, Zenon
<1>7. CASE Eoi2
  <2>1. /\ cpu = "eoi2" /\ cpu' = "eoi" /\ stack' = stack /\ arg' = arg
        /\ vtmr_imr' = vtmr_imr /\ UNCHANGED timer
    BY <1>7, Zenon DEF Eoi2, Port, Goto, regs, timer
  <2>2. /\ Chips(pics')
        /\ pics'.m.poll = pics.m.poll /\ (High' <=> High)
        /\ pics.s.isr \subseteq {3} => pics'.s.isr = {}
        /\ pics'.m.isr = pics.m.isr
    <3>1. ~pics.s.poll
      BY <1>1, Zenon DEF Chips, SlaveOK
    <3>2. pics' = pic_ioport_write(pics, "s", 0, 32)
      BY <1>7, Zenon DEF Eoi2, Port
    <3>3. 3 \in Line
      BY DEF Line
    <3> QED BY <1>1, <3>1, <3>2, <3>3, EoiS DEF High
  <2>3. cpu \in Quiet /\ cpu # "dos" /\ cpu' \in Quiet /\ cpu' # "dos"
    BY <2>1, <1>2, Zenon DEF Quiet, Locations, Latching, InMutex
  <2>4. LineOf11'
    BY <1>1, <2>1, <2>2, <2>3, LineKept, Zenon
  <2>5. Masking'
    BY <1>1, <2>1, <2>2, Zenon DEF Masking
  <2>6. ~AutoEoi => Services'
    BY <1>1, <2>1, <2>2, Zenon DEF Services, Serves, Acks, Latching
  <2> QED BY <1>2, <2>1, <2>2, <2>3, <2>4, <2>5, <2>6, QuietGoto, Zenon
<1>8. CASE poll_pic0
  <2>1. /\ cpu = "poll" /\ cpu' = "poll_irq" /\ stack' = stack /\ arg' = arg
        /\ vtmr_imr' = vtmr_imr /\ UNCHANGED timer
    BY <1>8, Zenon DEF poll_pic0, Port, Goto, regs, timer
  <2>2. /\ Chips(pics')
        /\ pics'.m.poll /\ (High' <=> High)
        /\ pics'.m.isr = pics.m.isr /\ pics'.s.isr = pics.s.isr
    <3>1. ~pics.m.poll
      BY <1>1, <2>1, Zenon DEF Masking
    <3> QED BY <1>1, <1>8, <3>1, VPoll, Zenon DEF poll_pic0, Port, High
  <2>3. cpu \in Quiet /\ cpu # "dos" /\ cpu' \in Quiet /\ cpu' # "dos"
    BY <2>1, <1>2, Zenon DEF Quiet, Locations, Latching, InMutex
  <2>4. LineOf11'
    BY <1>1, <2>1, <2>2, <2>3, LineKept, Zenon
  <2>5. Masking'
    BY <1>1, <2>1, <2>2, Zenon DEF Masking
  <2>6. ~AutoEoi => Services'
    BY <1>1, <2>1, <2>2, Zenon DEF Services, Serves, Acks, Latching
  <2> QED BY <1>2, <2>1, <2>2, <2>3, <2>4, <2>5, <2>6, QuietGoto, Zenon
<1>9. CASE PollIrq
  <2>1. /\ cpu = "poll_irq" /\ cpu' = "polled" /\ stack' = stack /\ arg' = arg
        /\ vtmr_imr' = vtmr_imr /\ UNCHANGED timer
    BY <1>9, Zenon DEF PollIrq, Port, Goto, regs, timer
  <2>2. /\ Chips(pics')
        /\ ~pics'.m.poll /\ (High' <=> High) /\ pics'.s.isr = pics.s.isr
        /\ ~AutoEoi => pics'.m.isr = pics.m.isr \cup {0}
    <3>1. pics.m.poll
      BY <1>1, <2>1, Zenon DEF Masking
    <3> QED BY <1>1, <1>9, <3>1, VPollIrq, Zenon DEF PollIrq, Port, High
  <2>3. cpu \in Quiet /\ cpu # "dos" /\ cpu' \in Quiet /\ cpu' # "dos"
    BY <2>1, <1>2, Zenon DEF Quiet, Locations, Latching, InMutex
  <2>4. LineOf11'
    BY <1>1, <2>1, <2>2, <2>3, LineKept, Zenon
  <2>5. Masking'
    BY <1>1, <2>1, <2>2, Zenon DEF Masking
  <2>6. ~AutoEoi => Services'
    BY <1>1, <2>1, <2>2, Zenon DEF Services, Serves, Acks, Latching
  <2> QED BY <1>2, <2>1, <2>2, <2>3, <2>4, <2>5, <2>6, QuietGoto, Zenon
<1>10. CASE MaskUntrigger
  <2>1. /\ cpu = "mask_irr?" /\ cpu' = "ack" /\ stack' = stack /\ arg' = arg
        /\ vtmr_imr' = vtmr_imr /\ UNCHANGED timer
    BY <1>10, Zenon DEF MaskUntrigger, Port, Goto, regs, timer
  <2>2. /\ Chips(pics')
        /\ pics'.m.poll = pics.m.poll /\ ~High'
        /\ pics'.m.isr = pics.m.isr /\ pics'.s.isr = pics.s.isr
    <3>1. CASE vtmr_irr
      <4>1. pics' = SetIrq(pics, 11, FALSE)
        BY <1>10, <3>1, Zenon DEF MaskUntrigger, Port, pic_untrigger, VTMR_IRQ
      <4> QED BY <1>1, <4>1, VSetIrq11, Zenon DEF High
    <3>2. CASE ~vtmr_irr
      <4>1. pics' = pics
        BY <1>10, <3>2, Zenon DEF MaskUntrigger, Port
      <4>2. ~High
        BY <1>1, <2>1, <3>2, Zenon DEF LineOf11
      <4> QED BY <1>1, <4>1, <4>2, Zenon DEF High
    <3> QED BY <3>1, <3>2, Zenon
  <2>3. cpu \in Quiet /\ cpu # "dos" /\ cpu' \in Quiet /\ cpu' # "dos"
    BY <2>1, <1>2, Zenon DEF Quiet, Locations, Latching, InMutex
  <2>4. LineOf11'
    <3>1. vtmr_irr' = vtmr_irr /\ vt' = vt
      BY <2>1, Zenon DEF timer, Threads
    <3>2. vtmr_imr
      BY <1>1, <2>1, Zenon DEF Masking
    <3> QED BY <1>1, <2>1, <2>2, <3>1, <3>2, Zenon DEF LineOf11
  <2>5. Masking'
    BY <1>1, <2>1, <2>2, Zenon DEF Masking
  <2>6. ~AutoEoi => Services'
    BY <1>1, <2>1, <2>2 DEF Services, Serves, Acks, Latching, Masking
  <2> QED BY <1>2, <2>1, <2>2, <2>3, <2>4, <2>5, <2>6, QuietGoto, Zenon
<1> QED BY <1>3, <1>4, <1>5, <1>6, <1>7, <1>8, <1>9, <1>10, Zenon

(* The jumps of the interrupt handlers that leave the controllers     *)
(* alone.                                                                  *)
LEMMA JumpStep ==
  ASSUME IInv,
         vint_handler \/ Mask \/ do_ret
  PROVE  IInv'
<1>1. /\ Types /\ Counters /\ Pending /\ Mutex /\ Stopped /\ OnePlace /\ LineOf11
      /\ Shape(cpu, stack) /\ Masking /\ (~AutoEoi => Services) /\ Chips(pics)
  BY Zenon DEF IInv, Shared, OfDos
<1>2. /\ cpu \in Locations /\ arg \in 0..1 /\ vtmr_imr \in BOOLEAN
      /\ \A l \in Locations : l \notin Latching /\ l \notin InMutex => l \in Quiet
  BY <1>1, Zenon DEF Types, Quiet
<1>3. CASE vint_handler
  <2>1. /\ cpu = "vint" /\ stack' = stack /\ pics' = pics /\ UNCHANGED timer
        /\ vtmr_imr' = vtmr_imr
        /\ \/ cpu' = "ack" /\ arg' = 1
           \/ cpu' = "full_eoi_s" /\ arg' = 0
    BY <1>3, Zenon DEF vint_handler, Goto, regs, timer
  <2>2. High' <=> High
    BY <2>1, Zenon DEF High
  <2>3. cpu \in Quiet /\ cpu # "dos" /\ cpu' \in Quiet /\ cpu' # "dos"
    BY <2>1, <1>2, Zenon DEF Quiet, Locations, Latching, InMutex
  <2>4. LineOf11'
    BY <1>1, <2>1, <2>2, <2>3, LineKept, Zenon
  <2>5. Masking'
    BY <1>1, <2>1, Zenon DEF Masking
  <2>6. ~AutoEoi => Services'
    BY <1>1, <2>1 DEF Services, Serves, Acks, Latching
  <2>7. arg' \in 0..1 /\ vtmr_imr' \in BOOLEAN /\ Chips(pics')
    BY <1>1, <1>2, <2>1
  <2> QED BY <2>1, <2>3, <2>4, <2>5, <2>6, <2>7, QuietGoto, Zenon
<1>4. CASE Mask
  <2>0. ~vtmr_imr /\ cpu = "mask"
    BY <1>1, <1>4, Zenon DEF Mask, Masking
  <2>1. /\ cpu = "mask" /\ stack' = stack /\ pics' = pics /\ UNCHANGED timer
        /\ vtmr_imr' = TRUE /\ arg' = arg /\ cpu' = "mask_irr?"
    BY <1>4, <2>0, Zenon DEF Mask, Goto, regs, timer
  <2>2. High' <=> High
    BY <2>1, Zenon DEF High
  <2>3. cpu \in Quiet /\ cpu # "dos" /\ cpu' \in Quiet /\ cpu' # "dos"
    BY <2>1, <1>2, Zenon DEF Quiet, Locations, Latching, InMutex
  <2>4. LineOf11'
    <3>1. vtmr_irr' = vtmr_irr /\ vt' = vt
      BY <2>1, Zenon DEF timer, Threads
    <3> QED BY <1>1, <2>0, <2>1, <2>2, <3>1, Zenon DEF LineOf11
  <2>5. Masking'
    BY <1>1, <2>1, Zenon DEF Masking
  <2>6. ~AutoEoi => Services'
    BY <1>1, <2>1, Zenon DEF Services, Serves, Acks, Latching
  <2>7. arg' \in 0..1 /\ vtmr_imr' \in BOOLEAN /\ Chips(pics')
    BY <1>1, <1>2, <2>1, Zenon
  <2> QED BY <2>1, <2>3, <2>4, <2>5, <2>6, <2>7, QuietGoto, Zenon
<1>5. CASE do_ret
  <2>0. vtmr_imr /\ cpu = "do_ret"
    BY <1>1, <1>5, Zenon DEF do_ret, Masking
  <2>1. /\ cpu = "do_ret" /\ stack' = stack /\ pics' = pics /\ UNCHANGED timer
        /\ vtmr_imr' = FALSE /\ arg' = arg /\ cpu' = "unmask_irr?"
    BY <1>5, <2>0, Zenon DEF do_ret, Goto, regs, timer
  <2>2. High' <=> High
    BY <2>1, Zenon DEF High
  <2>3. cpu \in Quiet /\ cpu # "dos" /\ cpu' \in Quiet /\ cpu' # "dos"
    BY <2>1, <1>2, Zenon DEF Quiet, Locations, Latching, InMutex
  <2>4. LineOf11'
    <3>1. vtmr_irr' = vtmr_irr /\ vt' = vt
      BY <2>1, Zenon DEF timer, Threads
    <3> QED BY <1>1, <2>0, <2>1, <2>2, <3>1, Zenon DEF LineOf11
  <2>5. Masking'
    BY <1>1, <2>1, Zenon DEF Masking
  <2>6. ~AutoEoi => Services'
    BY <1>1, <2>1, Zenon DEF Services, Serves, Acks, Latching
  <2>7. arg' \in 0..1 /\ vtmr_imr' \in BOOLEAN /\ Chips(pics')
    BY <1>1, <1>2, <2>1, Zenon
  <2> QED BY <2>1, <2>3, <2>4, <2>5, <2>6, <2>7, QuietGoto, Zenon
<1> QED BY <1>3, <1>4, <1>5, Zenon

(* Steps of the DOS thread that enter a frame. *)
LEMMA CallStep ==
  ASSUME IInv, pic_pending \/ RunHandler
  PROVE  IInv'
<1>1. /\ Types /\ Counters /\ Pending /\ Mutex /\ Stopped /\ OnePlace /\ LineOf11
      /\ Shape(cpu, stack) /\ Masking /\ (~AutoEoi => Services) /\ Chips(pics)
  BY Zenon DEF IInv, Shared, OfDos
<1>2. /\ cpu \in Locations /\ arg \in 0..1 /\ vtmr_imr \in BOOLEAN
      /\ \A l \in Locations : l \notin Latching /\ l \notin InMutex => l \in Quiet
  BY <1>1, Zenon DEF Types, Quiet
<1>3. ASSUME /\ cpu \in Quiet /\ cpu' \in Quiet /\ UNCHANGED timer /\ pics' = pics /\ arg' = arg
             /\ vtmr_imr' = vtmr_imr /\ Shape(cpu, stack)' /\ Masking' /\ (~AutoEoi => Services')
             /\ cpu \notin {"unmask_irr?", "unmask_request", "mask_irr?", "ack"}
             /\ cpu' \notin {"unmask_irr?", "unmask_request"}
      PROVE  IInv'
  <2>1. High' <=> High
    BY <1>3, Zenon DEF High
  <2>2. LineOf11' /\ Chips(pics') /\ arg' \in 0..1 /\ vtmr_imr' \in BOOLEAN
    BY <1>1, <1>2, <1>3, <2>1, LineKept, Zenon
  <2> QED BY <1>3, <2>2, QuietStep, Zenon
<1>4. CASE pic_pending
  <2>1. /\ cpu \in {"dos", "isr_on"} /\ cpu' = "inum" /\ stack' = <<cpu>> \o stack
        /\ pics' = pics /\ arg' = arg /\ vtmr_imr' = vtmr_imr /\ UNCHANGED timer
    BY <1>4, Zenon DEF pic_pending, Call, regs, timer
  <2>2. cpu \in Quiet /\ cpu' \in Quiet /\ cpu \notin Latching
    BY <2>1, <1>2, Zenon DEF Quiet, Locations, Latching, InMutex
  <2>3. CanCall(cpu, stack, cpu, "inum")
    BY <1>1, <2>1, <2>2, Zenon DEF CanCall
  <2>4. Shape("inum", <<cpu>> \o stack) /\ (Tweaked(<<cpu>> \o stack) <=> Tweaked(stack))
    BY <2>1, <2>3, ShapeCall, Zenon
  <2>5. Shape(cpu, stack)' /\ (Tweaked(stack') <=> Tweaked(stack))
    BY <2>1, <2>4, Zenon
  <2>6. Masking'
    BY <1>1, <2>1, <2>5, Zenon DEF Masking
  <2>7. ~AutoEoi => Services'
    BY <1>1, <2>1, Zenon DEF Services, Serves, Acks, Latching
  <2> QED BY <1>3, <2>1, <2>2, <2>5, <2>6, <2>7, Zenon
<1>5. CASE RunHandler
  <2>1. /\ cpu = "polled" /\ pics' = pics /\ arg' = arg /\ vtmr_imr' = vtmr_imr
        /\ UNCHANGED timer
        /\ \/ cpu' = "mask" /\ stack' = <<"do_ret">> \o stack
           \/ cpu' = "ack" /\ stack' = stack
    BY <1>5, Zenon DEF RunHandler, Call, Goto, regs, timer
  <2>2. /\ cpu \in Quiet /\ cpu' \in Quiet /\ cpu \notin Latching /\ "mask" \notin Latching
        /\ "ack" \notin Latching
    BY <2>1, <1>2, Zenon DEF Quiet, Locations, Latching, InMutex
  <2>3. ~Tweaked(stack) /\ arg = 0
    BY <1>1, <2>1, Zenon DEF Masking
  <2>4. CanCall(cpu, stack, "do_ret", "mask")
    BY <1>1, <2>1, <2>2, <2>3, Zenon DEF CanCall
  <2>5. Shape("mask", <<"do_ret">> \o stack) /\ Tweaked(<<"do_ret">> \o stack)
    BY <2>4, ShapeCall, Zenon
  <2>6. Shape("ack", stack)
    BY <1>1, <2>1, <2>2, ShapeGoto, Zenon
  <2>7. Shape(cpu, stack)' /\ (Tweaked(stack') <=> cpu' = "mask")
    BY <2>1, <2>3, <2>5, <2>6, Zenon
  <2>8. Masking'
    BY <1>1, <2>1, <2>3, <2>7, ZenonT(40) DEF Masking
  <2>9. ~AutoEoi => Services'
    BY <1>1, <2>1, <2>3 DEF Services, Serves, Acks, Latching
  <2> QED BY <1>3, <2>1, <2>2, <2>7, <2>8, <2>9, Zenon
<1> QED BY <1>4, <1>5, Zenon

(* Steps of the DOS thread that leave a frame: where they go on. *)
Back ==
  /\ Shape(cpu, stack)' /\ cpu' \in {"dos", "isr", "isr_on", "do_ret"} /\ cpu' = stack[1]
  /\ cpu' = "isr" => cpu \in Latching
  /\ cpu' = "do_ret" => cpu \notin Latching /\ ~Tweaked(stack')
  /\ Tweaked(stack) <=> cpu' = "do_ret" \/ Tweaked(stack')
(* A return goes back. *)
LEMMA GoesBack ==
  ASSUME Shape(cpu, stack), cpu # "dos", Return
  PROVE  Back
BY ShapeReturn, Zenon DEF Return, Back

(* Steps of the interrupt handlers that leave a frame, or may. *)
LEMMA ReturnStep ==
  ASSUME IInv,
         IsrIret \/ Eoi \/ UnmaskRequest \/ UnmaskCheck
  PROVE  IInv'
<1>1. /\ Types /\ Counters /\ Pending /\ Mutex /\ Stopped /\ OnePlace /\ LineOf11
      /\ Shape(cpu, stack) /\ Masking /\ (~AutoEoi => Services) /\ Chips(pics)
  BY Zenon DEF IInv, Shared, OfDos
<1>2. /\ cpu \in Locations /\ arg \in 0..1 /\ vtmr_imr \in BOOLEAN
      /\ \A l \in Locations : l \notin Latching /\ l \notin InMutex => l \in Quiet
  BY <1>1, Zenon DEF Types, Quiet
<1>3. /\ {"isr_on", "eoi", "unmask_irr?", "unmask_request", "dos", "do_ret"} \subseteq Quiet
      /\ {"isr_on", "eoi", "unmask_irr?", "unmask_request"} \cap Latching = {}
  BY DEF Quiet, Locations, Latching, InMutex
<1>4. CASE IsrIret
  <2>1. /\ cpu = "isr_on" /\ Return /\ arg' = arg /\ vtmr_imr' = vtmr_imr /\ UNCHANGED timer
    BY <1>4, Zenon DEF IsrIret, Port, regs, timer
  <2>2. /\ Chips(pics')
        /\ pics'.m.poll = pics.m.poll /\ (High' <=> High)
        /\ pics'.m.isr = pics.m.isr /\ pics'.s.isr = pics.s.isr
    BY <1>1, <1>4, Zenon DEF IsrIret, Port, High
  <2>3. Back
    BY <1>1, <2>1, GoesBack, Zenon
  <2>4. cpu \in Quiet /\ cpu' \in Quiet /\ cpu' \in {"dos", "isr_on", "do_ret"}
    BY <1>3, <2>1, <2>3, Zenon DEF Back
  <2>5. LineOf11'
    BY <1>1, <2>1, <2>2, <2>4, LineKept, Zenon
  <2>6. Masking'
    BY <1>1, <2>1, <2>2, <2>3, <2>4, Zenon DEF Masking, Back
  <2>7. ~AutoEoi => Services'
    BY <1>1, <2>1, <2>2, <2>4, Zenon DEF Services, Serves, Acks, Latching
  <2> QED BY <1>2, <2>1, <2>2, <2>3, <2>4, <2>5, <2>6, <2>7, QuietStep, Zenon DEF Back
<1>5. CASE Eoi
  <2>1. /\ cpu = "eoi" /\ Return /\ arg' = arg /\ vtmr_imr' = vtmr_imr /\ UNCHANGED timer
    BY <1>5, Zenon DEF Eoi, Port, regs, timer
  <2>2. /\ Chips(pics')
        /\ pics'.m.poll = pics.m.poll /\ (High' <=> High)
        /\ pics.m.isr \subseteq {2} => pics'.m.isr = {}
        /\ pics'.s.isr = pics.s.isr
    <3>1. ~pics.m.poll
      BY <1>1, <2>1, Zenon DEF Masking
    <3>2. pics' = pic_ioport_write(pics, "m", 0, 32)
      BY <1>5, Zenon DEF Eoi, Port
    <3>3. 2 \in Line
      BY DEF Line
    <3> QED BY <1>1, <3>1, <3>2, <3>3, EoiM DEF High
  <2>3. Back
    BY <1>1, <2>1, GoesBack, Zenon
  <2>4. cpu \in Quiet /\ cpu' \in Quiet /\ cpu' \in {"dos", "isr_on", "do_ret"}
    BY <1>3, <2>1, <2>3, Zenon DEF Back
  <2>5. LineOf11'
    BY <1>1, <2>1, <2>2, <2>4, LineKept, Zenon
  <2>6. Masking'
    BY <1>1, <2>1, <2>2, <2>3, <2>4, Zenon DEF Masking, Back
  <2>7. ~AutoEoi => Services'
    BY <1>1, <2>1, <2>2, <2>4, Zenon DEF Services, Serves, Acks, Latching
  <2> QED BY <1>2, <2>1, <2>2, <2>3, <2>4, <2>5, <2>6, <2>7, QuietStep, Zenon DEF Back
<1>6. CASE UnmaskRequest
  <2>1. /\ cpu = "unmask_request" /\ Return /\ arg' = arg /\ vtmr_imr' = vtmr_imr /\ UNCHANGED timer
    BY <1>6, Zenon DEF UnmaskRequest, Port, regs, timer
  <2>2. /\ Chips(pics')
        /\ pics'.m.poll = pics.m.poll /\ High'
        /\ pics'.m.isr = pics.m.isr /\ pics'.s.isr = pics.s.isr
    <3>1. pics' = SetIrq(pics, 11, TRUE)
      BY <1>6, Zenon DEF UnmaskRequest, Port, pic_request, VTMR_IRQ
    <3> QED BY <1>1, <3>1, VSetIrq11, Zenon DEF High
  <2>3. Back
    BY <1>1, <2>1, GoesBack, Zenon
  <2>4. cpu \in Quiet /\ cpu' \in Quiet /\ cpu' \in {"dos", "isr_on", "do_ret"}
    BY <1>3, <2>1, <2>3, Zenon DEF Back
  <2>5. LineOf11'
    <3>1. vtmr_irr' = vtmr_irr /\ vt' = vt
      BY <2>1, Zenon DEF timer, Threads
    <3> QED BY <1>1, <2>1, <2>2, <2>4, <3>1, Zenon DEF LineOf11
  <2>6. Masking'
    BY <1>1, <2>1, <2>2, <2>3, <2>4, Zenon DEF Masking, Back
  <2>7. ~AutoEoi => Services'
    BY <1>1, <2>1, <2>2, <2>4, Zenon DEF Services, Serves, Acks, Latching
  <2> QED BY <1>2, <2>1, <2>2, <2>3, <2>4, <2>5, <2>6, <2>7, QuietStep, Zenon DEF Back
<1>7. CASE UnmaskCheck
  <2>1. /\ cpu = "unmask_irr?" /\ arg' = arg /\ vtmr_imr' = vtmr_imr /\ UNCHANGED timer
        /\ pics' = pics
        /\ \/ vtmr_irr /\ cpu' = "unmask_request" /\ stack' = stack
           \/ ~vtmr_irr /\ Return
    BY <1>7, Zenon DEF UnmaskCheck, Goto, regs, timer
  <2>2. ~vtmr_irr => Back
    BY <1>1, <2>1, GoesBack, Zenon
  <2>3. /\ cpu \in Quiet /\ cpu' \in Quiet
        /\ cpu' \in {"dos", "isr_on", "do_ret"} \/ (vtmr_irr /\ cpu' = "unmask_request")
    BY <1>3, <2>1, <2>2, Zenon DEF Back
  <2>4. Shape(cpu, stack)'
    <3>1. Shape("unmask_request", stack)
      BY <1>1, <1>3, <2>1, ShapeGoto, Zenon
    <3> QED BY <2>1, <2>2, <3>1, Zenon DEF Back
  <2>5. LineOf11'
    <3>1. vtmr_irr' = vtmr_irr /\ vt' = vt /\ (High' <=> High)
      BY <2>1, Zenon DEF timer, Threads, High
    <3> QED BY <1>1, <2>1, <2>3, <3>1, Zenon DEF LineOf11
  <2>6. Masking'
    BY <1>1, <2>1, <2>2, <2>3, Zenon DEF Masking, Back
  <2>7. ~AutoEoi => Services'
    BY <1>1, <2>1, <2>3, Zenon DEF Services, Serves, Acks, Latching
  <2>8. Chips(pics')
    BY <1>1, <2>1, Zenon
  <2> QED BY <1>2, <2>1, <2>3, <2>4, <2>5, <2>6, <2>7, <2>8, QuietStep, Zenon
<1> QED BY <1>4, <1>5, <1>6, <1>7, Zenon

(* The steps inside an acknowledgement or a latch. *)
LEMMA FrameStep ==
  ASSUME IInv,
         \/ Ack \/ AckUntrigger \/ AckHandler \/ LatchTake \/ LatchUntrigger \/ LatchHandler
         \/ evtimer_block \/ LatchRaise \/ LatchPost \/ vtmr_sync
         \/ \E b \in BOOLEAN : do_pit_latch(b) \/ _pit_count_latch(b)
  PROVE  IInv'
<1>1. /\ Types /\ Counters /\ Pending /\ Mutex /\ Stopped /\ OnePlace /\ LineOf11
      /\ Chips(pics)
  BY Zenon DEF IInv, Shared
<1>2. OfDos
  BY Zenon DEF IInv
<1>3. CASE Ack
  <2>1. /\ cpu = "ack"
        /\ irr_mtx = Nobody /\ irr_mtx' = "dos" /\ ~vtmr_irr' /\ vtmr_irr' \in BOOLEAN
        /\ cpu' = IF vtmr_irr THEN "ack_untrigger" ELSE "ack_unlock"
        /\ stack' = stack
        /\ pics' = pics
        /\ UNCHANGED <<vtmr_imr, vtmr_pirr, vtmr_sem, done_pred, q_ticks, tmr_skip,
                       latched_cnt, blocked, tweaked, latches, et, vt, ticks,
                       arg>>
    BY <1>3, Zenon DEF Ack, Goto, regs, pit, Threads, TakeIrr
  <2>2. High' <=> High
    BY <2>1, Zenon DEF High
  <2>3. Types' /\ Counters'
    BY SMTT(30), <1>1, <2>1 DEF Types, Counters, Locations
  <2>4. Pending' /\ Mutex' /\ Stopped'
    BY SMTT(30), <1>1, <2>1, VtmrAssumption DEF Types, OnePlace, Raising, Pending, Mutex, InMutex, Stopped
  <2>5. OnePlace' /\ LineOf11'
    BY SMTT(30), <1>1, <2>1, <2>2, VtmrAssumption DEF Types, Pending, Mutex, InMutex, Stopped, OnePlace,
       LineOf11, Raising, InSmi, Acking
  <2>6. OfDos'
    BY <1>2, <2>1, InFrame, Zenon DEF Acks, Latching
  <2> QED BY <1>1, <2>1, <2>3, <2>4, <2>5, <2>6, Zenon DEF IInv, Shared, Chips
<1>4. CASE LatchTake
  <2>1. /\ cpu = "l_take"
        /\ irr_mtx = Nobody /\ irr_mtx' = "dos" /\ ~vtmr_irr' /\ vtmr_irr' \in BOOLEAN
        /\ cpu' = IF vtmr_irr THEN "l_untrigger" ELSE "l_unlock"
        /\ stack' = stack
        /\ pics' = pics
        /\ UNCHANGED <<vtmr_imr, vtmr_pirr, vtmr_sem, done_pred, q_ticks, tmr_skip,
                       latched_cnt, blocked, tweaked, latches, et, vt, ticks,
                       arg>>
    BY <1>4, Zenon DEF LatchTake, Goto, regs, pit, Threads, TakeIrr
  <2>2. High' <=> High
    BY <2>1, Zenon DEF High
  <2>3. Types' /\ Counters'
    BY SMTT(30), <1>1, <2>1 DEF Types, Counters, Locations
  <2>4. Pending' /\ Mutex' /\ Stopped'
    BY SMTT(30), <1>1, <2>1, VtmrAssumption DEF Types, OnePlace, Raising, Pending, Mutex, InMutex, Stopped
  <2>5. OnePlace' /\ LineOf11'
    BY SMTT(30), <1>1, <2>1, <2>2, VtmrAssumption DEF Types, Pending, Mutex, InMutex, Stopped, OnePlace,
       LineOf11, Raising, InSmi, Acking
  <2>6. OfDos'
    BY <1>2, <2>1, InFrame, Zenon DEF Acks, Latching
  <2> QED BY <1>1, <2>1, <2>3, <2>4, <2>5, <2>6, Zenon DEF IInv, Shared, Chips
<1>5. CASE AckUntrigger
  <2>1. /\ cpu = "ack_untrigger"
        /\ cpu' = "ack_timer"
        /\ stack' = stack
        /\ UNCHANGED <<vtmr_irr, vtmr_imr, vtmr_pirr, vtmr_sem, irr_mtx, done_pred,
                       q_ticks, tmr_skip, latched_cnt, blocked, tweaked,
                       latches, et, vt, ticks, arg>>
    BY <1>5, Zenon DEF AckUntrigger, Goto, regs, pit, Threads, Port
  <2>2. /\ Chips(pics') /\ pics'.m.poll = pics.m.poll /\ ~High'
        /\ pics'.m.isr = pics.m.isr /\ pics'.s.isr = pics.s.isr
    <3>1. pics' = SetIrq(pics, 11, FALSE)
      BY <1>5, Zenon DEF AckUntrigger, Port, pic_untrigger, VTMR_IRQ
    <3> QED BY <1>1, <3>1, VSetIrq11, Zenon DEF High
  <2>3. Types' /\ Counters'
    BY SMTT(30), <1>1, <2>1 DEF Types, Counters, Locations
  <2>4. Pending' /\ Mutex' /\ Stopped'
    BY SMTT(30), <1>1, <2>1, VtmrAssumption DEF Types, OnePlace, Raising, Pending, Mutex, InMutex, Stopped
  <2>5. OnePlace' /\ LineOf11'
    BY SMTT(30), <1>1, <2>1, <2>2, VtmrAssumption DEF Types, Pending, Mutex, InMutex, Stopped, OnePlace,
       LineOf11, Raising, InSmi, Acking
  <2>6. OfDos'
    BY <1>2, <2>1, <2>2, InFrame, Zenon DEF Acks, Latching
  <2> QED BY <1>1, <2>1, <2>2, <2>3, <2>4, <2>5, <2>6, Zenon DEF IInv, Shared, Chips
<1>6. CASE LatchUntrigger
  <2>1. /\ cpu = "l_untrigger"
        /\ cpu' = "l_timer"
        /\ stack' = stack
        /\ UNCHANGED <<vtmr_irr, vtmr_imr, vtmr_pirr, vtmr_sem, irr_mtx, done_pred,
                       q_ticks, tmr_skip, latched_cnt, blocked, tweaked,
                       latches, et, vt, ticks, arg>>
    BY <1>6, Zenon DEF LatchUntrigger, Goto, regs, pit, Threads, Port
  <2>2. /\ Chips(pics') /\ pics'.m.poll = pics.m.poll /\ ~High'
        /\ pics'.m.isr = pics.m.isr /\ pics'.s.isr = pics.s.isr
    <3>1. pics' = SetIrq(pics, 11, FALSE)
      BY <1>6, Zenon DEF LatchUntrigger, Port, pic_untrigger, VTMR_IRQ
    <3> QED BY <1>1, <3>1, VSetIrq11, Zenon DEF High
  <2>3. Types' /\ Counters'
    BY SMTT(30), <1>1, <2>1 DEF Types, Counters, Locations
  <2>4. Pending' /\ Mutex' /\ Stopped'
    BY SMTT(30), <1>1, <2>1, VtmrAssumption DEF Types, OnePlace, Raising, Pending, Mutex, InMutex, Stopped
  <2>5. OnePlace' /\ LineOf11'
    BY SMTT(30), <1>1, <2>1, <2>2, VtmrAssumption DEF Types, Pending, Mutex, InMutex, Stopped, OnePlace,
       LineOf11, Raising, InSmi, Acking
  <2>6. OfDos'
    BY <1>2, <2>1, <2>2, InFrame, Zenon DEF Acks, Latching
  <2> QED BY <1>1, <2>1, <2>2, <2>3, <2>4, <2>5, <2>6, Zenon DEF IInv, Shared, Chips
<1>7. CASE AckHandler
  <2>0. /\ q_ticks' = q_ticks - 1 /\ q_ticks - 1 \in Nat /\ latched_cnt' = 0
        /\ q_ticks' # 0 => vtmr_pirr' = TRUE /\ vtmr_sem' = 1
        /\ q_ticks' = 0 => vtmr_pirr' = FALSE /\ vtmr_sem' = vtmr_sem
        /\ ~vtmr_pirr /\ q_ticks # 0
    <3>1. timer_irq_ack /\ cpu = "ack_timer"
      BY <1>7, Zenon DEF AckHandler, AckTimer
    <3>2. ~vtmr_pirr /\ q_ticks # 0
      BY <1>1, <3>1, Zenon DEF OnePlace, Acking
    <3> QED BY <1>1, <3>1, <3>2, AckEffect, Zenon
  <2>1. /\ cpu = "ack_timer"
        /\ cpu' = "ack_unlock"
        /\ q_ticks' = q_ticks - 1 /\ q_ticks - 1 \in Nat /\ latched_cnt' = 0
        /\ vtmr_pirr' \in BOOLEAN /\ (vtmr_pirr' <=> q_ticks' # 0) /\ ~vtmr_pirr /\ q_ticks # 0
        /\ vtmr_sem' = IF vtmr_pirr' THEN 1 ELSE vtmr_sem
        /\ stack' = stack
        /\ pics' = pics
        /\ UNCHANGED <<vtmr_irr, vtmr_imr, irr_mtx, done_pred, tmr_skip, blocked,
                       tweaked, latches, et, vt, ticks, arg>>
    BY <1>7, <2>0, Zenon DEF AckHandler, Goto, regs, pit, Threads, AckTimer
  <2>2. High' <=> High
    BY <2>1, Zenon DEF High
  <2>3. Types' /\ Counters'
    BY SMTT(30), <1>1, <2>1 DEF Types, Counters, Locations
  <2>4. Pending' /\ Mutex' /\ Stopped'
    BY SMTT(30), <1>1, <2>1, VtmrAssumption DEF Types, OnePlace, Raising, Pending, Mutex, InMutex, Stopped
  <2>5. OnePlace' /\ LineOf11'
    BY SMTT(30), <1>1, <2>1, <2>2, VtmrAssumption DEF Types, Pending, Mutex, InMutex, Stopped, OnePlace,
       LineOf11, Raising, InSmi, Acking
  <2>6. OfDos'
    BY <1>2, <2>1, InFrame, Zenon DEF Acks, Latching
  <2> QED BY <1>1, <2>1, <2>3, <2>4, <2>5, <2>6, Zenon DEF IInv, Shared, Chips
<1>8. CASE LatchHandler
  <2>0. /\ q_ticks' = q_ticks - 1 /\ q_ticks - 1 \in Nat /\ latched_cnt' = 0
        /\ q_ticks' # 0 => vtmr_pirr' = TRUE /\ vtmr_sem' = 1
        /\ q_ticks' = 0 => vtmr_pirr' = FALSE /\ vtmr_sem' = vtmr_sem
        /\ ~vtmr_pirr /\ q_ticks # 0
    <3>1. timer_irq_ack /\ cpu = "l_timer"
      BY <1>8, Zenon DEF LatchHandler, AckTimer
    <3>2. ~vtmr_pirr /\ q_ticks # 0
      BY <1>1, <3>1, Zenon DEF OnePlace, Acking
    <3> QED BY <1>1, <3>1, <3>2, AckEffect, Zenon
  <2>1. /\ cpu = "l_timer"
        /\ cpu' = "l_unlock"
        /\ q_ticks' = q_ticks - 1 /\ q_ticks - 1 \in Nat /\ latched_cnt' = 0
        /\ vtmr_pirr' \in BOOLEAN /\ (vtmr_pirr' <=> q_ticks' # 0) /\ ~vtmr_pirr /\ q_ticks # 0
        /\ vtmr_sem' = IF vtmr_pirr' THEN 1 ELSE vtmr_sem
        /\ stack' = stack
        /\ pics' = pics
        /\ UNCHANGED <<vtmr_irr, vtmr_imr, irr_mtx, done_pred, tmr_skip, blocked,
                       tweaked, latches, et, vt, ticks, arg>>
    BY <1>8, <2>0, Zenon DEF LatchHandler, Goto, regs, pit, Threads, AckTimer
  <2>2. High' <=> High
    BY <2>1, Zenon DEF High
  <2>3. Types' /\ Counters'
    BY SMTT(30), <1>1, <2>1 DEF Types, Counters, Locations
  <2>4. Pending' /\ Mutex' /\ Stopped'
    BY SMTT(30), <1>1, <2>1, VtmrAssumption DEF Types, OnePlace, Raising, Pending, Mutex, InMutex, Stopped
  <2>5. OnePlace' /\ LineOf11'
    BY SMTT(30), <1>1, <2>1, <2>2, VtmrAssumption DEF Types, Pending, Mutex, InMutex, Stopped, OnePlace,
       LineOf11, Raising, InSmi, Acking
  <2>6. OfDos'
    BY <1>2, <2>1, InFrame, Zenon DEF Acks, Latching
  <2> QED BY <1>1, <2>1, <2>3, <2>4, <2>5, <2>6, Zenon DEF IInv, Shared, Chips
<1>9. CASE evtimer_block
  <2>1. /\ cpu = "block"
        /\ cpu' = "in_cbk?" /\ blocked' /\ blocked' \in BOOLEAN
        /\ stack' = stack
        /\ pics' = pics
        /\ UNCHANGED <<vtmr_irr, vtmr_imr, vtmr_pirr, vtmr_sem, irr_mtx, done_pred,
                       q_ticks, tmr_skip, latched_cnt, tweaked, latches, et,
                       vt, ticks, arg>>
    BY <1>9, Zenon DEF evtimer_block, Goto, regs, pit, Threads
  <2>2. High' <=> High
    BY <2>1, Zenon DEF High
  <2>3. Types' /\ Counters'
    BY SMTT(30), <1>1, <2>1 DEF Types, Counters, Locations
  <2>4. Pending' /\ Mutex' /\ Stopped'
    BY SMTT(30), <1>1, <2>1, VtmrAssumption DEF Types, OnePlace, Raising, Pending, Mutex, InMutex, Stopped
  <2>5. OnePlace' /\ LineOf11'
    BY SMTT(30), <1>1, <2>1, <2>2, VtmrAssumption DEF Types, Pending, Mutex, InMutex, Stopped, OnePlace,
       LineOf11, Raising, InSmi, Acking
  <2>6. OfDos'
    BY <1>2, <2>1, InFrame, Zenon DEF Acks, Latching
  <2> QED BY <1>1, <2>1, <2>3, <2>4, <2>5, <2>6, Zenon DEF IInv, Shared, Chips
<1>10. CASE LatchRaise
  <2>1. /\ cpu = "l_raise"
        /\ cpu' = "l_post" /\ done_pred' \in BOOLEAN
        /\ stack' = stack
        /\ pics' = pics
        /\ UNCHANGED <<vtmr_irr, vtmr_imr, vtmr_pirr, vtmr_sem, irr_mtx, q_ticks,
                       tmr_skip, latched_cnt, blocked, tweaked, latches, et,
                       vt, ticks, arg>>
    BY <1>10, Zenon DEF LatchRaise, Goto, regs, pit, Threads
  <2>2. High' <=> High
    BY <2>1, Zenon DEF High
  <2>3. Types' /\ Counters'
    BY SMTT(30), <1>1, <2>1 DEF Types, Counters, Locations
  <2>4. Pending' /\ Mutex' /\ Stopped'
    BY SMTT(30), <1>1, <2>1, VtmrAssumption DEF Types, OnePlace, Raising, Pending, Mutex, InMutex, Stopped
  <2>5. OnePlace' /\ LineOf11'
    BY SMTT(30), <1>1, <2>1, <2>2, VtmrAssumption DEF Types, Pending, Mutex, InMutex, Stopped, OnePlace,
       LineOf11, Raising, InSmi, Acking
  <2>6. OfDos'
    BY <1>2, <2>1, InFrame, Zenon DEF Acks, Latching
  <2> QED BY <1>1, <2>1, <2>3, <2>4, <2>5, <2>6, Zenon DEF IInv, Shared, Chips
<1>11. CASE LatchPost
  <2>1. /\ cpu = "l_post"
        /\ cpu' = "count" /\ done_pred' \in BOOLEAN /\ vtmr_pirr' /\ vtmr_pirr' \in BOOLEAN
        /\ vtmr_sem' = IF vtmr_pirr THEN vtmr_sem ELSE vtmr_sem + 1
        /\ stack' = stack
        /\ pics' = pics
        /\ UNCHANGED <<vtmr_irr, vtmr_imr, irr_mtx, q_ticks, tmr_skip, latched_cnt,
                       blocked, tweaked, latches, et, vt, ticks, arg>>
    BY <1>11, Zenon DEF LatchPost, Goto, regs, pit, Threads, do_vtmr_raise
  <2>2. High' <=> High
    BY <2>1, Zenon DEF High
  <2>3. Types' /\ Counters'
    BY SMTT(30), <1>1, <2>1 DEF Types, Counters, Locations
  <2>4. Pending' /\ Mutex' /\ Stopped'
    BY SMTT(30), <1>1, <2>1, VtmrAssumption DEF Types, OnePlace, Raising, Pending, Mutex, InMutex, Stopped
  <2>5. OnePlace' /\ LineOf11'
    BY SMTT(30), <1>1, <2>1, <2>2, VtmrAssumption DEF Types, Pending, Mutex, InMutex, Stopped, OnePlace,
       LineOf11, Raising, InSmi, Acking
  <2>6. OfDos'
    BY <1>2, <2>1, InFrame, Zenon DEF Acks, Latching
  <2> QED BY <1>1, <2>1, <2>3, <2>4, <2>5, <2>6, Zenon DEF IInv, Shared, Chips
<1>12. CASE vtmr_sync
  <2>1. /\ cpu = "sync"
        /\ cpu' = "unblock"
        /\ stack' = stack
        /\ pics' = pics
        /\ UNCHANGED <<vtmr_irr, vtmr_imr, vtmr_pirr, vtmr_sem, irr_mtx, done_pred,
                       q_ticks, tmr_skip, latched_cnt, blocked, tweaked,
                       latches, et, vt, ticks, arg>>
    BY <1>12, Zenon DEF vtmr_sync, Goto, regs, pit, Threads
  <2>2. High' <=> High
    BY <2>1, Zenon DEF High
  <2>3. Types' /\ Counters'
    BY SMTT(30), <1>1, <2>1 DEF Types, Counters, Locations
  <2>4. Pending' /\ Mutex' /\ Stopped'
    BY SMTT(30), <1>1, <2>1, VtmrAssumption DEF Types, OnePlace, Raising, Pending, Mutex, InMutex, Stopped
  <2>5. OnePlace' /\ LineOf11'
    BY SMTT(30), <1>1, <2>1, <2>2, VtmrAssumption DEF Types, Pending, Mutex, InMutex, Stopped, OnePlace,
       LineOf11, Raising, InSmi, Acking
  <2>6. OfDos'
    BY <1>2, <2>1, InFrame, Zenon DEF Acks, Latching
  <2> QED BY <1>1, <2>1, <2>3, <2>4, <2>5, <2>6, Zenon DEF IInv, Shared, Chips
<1>13. CASE \E b \in BOOLEAN : do_pit_latch(b)
  <2>1. /\ cpu = "in_cbk?"
        /\ et = "idle"
        /\ \/ cpu' = "l_raise" /\ q_ticks = 0 /\ q_ticks' = 1 /\ tmr_skip' = tmr_skip + 1
           \/ cpu' = "count" /\ q_ticks' = q_ticks /\ tmr_skip' = tmr_skip
        /\ stack' = stack
        /\ pics' = pics
        /\ UNCHANGED <<vtmr_irr, vtmr_imr, vtmr_pirr, vtmr_sem, irr_mtx, done_pred,
                       latched_cnt, blocked, tweaked, latches, et, vt, ticks,
                       arg>>
    BY <1>13, Zenon DEF do_pit_latch, Goto, regs, pit, Threads
  <2>2. High' <=> High
    BY <2>1, Zenon DEF High
  <2>3. Types' /\ Counters'
    BY SMTT(30), <1>1, <2>1 DEF Types, Counters, Locations
  <2>4. Pending' /\ Mutex' /\ Stopped'
    BY SMTT(30), <1>1, <2>1, VtmrAssumption DEF Types, OnePlace, Raising, Pending, Mutex, InMutex, Stopped
  <2>5. OnePlace' /\ LineOf11'
    BY SMTT(30), <1>1, <2>1, <2>2, VtmrAssumption DEF Types, Pending, Mutex, InMutex, Stopped, OnePlace,
       LineOf11, Raising, InSmi, Acking
  <2>6. OfDos'
    BY <1>2, <2>1, InFrame, Zenon DEF Acks, Latching
  <2> QED BY <1>1, <2>1, <2>3, <2>4, <2>5, <2>6, Zenon DEF IInv, Shared, Chips
<1>14. CASE \E b \in BOOLEAN : _pit_count_latch(b)
  <2>1. /\ cpu = "count"
        /\ cpu' = "sync" /\ latched_cnt' = latched_cnt + 1 /\ (arg' = 0 \/ arg' = 1)
        /\ stack' = stack
        /\ pics' = pics
        /\ UNCHANGED <<vtmr_irr, vtmr_imr, vtmr_pirr, vtmr_sem, irr_mtx, done_pred,
                       q_ticks, tmr_skip, blocked, tweaked, latches, et, vt,
                       ticks>>
    BY <1>14, Zenon DEF _pit_count_latch, Goto, regs, pit, Threads
  <2>2. High' <=> High
    BY <2>1, Zenon DEF High
  <2>3. Types' /\ Counters'
    BY SMTT(30), <1>1, <2>1 DEF Types, Counters, Locations
  <2>4. Pending' /\ Mutex' /\ Stopped'
    BY SMTT(30), <1>1, <2>1, VtmrAssumption DEF Types, OnePlace, Raising, Pending, Mutex, InMutex, Stopped
  <2>5. OnePlace' /\ LineOf11'
    BY SMTT(30), <1>1, <2>1, <2>2, VtmrAssumption DEF Types, Pending, Mutex, InMutex, Stopped, OnePlace,
       LineOf11, Raising, InSmi, Acking
  <2>6. OfDos'
    BY <1>2, <2>1, InFrame, Zenon DEF Acks, Latching
  <2> QED BY <1>1, <2>1, <2>3, <2>4, <2>5, <2>6, Zenon DEF IInv, Shared, Chips
<1> QED BY <1>3, <1>4, <1>5, <1>6, <1>7, <1>8, <1>9, <1>10, <1>11, <1>12, <1>13, <1>14, Zenon

(* The steps into and out of an acknowledgement or a latch. *)
LEMMA BorderStep ==
  ASSUME IInv, AckUnlock \/ vtmr_latch_smi \/ evtimer_unblock \/ LatchUnlock
  PROVE  IInv'
<1>1. /\ Types /\ Counters /\ Pending /\ Mutex /\ Stopped /\ OnePlace /\ LineOf11
      /\ Shape(cpu, stack) /\ Masking /\ (~AutoEoi => Services) /\ Chips(pics)
  BY Zenon DEF IInv, Shared, OfDos
<1>2. /\ {"ack_unlock", "isr", "eoi2", "dos", "isr_on"} \cap Latching = {}
      /\ {"block", "unblock", "l_take", "l_unlock"} \subseteq Latching
  BY DEF Latching
<1>3. CASE AckUnlock
  <2>1. /\ cpu = "ack_unlock" /\ cpu' = IF arg = 1 THEN "eoi2" ELSE "isr"
        /\ stack' = stack /\ irr_mtx' = Nobody
        /\ pics' = pics
        /\ UNCHANGED <<vtmr_irr, vtmr_imr, vtmr_pirr, vtmr_sem, done_pred, q_ticks,
                       tmr_skip, latched_cnt, blocked, tweaked, latches, et,
                       vt, ticks, arg>>
    BY <1>3, Zenon DEF AckUnlock, regs, pit, Threads, Unlock, Goto
  <2>2. High' <=> High
    BY <2>1, Zenon DEF High
  <2>3. Shape(cpu, stack)' /\ stack' = stack
    BY <1>1, <1>2, <2>1, ShapeGoto, Zenon
  <2>4. Types' /\ Counters'
    BY SMTT(30), <1>1, <2>1, VtmrAssumption DEF Types, Counters, Locations
  <2>5. Pending' /\ Mutex' /\ Stopped'
    BY SMTT(30), <1>1, <2>1, VtmrAssumption DEF Types, Pending, Mutex, InMutex, Stopped
  <2>6. OnePlace' /\ LineOf11'
    BY SMTT(30), <1>1, <2>1, <2>2 DEF Types, OnePlace, LineOf11, Raising, InSmi, Acking
  <2>7. Masking'
    BY <1>1, <2>1, <2>3, ZenonT(40) DEF Masking
  <2>8. ~AutoEoi => Services'
    BY SMTT(30), <1>1, <1>2, <2>1, <2>3 DEF Services, Serves, Acks, Types
  <2> QED BY <1>1, <2>1, <2>3, <2>4, <2>5, <2>6, <2>7, <2>8, Zenon DEF IInv, Shared, OfDos, Chips
<1>4. CASE vtmr_latch_smi
  <2>1. /\ cpu \in {"dos", "isr", "isr_on"} /\ cpu' = "block" /\ stack' = <<cpu>> \o stack
        /\ latches < MaxLatches /\ latches' = latches + 1 /\ (arg' = 0 \/ arg' = 1)
        /\ pics' = pics
        /\ UNCHANGED <<vtmr_irr, vtmr_imr, vtmr_pirr, vtmr_sem, irr_mtx, done_pred,
                       q_ticks, tmr_skip, latched_cnt, blocked, tweaked, et,
                       vt, ticks>>
    BY <1>4, Zenon DEF vtmr_latch_smi, regs, pit, Threads, Call
  <2>2. High' <=> High
    BY <2>1, Zenon DEF High
  <2>3. /\ Shape(cpu, stack)' /\ (Tweaked(stack') <=> Tweaked(stack)) /\ stack'[1] = cpu
    <3>1. CanCall(cpu, stack, cpu, "block")
      BY <1>1, <1>2, <2>1, Zenon DEF CanCall
    <3>2. /\ Shape("block", <<cpu>> \o stack) /\ (<<cpu>> \o stack)[1] = cpu
          /\ Tweaked(<<cpu>> \o stack) <=> cpu = "do_ret" \/ Tweaked(stack)
      BY <3>1, ShapeCall, Zenon
    <3> QED BY <2>1, <3>2, Zenon
  <2>4. Types' /\ Counters'
    BY SMTT(30), <1>1, <2>1, VtmrAssumption DEF Types, Counters, Locations
  <2>5. Pending' /\ Mutex' /\ Stopped'
    BY SMTT(30), <1>1, <2>1, VtmrAssumption DEF Types, Pending, Mutex, InMutex, Stopped
  <2>6. OnePlace' /\ LineOf11'
    BY SMTT(30), <1>1, <2>1, <2>2 DEF Types, OnePlace, LineOf11, Raising, InSmi, Acking
  <2>7. Masking'
    BY <1>1, <2>1, <2>3, ZenonT(40) DEF Masking
  <2>8. ~AutoEoi => Services'
    BY ZenonT(40), <1>1, <1>2, <2>1, <2>3 DEF Services, Serves, Acks, Types
  <2> QED BY <1>1, <2>1, <2>3, <2>4, <2>5, <2>6, <2>7, <2>8, Zenon DEF IInv, Shared, OfDos, Chips
<1>5. CASE evtimer_unblock
  <2>1. /\ cpu = "unblock" /\ blocked' \in BOOLEAN
        /\ \/ arg = 1 /\ cpu' = "l_take" /\ stack' = stack
           \/ arg # 1 /\ Return
        /\ pics' = pics
        /\ UNCHANGED <<vtmr_irr, vtmr_imr, vtmr_pirr, vtmr_sem, irr_mtx, done_pred,
                       q_ticks, tmr_skip, latched_cnt, tweaked, latches, et,
                       vt, ticks, arg>>
    BY <1>5, Zenon DEF evtimer_unblock, regs, pit, Threads, Goto
  <2>2. High' <=> High
    BY <2>1, Zenon DEF High
  <2>3. /\ Shape(cpu, stack)' /\ (Tweaked(stack') <=> Tweaked(stack))
        /\ \/ cpu' = "l_take" /\ stack' = stack
           \/ cpu' \in {"dos", "isr", "isr_on"} /\ cpu' = stack[1]
    <3>1. CASE arg = 1
      BY <1>1, <1>2, <2>1, <3>1, ShapeGoto, Zenon
    <3>2. CASE arg # 1
      BY <1>1, <1>2, <2>1, <3>2, GoesBack, Zenon DEF Back
    <3> QED BY <3>1, <3>2, Zenon
  <2>4. Types' /\ Counters'
    BY SMTT(30), <1>1, <2>1, <2>3, VtmrAssumption DEF Types, Counters, Locations
  <2>5. Pending' /\ Mutex' /\ Stopped'
    BY SMTT(30), <1>1, <2>1, <2>3, VtmrAssumption DEF Types, Pending, Mutex, InMutex, Stopped
  <2>6. OnePlace' /\ LineOf11'
    BY SMTT(30), <1>1, <2>1, <2>2, <2>3 DEF Types, OnePlace, LineOf11, Raising, InSmi, Acking
  <2>7. Masking'
    BY <1>1, <2>1, <2>3, ZenonT(40) DEF Masking
  <2>8. ~AutoEoi => Services'
    <3>0. SUFFICES ASSUME ~AutoEoi PROVE Services'
      BY Zenon
    <3>1. /\ pics'.m.isr = (IF stack[1] = "isr" THEN {0} ELSE {}) /\ pics'.s.isr = {}
      BY <1>1, <1>2, <2>1, <3>0, Zenon DEF Services, Serves
    <3>2. CASE cpu' = "l_take" /\ stack' = stack
      BY <3>1, <3>2 DEF Services, Serves, Acks
    <3>3. CASE cpu' \in {"dos", "isr", "isr_on"} /\ cpu' = stack[1]
      BY <3>1, <3>3 DEF Services, Serves, Acks, Latching
    <3> QED BY <2>3, <3>2, <3>3, Zenon
  <2> QED BY <1>1, <2>1, <2>3, <2>4, <2>5, <2>6, <2>7, <2>8, Zenon DEF IInv, Shared, OfDos, Chips
<1>6. CASE LatchUnlock
  <2>1. /\ cpu = "l_unlock" /\ Return /\ irr_mtx' = Nobody
        /\ pics' = pics
        /\ UNCHANGED <<vtmr_irr, vtmr_imr, vtmr_pirr, vtmr_sem, done_pred, q_ticks,
                       tmr_skip, latched_cnt, blocked, tweaked, latches, et,
                       vt, ticks, arg>>
    BY <1>6, Zenon DEF LatchUnlock, regs, pit, Threads, Unlock
  <2>2. High' <=> High
    BY <2>1, Zenon DEF High
  <2>3. /\ Shape(cpu, stack)' /\ (Tweaked(stack') <=> Tweaked(stack))
        /\ cpu' \in {"dos", "isr", "isr_on"} /\ cpu' = stack[1]
    BY <1>1, <1>2, <2>1, GoesBack, Zenon DEF Back
  <2>4. Types' /\ Counters'
    BY SMTT(30), <1>1, <2>1, <2>3, VtmrAssumption DEF Types, Counters, Locations
  <2>5. Pending' /\ Mutex' /\ Stopped'
    BY SMTT(30), <1>1, <2>1, <2>3, VtmrAssumption DEF Types, Pending, Mutex, InMutex, Stopped
  <2>6. OnePlace' /\ LineOf11'
    BY SMTT(30), <1>1, <2>1, <2>2, <2>3 DEF Types, OnePlace, LineOf11, Raising, InSmi, Acking
  <2>7. Masking'
    BY <1>1, <2>1, <2>3, ZenonT(40) DEF Masking
  <2>8. ~AutoEoi => Services'
    <3>0. SUFFICES ASSUME ~AutoEoi PROVE Services'
      BY Zenon
    <3>1. /\ pics'.m.isr = (IF stack[1] = "isr" THEN {0} ELSE {}) /\ pics'.s.isr = {}
      BY <1>1, <1>2, <2>1, <3>0, Zenon DEF Services, Serves
    <3> QED BY <2>3, <3>1 DEF Services, Serves, Acks, Latching
  <2> QED BY <1>1, <2>1, <2>3, <2>4, <2>5, <2>6, <2>7, <2>8, Zenon DEF IInv, Shared, OfDos, Chips
<1> QED BY <1>3, <1>4, <1>5, <1>6, Zenon

-----------------------------------------------------------------------------
(* Start-up. *)
LEMMA VtmrInit ==
  Init => IInv
<1> SUFFICES ASSUME Init PROVE IInv
  BY Zenon
<1> DEFINE c == [Zeroed EXCEPT !.auto_eoi = AutoEoi]
<1>1. /\ Zeroed \in Controller /\ Zeroed.irr = {} /\ Zeroed.isr = {} /\ Zeroed.last_irr = {}
      /\ Zeroed.poll = FALSE /\ Zeroed.auto_eoi = FALSE /\ Zeroed.init_state = 0
  <2>1. 0 \in 0..7 /\ 0 \in 0..3
    BY SMT
  <2> QED BY <2>1, Zenon DEF Zeroed, Controller, Line
<1>2. PicsInit \in Pics /\ PicsInit.m = Zeroed /\ PicsInit.s = Zeroed
  BY <1>1 DEF PicsInit, Pics
<1>3. AutoEoi \in BOOLEAN
  BY VtmrAssumption
<1> HIDE DEF Zeroed, PicsInit
<1>4. /\ c \in Controller /\ c.irr = {} /\ c.isr = {} /\ c.poll = FALSE
      /\ c.auto_eoi = AutoEoi /\ c.init_state = 0
  BY <1>1, <1>3, Zenon DEF Controller
<1>5. pics = [PicsInit EXCEPT !.m = c]
  BY <1>2, Zenon DEF Init, Pics, Controller
<1> HIDE DEF c
<1>6. pics \in Pics /\ pics.m = c /\ pics.s = Zeroed
  BY <1>2, <1>4, <1>5, Zenon DEF Pics
<1>7. Chips(pics) /\ ~High
  BY <1>1, <1>4, <1>6, Zenon DEF Chips, MasterOK, SlaveOK, High
<1>8. Types /\ Counters
  <2>1. /\ tweaked \in BOOLEAN /\ MaxTicks \in Nat /\ MaxLatches \in Nat
    <3>1. tweaked \in Tweaks
      BY DEF Init
    <3>2. Tweaks \subseteq BOOLEAN /\ MaxTicks \in Nat /\ MaxLatches \in Nat
      BY VtmrAssumption
    <3> QED BY <3>1, <3>2, Zenon
  <2>2. Types
    <3>1. /\ vt = "wait" /\ cpu = "dos" /\ arg = 0 /\ et = "idle" /\ irr_mtx = Nobody
          /\ ticks = 0 /\ latches = 0 /\ q_ticks = 0 /\ tmr_skip = 0 /\ latched_cnt = 0
          /\ vtmr_irr = FALSE /\ vtmr_imr = FALSE /\ vtmr_pirr = FALSE
          /\ done_pred = TRUE /\ blocked = FALSE
      BY DEF Init
    <3>2. /\ vtmr_irr \in BOOLEAN /\ vtmr_imr \in BOOLEAN /\ vtmr_pirr \in BOOLEAN
          /\ done_pred \in BOOLEAN /\ blocked \in BOOLEAN
      BY <3>1, Zenon
    <3>3. /\ arg \in 0..1 /\ ticks \in 0..MaxTicks /\ latches \in 0..MaxLatches
          /\ q_ticks \in Nat /\ tmr_skip \in Nat /\ latched_cnt \in Nat
      BY <2>1, <3>1
    <3>4. vt \in VtLocations /\ cpu \in Locations /\ et \in {"idle", "raise", "post"}
          /\ irr_mtx \in {"dos", "vtmr", Nobody}
      BY <3>1, Zenon DEF VtLocations, Locations
    <3> QED BY <2>1, <3>2, <3>3, <3>4, Zenon DEF Types
  <2>3. Counters
    BY DEF Init, Counters
  <2> QED BY <2>2, <2>3, Zenon
<1>9. Pending /\ Mutex /\ Stopped
  BY VtmrAssumption DEF Init, Pending, Mutex, Stopped, InMutex
<1>10. OnePlace /\ LineOf11
  BY <1>7 DEF Init, OnePlace, LineOf11, Raising, InSmi, Acking
<1>11. Shape(cpu, stack) /\ ~Tweaked(stack)
  BY DEF Init, Shape, Latching, Tweaked
<1>12. Masking /\ Services
  BY <1>1, <1>4, <1>6, <1>11 DEF Init, Masking, Services, Serves, Acks, Latching
<1> QED BY <1>7, <1>8, <1>9, <1>10, <1>11, <1>12, Zenon DEF IInv, Shared, OfDos

(* A step of none of the threads. *)
LEMMA VtmrStutter ==
  ASSUME IInv, UNCHANGED vars
  PROVE  IInv'
<1>1. /\ UNCHANGED <<pics, regs, pit, et, vt, dos, ticks, latches>> /\ Chips(pics) /\ OfDos
      /\ Types /\ Counters /\ Pending /\ Mutex /\ Stopped /\ OnePlace /\ LineOf11
  BY Zenon DEF vars, IInv, Shared
<1>2. Types' /\ Counters' /\ Pending' /\ Mutex' /\ Stopped'
  BY SMTT(30), <1>1 DEF regs, pit, dos, Types, Counters, Pending, Mutex, Stopped
<1>3. OnePlace' /\ LineOf11'
  BY SMTT(30), <1>1 DEF regs, pit, dos, OnePlace, LineOf11, Raising, InSmi, Acking, High
<1>4. pics' = pics /\ vtmr_imr' = vtmr_imr /\ dos' = dos
  BY <1>1, Zenon DEF regs
<1>5. OfDos' /\ Chips(pics')
  BY <1>1, <1>4, DosKept, Zenon
<1> QED BY <1>2, <1>3, <1>5, Zenon DEF IInv, Shared

(* Every step of the three threads keeps the invariant. *)
LEMMA VtmrNext ==
  IInv /\ [Next]_vars => IInv'
<1> SUFFICES ASSUME IInv, [Next]_vars PROVE IInv'
  BY Zenon
<1>1. CASE \E n \in 1..MaxBurst : Expire(n)
  BY <1>1, ExpireStep, Zenon
<1>2. CASE evthread
  BY <1>2, ThreadStep, Zenon
<1>3. CASE vtmr_thread
  BY <1>3, ThreadStep, ThreadPicStep, Zenon DEF vtmr_thread
<1>4. CASE Interrupt
  BY <1>4, JumpStep, PortStep, CallStep, ReturnStep, FrameStep, BorderStep, Zenon DEF Interrupt
<1>5. CASE vtmr_latch_smi
  BY <1>5, BorderStep, Zenon
<1>6. CASE Latch
  BY <1>6, FrameStep, BorderStep, Zenon DEF Latch
<1>7. CASE \E w \in Masks : WriteMask(w[1], w[2])
  BY <1>7, ThreadPicStep, Zenon
<1>8. CASE UNCHANGED vars
  BY <1>8, VtmrStutter, Zenon
<1> QED BY <1>1, <1>2, <1>3, <1>4, <1>5, <1>6, <1>7, <1>8, Zenon DEF Next

(* The invariant gives the tick one place and the line its level. *)
LEMMA TickInPlace ==
  IInv => TickInOnePlace
<1> SUFFICES ASSUME IInv PROVE TickInOnePlace
  BY Zenon
<1>1. /\ Types /\ Counters /\ Pending /\ Mutex /\ OnePlace /\ LineOf11 /\ Masking
      /\ Shape(cpu, stack) /\ Chips(pics)
  BY Zenon DEF IInv, Shared, OfDos
<1>2. TypeOK
  <2>1. {vtmr_irr, vtmr_imr, vtmr_pirr, done_pred, blocked, tweaked} \subseteq BOOLEAN
    BY <1>1, Zenon DEF Types
  <2>2. /\ q_ticks \in 0..MaxTicks + MaxLatches
        /\ tmr_skip \in 0..MaxLatches /\ latched_cnt \in 0..MaxLatches
    BY <1>1, VtmrAssumption DEF Types, Counters
  <2>3. stack \in Seq(Locations)
    <3>1. {"dos", "isr", "isr_on", "do_ret"} \subseteq Locations
      BY DEF Locations
    <3>2. stack \in Seq({"dos", "isr", "isr_on", "do_ret"})
      BY <1>1, Zenon DEF Shape
    <3> HIDE DEF Locations
    <3> QED BY <3>1, <3>2
  <2> QED BY <1>1, <2>1, <2>2, <2>3 DEF TypeOK, Types, VtLocations, Pending, Chips
<1>3. IF q_ticks = 0 THEN Holding = {} ELSE \E i \in 1..5 : Holding = {i}
  <2>3. /\ Places[1] = Raising /\ Places[2] = vtmr_pirr /\ Places[3] = InSmi
        /\ Places[4] = vtmr_irr /\ Places[5] = Acking
    BY DEF Places
  <2>4. \A i \in 1..5 : i = 1 \/ i = 2 \/ i = 3 \/ i = 4 \/ i = 5
    OBVIOUS
  <2>5. \A i, j \in 1..5 : Places[i] /\ Places[j] => i = j
    BY <1>1, <2>3, <2>4, Zenon DEF OnePlace
  <2>6. q_ticks # 0 <=> \E i \in 1..5 : Places[i]
    <3>1. 1 \in 1..5 /\ 2 \in 1..5 /\ 3 \in 1..5 /\ 4 \in 1..5 /\ 5 \in 1..5
      OBVIOUS
    <3> QED BY <1>1, <2>3, <2>4, <3>1, Zenon DEF OnePlace
  <2> QED BY <2>5, <2>6, Zenon DEF Holding
<1>4. LineSettled => ((3 \in pics.s.last_irr) = (vtmr_irr /\ ~vtmr_imr))
  <2>1. ASSUME LineSettled PROVE High <=> vtmr_irr /\ ~vtmr_imr
    BY <1>1, <2>1, VtmrAssumption DEF LineSettled, LineOf11, Mutex, InMutex
  <2>2. vtmr_irr \in BOOLEAN /\ vtmr_imr \in BOOLEAN
    BY <1>1, Zenon DEF Types
  <2> QED BY <2>1, <2>2 DEF High
<1> QED BY <1>2, <1>3, <1>4, Zenon DEF TickInOnePlace

(* The invariant leaves nothing in service when DOS runs by itself. *)
LEMMA ServiceOver ==
  ASSUME ~AutoEoi
  PROVE  IInv => ServiceEnds
<1> SUFFICES ASSUME IInv PROVE ServiceEnds
  BY Zenon
<1>1. Masking /\ Services
  BY Zenon DEF IInv, OfDos
<1>2. cpu = "dos" => pics.m.isr = {} /\ pics.s.isr = {} /\ ~pics.m.poll
  BY <1>1 DEF Masking, Services, Serves
<1>3. cpu = "polled" => 0 \in pics.m.isr
  BY <1>1 DEF Services, Serves
<1>4. cpu = "vint" => InTweaked = {}
  BY <1>1, Zenon DEF Masking, Tweaked, InTweaked
<1> QED BY <1>2, <1>3, <1>4, Zenon DEF ServiceEnds

-----------------------------------------------------------------------------
(* The inductive invariant of the virtual timer holds in every behaviour   *)
(* of the three threads.                                                   *)
THEOREM VtmrInvariant ==
  Spec => []IInv
<1>1. IInv /\ [Next]_vars => IInv'
  BY VtmrNext, Zenon
<1> QED BY VtmrInit, <1>1, PTL DEF Spec

(* timer_activate, timer_irq_ack and the latch never lose or double the    *)
(* tick being served: while q_ticks counts one, exactly one of the threads *)
(* has it, and none when it counts none; and IRQ 11 of the controllers is  *)
(* high exactly when vtmr_irr asks for it and vtmr_imr does not mask it,   *)
(* for any number of ticks (within the width of q_ticks), latches, nested  *)
(* handlers and mask writes, with and without automatic EOI.               *)
THEOREM TickAlwaysInOnePlace ==
  Spec => []TickInOnePlace
BY VtmrInvariant, TickInPlace, PTL

(* With the EOI mode of the BIOS, every path of vint_handler and of the    *)
(* handlers behind it ends what pic_get_inum started, the poll extension   *)
(* leaves IRQ 0 in service, and a tweaked timer handler is never nested.   *)
THEOREM ServiceAlwaysEnds ==
  ASSUME ~AutoEoi
  PROVE  Spec => []ServiceEnds
<1>1. IInv => ServiceEnds
  BY ServiceOver, Zenon
<1> QED BY VtmrInvariant, <1>1, PTL
=============================================================================
