---------------------------- MODULE I8259Lemmas ----------------------------
(***************************************************************************)
(* What the interrupt controllers choose, for every state of their         *)
(* registers: ranks of lines, the line pic_get_irq finds, and the parts of *)
(* the state that a call leaves alone.                                     *)
(***************************************************************************)
EXTENDS I8259, TLAPS

(* Every nonempty set of ranks has a least element. *)
LEMMA MinRank ==
  ASSUME NEW S \in SUBSET (0..7), S # {}
  PROVE  Min(S) \in S /\ \A x \in S : Min(S) <= x
<1>1. \E x \in S : \A y \in S : x <= y
  <2>1. PICK n \in 0..7 : n \in S
    BY Zenon
  <2> QED BY <2>1
<1> QED BY <1>1, Zenon DEF Min

(* The rotation of the priorities is a permutation of the lines. *)
LEMMA Rotation ==
  ASSUME NEW a \in 0..7, NEW i \in 0..7
  PROVE  /\ (i + 8 - a) % 8 \in 0..7
         /\ (((i + 8 - a) % 8) + a) % 8 = i
OBVIOUS

(* Ranks and lines determine each other. *)
LEMMA RankOfLine ==
  ASSUME NEW c, c.priority_add \in Line, NEW i \in Line
  PROVE  Rank(c, i) \in Line /\ LineOfRank(c, Rank(c, i)) = i
<1> DEFINE a == c.priority_add
<1>1. a \in 0..7 /\ i \in 0..7
  BY Zenon DEF Line
<1> HIDE DEF a
<1>2. (i + 8 - a) % 8 \in 0..7 /\ (((i + 8 - a) % 8) + a) % 8 = i
  BY <1>1, Rotation, Zenon
<1> QED BY <1>2, Zenon DEF a, Rank, LineOfRank, Line

(* Two lines never share a rank: get_priority (i8259.c) can turn the rank *)
(* it finds back into a line.                                             *)
LEMMA RankInjective ==
  ASSUME NEW c, c.priority_add \in Line, NEW i \in Line, NEW j \in Line,
         Rank(c, i) = Rank(c, j)
  PROVE  i = j
BY RankOfLine, Zenon

(* get_priority finds the least rank of a mask. *)
LEMMA LeastRank ==
  ASSUME NEW c, c.priority_add \in Line, NEW M \in SUBSET Line
  PROVE  /\ get_priority(c, M) \in 0..8
         /\ \A i \in M : get_priority(c, M) <= Rank(c, i)
         /\ get_priority(c, M) # 8 =>
              LineOfRank(c, get_priority(c, M)) \in M
              /\ Rank(c, LineOfRank(c, get_priority(c, M))) = get_priority(c, M)
         /\ get_priority(c, M) = 8 <=> M = {}
<1>1. CASE M = {}
  BY <1>1 DEF get_priority
<1>2. CASE M # {}
  <2> DEFINE S == {Rank(c, i) : i \in M}
  <2>1. S \in SUBSET (0..7) /\ S # {}
    BY <1>2, RankOfLine, Zenon DEF Line
  <2>2. Min(S) \in S /\ \A x \in S : Min(S) <= x
    BY <2>1, MinRank, Zenon
  <2>3. get_priority(c, M) = Min(S)
    BY <1>2, Zenon DEF get_priority
  <2>4. PICK i \in M : Min(S) = Rank(c, i)
    BY <2>2, Zenon
  <2>5. LineOfRank(c, Min(S)) = i
    BY <2>4, RankOfLine, Zenon
  <2>6. Min(S) \in 0..7 /\ \A j \in M : Min(S) <= Rank(c, j)
    BY <2>1, <2>2, Zenon
  <2> HIDE DEF S
  <2> QED BY <1>2, <2>3, <2>4, <2>5, <2>6
<1> QED BY <1>1, <1>2, Zenon

(* pic_get_irq answers a requested, unmasked line that is more urgent than *)
(* every other one and than everything in service, and None only when      *)
(* there is none.                                                          *)
LEMMA GetIrq ==
  ASSUME NEW c, c.priority_add \in Line, c.irr \subseteq Line, c.isr \subseteq Line,
         NEW b \in BOOLEAN
  PROVE  LET r == pic_get_irq(c, b)
         IN /\ r # None =>
                 /\ r \in c.irr \ c.imr
                 /\ \A i \in c.irr \ c.imr : Rank(c, r) <= Rank(c, i)
                 /\ \A i \in InService(c, b) : Rank(c, r) < Rank(c, i)
            /\ r = None =>
                 \A k \in c.irr \ c.imr :
                   \E i \in InService(c, b) : Rank(c, i) <= Rank(c, k)
<1> DEFINE M == c.irr \ c.imr
           S == InService(c, b)
           r == get_priority(c, M)
           q == get_priority(c, S)
<1>1. M \in SUBSET Line /\ S \in SUBSET Line
  BY Zenon DEF InService
<1>2. /\ r \in 0..8 /\ \A i \in M : r <= Rank(c, i)
      /\ r # 8 => LineOfRank(c, r) \in M /\ Rank(c, LineOfRank(c, r)) = r
  BY <1>1, LeastRank, Zenon
<1>3. /\ q \in 0..8 /\ \A i \in S : q <= Rank(c, i)
      /\ q # 8 => LineOfRank(c, q) \in S /\ Rank(c, LineOfRank(c, q)) = q
  BY <1>1, LeastRank, Zenon
<1>4. \A i \in M \cup S : i \in Line /\ Rank(c, i) \in 0..7
  BY <1>1, RankOfLine, Zenon DEF Line
<1>5. pic_get_irq(c, b) = IF r < q THEN LineOfRank(c, r) ELSE None
  BY Zenon DEF pic_get_irq
<1>6. \A i \in Line : i # None
  BY DEF Line, None
<1> HIDE DEF M, S, r, q
<1>7. CASE r < q
  BY <1>2, <1>3, <1>4, <1>5, <1>6, <1>7 DEF M, S
<1>8. CASE ~(r < q)
  <2>1. pic_get_irq(c, b) = None
    BY <1>5, <1>8, Zenon
  <2>2. ASSUME NEW k \in M PROVE \E i \in S : Rank(c, i) <= Rank(c, k)
    <3>1. q <= Rank(c, k) /\ q # 8
      BY <1>2, <1>3, <1>4, <1>8
    <3> QED BY <3>1, <1>3, Zenon
  <2> QED BY <2>1, <2>2, Zenon DEF M, S
<1> QED BY <1>7, <1>8, Zenon

(* Replacing one part of the state. *)
LEMMA Replace ==
  ASSUME NEW P \in Pics, NEW c \in Controller
  PROVE  /\ [P EXCEPT !.m = c] \in Pics /\ [P EXCEPT !.m = c].m = c
         /\ [P EXCEPT !.m = c].s = P.s /\ [P EXCEPT !.m = c].out = P.out
         /\ [P EXCEPT !.s = c] \in Pics /\ [P EXCEPT !.s = c].s = c
         /\ [P EXCEPT !.s = c].m = P.m /\ [P EXCEPT !.s = c].out = P.out
BY Zenon DEF Pics

(* What storing a new INT output in the pair of controllers leaves alone. *)
LEMMA ReplaceOut ==
  ASSUME NEW P \in Pics, NEW b \in BOOLEAN
  PROVE  /\ [P EXCEPT !.out = b] \in Pics /\ [P EXCEPT !.out = b].out = b
         /\ [P EXCEPT !.out = b].m = P.m /\ [P EXCEPT !.out = b].s = P.s
BY Zenon DEF Pics

(* What a controller wants depends on its registers only. *)
LEMMA WantsType ==
  ASSUME NEW P, NEW Q
  PROVE  /\ Wants(P, "m") \in BOOLEAN /\ Wants(P, "s") \in BOOLEAN
         /\ P.m = Q.m => Wants(P, "m") = Wants(Q, "m")
         /\ P.s = Q.s => Wants(P, "s") = Wants(Q, "s")
BY Zenon DEF Wants

(* Setting one part of one controller. *)
LEMMA SetPart ==
  ASSUME NEW P \in Pics, NEW w \in {"m", "s"}, NEW c \in Controller,
         NEW R, R = [P EXCEPT ![w] = c]
  PROVE  /\ R \in Pics /\ R[w] = c
         /\ w = "m" => R.m = c /\ R.s = P.s
         /\ w = "s" => R.s = c /\ R.m = P.m
BY Zenon DEF Pics
=============================================================================
