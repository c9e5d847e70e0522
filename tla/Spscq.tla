------------------------------- MODULE Spscq -------------------------------
(***************************************************************************)
(* The single-producer single-consumer byte queue of                       *)
(* src/src/base/lib/misc/spscq.c: a ring of Size bytes guarded by wr_mtx,  *)
(* with a condition variable wr_cnd on which the producer sleeps while the *)
(* ring is full.                                                           *)
(*                                                                         *)
(* The producer works in two phases: spscq_write_area hands out a piece of *)
(* the ring, the producer fills it WITHOUT the mutex, spscq_commit_write   *)
(* publishes it.  Everything between lock and unlock is one step; the      *)
(* consumer's pthread_cond_signal comes after its unlock and is a step of  *)
(* its own, taken by the composing module PtyPipe.                         *)
(*                                                                         *)
(* Definitions whose name ends in _mut are wrong on purpose: they are the  *)
(* bugs the properties of PtyPipe are shown to detect.                     *)
(***************************************************************************)
EXTENDS Naturals, Sequences

CONSTANTS Size,     \* bytes in the ring (64K in do_wait_cmd)
          Byte      \* the bytes that can be stored

ASSUME SizeAssumption == Size \in Nat \ {0}

VARIABLES rd_pos,   \* index of the oldest byte
          fillup,   \* number of committed bytes
          data      \* the ring itself

qvars == <<rd_pos, fillup, data>>

Idx == 0 .. (Size - 1)
MinOf(a, b) == IF a < b THEN a ELSE b

(* malloc leaves the ring undefined; Garbage is a byte no producer stores. *)
Garbage == 0
spscq_init == rd_pos = 0 /\ fillup = 0 /\ data = [i \in Idx |-> Garbage]

-----------------------------------------------------------------------------
(* spscq_write_area: the free piece starts behind the committed bytes and  *)
(* ends at the end of the ring, or at rd_pos when it has wrapped.          *)
Full == fillup = Size
AreaPos == IF rd_pos + fillup >= Size THEN rd_pos + fillup - Size
                                      ELSE rd_pos + fillup
AreaTop_mut == Size
AreaTop == IF rd_pos + fillup >= Size THEN rd_pos ELSE Size

(* The producer stores the bytes b into a handed-out area, mutex not held. *)
StoreAt(pos, b) ==
  data' = [i \in Idx |-> IF i >= pos /\ i < pos + Len(b)
                           THEN b[i - pos + 1] ELSE data[i]]

spscq_commit_write(len) == fillup' = fillup + len /\ UNCHANGED <<rd_pos, data>>

(* spscq_read copies at most two pieces: up to the end of the ring, then,  *)
(* when both bytes and room in the caller's buffer remain, from its start. *)
Piece1(len) == MinOf(MinOf(fillup, Size - rd_pos), len)
RdPos1_mut(len) == rd_pos
RdPos1(len) == IF rd_pos + Piece1(len) = Size THEN 0 ELSE rd_pos + Piece1(len)
Piece2(len) == MinOf(fillup - Piece1(len), len - Piece1(len))
ReadBytes(len) ==
  [i \in 1 .. (Piece1(len) + Piece2(len)) |->
     IF i <= Piece1(len) THEN data[rd_pos + i - 1]
                         ELSE data[RdPos1(len) + i - Piece1(len) - 1]]
spscq_read(len) ==
  /\ rd_pos' = RdPos1(len) + Piece2(len)
  /\ fillup' = fillup - Piece1(len) - Piece2(len)
  /\ UNCHANGED data
=============================================================================
