--------------------------- MODULE PtyPipeProofs ---------------------------
(***************************************************************************)
(* Proofs about PtyPipe for every ring size, console buffer size and       *)
(* length of output.                                                       *)
(***************************************************************************)
EXTENDS PtyPipe, TLAPS

(* The inductive invariant. *)
IInv == TypeOK /\ NothingLost /\ Phases

-----------------------------------------------------------------------------
(* MinOf, which bounds every copy of spscq.c, is the smaller of two numbers. *)
LEMMA MinOfProp ==
  ASSUME NEW a \in Nat, NEW b \in Nat
  PROVE  /\ MinOf(a, b) \in Nat /\ MinOf(a, b) <= a /\ MinOf(a, b) <= b
         /\ (a > 0 /\ b > 0 => MinOf(a, b) > 0)
         /\ (MinOf(a, b) = a \/ MinOf(a, b) = b)
BY DEF MinOf

(* The area spscq_write_area computes: not empty, inside the ring, no      *)
(* longer than the free space.                                             *)
LEMMA AreaBounds ==
  ASSUME TypeOK, ~Full
  PROVE  /\ AreaPos \in Idx /\ AreaTop \in Nat
         /\ AreaTop - AreaPos \in 1 .. Size
         /\ AreaTop <= Size
         /\ AreaTop - AreaPos <= Size - fillup
BY SizeAssumption DEF TypeOK, Full, AreaPos, AreaTop, Idx

(* What spscq_read returns and leaves: the oldest bytes, up to the size of *)
(* the caller's buffer.                                                    *)
LEMMA ReadBounds ==
  ASSUME TypeOK, fillup > 0
  PROVE  LET n == Piece1(BufLen) + Piece2(BufLen)
         IN  /\ n \in 1 .. fillup
             /\ Piece1(BufLen) \in 1 .. fillup
             /\ Piece2(BufLen) \in 0 .. (fillup - Piece1(BufLen))
             /\ rd_pos + Piece1(BufLen) <= Size
             /\ Piece2(BufLen) > 0 => rd_pos + Piece1(BufLen) = Size
             /\ RdPos1(BufLen) + Piece2(BufLen) =
                  IF rd_pos + n >= Size THEN rd_pos + n - Size ELSE rd_pos + n
             /\ RdPos1(BufLen) + Piece2(BufLen) \in Idx
BY SizeAssumption, PipeAssumption
   DEF TypeOK, Idx, Piece1, Piece2, RdPos1, MinOf

-----------------------------------------------------------------------------
(* dos2tty_start begins in a state of the invariant. *)
LEMMA InitIInv == Init => IInv
<1> SUFFICES ASSUME Init PROVE IInv
  OBVIOUS
<1> USE SizeAssumption, PipeAssumption DEF Init, spscq_init
<1>1. buf \in Seq(Byte) /\ Len(buf) = 0 /\ DOMAIN buf = {}
  OBVIOUS
<1>2. data \in [Idx -> Byte]
  BY DEF Idx, Garbage
<1>3. TypeOK
  <2>1. area \in [pos : 0 .. Size, len : 0 .. Size] BY DEF None
  <2>2. closed \in BOOLEAN /\ crlf \in BOOLEAN BY Zenon
  <2>3. rd_pos \in Idx /\ fillup \in 0 .. Size /\ rd \in 0 .. Size BY DEF Idx
  <2>4. sent \in 0 .. Total /\ fdpos \in 0 .. Total /\ taken \in 0 .. Total
    OBVIOUS
  <2> QED BY <1>1, <1>2, <2>1, <2>2, <2>3, <2>4 DEF TypeOK
<1>4. NothingLost
  BY <1>1 DEF NothingLost
<1>5. Phases
  BY <1>1 DEF Phases
<1> QED BY <1>3, <1>4, <1>5 DEF IInv

(* A step that moves no byte keeps the order of the bytes. *)
LEMMA NoByteMoves ==
  ASSUME NothingLost, UNCHANGED <<qvars, buf, taken, fdpos, rd>>,
         tpc' = "commit" => tpc = "commit" /\ area' = area
  PROVE  NothingLost'
BY DEF NothingLost, qvars

(* The child process and the keyboard keep the invariant. *)
LEMMA ChildStep == ASSUME IInv, Child PROVE IInv'
<1> USE PipeAssumption DEF Child, ChildWrite, ChildClose, KeyPress, tvars, wvars,
        shownvars
<1>1. TypeOK'
  <2>1. CASE ChildWrite BY <2>1 DEF IInv, TypeOK, qvars
  <2>2. CASE ChildClose BY <2>2 DEF IInv, TypeOK, qvars
  <2>3. CASE KeyPress BY <2>3 DEF IInv, TypeOK, qvars
  <2> QED BY <2>1, <2>2, <2>3, Zenon
<1>2. NothingLost' BY NoByteMoves DEF IInv
<1>3. Phases'
  <2>1. CASE ChildWrite BY <2>1 DEF IInv, TypeOK, Phases, AreaPos, qvars
  <2>2. CASE ChildClose BY <2>2 DEF IInv, TypeOK, Phases, AreaPos, qvars
  <2>3. CASE KeyPress BY <2>3 DEF IInv, TypeOK, Phases, AreaPos, qvars
  <2> QED BY <2>1, <2>2, <2>3, Zenon
<1> QED BY <1>1, <1>2, <1>3 DEF IInv

(* Steps of rd_thread that touch neither the ring nor the area.            *)
LEMMA ThreadQuietStep ==
  ASSUME IInv, ThreadWait \/ SpuriousWakeup \/ ThreadEof \/ ThreadDone
  PROVE  IInv'
<1> USE SizeAssumption DEF ThreadWait, SpuriousWakeup, ThreadEof, ThreadDone,
        childvars, wvars, shownvars
<1>1. TypeOK' BY SMTT(30) DEF IInv, TypeOK, None, qvars
<1>2. NothingLost' BY NoByteMoves DEF IInv
<1>3. Phases' BY SMTT(30) DEF IInv, TypeOK, Phases, AreaPos, qvars
<1> QED BY <1>1, <1>2, <1>3 DEF IInv

(* Every step of rd_thread keeps the invariant. *)
LEMMA ThreadStep == ASSUME IInv, rd_thread \/ SpuriousWakeup PROVE IInv'
<1> USE SizeAssumption, PipeAssumption
    DEF qvars, childvars, tvars, wvars, shownvars
<1>1. CASE ThreadWait \/ SpuriousWakeup \/ ThreadEof \/ ThreadDone
  BY <1>1, ThreadQuietStep
<1>2. CASE ThreadArea
  <2> USE <1>2 DEF ThreadArea
  <2>1. /\ AreaPos \in Idx /\ AreaTop \in Nat
        /\ AreaTop - AreaPos \in 1 .. Size
        /\ AreaTop <= Size /\ AreaTop - AreaPos <= Size - fillup
    BY AreaBounds DEF IInv
  <2>2. TypeOK' BY <2>1 DEF IInv, TypeOK, Idx
  <2>3. NothingLost' BY DEF IInv, NothingLost
  <2>4. Phases'
    <3>1. UNCHANGED AreaPos BY DEF AreaPos
    <3>2. area'.pos = AreaPos' /\ area'.pos + area'.len <= Size
          /\ area'.len \in 1 .. (Size - fillup') /\ rd' <= area'.len
      BY <2>1, <3>1 DEF IInv, TypeOK, Phases, Idx
    <3> QED BY <3>2 DEF IInv, Phases
  <2> QED BY <2>2, <2>3, <2>4 DEF IInv
<1>3. CASE ThreadRead
  <2>1. PICK n \in 1 .. MinOf(area.len, sent - fdpos) :
          /\ StoreAt(area.pos, [i \in 1 .. n |-> fdpos + i])
          /\ rd' = n /\ fdpos' = fdpos + n
    BY Zenon, <1>3 DEF ThreadRead
  <2>2. /\ tpc = "read" /\ tpc' = "commit"
        /\ UNCHANGED <<rd_pos, fillup, childvars, area, done_flag, wvars, crlf,
                       fed, shownvars>>
    BY <1>3 DEF ThreadRead
  <2>3. /\ rd_pos \in 0 .. (Size - 1) /\ fillup \in 0 .. Size
        /\ sent \in 0 .. Total /\ fdpos \in 0 .. sent
        /\ area.pos \in Nat /\ area.len \in 1 .. (Size - fillup)
        /\ area.pos = AreaPos /\ area.pos + area.len <= Size
    BY <2>2 DEF IInv, TypeOK, Phases, Idx
  <2>4. n \in 1 .. area.len /\ n <= sent - fdpos /\ fdpos + n <= Total
    BY <2>1, <2>3 DEF MinOf
  <2>5. data' = [i \in Idx |-> IF i >= area.pos /\ i < area.pos + n
                                THEN fdpos + (i - area.pos + 1) ELSE data[i]]
    <3> DEFINE b == [i \in 1 .. n |-> fdpos + i]
    <3>1. Len(b) = n BY <2>3, <2>4
    <3>2. data' = [i \in Idx |-> IF i >= area.pos /\ i < area.pos + Len(b)
                                  THEN b[i - area.pos + 1] ELSE data[i]]
      BY <2>1 DEF StoreAt
    <3>3. ASSUME NEW i \in Idx, i >= area.pos, i < area.pos + n
          PROVE  b[i - area.pos + 1] = fdpos + (i - area.pos + 1)
      BY SMTT(30), <2>3, <2>4, <3>3 DEF Idx
    <3> HIDE DEF b
    <3> QED BY <3>1, <3>2, <3>3
  <2>6. TypeOK'
    <3>1. ASSUME NEW i \in Idx PROVE data'[i] \in Byte
      <4>1. CASE i >= area.pos /\ i < area.pos + n
        BY SMTT(30), <2>3, <2>4, <2>5, <4>1 DEF Idx
      <4>2. CASE ~(i >= area.pos /\ i < area.pos + n)
        BY <2>5, <4>2 DEF IInv, TypeOK
      <4> QED BY <4>1, <4>2
    <3>2. data' \in [Idx -> Byte] BY <2>5, <3>1
    <3> QED BY SMTT(30), <2>1, <2>2, <2>3, <2>4, <3>2 DEF IInv, TypeOK
  <2>7. Phases' BY <2>1, <2>2, <2>3, <2>4 DEF IInv, TypeOK, Phases, AreaPos
  <2>8. NothingLost'
    <3> DEFINE At(i) == IF rd_pos + i >= Size THEN rd_pos + i - Size
                                              ELSE rd_pos + i
    <3>1. ASSUME NEW i \in 0 .. (fillup - 1) PROVE data'[At(i)] = data[At(i)]
      <4>1. At(i) \in Idx BY <2>3 DEF Idx
      <4>2. ~(At(i) >= area.pos /\ At(i) < area.pos + n)
        BY <2>3, <2>4 DEF AreaPos
      <4> QED BY <2>5, <4>1, <4>2
    <3>2. ASSUME NEW i \in 0 .. (n - 1)
          PROVE  data'[area.pos + i] = fdpos + i + 1
      <4>1. area.pos + i \in Idx BY SMTT(30), <2>3, <2>4 DEF Idx
      <4>2. area.pos + i >= area.pos /\ area.pos + i < area.pos + n
            /\ (area.pos + i) - area.pos + 1 = i + 1
        BY <2>3
      <4> QED BY <2>3, <2>5, <4>1, <4>2
    <3>3. fdpos = taken + Len(buf) + fillup /\ rd = 0
      BY <2>2 DEF IInv, TypeOK, NothingLost, Phases
    <3>4. \A i \in 0 .. (fillup - 1) : data'[At(i)] = taken + Len(buf) + i + 1
      BY <3>1 DEF IInv, NothingLost
    <3>5. \A i \in 0 .. (n - 1) :
            data'[area.pos + i] = taken + Len(buf) + fillup + i + 1
      BY <3>2, <3>3 DEF IInv, TypeOK
    <3>6. fdpos' = taken + Len(buf) + fillup + n
      BY <2>1, <3>3 DEF IInv, TypeOK
    <3> QED BY <2>1, <2>2, <3>4, <3>5, <3>6 DEF IInv, NothingLost
  <2> QED BY <2>6, <2>7, <2>8 DEF IInv
<1>4. CASE ThreadCommit
  <2> USE <1>4 DEF ThreadCommit, spscq_commit_write
  <2>1. TypeOK' BY DEF IInv, TypeOK, Phases, None
  <2>2. Phases' BY DEF IInv, TypeOK, Phases
  <2>3. NothingLost'
    <3> DEFINE At(i) == IF rd_pos + i >= Size THEN rd_pos + i - Size
                                              ELSE rd_pos + i
    <3>1. ASSUME NEW i \in 0 .. (fillup + rd - 1)
          PROVE  data[At(i)] = taken + Len(buf) + i + 1
      <4>1. CASE i < fillup BY <4>1 DEF IInv, TypeOK, NothingLost
      <4>2. CASE i >= fillup
        <5>1. i - fillup \in 0 .. (rd - 1) BY <4>2 DEF IInv, TypeOK
        <5>2. At(i) = area.pos + (i - fillup)
          <6>1. /\ rd_pos \in 0 .. (Size - 1) /\ fillup \in Nat /\ rd \in Nat
                /\ area.pos = AreaPos /\ area.pos + rd <= Size
                /\ rd <= Size - fillup
            BY SMTT(30) DEF IInv, TypeOK, Phases, Idx
          <6> HIDE DEF ThreadCommit
          <6> QED BY <4>2, <6>1 DEF AreaPos
        <5>3. data[area.pos + (i - fillup)]
                = taken + Len(buf) + fillup + (i - fillup) + 1
          BY <5>1 DEF IInv, NothingLost
        <5> QED BY <5>2, <5>3 DEF IInv, TypeOK
      <4> QED BY <4>1, <4>2 DEF IInv, TypeOK
    <3>2. fdpos = taken + Len(buf) + (fillup + rd) + 0
      BY DEF IInv, TypeOK, NothingLost
    <3>3. /\ fillup' = fillup + rd /\ rd' = 0 /\ tpc' = "area"
          /\ UNCHANGED <<rd_pos, data, buf, taken, fdpos>>
      OBVIOUS
    <3>4. \A i \in DOMAIN buf : buf[i] = taken + i BY DEF IInv, NothingLost
    <3>5. ASSUME NEW i \in 0 .. (fillup' - 1)
          PROVE  data'[At(i)'] = taken' + Len(buf') + i + 1
      <4>1. i \in 0 .. (fillup + rd - 1) BY <3>3 DEF IInv, TypeOK
      <4>2. At(i)' = At(i) BY <3>3
      <4> HIDE DEF At
      <4> QED BY <3>1, <3>3, <4>1, <4>2
    <3>6. fdpos' = (taken + Len(buf) + fillup + rd)' BY <3>2, <3>3
    <3> QED BY <3>3, <3>4, <3>5, <3>6 DEF NothingLost
  <2> QED BY <2>1, <2>2, <2>3 DEF IInv
<1> QED BY <1>1, <1>2, <1>3, <1>4 DEF rd_thread

-----------------------------------------------------------------------------
(* spscq_read in pty_worker keeps the invariant. *)
LEMMA WorkerReadStep == ASSUME IInv, WorkerReadSome PROVE IInv'
<1> USE SizeAssumption, PipeAssumption
<1> DEFINE p1 == Piece1(BufLen)
           p2 == Piece2(BufLen)
           n == p1 + p2
<1>1. /\ wpc = "read" /\ wpc' = "signal" /\ fillup > 0
      /\ rd_pos' = RdPos1(BufLen) + p2 /\ fillup' = fillup - p1 - p2
      /\ buf' = ReadBytes(BufLen)
      /\ UNCHANGED <<data, childvars, fdpos, tvars, done, crlf, fed, shownvars>>
  BY DEF WorkerReadSome, spscq_read
<1>2. /\ p1 \in 1 .. fillup /\ p2 \in 0 .. (fillup - p1)
      /\ rd_pos + p1 <= Size /\ (p2 > 0 => rd_pos + p1 = Size)
      /\ rd_pos' = IF rd_pos + n >= Size THEN rd_pos + n - Size ELSE rd_pos + n
      /\ rd_pos' \in Idx
  BY <1>1, ReadBounds DEF IInv
<1>3. RdPos1(BufLen) = IF rd_pos + p1 = Size THEN 0 ELSE rd_pos + p1
  BY DEF RdPos1
<1>4. buf' = [i \in 1 .. n |-> IF i <= p1 THEN data[rd_pos + i - 1]
                              ELSE data[RdPos1(BufLen) + i - p1 - 1]]
  BY <1>1 DEF ReadBytes
<1> HIDE DEF p1, p2
<1>5. /\ rd_pos \in 0 .. (Size - 1) /\ fillup \in 1 .. Size /\ n \in 1 .. fillup
      /\ Len(buf) = 0 /\ taken \in Nat /\ fdpos = taken + fillup + rd
      /\ rd \in Nat /\ fillup' = fillup - n
  <2>1. buf \in Seq(Byte) /\ ~(Len(buf) > 0)
    BY <1>1 DEF IInv, TypeOK, Phases
  <2>2. Len(buf) = 0 BY <2>1
  <2>3. rd_pos \in 0 .. (Size - 1) /\ fillup \in 1 .. Size /\ taken \in Nat
        /\ rd \in Nat
    BY <1>1 DEF IInv, TypeOK, Idx
  <2>4. fdpos = taken + Len(buf) + fillup + rd BY DEF IInv, NothingLost
  <2> QED BY <1>1, <1>2, <2>2, <2>3, <2>4
<1> DEFINE At(i) == IF rd_pos + i >= Size THEN rd_pos + i - Size ELSE rd_pos + i
<1>6. \A i \in 0 .. (fillup - 1) : data[At(i)] = taken + i + 1
  BY <1>5 DEF IInv, NothingLost
<1>7. ASSUME NEW i \in 1 .. n PROVE buf'[i] = taken + i
  <2>1. i - 1 \in 0 .. (fillup - 1) BY <1>5
  <2>2. buf'[i] = data[At(i - 1)]
    <3>1. CASE i <= p1
      <4>1. At(i - 1) = rd_pos + i - 1 BY <1>2, <1>5, <3>1
      <4> QED BY <1>4, <3>1, <4>1
    <3>2. CASE i > p1
      <4>1. p2 > 0 /\ RdPos1(BufLen) = 0 BY <1>2, <1>3, <1>5, <3>2
      <4>2. At(i - 1) = 0 + i - p1 - 1 BY <1>2, <1>5, <3>2, <4>1
      <4> QED BY SMTT(30), <1>2, <1>4, <3>2, <4>1, <4>2
    <3> QED BY <1>2, <3>1, <3>2
  <2>3. data[At(i - 1)] = taken + (i - 1) + 1 BY <1>6, <2>1
  <2> QED BY <2>2, <2>3, <1>5
<1>8. DOMAIN buf' = 1 .. n /\ Len(buf') = n
  BY <1>4, <1>5
<1>9. buf' \in Seq(Byte)
  <2>1. taken + fillup <= Total BY <1>5 DEF IInv, TypeOK
  <2>2. ASSUME NEW i \in 1 .. n PROVE buf'[i] \in Byte
    BY <1>5, <1>7, <2>1
  <2> QED BY <1>4, <1>5, <2>2
<1>10. TypeOK'
  BY <1>1, <1>2, <1>5, <1>9 DEF IInv, TypeOK, childvars, tvars, shownvars
<1>11. Phases'
  <2>1. AreaPos' = AreaPos BY <1>2, <1>5 DEF AreaPos
  <2> QED
    BY SMTT(30), <1>1, <1>5, <1>8, <2>1 DEF IInv, TypeOK, Phases, childvars, tvars,
         shownvars
<1>12. NothingLost'
  <2>1. ASSUME NEW i \in 0 .. (fillup' - 1)
        PROVE  data'[At(i)'] = taken' + Len(buf') + i + 1
    <3>1. At(i)' = At(n + i) BY <1>2, <1>5
    <3>2. n + i \in 0 .. (fillup - 1) BY <1>5
    <3>3. data[At(n + i)] = taken + (n + i) + 1
      <4> HIDE DEF At, n
      <4> QED BY <1>6, <3>2
    <3>4. taken' = taken /\ data' = data BY <1>1 DEF shownvars
    <3> HIDE DEF At
    <3> QED BY <1>5, <1>8, <3>1, <3>3, <3>4
  <2>2. ASSUME tpc' = "commit", NEW i \in 0 .. (rd' - 1)
        PROVE  data'[area'.pos + i] = taken' + Len(buf') + fillup' + i + 1
    <3>1. data[area.pos + i] = taken + 0 + fillup + i + 1
      BY <1>1, <1>5, <2>2 DEF IInv, NothingLost, tvars
    <3> QED BY <1>1, <1>5, <1>8, <3>1 DEF tvars, shownvars
  <2>3. fdpos' = taken' + Len(buf') + fillup' + rd'
    BY <1>1, <1>5, <1>8 DEF tvars, shownvars
  <2>4. \A i \in DOMAIN buf' : buf'[i] = taken' + i
    BY <1>1, <1>7, <1>8 DEF shownvars
  <2> QED BY <2>1, <2>2, <2>3, <2>4 DEF NothingLost
<1> QED BY <1>10, <1>11, <1>12 DEF IInv

(* Showing the buffer on the console keeps the invariant. *)
LEMMA WorkerWriteStep == ASSUME IInv, WorkerWrite PROVE IInv'
<1> USE SizeAssumption, PipeAssumption
    DEF qvars, childvars, tvars
<1>1. Len(buf) \in Nat /\ taken + Len(buf) \in 0 .. Total
  BY DEF IInv, TypeOK, NothingLost
<1>2. buf' = <<>> /\ Len(buf') = 0 /\ DOMAIN buf' = {} /\ buf' \in Seq(Byte)
  BY DEF WorkerWrite
<1>3. TypeOK' BY <1>1, <1>2 DEF WorkerWrite, IInv, TypeOK
<1>4. Phases' BY <1>2 DEF WorkerWrite, IInv, TypeOK, Phases, AreaPos
<1>5. NothingLost'
  <2>1. taken' + Len(buf') = taken + Len(buf)
    BY <1>1, <1>2 DEF WorkerWrite, IInv, TypeOK
  <2>2. taken' \in Nat /\ Len(buf') \in Nat BY <1>1, <1>2 DEF WorkerWrite
  <2> QED BY <1>2, <2>1, <2>2 DEF WorkerWrite, IInv, NothingLost, TypeOK
<1> QED BY <1>3, <1>4, <1>5 DEF IInv

(* Steps of pty_worker that leave the ring and the buffer alone. *)
LEMMA WorkerQuietStep ==
  ASSUME IInv, \/ WorkerReadNone \/ WorkerSignal \/ WorkerCheck
               \/ WorkerConsole \/ WorkerResume \/ WorkerJoin
  PROVE  IInv'
<1> USE DEF WorkerReadNone, WorkerSignal, WorkerCheck, WorkerConsole, WorkerResume,
        WorkerJoin, childvars, tvars, shownvars
<1>1. TypeOK' BY SMTT(30) DEF IInv, TypeOK, qvars
<1>2. NothingLost' BY NoByteMoves DEF IInv
<1>3. Phases' BY SMTT(30) DEF IInv, TypeOK, Phases, AreaPos, qvars
<1> QED BY <1>1, <1>2, <1>3 DEF IInv

(* Every step of pty_worker keeps the invariant. *)
LEMMA WorkerStep == ASSUME IInv, pty_worker PROVE IInv'
BY WorkerReadStep, WorkerWriteStep, WorkerQuietStep DEF pty_worker

(* Spec keeps IInv: types, the order of the bytes and the hand-shake of    *)
(* rd_thread and pty_worker hold for every ring, buffer and output size.   *)
THEOREM Invariance == Spec => []IInv
<1>1. ASSUME IInv, [Next]_vars PROVE IInv'
  <2>1. CASE UNCHANGED vars
    <3> USE <2>1 DEF vars, qvars, childvars, tvars, wvars, shownvars
    <3>1. TypeOK' BY <1>1 DEF IInv, TypeOK
    <3>2. NothingLost' BY <1>1 DEF IInv, NothingLost
    <3>3. Phases' BY <1>1 DEF IInv, Phases, AreaPos
    <3> QED BY <3>1, <3>2, <3>3 DEF IInv
  <2> QED BY <1>1, <2>1, ChildStep, ThreadStep, WorkerStep DEF Next, Over
<1> QED BY <1>1, InitIInv, PTL DEF Spec

-----------------------------------------------------------------------------
(* The piece of the ring that rd_thread fills without holding wr_mtx never *)
(* overlaps the bytes pty_worker may be copying out, for every ring size.  *)
THEOREM AreaStaysFree == Spec => []AreaIsFree
<1>1. ASSUME IInv PROVE AreaIsFree
  <2> SUFFICES ASSUME tpc \in {"read", "commit"}
               PROVE  /\ area.len > 0
                      /\ \A i \in area.pos .. (area.pos + area.len - 1) :
                           i \in Idx /\ i \notin Committed
    BY DEF AreaIsFree
  <2>1. /\ rd_pos \in 0 .. (Size - 1) /\ fillup \in 0 .. Size /\ area.pos \in Nat
        /\ area.len \in 1 .. (Size - fillup) /\ area.pos = AreaPos
        /\ area.pos + area.len <= Size
    BY <1>1, SizeAssumption DEF IInv, TypeOK, Phases, Idx
  <2>2. ASSUME NEW i \in area.pos .. (area.pos + area.len - 1)
        PROVE  i \in Idx /\ i \notin Committed
    <3>1. i \in Idx BY <2>1, SizeAssumption DEF Idx
    <3>2. ASSUME NEW k \in 0 .. (fillup - 1)
          PROVE  i # IF rd_pos + k >= Size THEN rd_pos + k - Size ELSE rd_pos + k
      BY <2>1, SizeAssumption DEF AreaPos
    <3> QED BY <3>1, <3>2 DEF Committed
  <2> QED BY <2>1, <2>2
<1> QED BY <1>1, Invariance, PTL

(* No byte of the child's output is lost, duplicated or reordered between  *)
(* read() and the console, for every ring, buffer and output size.         *)
THEOREM OrderKept == Spec => []NothingLost
<1>1. IInv => NothingLost BY DEF IInv
<1> QED BY <1>1, Invariance, PTL

(* dos2tty_start returns only when the child has closed its side and all   *)
(* it wrote is on the console: the last re-check after done is enough.     *)
THEOREM CompleteOnReturn == Spec => []ReturnsComplete
<1>1. IInv => ReturnsComplete
  BY DEF IInv, TypeOK, Phases, NothingLost, ReturnsComplete
<1> QED BY <1>1, Invariance, PTL

(* PtyPipe implements PtyPromise: every step of the child, of rd_thread    *)
(* and of pty_worker is a step the promise allows or changes nothing in it.*)
THEOREM Refinement == Spec => RefinesPromise
<1> USE SizeAssumption, PipeAssumption
<1>1. Init => Promise!PInit
  BY DEF Init, Promise!PInit
<1>2. ASSUME IInv, [Next]_vars PROVE [Promise!PNext]_(Promise!pvars)
  <2> USE DEF Promise!PNext, Promise!pvars
  <2>1. CASE ChildWrite
    BY <2>1 DEF ChildWrite, Promise!PSend, wvars, shownvars
  <2>2. CASE ChildClose
    BY Zenon, <2>2 DEF ChildClose, Promise!PClose, wvars, shownvars
  <2>3. CASE WorkerWrite
    <3>1. Len(buf) \in 1 .. (sent - taken)
      <4>1. wpc = "write" BY <2>3 DEF WorkerWrite
      <4>2. Len(buf) > 0 /\ fdpos <= sent BY <1>2, <4>1 DEF IInv, Phases
      <4>3. fdpos = taken + Len(buf) + fillup + rd BY <1>2 DEF IInv, NothingLost
      <4>4. /\ fillup \in Nat /\ rd \in Nat /\ taken \in Nat /\ sent \in Nat
            /\ fdpos \in Nat /\ Len(buf) \in Nat
        BY <1>2 DEF IInv, TypeOK
      <4> QED BY <4>2, <4>3, <4>4
    <3>2. buf = [i \in 1 .. Len(buf) |-> taken + i]
      <4>1. buf \in Seq(Byte) BY <1>2 DEF IInv, TypeOK
      <4>2. DOMAIN buf = 1 .. Len(buf) /\ buf = [i \in DOMAIN buf |-> buf[i]]
        BY <4>1
      <4>3. \A i \in DOMAIN buf : buf[i] = taken + i BY <1>2 DEF IInv, NothingLost
      <4> QED BY <4>2, <4>3
    <3>3. taken' = taken + Len(buf) /\ screen' = screen \o Shown(buf, crlf)
          /\ wpc = "write" /\ wpc' = "read" /\ sent' = sent /\ closed' = closed
      BY <2>3 DEF WorkerWrite, childvars
    <3>4. crlf \in BOOLEAN BY <1>2 DEF IInv, TypeOK
    <3>5. Shown(buf, crlf) = Shown([i \in 1 .. Len(buf) |-> taken + i], crlf)
      BY <3>2
    <3>6. \E n \in 1 .. (sent - taken), c \in BOOLEAN :
            /\ taken' = taken + n
            /\ screen' = screen \o Shown([i \in 1 .. n |-> taken + i], c)
      <4> WITNESS Len(buf) \in 1 .. (sent - taken), crlf \in BOOLEAN
      <4> QED BY <3>3, <3>5
    <3>7. ~(wpc \in {"join", "freed"})
          /\ UNCHANGED <<sent, closed, wpc \in {"join", "freed"}>>
      BY <3>3
    <3>8. Promise!PShow BY <3>6, <3>7, Zenon DEF Promise!PShow
    <3> QED BY <3>8
  <2>4. CASE WorkerReadNone
    <3>1. CASE done = 1
      BY SMTT(30), <1>2, <2>4, <3>1
         DEF WorkerReadNone, Promise!PFinish, IInv, TypeOK, Phases, NothingLost,
             childvars, shownvars
    <3>2. CASE done # 1
      BY <2>4, <3>2 DEF WorkerReadNone, childvars, shownvars
    <3> QED BY <3>1, <3>2
  <2>5. CASE WorkerReadSome \/ WorkerSignal \/ WorkerCheck \/ WorkerConsole
             \/ WorkerResume \/ WorkerJoin
    BY <2>5 DEF WorkerReadSome, WorkerSignal, WorkerCheck, WorkerConsole,
         WorkerResume, WorkerJoin, childvars, shownvars
  <2>6. CASE rd_thread \/ SpuriousWakeup \/ KeyPress
    BY <2>6 DEF rd_thread, SpuriousWakeup, KeyPress, ThreadWait, ThreadArea,
         ThreadRead, ThreadEof, ThreadCommit, ThreadDone, childvars, wvars,
         shownvars
  <2>7. CASE UNCHANGED vars
    BY <2>7 DEF vars, childvars, wvars, shownvars
  <2> QED BY <1>2, <2>1, <2>2, <2>3, <2>4, <2>5, <2>6, <2>7
         DEF Next, Child, pty_worker, Over
<1> QED BY <1>1, <1>2, Invariance, PTL DEF Spec, RefinesPromise, Promise!PSpec
=============================================================================
