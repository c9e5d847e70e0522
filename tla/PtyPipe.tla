------------------------------ MODULE PtyPipe ------------------------------
(***************************************************************************)
(* Running a Unix command from DOS (src/src/base/misc/dos2linux.c): the    *)
(* child writes to a pty or pipe, rd_thread moves the bytes from the file  *)
(* descriptor into an spscq, pty_worker (a coopthread on the main thread)  *)
(* moves them from the queue to the DOS console, polls the keyboard in     *)
(* between, and stops after rd_thread has announced the end of the file.   *)
(*                                                                         *)
(* The bytes the child writes are numbered 1 .. Total, so a byte out of    *)
(* place is visible.  What the console shows of a piece of them is left to *)
(* the parameter Shown; module Console gives its definition.               *)
(*                                                                         *)
(* The relaxed store and load of *done are steps of a sequentially         *)
(* consistent memory: each is separated from the queue operations around   *)
(* it by wr_mtx operations of the same thread.                             *)
(***************************************************************************)
EXTENDS Spscq

CONSTANTS Total,      \* bytes the child may write
          BufLen,     \* sizeof(buf) - 1 in pty_worker
          Shown(_, _),  \* what the console shows of one piece, given crlf
          MaxKeys     \* keystrokes typed during the command (bound)

ASSUME PipeAssumption ==
  /\ Total \in Nat /\ BufLen \in Nat \ {0} /\ MaxKeys \in Nat
  /\ Byte = 0 .. Total

VARIABLES
  sent, closed,     \* the child: bytes written, its side closed
  fdpos,            \* bytes read() has taken off the descriptor
  tpc, area, rd,    \* rd_thread: location, handed-out area, read() result
  done_flag,        \* *args->done
  wpc, buf, done,   \* pty_worker: location, its buffer, its local done
  crlf,             \* args->crlf; do_wait_cmd leaves it uninitialized
  keys, fed,        \* keystrokes waiting, and forwarded to the child
  taken, screen     \* bytes handed to writecon, and what it showed

tvars == <<tpc, area, rd, done_flag>>
wvars == <<wpc, buf, done>>
childvars == <<sent, closed, keys>>
shownvars == <<taken, screen>>
vars == <<qvars, childvars, fdpos, tvars, wvars, crlf, fed, shownvars>>

None == [pos |-> 0, len |-> 0]

-----------------------------------------------------------------------------
(* dos2tty_start: pending input has been flushed, *done cleared, the       *)
(* reader created; pty_worker is about to run.                             *)
Init ==
  /\ spscq_init
  /\ sent = 0 /\ closed = FALSE /\ keys = 0 /\ fdpos = 0
  /\ tpc = "area" /\ area = None /\ rd = 0 /\ done_flag = 0
  /\ wpc = "read" /\ buf = <<>> /\ done = 0
  /\ crlf \in BOOLEAN
  /\ fed = 0 /\ taken = 0 /\ screen = <<>>

(* The child process and the user at the keyboard. *)
ChildWrite ==
  /\ ~closed /\ sent < Total
  /\ sent' = sent + 1
  /\ UNCHANGED <<qvars, closed, keys, fdpos, tvars, wvars, crlf, fed, shownvars>>
ChildClose ==
  /\ ~closed /\ closed' = TRUE
  /\ UNCHANGED <<qvars, sent, keys, fdpos, tvars, wvars, crlf, fed, shownvars>>
KeyPress ==
  /\ keys + fed < MaxKeys /\ keys' = keys + 1
  /\ UNCHANGED <<qvars, sent, closed, fdpos, tvars, wvars, crlf, fed, shownvars>>

-----------------------------------------------------------------------------
(* rd_thread: spscq_write_area, sleeping on wr_cnd while the ring is full. *)
ThreadWait ==
  /\ tpc = "area" /\ Full
  /\ tpc' = "wait"
  /\ UNCHANGED <<qvars, childvars, fdpos, area, rd, done_flag, wvars, crlf, fed,
                 shownvars>>
SpuriousWakeup ==
  /\ tpc = "wait" /\ tpc' = "area"
  /\ UNCHANGED <<qvars, childvars, fdpos, area, rd, done_flag, wvars, crlf, fed,
                 shownvars>>
ThreadArea ==
  /\ tpc = "area" /\ ~Full
  /\ area' = [pos |-> AreaPos, len |-> AreaTop - AreaPos]
  /\ tpc' = "read"
  /\ UNCHANGED <<qvars, childvars, fdpos, rd, done_flag, wvars, crlf, fed,
                 shownvars>>

(* read(fd, ptr, len): some of the bytes on offer, straight into the ring, *)
(* or the end of the file, which makes the loop break.                     *)
ThreadRead ==
  /\ tpc = "read" /\ sent > fdpos
  /\ \E n \in 1 .. MinOf(area.len, sent - fdpos) :
       /\ StoreAt(area.pos, [i \in 1 .. n |-> fdpos + i])
       /\ rd' = n /\ fdpos' = fdpos + n
  /\ tpc' = "commit"
  /\ UNCHANGED <<rd_pos, fillup, childvars, area, done_flag, wvars, crlf, fed,
                 shownvars>>
ThreadEof ==
  /\ tpc = "read" /\ closed /\ sent = fdpos
  /\ tpc' = "eof" /\ area' = None
  /\ UNCHANGED <<qvars, childvars, fdpos, rd, done_flag, wvars, crlf, fed,
                 shownvars>>
ThreadCommit ==
  /\ tpc = "commit"
  /\ spscq_commit_write(rd)
  /\ tpc' = "area" /\ area' = None /\ rd' = 0
  /\ UNCHANGED <<childvars, fdpos, done_flag, wvars, crlf, fed, shownvars>>
ThreadDone ==
  /\ tpc = "eof" /\ tpc' = "dead" /\ done_flag' = 1
  /\ UNCHANGED <<qvars, childvars, fdpos, area, rd, wvars, crlf, fed, shownvars>>

-----------------------------------------------------------------------------
(* pty_worker: spscq_read; an empty read after done ends the loop.         *)
WorkerReadSome ==
  /\ wpc = "read" /\ fillup > 0
  /\ spscq_read(BufLen)
  /\ buf' = ReadBytes(BufLen)
  /\ wpc' = "signal"
  /\ UNCHANGED <<childvars, fdpos, tvars, done, crlf, fed, shownvars>>
WorkerReadNone ==
  /\ wpc = "read" /\ fillup = 0
  /\ wpc' = IF done = 1 THEN "join" ELSE "check"
  /\ UNCHANGED <<qvars, childvars, fdpos, tvars, buf, done, crlf, fed, shownvars>>
(* pthread_cond_signal, after the unlock: wakes a sleeping producer.       *)
WorkerSignal_mut ==
  /\ wpc = "signal" /\ wpc' = "write"
  /\ UNCHANGED <<qvars, childvars, fdpos, tvars, buf, done, crlf, fed, shownvars>>
WorkerSignal ==
  /\ wpc = "signal" /\ wpc' = "write"
  /\ tpc' = IF tpc = "wait" THEN "area" ELSE tpc
  /\ UNCHANGED <<qvars, childvars, fdpos, area, rd, done_flag, buf, done, crlf,
                 fed, shownvars>>
(* The charset loop and writecon, up to `continue'.                        *)
WorkerWrite ==
  /\ wpc = "write" /\ wpc' = "read"
  /\ screen' = screen \o Shown(buf, crlf)
  /\ taken' = taken + Len(buf)
  /\ buf' = <<>>
  /\ UNCHANGED <<qvars, childvars, fdpos, tvars, done, crlf, fed>>
(* The local done takes the flag; when set, read the queue once more.      *)
WorkerCheck_mut ==
  /\ wpc = "check"
  /\ done' = done_flag
  /\ wpc' = IF done_flag = 1 THEN "join" ELSE "console"
  /\ UNCHANGED <<qvars, childvars, fdpos, tvars, buf, crlf, fed, shownvars>>
WorkerCheck ==
  /\ wpc = "check"
  /\ done' = done_flag
  /\ wpc' = IF done_flag = 1 THEN "read" ELSE "console"
  /\ UNCHANGED <<qvars, childvars, fdpos, tvars, buf, crlf, fed, shownvars>>
(* com_dosreadcon and write(pty_fd); with nothing read, coopth_wait.       *)
WorkerConsole ==
  /\ wpc = "console"
  /\ fed' = fed + keys /\ keys' = 0
  /\ wpc' = IF keys > 0 THEN "read" ELSE "sleep"
  /\ UNCHANGED <<qvars, sent, closed, fdpos, tvars, buf, done, crlf, shownvars>>
WorkerResume ==
  /\ wpc = "sleep" /\ wpc' = "read"
  /\ UNCHANGED <<qvars, childvars, fdpos, tvars, buf, done, crlf, fed, shownvars>>
(* dos2tty_start: pthread_join, then do_wait_cmd frees the queue.          *)
WorkerJoin ==
  /\ wpc = "join" /\ tpc = "dead"
  /\ wpc' = "freed"
  /\ UNCHANGED <<qvars, childvars, fdpos, tvars, buf, done, crlf, fed, shownvars>>

Child == ChildWrite \/ ChildClose \/ KeyPress
rd_thread == ThreadWait \/ ThreadArea \/ ThreadRead \/ ThreadEof
             \/ ThreadCommit \/ ThreadDone
pty_worker == WorkerReadSome \/ WorkerReadNone \/ WorkerSignal \/ WorkerWrite
              \/ WorkerCheck \/ WorkerConsole \/ WorkerResume \/ WorkerJoin
(* The command is over and the queue freed. *)
Over == wpc = "freed" /\ UNCHANGED vars
Next == Child \/ rd_thread \/ SpuriousWakeup \/ pty_worker \/ Over

(* The kernel keeps scheduling rd_thread; loopstep_run_vm86 keeps resuming *)
(* the waiting worker.  The child owes nothing, and no wakeup is spurious  *)
(* by right.                                                               *)
Spec == Init /\ [][Next]_vars
FairSpec == Spec /\ WF_vars(rd_thread) /\ WF_vars(pty_worker)

-----------------------------------------------------------------------------
(* Positions, counters and locations keep their types: the ring never      *)
(* holds more than its size and rd_pos stays inside it.                    *)
TypeOK ==
  /\ rd_pos \in Idx /\ fillup \in 0 .. Size /\ data \in [Idx -> Byte]
  /\ sent \in 0 .. Total /\ closed \in BOOLEAN /\ keys \in Nat /\ fed \in Nat
  /\ fdpos \in 0 .. Total /\ taken \in 0 .. Total
  /\ tpc \in {"area", "wait", "read", "commit", "eof", "dead"}
  /\ area \in [pos : 0 .. Size, len : 0 .. Size] /\ rd \in 0 .. Size
  /\ done_flag \in {0, 1} /\ done \in {0, 1}
  /\ wpc \in {"read", "signal", "write", "check", "console", "sleep",
              "join", "freed"}
  /\ buf \in Seq(Byte) /\ crlf \in BOOLEAN

(* The area rd_thread fills without the mutex is never empty (the assert   *)
(* of spscq_write_area) and never touches a byte that is committed and not *)
(* yet read, however far the consumer has moved since it was handed out.   *)
Committed == {IF rd_pos + i >= Size THEN rd_pos + i - Size ELSE rd_pos + i :
                i \in 0 .. (fillup - 1)}
AreaIsFree ==
  tpc \in {"read", "commit"} =>
    /\ area.len > 0
    /\ \A i \in area.pos .. (area.pos + area.len - 1) :
         i \in Idx /\ i \notin Committed

(* No byte is lost, duplicated or reordered: the bytes in the worker's     *)
(* buffer, in the ring and in the uncommitted area continue each other and *)
(* end exactly where read() has got to.                                    *)
NothingLost ==
  /\ \A i \in DOMAIN buf : buf[i] = taken + i
  /\ \A i \in 0 .. (fillup - 1) :
       data[IF rd_pos + i >= Size THEN rd_pos + i - Size ELSE rd_pos + i]
         = taken + Len(buf) + i + 1
  /\ tpc = "commit" => \A i \in 0 .. (rd - 1) :
       data[area.pos + i] = taken + Len(buf) + fillup + i + 1
  /\ fdpos = taken + Len(buf) + fillup + rd

(* dos2tty_start returns only after every byte the child wrote before it   *)
(* closed the pty has been handed to the console (the "last re-check").    *)
ReturnsComplete == wpc \in {"join", "freed"} => closed /\ taken = sent

(* The hand-shake of the two threads: what each location of one tells      *)
(* about the other.  With NothingLost it is the inductive invariant.         *)
Phases ==
  /\ fdpos <= sent
  /\ tpc # "commit" => rd = 0
  /\ tpc = "commit" => rd > 0
  /\ tpc \in {"read", "commit"} =>
       /\ area.pos = AreaPos /\ area.pos + area.len <= Size
       /\ area.len \in 1 .. (Size - fillup) /\ rd <= area.len
  /\ tpc \in {"eof", "dead"} => closed /\ fdpos = sent
  /\ done_flag = 1 <=> tpc = "dead"
  /\ done = 1 => done_flag = 1
  /\ wpc \in {"join", "freed"} => done = 1 /\ fillup = 0
  /\ wpc \in {"signal", "write"} <=> Len(buf) > 0

-----------------------------------------------------------------------------
(* The pipe keeps the promise of PtyPromise. *)
Promise == INSTANCE PtyPromise WITH finished <- wpc \in {"join", "freed"}
RefinesPromise == Promise!PSpec

(* After the child closes its side the command returns to DOS. *)
CloseReturns == closed ~> wpc = "freed"
(* Every byte written reaches the console, even while the child goes on:   *)
(* a producer sleeping on a full ring is always woken in time.             *)
EveryByteShown == \A k \in 1 .. Total : sent >= k ~> taken >= k
=============================================================================
