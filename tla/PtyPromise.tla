----------------------------- MODULE PtyPromise -----------------------------
(***************************************************************************)
(* What the pty plumbing of dos2linux.c promises to whoever runs a Unix    *)
(* command from DOS: the child's output is taken in order, piece by piece, *)
(* each piece is shown on the DOS console, and the call finishes only when *)
(* the child has closed its side and everything it wrote has been taken.   *)
(***************************************************************************)
EXTENDS Naturals, Sequences

CONSTANTS Total,       \* the child writes bytes 1, 2, ... Total, in this order
          Shown(_, _)  \* what the console shows of one piece, given crlf

VARIABLES sent,        \* number of bytes the child has written
          closed,      \* the child has closed the pty
          taken,       \* number of bytes taken off the pipe and shown
          screen,      \* what the console has shown
          finished     \* dos2tty_start has returned

pvars == <<sent, closed, taken, screen, finished>>

PInit == /\ sent = 0 /\ closed = FALSE /\ taken = 0
         /\ screen = <<>> /\ finished = FALSE

PSend == /\ ~closed /\ sent < Total
         /\ sent' = sent + 1
         /\ UNCHANGED <<closed, taken, screen, finished>>

PClose == /\ ~closed /\ closed' = TRUE
          /\ UNCHANGED <<sent, taken, screen, finished>>

PShow == /\ ~finished
         /\ \E n \in 1 .. (sent - taken), crlf \in BOOLEAN :
              /\ taken' = taken + n
              /\ screen' = screen \o Shown([i \in 1 .. n |-> taken + i], crlf)
         /\ UNCHANGED <<sent, closed, finished>>

PFinish == /\ ~finished /\ closed /\ taken = sent
           /\ finished' = TRUE
           /\ UNCHANGED <<sent, closed, taken, screen>>

PNext == PSend \/ PClose \/ PShow \/ PFinish

(* Safety only; PtyPipe states what must happen in the end. *)
PSpec == PInit /\ [][PNext]_pvars
=============================================================================
