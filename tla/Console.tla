------------------------------ MODULE Console ------------------------------
(***************************************************************************)
(* What pty_worker makes of one piece of the child's output before the DOS *)
(* console gets it.  A piece is a sequence of byte positions; Nul and Lf   *)
(* are the positions of NUL and line feed characters; CR, the inserted     *)
(* carriage return, is 0.                                                  *)
(***************************************************************************)
EXTENDS Naturals, FiniteSetsExt, SequencesExt

CONSTANTS Nul, Lf    \* positions of NUL and line feed bytes

CR == 0

(* The text of one piece: the loop over buf stops at the first NUL ... *)
Text(chunk) ==
  LET nuls == {i \in DOMAIN chunk : chunk[i] \in Nul}
  IN  IF nuls = {} THEN chunk ELSE SubSeq(chunk, 1, Min(nuls) - 1)
(* ... and strdup_crlf puts a carriage return before every line feed. *)
strdup_crlf(chunk, cr) ==
  FlattenSeq([i \in 1 .. Len(Text(chunk)) |->
                IF cr /\ chunk[i] \in Lf THEN <<CR, chunk[i]>>
                                         ELSE <<chunk[i]>>])
=============================================================================
