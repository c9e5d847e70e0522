----------------------------- MODULE MCPtyPipe -----------------------------
(* Small instances of PtyPipe: a ring much smaller than the stream, so it  *)
(* fills and wraps several times; a console buffer that fits the ring      *)
(* neither once nor evenly; a NUL and a line feed in the stream.           *)
EXTENDS PtyPipe, Console

MCByte == 0 .. Total
MCNul == {3}
MCLf == {2, 5}
=============================================================================
