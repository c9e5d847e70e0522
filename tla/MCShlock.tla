------------------------------ MODULE MCShlock ------------------------------
(* Instances of Shlock: two processes on two names, or on one. *)
EXTENDS Shlock, TLC
=============================================================================
