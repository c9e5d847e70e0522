------------------------------- MODULE MCPic -------------------------------
(* Instances of Pic. *)
EXTENDS Pic, TLC
=============================================================================
