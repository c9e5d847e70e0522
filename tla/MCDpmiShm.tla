----------------------------- MODULE MCDpmiShm -----------------------------
(* An instance of DpmiShm: two clients sharing one name, two blocks each. *)
EXTENDS DpmiShm, TLC
=============================================================================
