------------------------------- MODULE MCVtmr -------------------------------
(* An instance of Vtmr. *)
EXTENDS Vtmr

(* IRQ 0, the cascade and IRQ 11 masked, and each mask lifted. *)
SomeMasks == {<<"m", 0>>, <<"m", 1>>, <<"s", 0>>, <<"s", 8>>}
=============================================================================
