------------------------------ MODULE MCVirq -------------------------------
(* Instances of Virq. *)
EXTENDS Virq

CONSTANTS t1, t2
MCThread == {t1, t2}
=============================================================================
