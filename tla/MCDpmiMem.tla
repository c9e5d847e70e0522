----------------------------- MODULE MCDpmiMem -----------------------------
(* DpmiMem with pools of a few pages. *)
EXTENDS DpmiMem

SomeBases == {0, LowPages + 1, LinTop}
SomeRanges == {<<0, 1>>, <<0, 3>>}
SomeSizes == {1, 3}
=============================================================================
