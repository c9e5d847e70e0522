------------------------------ MODULE MCShare ------------------------------
(* Instances of Share: two emulators and two files, three and one. *)
EXTENDS Share, TLC

CONSTANTS p1, p2, fa, fb
Symm == Permutations({p1, p2}) \cup Permutations({fa, fb})
=============================================================================
