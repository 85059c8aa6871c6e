--------------------------- MODULE MCJsonBuilder ---------------------------
(* Two keys, so that one can be given twice and twice not, and the three    *)
(* kinds of values that matter to the builder: one that is null, one that   *)
(* is not, and one that is a container already.                             *)
EXTENDS Answers

CONSTANTS a, b

MCKeys == {a, b}

MCValues == {"null", "scalar", "array"}

\* Nothing tells the two keys apart.
Symmetry == Permutations(MCKeys)
=============================================================================
