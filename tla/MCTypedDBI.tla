----------------------------- MODULE MCTypedDBI -----------------------------
(* TypedDBI for TLC: the good keys are interchangeable.                      *)
EXTENDS TypedDBI, TLC

Symmetry == Permutations(Keys \ BadKeys)
=============================================================================
