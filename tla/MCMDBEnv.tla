----------------------------- MODULE MCMDBEnv -----------------------------
(* MDBEnv for TLC: threads and objects are model values, interchangeable. *)
EXTENDS MDBEnv, TLC

Symmetry == Permutations(Threads) \cup Permutations(Txns)
=============================================================================
