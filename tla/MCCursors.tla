----------------------------- MODULE MCCursors -----------------------------
(* Cursors for TLC: objects of a type, transactions and MDB_cursors are      *)
(* interchangeable.                                                          *)
EXTENDS Cursors, TLC

Symmetry ==
  Permutations(Txns) \cup Permutations(ROVars) \cup Permutations(RWVars)
    \cup Permutations(Cursors)
=============================================================================
