---------------------------- MODULE MCMapResize ----------------------------
(* MapResize for TLC: the threads are interchangeable. *)
EXTENDS MapResize, TLC

Symmetry == Permutations(Threads)
=============================================================================
