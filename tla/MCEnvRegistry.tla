-------------------------- MODULE MCEnvRegistry --------------------------
(* EnvRegistry for TLC: each set's members are interchangeable.              *)
EXTENDS EnvRegistry, TLC

Symmetry ==
  Permutations(Threads) \cup Permutations(Names) \cup Permutations(Files)
    \cup Permutations(Envs) \cup Permutations(Flags)
=============================================================================
