-------------------------- MODULE MCCoreScheduler --------------------------
(* Two turn identities, re-admitted up to MaxGeneration times, and two      *)
(* barrier owners.                                                          *)
EXTENDS CoreScheduler, TLC

Symmetry == Permutations(Turns) \cup Permutations(Barriers)
=============================================================================
