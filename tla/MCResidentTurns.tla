-------------------------- MODULE MCResidentTurns --------------------------
(* ResidentTurns on small instances; the cfg files choose the turns, the    *)
(* control actions and the bounds of each run.                              *)
EXTENDS ResidentTurns, TLC

\* Messages that can be interjected are interchangeable.
Symmetry == Permutations(Messages \cap Injectable)
=============================================================================
