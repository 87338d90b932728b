---------------------------- MODULE MCModelSwitch ----------------------------
(* The instance of ModelSwitch that TLC explores: endpoints and handlers    *)
(* are interchangeable, and every checked property is a safety property.    *)
EXTENDS ModelSwitch, TLC

Symmetry == Permutations(Endpoints) \cup Permutations(Handlers)
=============================================================================
