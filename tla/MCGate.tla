-------------------------------- MODULE MCGate --------------------------------
(* Instances of Gate for TLC. *)
EXTENDS Gate, TLC

CONSTANTS s1, s2, s3, s4, s5

\* The players are interchangeable.
Symmetry == Permutations(Sessions \ Services)
=============================================================================
