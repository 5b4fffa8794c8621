--------------------------- MODULE MCMatchCreation ---------------------------
(* Instances of MatchCreation for TLC. *)
EXTENDS MatchCreation

MCStored == <<[slot |-> "morning", fee |-> 1]>>
=============================================================================
