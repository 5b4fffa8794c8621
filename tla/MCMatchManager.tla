--------------------------- MODULE MCMatchManager ---------------------------
(* Instances of MatchManager for TLC. *)
EXTENDS MatchManager, TLC

CONSTANTS m1, m2, m3

MCSids    == 0..2
MCSids2   == 0..1
Symmetry  == Permutations(Matches)

\* Match servers of an earlier run of the CS.
FarSids   == {8, 9}
FarSid    == {8}

\* The list such a server holds: one match or none.  Two of them may hold the same.
MCOldLists == {S \X {1} : S \in {T \in SUBSET Matches : Cardinality(T) <= 1}}
=============================================================================
