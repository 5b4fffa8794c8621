---------------------------- MODULE MessageQueue ----------------------------
(***************************************************************************)
(* What a session promises to its user: the messages it is asked to send   *)
(* are handed over to the network in that order, each once, and all of     *)
(* them unless the session is removed, whatever happens to its connections *)
(* in between.                                                             *)
(***************************************************************************)
EXTENDS Integers, Sequences

VARIABLES
    open,        \* FALSE after the session was removed
    accepted,    \* how many messages send() was called with; they are numbered
    pending,     \* those not yet handed over
    delivered    \* those handed over to the network

vars == <<open, accepted, pending, delivered>>

Init ==
    /\ open = TRUE
    /\ accepted = 0
    /\ pending = <<>>
    /\ delivered = <<>>

Accept ==
    /\ open
    /\ accepted' = accepted + 1
    /\ pending' = Append(pending, accepted')
    /\ UNCHANGED <<open, delivered>>

\* The first n pending messages are handed over together.
Deliver ==
    /\ open
    /\ \E n \in 1..Len(pending) :
        /\ delivered' = delivered \o SubSeq(pending, 1, n)
        /\ pending' = SubSeq(pending, n + 1, Len(pending))
    /\ UNCHANGED <<open, accepted>>

Remove ==
    /\ open
    /\ open' = FALSE
    /\ UNCHANGED <<accepted, pending, delivered>>

Next == Accept \/ Deliver \/ Remove

Spec == Init /\ [][Next]_vars /\ WF_vars(Deliver)
=============================================================================
