----------------------- MODULE MatchDistributionList -----------------------
(***************************************************************************)
(* The distribution strategy as the code runs it, on lists of match ids:   *)
(* MatchDistribution::operator(), distributeFill and distributeClipping.   *)
(* One behaviour is one call: the inputs are chosen, then the call runs.   *)
(*                                                                         *)
(* The call is shown to produce an outcome that module MatchDistribution,  *)
(* on which the match manager and its proofs are built, allows.            *)
(***************************************************************************)
EXTENDS MatchDistribution, SequencesExt

CONSTANTS
    Matches,      \* the elements of the lists: match ids, one that is in the lists
                  \* twice being two of them
    Sids          \* the service ids

ASSUME InputsAssumption ==
    /\ IsFiniteSet(Matches)
    /\ IsFiniteSet(Sids) /\ Sids \subseteq Nat

VARIABLES
    call,     \* "ready" or "returned"
    input,    \* services, loaded and undist the call is made with, and the known matches
    output    \* the same and changed when it returns

vars == <<call, input, output>>
-----------------------------------------------------------------------------
\* `ordered' of distributeFill: by ascending load, the sort being stable.
Lighter(loaded, s, t) == loaded[s] < loaded[t] \/ (loaded[s] = loaded[t] /\ s < t)

Ascending(loaded) ==
    CHOOSE order \in SetToSeqs(DOMAIN loaded) :
        \A i, j \in DOMAIN order : i < j => Lighter(loaded, order[i], order[j])

\* `ordered' of distributeClipping: by descending load, stable as well.
Heavier(loaded, s, t) == loaded[s] > loaded[t] \/ (loaded[s] = loaded[t] /\ s < t)

Descending(loaded) ==
    CHOOSE order \in SetToSeqs(DOMAIN loaded) :
        \A i, j \in DOMAIN order : i < j => Heavier(loaded, order[i], order[j])

\* The loads of the services in S evaluated anew from their lists.
Reloaded(services, loaded, S) ==
    [s \in DOMAIN services |-> IF s \in S THEN Len(services[s]) ELSE loaded[s]]

\* Mutation of FillOne: the average is given whatever the service has.
FillWholeAverage(d, average, s) ==
    IF d.undist = <<>> \/ average - d.loaded[s] <= 0
    THEN d
    ELSE LET n == Min({average, Len(d.undist)})
         IN  [d EXCEPT !.services[s] = @ \o SubSeq(d.undist, 1, n),
                       !.undist  = SubSeq(@, n + 1, Len(@)),
                       !.changed = @ \cup {s}]

\* The body of the loop of distributeFill for service s.  Where the loop
\* breaks the body has no effect, now and for the services that follow.
FillOne(d, average, s) ==
    IF d.undist = <<>> \/ average - d.loaded[s] <= 0
    THEN d
    ELSE LET n == Min({average - d.loaded[s], Len(d.undist)})
         IN  [d EXCEPT !.services[s] = @ \o SubSeq(d.undist, 1, n),
                       !.undist  = SubSeq(@, n + 1, Len(@)),
                       !.changed = @ \cup {s}]

\* The loop of distributeFill: where it stands after i services of the order.
FillRounds(d, average, order) ==
    LET round[i \in 0..Len(order)] ==
            IF i = 0 THEN [d EXCEPT !.changed = {}]
                     ELSE FillOne(round[i - 1], average, order[i])
    IN  round

FillLoop(d, average, order) == FillRounds(d, average, order)[Len(order)]

\* Mutation of ListFill: the loads are not evaluated anew.
FillWithoutReload(d, average) ==
    LET f == FillLoop(d, average, Ascending(d.loaded))
    IN  [f EXCEPT !.changed = d.changed \cup @]

ListFill(d, average) ==
    LET f == FillLoop(d, average, Ascending(d.loaded))
    IN  [f EXCEPT !.loaded  = Reloaded(f.services, d.loaded, f.changed),
                  !.changed = d.changed \cup @]

\* The body of the loop of distributeClipping: the first matches go back.
ClipOne(d, average, s) ==
    LET n == Min({d.loaded[s] - average, Len(d.services[s])})
    IN  IF n <= 0
        THEN d
        ELSE [d EXCEPT !.services[s] = SubSeq(@, n + 1, Len(@)),
                       !.undist  = @ \o SubSeq(d.services[s], 1, n),
                       !.changed = @ \cup {s}]

\* The loop of distributeClipping.
ClipRounds(d, average, order) ==
    LET round[i \in 0..Len(order)] ==
            IF i = 0 THEN [d EXCEPT !.changed = {}]
                     ELSE ClipOne(round[i - 1], average, order[i])
    IN  round

ClipLoop(d, average, order) == ClipRounds(d, average, order)[Len(order)]

ListClipping(d, average) ==
    LET ordered == Descending(d.loaded)
        c       == ClipLoop(d, average, ordered)
    IN  IF ~(tooFree(d.loaded[Last(ordered)]) \/ tooBusy(d.loaded[Head(ordered)]))
        THEN d
        ELSE [c EXCEPT !.loaded  = Reloaded(c.services, d.loaded, c.changed),
                       !.changed = d.changed \cup @]

ListDistribution(in) ==
    LET average == countPerService(in.known, in.services)
        start   == [services |-> in.services, loaded |-> in.loaded,
                    undist |-> in.undist, changed |-> {}]
        clipped == ListClipping(ListFill(start, average), average)
    IN  IF DOMAIN in.services = {} THEN start
        ELSE IF clipped.undist = <<>> THEN clipped
        ELSE ListFill(clipped, average)
-----------------------------------------------------------------------------
\* What the manager can call the strategy with: every element in one place, in
\* any list order, at most as many known matches as elements, and accurate loads
\* except the 0 of services registered again.
Loads(services) ==
    {loaded \in [DOMAIN services -> 0..Cardinality(Matches)] :
        \A s \in DOMAIN services : loaded[s] \in {0, Len(services[s])}}

\* The matches at s, and the lists of the services D that hold them in any order.
At(at, s) == {m \in Matches : at[m] = s}

Tables(D, at) ==
    {services \in [D -> UNION {SetToSeqs(At(at, s)) : s \in D}] :
        \A s \in D : services[s] \in SetToSeqs(At(at, s))}

Init ==
    /\ \E D \in SUBSET Sids : \E at \in [Matches -> D \cup {Nowhere}] :
         \E services \in Tables(D, at), undist \in SetToSeqs(At(at, Nowhere)) :
            \E loaded \in Loads(services), known \in SUBSET Matches :
                input = [services |-> services, loaded |-> loaded, undist |-> undist,
                         known |-> known]
    /\ call = "ready"
    /\ output = [services |-> [s \in {} |-> <<>>], loaded |-> [s \in {} |-> 0],
                 undist |-> <<>>, changed |-> {}]

Run ==
    /\ call = "ready"
    /\ call' = "returned"
    /\ output' = ListDistribution(input)
    /\ UNCHANGED input

Spec == Init /\ [][Run]_vars
-----------------------------------------------------------------------------
SetOf(services) == [s \in DOMAIN services |-> ToSet(services[s])]

\* No element is missing, in two lists, or twice in one.
InOnePlace(services, undist) ==
    /\ Matches = ToSet(undist) \cup UNION {ToSet(services[s]) : s \in DOMAIN services}
    /\ \A s \in DOMAIN services :
         /\ ToSet(services[s]) \cap ToSet(undist) = {}
         /\ \A t \in DOMAIN services \ {s} : ToSet(services[s]) \cap ToSet(services[t]) = {}
         /\ IsInjective(services[s])
    /\ IsInjective(undist)

(***************************************************************************)
(* The list algorithm, with its early exits and its order of services,     *)
(* ends in one of the outcomes of MatchDistribution: as many matches move, *)
(* between the same services, and the same services are reported changed.  *)
(* No list gains a second copy of an element and none disappears.          *)
(***************************************************************************)
ListsRefineSets ==
    call = "returned" =>
        /\ [services |-> SetOf(output.services), loaded |-> output.loaded,
            undist |-> ToSet(output.undist), changed |-> output.changed]
             \in Distributions(SetOf(input.services), input.loaded,
                               ToSet(input.undist), input.known)
        /\ InOnePlace(output.services, output.undist)

(***************************************************************************)
(* With accurate loads two calls in a row are one: the second finds        *)
(* nothing to move, so a redistribution without a change is silent.        *)
(***************************************************************************)
DistributionSettles ==
    call = "returned" /\ (\A s \in DOMAIN input.services :
                             input.loaded[s] = Len(input.services[s])) =>
        LET again == ListDistribution([services |-> output.services, loaded |-> output.loaded,
                                       undist |-> output.undist, known |-> input.known])
        IN  again.services = output.services /\ again.undist = output.undist
=============================================================================
