------------------------- MODULE MatchDistribution -------------------------
(***************************************************************************)
(* The distribution strategy of the CentralServer: MatchDistribution and   *)
(* CSMatchLoadedEvaluation (CentralServer/.../MatchManager).               *)
(*                                                                         *)
(* The code works on std::list<int> of match ids.  Which of several        *)
(* undistributed matches a service receives is never inspected by anybody, *)
(* so a list is abstracted to the set of its elements (an id that is in    *)
(* the lists twice is two elements), and where the code takes "the first   *)
(* n" of a list the operators below allow every choice of n elements.  How *)
(* many elements move, and between whom, is exact.  The list algorithm     *)
(* itself is module MatchDistributionList, and is checked and proved to    *)
(* produce one of the outcomes allowed here.                               *)
(*                                                                         *)
(* A distribution d is a record of the four things the code passes around  *)
(* and updates in place:                                                   *)
(*    d.services  the map sid -> list (matchServices)                      *)
(*    d.loaded    the `loaded' field in the key of each service            *)
(*    d.undist    the list of matches without a service (undistMatches)    *)
(*    d.changed   the services whose list was changed so far               *)
(***************************************************************************)
EXTENDS Integers, FiniteSetsExt

CONSTANT BusyLoad   \* a service is too busy from this load on (10 in the code)

ASSUME BusyLoadAssumption == BusyLoad \in Nat \ {0}

\* Where a match stays that the loop of distributeFill gives to no service.
Nowhere == -2
-----------------------------------------------------------------------------
\* The load a service gets per match list: its length.
evaluate(mids) == Cardinality(mids)

\* Mutation of updateLoaded: the key keeps its old load.
KeepOldLoad(services, loaded, S) == [s \in DOMAIN services |-> loaded[s]]

\* updateLoaded for every service in S: re-keys it with its evaluated load.
updateLoaded(services, loaded, S) ==
    [s \in DOMAIN services |->
        IF s \in S THEN evaluate(services[s]) ELSE loaded[s]]

\* countPerService: the floor of the matches per service.
countPerService(allMatches, services) ==
    Cardinality(allMatches) \div Cardinality(DOMAIN services)

tooFree(load) == load <= 0
tooBusy(load) == load >= BusyLoad
-----------------------------------------------------------------------------
(***************************************************************************)
(* distributeFill.  Services are served in ascending order of load (equal  *)
(* loads in the order of the map, that is of the sid), each up to the      *)
(* average, until the undistributed matches run out.                       *)
(***************************************************************************)
ServedBefore(d, t, s) ==
    \/ d.loaded[t] < d.loaded[s]
    \/ d.loaded[t] = d.loaded[s] /\ t < s

\* Mutation of FillQuota: the loop stops one match early.
FillOneShort(d, average, s) ==
    IF d.loaded[s] < average - 1 THEN average - d.loaded[s] - 1 ELSE 0

\* How many matches the loop moves to service s, if as many are left.
FillQuota(d, average, s) ==
    IF d.loaded[s] < average THEN average - d.loaded[s] ELSE 0

\* Mutation of Give: the services that got a match are not reported.
GiveUnreported(d, to) ==
    LET services == [s \in DOMAIN d.services |->
                        d.services[s] \cup {m \in d.undist : to[m] = s}]
    IN  [services |-> services,
         loaded   |-> updateLoaded(services, d.loaded, DOMAIN services),
         undist   |-> {m \in d.undist : to[m] = Nowhere},
         changed  |-> d.changed]

\* The distribution after the matches m of undist went to service to[m].
Give(d, to) ==
    LET services == [s \in DOMAIN d.services |->
                        d.services[s] \cup {m \in d.undist : to[m] = s}]
        changed  == {s \in DOMAIN d.services : \E m \in d.undist : to[m] = s}
    IN  [services |-> services,
         loaded   |-> updateLoaded(services, d.loaded, changed),
         undist   |-> {m \in d.undist : to[m] = Nowhere},
         changed  |-> d.changed \cup changed]

\* The matches that go to s, in the choice f of a place for each.
Gets(d, f, s) == {m \in d.undist : f[m] = s}

\* No service gets more than its quota, and none that is served before another
\* which gets a match, or while a match is left, gets less.
Fills(d, average, f) ==
    \A s \in DOMAIN d.services :
        LET full == Cardinality(Gets(d, f, s)) = FillQuota(d, average, s)
        IN  /\ Cardinality(Gets(d, f, s)) <= FillQuota(d, average, s)
            /\ Gets(d, f, Nowhere) # {} => full
            /\ (\E t \in DOMAIN d.services : ServedBefore(d, s, t) /\ Gets(d, f, t) # {}) => full

distributeFill(d, average) ==
    {Give(d, to) : to \in {f \in [d.undist -> DOMAIN d.services \cup {Nowhere}] :
                              Fills(d, average, f)}}
-----------------------------------------------------------------------------
(***************************************************************************)
(* distributeClipping.  Nothing happens unless the least loaded service is *)
(* too free or the most loaded one too busy; then every service above the  *)
(* average hands the surplus back to the undistributed matches.            *)
(***************************************************************************)
ClippingDue(d) ==
    \E s \in DOMAIN d.services : tooFree(d.loaded[s]) \/ tooBusy(d.loaded[s])

ClipQuota(d, average, s) ==
    IF d.loaded[s] <= average
    THEN 0
    ELSE Min({d.loaded[s] - average, Cardinality(d.services[s])})

\* Mutation of TakeBack: the services that lost a match are not reported.
TakeBackUnreported(d, cut) ==
    LET services == [s \in DOMAIN d.services |-> d.services[s] \ cut[s]]
    IN  [services |-> services,
         loaded   |-> updateLoaded(services, d.loaded, DOMAIN services),
         undist   |-> d.undist \cup UNION {cut[s] : s \in DOMAIN d.services},
         changed  |-> d.changed]

\* The distribution after each service s gave the matches cut[s] back.
TakeBack(d, cut) ==
    LET services == [s \in DOMAIN d.services |-> d.services[s] \ cut[s]]
        changed  == {s \in DOMAIN d.services : cut[s] # {}}
    IN  [services |-> services,
         loaded   |-> updateLoaded(services, d.loaded, changed),
         undist   |-> d.undist \cup UNION {cut[s] : s \in DOMAIN d.services},
         changed  |-> d.changed \cup changed]

distributeClipping(d, average) ==
    IF ~ClippingDue(d)
    THEN {d}
    ELSE {TakeBack(d, cut) : cut \in
            {g \in [DOMAIN d.services ->
                       UNION {kSubset(ClipQuota(d, average, s), d.services[s])
                                : s \in DOMAIN d.services}] :
                \A s \in DOMAIN d.services :
                    g[s] \in kSubset(ClipQuota(d, average, s), d.services[s])}}
-----------------------------------------------------------------------------
(***************************************************************************)
(* MatchDistribution::operator(): fill, clip, and fill again when matches  *)
(* are left; nothing at all without a service.                             *)
(***************************************************************************)
Distributions(services, loaded, undist, allMatches) ==
    LET average == countPerService(allMatches, services)
        start   == [services |-> services, loaded |-> loaded,
                    undist |-> undist, changed |-> {}]
    IN  IF DOMAIN services = {}
        THEN {start}
        ELSE UNION {UNION {IF c.undist = {} THEN {c} ELSE distributeFill(c, average)
                             : c \in distributeClipping(f, average)}
                      : f \in distributeFill(start, average)}
=============================================================================
