------------------------- MODULE MatchManagerProofs -------------------------
(***************************************************************************)
(* Proofs about MatchManager, for every set of matches and services and    *)
(* every length of the periods: the registry and the change log, then the  *)
(* loads the strategy decides by, the balance it reaches, and what the     *)
(* match servers come to run.                                              *)
(***************************************************************************)
EXTENDS MatchManager, FiniteSetTheorems, FunctionTheorems, TLAPS

\* The records the distribution operators work on: services D, matches M.
DistributionRecord(D, M) ==
    [services : [D -> SUBSET M], loaded : [D -> Nat], undist : SUBSET M, changed : SUBSET D]

\* d neither loses nor doubles any of the matches in all.
Conserves(d, all) ==
    /\ all = d.undist \cup UNION {d.services[s] : s \in DOMAIN d.services}
    /\ d.undist \cap UNION {d.services[s] : s \in DOMAIN d.services} = {}
    /\ \A s, t \in DOMAIN d.services : s # t => d.services[s] \cap d.services[t] = {}
-----------------------------------------------------------------------------
\* Re-keying services with their evaluated loads keeps loads natural numbers.
LEMMA LoadsAreNatural ==
    ASSUME NEW M, IsFiniteSet(M), NEW D, NEW services \in [D -> SUBSET M],
           NEW load \in [D -> Nat], NEW S
    PROVE  updateLoaded(services, load, S) \in [D -> Nat]
<1>1. ASSUME NEW s \in D PROVE evaluate(services[s]) \in Nat
  <2>1. IsFiniteSet(services[s])
    BY FS_Subset
  <2>2. QED
    BY <2>1, FS_CardinalityType DEF evaluate
<1>2. QED
  BY <1>1 DEF updateLoaded

\* Giving undistributed matches to services keeps the type of the record
\* and conserves the matches.
LEMMA GiveConserves ==
    ASSUME NEW M, IsFiniteSet(M), NEW D, Nowhere \notin D,
           NEW d \in DistributionRecord(D, M),
           NEW to \in [d.undist -> D \cup {Nowhere}]
    PROVE  /\ Give(d, to) \in DistributionRecord(D, M)
           /\ \A all : Conserves(d, all) => Conserves(Give(d, to), all)
<1> DEFINE services == [s \in D |-> d.services[s] \cup {m \in d.undist : to[m] = s}]
           changed  == {s \in D : \E m \in d.undist : to[m] = s}
           left     == {m \in d.undist : to[m] = Nowhere}
<1>1. DOMAIN d.services = D /\ d.services \in [D -> SUBSET M] /\ d.undist \subseteq M
      /\ d.loaded \in [D -> Nat] /\ d.changed \subseteq D
  BY DEF DistributionRecord
<1>2. services \in [D -> SUBSET M]
  BY <1>1
<1>3. updateLoaded(services, d.loaded, changed) \in [D -> Nat]
  BY <1>1, <1>2, LoadsAreNatural
<1>4. Give(d, to) = [services |-> services,
                     loaded   |-> updateLoaded(services, d.loaded, changed),
                     undist   |-> left,
                     changed  |-> d.changed \cup changed]
  BY <1>1 DEF Give
<1>5. Give(d, to) \in DistributionRecord(D, M)
  <2> HIDE DEF services
  <2> QED
    BY <1>1, <1>2, <1>3, <1>4 DEF DistributionRecord
<1>6. ASSUME NEW all, Conserves(d, all)
      PROVE  Conserves(Give(d, to), all)
  <2>1. /\ all = d.undist \cup UNION {d.services[s] : s \in D}
        /\ d.undist \cap UNION {d.services[s] : s \in D} = {}
        /\ \A s, t \in D : s # t => d.services[s] \cap d.services[t] = {}
    BY <1>1, <1>6 DEF Conserves
  <2>2. UNION {services[s] : s \in D} = (d.undist \ left) \cup UNION {d.services[s] : s \in D}
    <3>1. \A m \in d.undist : m \notin left <=> to[m] \in D
      OBVIOUS
    <3>2. QED
      BY <3>1
  <2>3. left \subseteq d.undist
    OBVIOUS
  <2>4. all = left \cup UNION {services[s] : s \in D}
    <3> HIDE DEF left, services
    <3> QED BY <2>1, <2>2, <2>3
  <2>5. left \cap UNION {services[s] : s \in D} = {}
    <3> HIDE DEF left, services
    <3> QED BY <2>1, <2>2, <2>3
  <2>6. ASSUME NEW s \in D, NEW t \in D, s # t
        PROVE  services[s] \cap services[t] = {}
    <3>1. d.services[s] \cap d.undist = {} /\ d.services[t] \cap d.undist = {}
      BY <2>1
    <3>2. d.services[s] \cap d.services[t] = {}
      BY <2>1, <2>6
    <3>3. QED
      BY <3>1, <3>2, <2>6
  <2>7. Give(d, to).services = services /\ Give(d, to).undist = left /\ DOMAIN services = D
    BY <1>4
  <2> HIDE DEF left, services
  <2>8. QED
    BY <2>4, <2>5, <2>6, <2>7 DEF Conserves
<1>7. QED
  BY <1>5, <1>6

\* Taking matches back from services keeps the type of the record and
\* conserves the matches.
LEMMA TakeBackConserves ==
    ASSUME NEW M, IsFiniteSet(M), NEW D,
           NEW d \in DistributionRecord(D, M),
           NEW cut, \A s \in D : cut[s] \subseteq d.services[s]
    PROVE  /\ TakeBack(d, cut) \in DistributionRecord(D, M)
           /\ \A all : Conserves(d, all) => Conserves(TakeBack(d, cut), all)
<1> DEFINE services == [s \in D |-> d.services[s] \ cut[s]]
           changed  == {s \in D : cut[s] # {}}
           undist   == d.undist \cup UNION {cut[s] : s \in D}
<1>1. DOMAIN d.services = D /\ d.services \in [D -> SUBSET M] /\ d.undist \subseteq M
      /\ d.loaded \in [D -> Nat] /\ d.changed \subseteq D
  BY DEF DistributionRecord
<1>2. services \in [D -> SUBSET M] /\ undist \subseteq M /\ changed \subseteq D
  BY <1>1
<1>3. updateLoaded(services, d.loaded, changed) \in [D -> Nat]
  BY <1>1, <1>2, LoadsAreNatural
<1>4. TakeBack(d, cut) = [services |-> services,
                          loaded   |-> updateLoaded(services, d.loaded, changed),
                          undist   |-> undist,
                          changed  |-> d.changed \cup changed]
  BY <1>1 DEF TakeBack
<1>5. TakeBack(d, cut) \in DistributionRecord(D, M)
  <2> HIDE DEF services, undist, changed
  <2> QED
    BY <1>1, <1>2, <1>3, <1>4 DEF DistributionRecord
<1>6. ASSUME NEW all, Conserves(d, all)
      PROVE  Conserves(TakeBack(d, cut), all)
  <2>1. /\ all = d.undist \cup UNION {d.services[s] : s \in D}
        /\ d.undist \cap UNION {d.services[s] : s \in D} = {}
        /\ \A s, t \in D : s # t => d.services[s] \cap d.services[t] = {}
    BY <1>1, <1>6 DEF Conserves
  <2>2. \A m : m \in UNION {d.services[s] : s \in D}
                 <=> m \in UNION {services[s] : s \in D} \/ m \in UNION {cut[s] : s \in D}
    BY <1>1
  <2>3. all = undist \cup UNION {services[s] : s \in D}
    BY <2>1, <2>2
  <2>4. ASSUME NEW s \in D, NEW m \in services[s]
        PROVE  m \notin undist
    <3>1. m \in d.services[s] /\ m \notin cut[s]
      BY <2>4
    <3>2. m \notin d.undist
      BY <3>1, <2>1
    <3>3. ASSUME NEW t \in D PROVE m \notin cut[t]
      <4>1. CASE t = s
        BY <4>1, <3>1
      <4>2. CASE t # s
        BY <4>2, <3>1, <2>1
      <4> QED BY <4>1, <4>2
    <3> QED BY <3>2, <3>3
  <2>5. undist \cap UNION {services[s] : s \in D} = {}
    BY <2>4
  <2>6. \A s, t \in D : s # t => services[s] \cap services[t] = {}
    BY <2>1
  <2>7. TakeBack(d, cut).services = services /\ TakeBack(d, cut).undist = undist
        /\ DOMAIN services = D
    BY <1>4
  <2> HIDE DEF undist, services
  <2>8. QED
    BY <2>3, <2>5, <2>6, <2>7 DEF Conserves
<1>7. QED
  BY <1>5, <1>6
\* Every outcome of the strategy is a distribution over the same services
\* that conserves the matches.
LEMMA DistributionsConserve ==
    ASSUME NEW M, IsFiniteSet(M), NEW D, Nowhere \notin D,
           NEW services \in [D -> SUBSET M], NEW load \in [D -> Nat],
           NEW undist \in SUBSET M, NEW allMatches,
           NEW d \in Distributions(services, load, undist, allMatches)
    PROVE  /\ d \in DistributionRecord(D, M)
           /\ \A all : Conserves([services |-> services, loaded |-> load,
                                 undist |-> undist, changed |-> {}], all)
                     => Conserves(d, all)
<1> DEFINE average == countPerService(allMatches, services)
           start   == [services |-> services, loaded |-> load,
                       undist |-> undist, changed |-> {}]
<1>1. start \in DistributionRecord(D, M)
  BY DEF DistributionRecord
<1>2. ASSUME NEW e \in DistributionRecord(D, M), NEW f \in distributeFill(e, average)
      PROVE  /\ f \in DistributionRecord(D, M)
             /\ \A all : Conserves(e, all) => Conserves(f, all)
  <2>1. DOMAIN e.services = D
    BY DEF DistributionRecord
  <2>2. PICK to \in [e.undist -> D \cup {Nowhere}] : f = Give(e, to)
    BY <2>1 DEF distributeFill
  <2>3. QED
    BY <2>2, GiveConserves
<1>3. ASSUME NEW e \in DistributionRecord(D, M), NEW f \in distributeClipping(e, average)
      PROVE  /\ f \in DistributionRecord(D, M)
             /\ \A all : Conserves(e, all) => Conserves(f, all)
  <2>1. DOMAIN e.services = D
    BY DEF DistributionRecord
  <2>2. CASE f = e
    BY <2>2
  <2>3. CASE \E cut : f = TakeBack(e, cut) /\ \A s \in D : cut[s] \subseteq e.services[s]
    BY <2>3, TakeBackConserves
  <2>4. f = e \/ \E cut : f = TakeBack(e, cut) /\ \A s \in D : cut[s] \subseteq e.services[s]
    BY <2>1 DEF distributeClipping, kSubset
  <2>5. QED
    BY <2>2, <2>3, <2>4
<1>4. d = start \/ \E f \in distributeFill(start, average) :
                     \E c \in distributeClipping(f, average) :
                        d = c \/ d \in distributeFill(c, average)
  <2>1. CASE DOMAIN services = {}
    BY <2>1 DEF Distributions
  <2>2. CASE DOMAIN services # {}
    <3>1. d \in UNION {UNION {IF c.undist = {} THEN {c} ELSE distributeFill(c, average)
                               : c \in distributeClipping(f, average)}
                        : f \in distributeFill(start, average)}
      BY <2>2, Zenon DEF Distributions
    <3> HIDE DEF start, average
    <3>2. PICK f \in distributeFill(start, average) :
              d \in UNION {IF c.undist = {} THEN {c} ELSE distributeFill(c, average)
                             : c \in distributeClipping(f, average)}
      BY <3>1, Zenon
    <3>3. PICK c \in distributeClipping(f, average) :
              d \in IF c.undist = {} THEN {c} ELSE distributeFill(c, average)
      BY <3>2, Zenon
    <3>4. d = c \/ d \in distributeFill(c, average)
      BY <3>3
    <3>5. QED
      BY <3>4
  <2>3. QED
    BY <2>1, <2>2
<1> HIDE DEF start, average
<1>5. CASE d = start
  BY <1>5, <1>1 DEF start
<1>6. ASSUME NEW f \in distributeFill(start, average),
             NEW c \in distributeClipping(f, average),
             d = c \/ d \in distributeFill(c, average)
      PROVE  d \in DistributionRecord(D, M) /\ \A all : Conserves(start, all) => Conserves(d, all)
  <2>1. f \in DistributionRecord(D, M) /\ \A all : Conserves(start, all) => Conserves(f, all)
    BY <1>1, <1>2
  <2>2. c \in DistributionRecord(D, M) /\ \A all : Conserves(f, all) => Conserves(c, all)
    BY <2>1, <1>3
  <2>3. CASE d = c
    BY <2>1, <2>2, <2>3
  <2>4. CASE d \in distributeFill(c, average)
    BY <2>1, <2>2, <2>4, <1>2
  <2>5. QED
    BY <1>6, <2>3, <2>4
<1>7. QED
  BY <1>4, <1>5, <1>6 DEF start
-----------------------------------------------------------------------------
(***************************************************************************)
(* Lists with repeated ids.                                                *)
(***************************************************************************)

\* There are finitely many entries.
LEMMA EntriesFinite == IsFiniteSet(Entries)
<1>1. IsFiniteSet(Matches) /\ IsFiniteSet(Copies)
  BY ConstantsAssumption, FS_Interval DEF Copies
<1> QED
  BY <1>1, FS_Product DEF Entries

\* Renumbered entries are entries with free numbers.
LEMMA RenumberedFree ==
    ASSUME NEW list, NEW taken
    PROVE  Renumbered(list, taken) \subseteq Entries \ taken
BY DEF Renumbered

\* A list has an id as often as it has entries of it.
LEMMA CountsAreNatural ==
    ASSUME NEW list \in SUBSET Entries, NEW m
    PROVE  /\ Count(list, m) \in Nat
           /\ Count(list, m) = 0 <=> m \notin Mids(list)
           /\ Count(list, m) = 1 => \A e, f \in list : e[1] = m /\ f[1] = m => e = f
           /\ m \in Mids(list) /\ (\A e, f \in list : e[1] = m /\ f[1] = m => e = f)
                => Count(list, m) = 1
<1> DEFINE found == {e \in list : e[1] = m}
<1>1. IsFiniteSet(found)
  BY EntriesFinite, FS_Subset
<1>2. Cardinality(found) \in Nat /\ (Cardinality(found) = 0 <=> found = {})
  BY <1>1, FS_CardinalityType, FS_EmptySet
<1>3. Cardinality(found) = 1 <=> \E x : found = {x}
  BY <1>1, FS_Singleton
<1>4. found = {} <=> m \notin Mids(list)
  BY DEF Mids
<1>5. (\E x : found = {x}) => \A e, f \in list : e[1] = m /\ f[1] = m => e = f
  OBVIOUS
<1>6. ASSUME m \in Mids(list), \A e, f \in list : e[1] = m /\ f[1] = m => e = f
      PROVE  \E x : found = {x}
  <2>1. PICK x \in list : x[1] = m
    BY <1>6 DEF Mids
  <2>2. found = {x}
    BY <1>6, <2>1
  <2> QED
    BY <2>2
<1>7. Count(list, m) = Cardinality(found)
  BY DEF Count
<1> HIDE DEF found
<1> QED
  BY <1>2, <1>3, <1>4, <1>5, <1>6, <1>7

\* Equal lists have the same ids, and one that is once in one is once in both.
LEMMA SameListSameMids ==
    ASSUME NEW list \in SUBSET Entries, NEW other \in SUBSET Entries, SameList(list, other)
    PROVE  /\ Mids(list) = Mids(other)
           /\ \A m : (\A e, f \in other : e[1] = m /\ f[1] = m => e = f) =>
                     (\A e, f \in list : e[1] = m /\ f[1] = m => e = f)
<1>1. Mids(list) \subseteq Matches /\ Mids(other) \subseteq Matches
  BY DEF Mids, Entries
<1>2. \A m \in Matches : Count(list, m) = Count(other, m)
  BY DEF SameList
<1>3. Mids(list) = Mids(other)
  <2>1. \A m \in Matches : m \in Mids(list) <=> m \in Mids(other)
    <3> SUFFICES ASSUME NEW m \in Matches PROVE m \in Mids(list) <=> m \in Mids(other)
      OBVIOUS
    <3>1. Count(list, m) = 0 <=> m \notin Mids(list)
      BY CountsAreNatural
    <3>2. Count(other, m) = 0 <=> m \notin Mids(other)
      BY CountsAreNatural
    <3> QED
      BY <1>2, <3>1, <3>2
  <2> QED
    BY <1>1, <2>1
<1>4. ASSUME NEW m, \A e, f \in other : e[1] = m /\ f[1] = m => e = f
      PROVE  \A e, f \in list : e[1] = m /\ f[1] = m => e = f
  <2>1. CASE m \in Mids(list)
    <3>1. m \in Matches /\ m \in Mids(other)
      BY <1>1, <1>3, <2>1
    <3>2. Count(other, m) = 1
      BY <1>4, <3>1, CountsAreNatural
    <3>3. Count(list, m) = 1
      BY <1>2, <3>1, <3>2
    <3> QED
      BY <3>3, CountsAreNatural
  <2>2. CASE m \notin Mids(list)
    BY <2>2 DEF Mids
  <2> QED
    BY <2>1, <2>2
<1> QED
  BY <1>3, <1>4

\* A renumbered list has no other ids.
LEMMA RenumberedMids ==
    ASSUME NEW list \in SUBSET Entries, NEW taken, NEW e \in Renumbered(list, taken)
    PROVE  e[1] \in Mids(list)
<1> DEFINE free == {k \in 1..e[2] : <<e[1], k>> \notin taken}
<1>1. e \in Entries \ taken /\ Cardinality(free) <= Count(list, e[1])
  BY DEF Renumbered
<1>2. e[2] \in Nat \ {0} /\ e = <<e[1], e[2]>>
  BY <1>1, ConstantsAssumption DEF Entries, Copies
<1>3. e[2] \in free
  BY <1>1, <1>2
<1>4. IsFiniteSet(free)
  <2>1. IsFiniteSet(1..e[2])
    BY <1>2, FS_Interval
  <2> QED
    BY <2>1, FS_Subset
<1>5. Cardinality(free) \in Nat /\ Cardinality(free) # 0
  <2> HIDE DEF free
  <2> QED
    BY <1>3, <1>4, FS_CardinalityType, FS_EmptySet
<1>6. Count(list, e[1]) \in Nat /\ (Count(list, e[1]) = 0 <=> e[1] \notin Mids(list))
  BY CountsAreNatural
<1> HIDE DEF free
<1> QED
  BY <1>1, <1>5, <1>6

\* unique() keeps one entry of every id.
LEMMA UniqueKeepsMids ==
    ASSUME NEW list \in SUBSET Entries
    PROVE  /\ Unique(list) \subseteq list
           /\ Mids(Unique(list)) = Mids(list)
           /\ \A e, f \in Unique(list) : e[1] = f[1] => e = f
<1> DEFINE first(m) == CHOOSE e \in list : e[1] = m
<1>1. \A m \in Mids(list) : first(m) \in list /\ first(m)[1] = m
  BY DEF Mids
<1>2. \A e : e \in Unique(list) <=> \E m \in Mids(list) : e = first(m)
  BY DEF Unique
<1> HIDE DEF first
<1>3. Unique(list) \subseteq list
  BY <1>1, <1>2
<1>4. \A e, f \in Unique(list) : e[1] = f[1] => e = f
  BY <1>1, <1>2
<1>5. ASSUME NEW m \in Mids(list) PROVE m \in Mids(Unique(list))
  <2>1. first(m) \in Unique(list) /\ first(m)[1] = m
    BY <1>1, <1>2
  <2> QED
    BY <2>1, Zenon DEF Mids
<1>6. Mids(Unique(list)) \subseteq Mids(list)
  BY <1>3 DEF Mids
<1> QED
  BY <1>3, <1>4, <1>5, <1>6
-----------------------------------------------------------------------------
\* What a redistribution starts from is well typed, and so is its result.
LEMMA RedistributeTyped ==
    ASSUME TypeOK,
           NEW d \in Distributions(ListsAfterChanges, LoadedAfterChanges,
                                   UndistAfterRemovals, matches)
    PROVE  /\ ServicesAfterChanges \subseteq Sids
           /\ d \in DistributionRecord(ServicesAfterChanges, Entries)
           /\ \A all : Conserves([services |-> ListsAfterChanges, loaded |-> LoadedAfterChanges,
                                 undist |-> UndistAfterRemovals, changed |-> {}], all)
                     => Conserves(d, all)
<1>1. ChangesOf("Added") \subseteq Sids
  BY DEF TypeOK, ChangesOf
<1>2. ServicesAfterChanges \subseteq Sids
  BY <1>1 DEF TypeOK, ServicesAfterChanges
<1>3. Nowhere \notin ServicesAfterChanges
  BY <1>2, ConstantsAssumption DEF Nowhere
<1>4. ListsAfterChanges \in [ServicesAfterChanges -> SUBSET Entries]
  BY DEF TypeOK, ListsAfterChanges
<1>5. LoadedAfterChanges \in [ServicesAfterChanges -> Nat]
  BY DEF TypeOK, LoadedAfterChanges
<1>6. UndistAfterRemovals \in SUBSET Entries
  BY DEF TypeOK, UndistAfterRemovals
<1>7. QED
  BY <1>2, <1>3, <1>4, <1>5, <1>6, EntriesFinite, DistributionsConserve

(***************************************************************************)
(* Every reachable state is well typed: lists name known services and      *)
(* matches, loads are never negative and the clocks stay within bounds.    *)
(***************************************************************************)
THEOREM TypeCorrect == Spec => []TypeOK
<1>1. Init => TypeOK
  <2> SUFFICES ASSUME Init PROVE TypeOK
    OBVIOUS
  <2>1. /\ DOMAIN matchServices \subseteq Sids
        /\ matchServices \in [DOMAIN matchServices -> SUBSET Entries]
        /\ loaded \in [DOMAIN matchServices -> Nat]
    BY DEF Init
  <2>2. held \in [Sids -> SUBSET Entries]
    BY DEF Init
  <2>3. recoverable \subseteq [sid : Sids \cup OldSids, mids : SUBSET Entries]
    <3>1. PICK S \in SUBSET OldSids : \E list \in [S -> OldLists] :
                recoverable = {[sid |-> s, mids |-> list[s]] : s \in S}
      BY DEF Init
    <3>2. PICK list \in [S -> OldLists] :
                recoverable = {[sid |-> s, mids |-> list[s]] : s \in S}
      BY <3>1
    <3>3. \A s \in S : s \in OldSids /\ list[s] \in SUBSET Entries
      BY <3>1, <3>2, ConstantsAssumption
    <3> QED
      BY <3>2, <3>3
  <2>4. /\ startupTimer \in {NoTimer} \cup 0..StartupDelay
        /\ quiet \in 0..QuietPeriod
    BY ConstantsAssumption DEF Init
  <2>6. undistMatches \subseteq Entries
    BY ConstantsAssumption DEF Init, Entries, Copies
  <2>7. repeated \subseteq Matches /\ repeats \in 0..MaxRepeats
    BY ConstantsAssumption DEF Init, Doubled
  <2>5. QED
    BY <2>1, <2>2, <2>3, <2>4, <2>6, <2>7 DEF Init, TypeOK
<1>2. TypeOK /\ [Next]_vars => TypeOK'
  <2> SUFFICES ASSUME TypeOK, [Next]_vars PROVE TypeOK'
    OBVIOUS
  <2>1. ASSUME NEW s \in Sids, updateMatchService(s)
        PROVE  /\ changedServices' \subseteq [type : {"Added", "Update", "Removed"}, sid : Sids]
               /\ timer' \in {NoTimer} \cup 0..TimerPeriod
               /\ quiet' \in 0..QuietPeriod
               /\ plan' \in {"none", "current", "outdated"}
               /\ UNCHANGED <<matchServices, loaded, undistMatches, matches, repeated, repeats,
                           startupTimer, orphan>>
    BY <2>1, ConstantsAssumption
       DEF updateMatchService, tables, known, updateMatchesOrService, Outdate, Armed, Change, TypeOK
  <2>2. ASSUME NEW s \in Sids, removeMatchService(s)
        PROVE  /\ changedServices' \subseteq [type : {"Added", "Update", "Removed"}, sid : Sids]
               /\ timer' \in {NoTimer} \cup 0..TimerPeriod
               /\ quiet' \in 0..QuietPeriod
               /\ plan' \in {"none", "current", "outdated"}
               /\ UNCHANGED <<matchServices, loaded, undistMatches, matches, repeated, repeats,
                           startupTimer, orphan>>
    BY <2>2, ConstantsAssumption
       DEF removeMatchService, tables, known, updateMatchesOrService, Outdate, Armed, Change, TypeOK
  <2>3. ASSUME NEW s \in Sids, RegisterNew(s) PROVE TypeOK'
    <3>1. updateMatchService(s)
      BY <2>3 DEF RegisterNew
    <3>2. held' \in [Sids -> SUBSET Entries]
      BY <2>3 DEF RegisterNew, TypeOK
    <3> QED
      BY <2>1, <2>3, <3>1, <3>2 DEF RegisterNew, TypeOK
  <2>5. ASSUME NEW s \in Sids, NEW ms \in recoverable, RegisterReconnected(s, ms)
        PROVE  TypeOK'
    <3>1. ms \in [sid : Sids \cup OldSids, mids : SUBSET Entries]
      BY DEF TypeOK
    <3>2. ms.mids \in SUBSET Entries
      BY <3>1
    <3>3. [sid |-> s, mids |-> ms.mids] \in [sid : Sids, mids : SUBSET Entries]
      BY <3>2
    <3>4. /\ reports' \subseteq [sid : Sids, mids : SUBSET Entries]
          /\ held' \in [Sids -> SUBSET Entries]
          /\ recoverable' \subseteq [sid : Sids \cup OldSids, mids : SUBSET Entries]
      BY <2>5, <3>2, <3>3 DEF RegisterReconnected, TypeOK
    <3>5. updateMatchService(s)
      BY <2>5 DEF RegisterReconnected
    <3> QED
      BY <2>1, <2>5, <3>4, <3>5 DEF RegisterReconnected, TypeOK
  <2>6. ASSUME NEW s \in alive, RemoveService(s) PROVE TypeOK'
    <3>1. s \in Sids /\ removeMatchService(s)
      BY <2>6 DEF RemoveService, TypeOK
    <3> QED
      BY <2>2, <2>6, <3>1 DEF RemoveService, TypeOK
  <2>16. ASSUME NEW s \in alive, LoseConnection(s) PROVE TypeOK'
    <3>1. s \in Sids /\ held[s] \in SUBSET Entries
      BY DEF TypeOK
    <3>2. [sid |-> s, mids |-> held[s]] \in [sid : Sids \cup OldSids, mids : SUBSET Entries]
      BY <3>1
    <3> QED
      BY <2>16, <3>1, <3>2 DEF LoseConnection, TypeOK, manager, tables, known, clock
  <2>7. ASSUME NEW r \in reports, checkServiceDistMap(r) PROVE TypeOK'
    <3>0. r.sid \in Sids /\ r.mids \in SUBSET Entries
      BY DEF TypeOK
    <3>1. CASE CheckKnown(r)
      <4>1. HeldAfterReply(r) \in SUBSET Entries
        BY <3>0 DEF HeldAfterReply, TypeOK
      <4>2. held' \in [Sids -> SUBSET Entries]
        BY <3>0, <3>1, <4>1 DEF CheckKnown, TypeOK
      <4> QED
        BY <3>1, <4>2 DEF CheckKnown, TypeOK, manager, tables, known, clock
    <3>2. CASE CheckReconnect(r)
      <4> DEFINE services == DOMAIN matchServices \cup {r.sid}
                 left     == {e \in undistMatches : e[1] \notin Mids(r.mids)}
      <4>1. PICK mids : mids = Renumbered(r.mids, left \cup Assigned)
        OBVIOUS
      <4>2. mids \in SUBSET Entries
        BY <4>1, RenumberedFree
      <4>3. evaluate(mids) \in Nat
        BY <4>2, EntriesFinite, FS_Subset, FS_CardinalityType DEF evaluate
      <4>4. /\ matchServices' = [s \in services |-> IF s = r.sid THEN mids ELSE matchServices[s]]
            /\ loaded' = [s \in services |-> IF s = r.sid THEN evaluate(mids) ELSE loaded[s]]
            /\ undistMatches' = left
        BY <3>2, <4>1 DEF CheckReconnect
      <4>5. matchServices' \in [services -> SUBSET Entries] /\ loaded' \in [services -> Nat]
            /\ services \subseteq Sids /\ DOMAIN matchServices' = services
        BY <3>0, <4>2, <4>3, <4>4 DEF TypeOK
      <4>6. undistMatches' \subseteq Entries
        BY <4>4 DEF TypeOK
      <4> HIDE DEF services, left
      <4> QED
        BY <3>2, <4>5, <4>6 DEF CheckReconnect, TypeOK, clock, known
    <3>3. CASE CheckNoMatch(r)
      BY <3>3, ConstantsAssumption
         DEF CheckNoMatch, TypeOK, manager, tables, known, updateMatchesOrService, Armed
    <3> QED
      BY <2>7, <3>1, <3>2, <3>3 DEF checkServiceDistMap
  <2>8. ASSUME NEW m \in Matches, createdMatches(m) PROVE TypeOK'
    <3>1. /\ undistMatches' \subseteq Entries
          /\ matches' \subseteq Matches /\ repeated' \subseteq Matches
      <4>1. PICK e \in Renumbered({<<m, 1>>}, Assigned) :
                undistMatches' = Unique(undistMatches \cup {e})
        BY <2>8 DEF createdMatches
      <4>2. undistMatches \cup {e} \in SUBSET Entries
        BY RenumberedFree DEF TypeOK
      <4>3. undistMatches' \subseteq Entries
        BY <4>1, <4>2, UniqueKeepsMids
      <4> QED
        BY <2>8, <4>3 DEF createdMatches, TypeOK
    <3>2. repeats' \in 0..MaxRepeats
      BY <2>8, ConstantsAssumption DEF createdMatches, TypeOK
    <3>3. /\ timer' \in {NoTimer} \cup 0..TimerPeriod
          /\ quiet' \in 0..QuietPeriod
          /\ plan' \in {"none", "current", "outdated"}
      BY <2>8, ConstantsAssumption
         DEF createdMatches, TypeOK, updateMatchesOrService, Armed, Outdate
    <3> QED
      BY <2>8, <3>1, <3>2, <3>3 DEF createdMatches, TypeOK, peers, updateMatchesOrService
  <2>9. ASSUME updateDistMatchServices,
               startupTimer' \in {NoTimer} \cup 0..StartupDelay, orphan' \in BOOLEAN
        PROVE TypeOK'
    <3>1. CASE Redistribute
      <4>1. PICK d \in Distributions(ListsAfterChanges, LoadedAfterChanges,
                                     UndistAfterRemovals, matches) :
              /\ matchServices' = d.services
              /\ loaded' = d.loaded
              /\ undistMatches' = d.undist
              /\ held' = HeldAfterNotify(d)
        BY <3>1 DEF Redistribute
      <4>2. ServicesAfterChanges \subseteq Sids
            /\ d \in DistributionRecord(ServicesAfterChanges, Entries)
        BY RedistributeTyped
      <4>3. /\ d.services \in [ServicesAfterChanges -> SUBSET Entries]
            /\ d.loaded \in [ServicesAfterChanges -> Nat]
            /\ d.undist \subseteq Entries
            /\ d.changed \subseteq ServicesAfterChanges
        BY <4>2 DEF DistributionRecord
      <4>4. held' \in [Sids -> SUBSET Entries]
        BY <4>1, <4>3 DEF TypeOK, HeldAfterNotify
      <4>5. /\ DOMAIN matchServices' \subseteq Sids
            /\ matchServices' \in [DOMAIN matchServices' -> SUBSET Entries]
            /\ loaded' \in [DOMAIN matchServices' -> Nat]
            /\ undistMatches' \subseteq Entries
        BY <4>1, <4>2, <4>3
      <4> QED
        BY <2>9, <3>1, <4>4, <4>5 DEF Redistribute, updateDistMatchServices, TypeOK, known
    <3>2. CASE Postpone
      BY <2>9, <3>2, ConstantsAssumption
         DEF Postpone, updateDistMatchServices, TypeOK, manager, tables, known, peers
    <3> QED
      BY <2>9, <3>1, <3>2 DEF updateDistMatchServices
  <2>10. CASE TimerExpires
    BY <2>9, <2>10 DEF TimerExpires, TypeOK
  <2>11. CASE StartupTimerExpires
    BY <2>9, <2>11 DEF StartupTimerExpires, TypeOK
  <2>12. CASE OrphanRuns
    BY <2>9, <2>12 DEF OrphanRuns, TypeOK
  <2>13. CASE Tick
    <3>1. /\ timer' \in {NoTimer} \cup 0..TimerPeriod
          /\ startupTimer' \in {NoTimer} \cup 0..StartupDelay
          /\ quiet' \in 0..QuietPeriod
      BY <2>13, ConstantsAssumption DEF Tick, TypeOK, Advance, NoTimer
    <3> QED
      BY <2>13, <3>1 DEF Tick, TypeOK, manager, tables, known, peers
  <2>14. CASE UNCHANGED vars
    BY <2>14 DEF vars, manager, tables, known, clock, peers, TypeOK
  <2>15. QED
    BY <2>3, <2>5, <2>6, <2>16, <2>7, <2>8, <2>10, <2>11, <2>12, <2>13, <2>14 DEF Next
<1>3. QED
  BY <1>1, <1>2, PTL DEF Spec
-----------------------------------------------------------------------------
(***************************************************************************)
(* The pending changes.  OneChangePerService and RegistryAgrees support    *)
(* each other; ChangesAreTimed needs that only a living, not yet entered   *)
(* service can be recovered (its registration is then pending, so the      *)
(* timer is armed).                                                        *)
(***************************************************************************)
ReportsAreAlive ==
    \A r \in reports : r.sid \in alive

ChangeLog ==
    /\ OneChangePerService
    /\ RegistryAgrees
    /\ ChangesAreTimed
    /\ ReportsAreAlive

\* The sids of the pending changes of a type, spelled out.
LEMMA ChangesOfSids ==
    ASSUME NEW type, NEW s, TypeOK
    PROVE  s \in ChangesOf(type) <=> [type |-> type, sid |-> s] \in changedServices
BY DEF ChangesOf, TypeOK

\* Replacing the changes of s in a log by one of type t.
LEMMA ReplaceChange ==
    ASSUME NEW log, NEW new, NEW s, NEW t,
           new = {c \in log : c.sid # s} \cup {[type |-> t, sid |-> s]}
    PROVE  \A k, x : [type |-> k, sid |-> x] \in new
                       <=> IF x = s THEN k = t ELSE [type |-> k, sid |-> x] \in log
<1> SUFFICES ASSUME NEW k, NEW x
             PROVE  [type |-> k, sid |-> x] \in new
                      <=> IF x = s THEN k = t ELSE [type |-> k, sid |-> x] \in log
  OBVIOUS
<1>1. [type |-> k, sid |-> x].sid = x
  OBVIOUS
<1>2. [type |-> k, sid |-> x] = [type |-> t, sid |-> s] <=> k = t /\ x = s
  OBVIOUS
<1>3. QED
  BY <1>1, <1>2

\* Entering a change of a living service keeps the log in order.
LEMMA UpdateKeepsLog ==
    ASSUME TypeOK, ChangeLog, TypeOK', NEW s \in Sids, updateMatchService(s),
           alive' = alive \cup {s}
    PROVE  OneChangePerService' /\ RegistryAgrees' /\ ChangesAreTimed'
<1> DEFINE type == IF s \in DOMAIN matchServices THEN "Update" ELSE "Added"
<1>1. changedServices' = {c \in changedServices : c.sid # s} \cup {[type |-> type, sid |-> s]}
  BY DEF updateMatchService, tables, known, Change
<1>2. OneChangePerService'
  BY <1>1 DEF ChangeLog, OneChangePerService
<1>3. \A k, x : x \in ChangesOf(k)' <=> IF x = s THEN k = type ELSE x \in ChangesOf(k)
  <2>1. \A k, x : x \in ChangesOf(k) <=> [type |-> k, sid |-> x] \in changedServices
    BY DEF ChangesOf, TypeOK
  <2>2. \A k, x : x \in ChangesOf(k)' <=> [type |-> k, sid |-> x] \in changedServices'
    BY DEF ChangesOf, TypeOK
  <2> HIDE DEF type
  <2>3. \A k, x : [type |-> k, sid |-> x] \in changedServices'
                    <=> IF x = s THEN k = type ELSE [type |-> k, sid |-> x] \in changedServices
    BY <1>1, ReplaceChange
  <2>4. QED
    BY <2>1, <2>2, <2>3
<1>4. matchServices' = matchServices
  BY DEF updateMatchService, tables, known
<1>5. RegistryAgrees'
  BY <1>3, <1>4, ConstantsAssumption
     DEF ChangeLog, RegistryAgrees, ServicesAfterChanges
<1>6. ChangesAreTimed'
  BY ConstantsAssumption
     DEF updateMatchService, tables, known, updateMatchesOrService, Armed, ChangesAreTimed, NoTimer, TypeOK
<1>7. QED
  BY <1>2, <1>5, <1>6

\* Entering the departure of a living service keeps the log in order.
LEMMA RemoveKeepsLog ==
    ASSUME TypeOK, ChangeLog, TypeOK', NEW s \in alive, removeMatchService(s),
           alive' = alive \ {s}
    PROVE  OneChangePerService' /\ RegistryAgrees' /\ ChangesAreTimed'
<1>1. matchServices' = matchServices
  BY DEF removeMatchService, tables, known
<1>2. OneChangePerService'
  BY DEF removeMatchService, tables, known, Change, ChangeLog, OneChangePerService
<1>3. ASSUME s \in ChangesOf("Added") PROVE RegistryAgrees'
  <2>1. changedServices' = {c \in changedServices : c.sid # s}
    BY <1>3, ChangesOfSids DEF removeMatchService, tables, known, Change
  <2>2. \A k, x : x \in ChangesOf(k)' <=> x # s /\ x \in ChangesOf(k)
    BY <2>1 DEF ChangesOf, TypeOK
  <2>3. RegistryAgrees'
    BY <1>1, <1>3, <2>2 DEF ChangeLog, RegistryAgrees, ServicesAfterChanges
  <2> QED BY <2>3
<1>4. ASSUME s \notin ChangesOf("Added") PROVE RegistryAgrees'
  <2>1. changedServices' = {c \in changedServices : c.sid # s}
                             \cup {[type |-> "Removed", sid |-> s]}
    BY <1>4, ChangesOfSids DEF removeMatchService, tables, known, Change
  <2>2. \A k, x : x \in ChangesOf(k)' <=> IF x = s THEN k = "Removed" ELSE x \in ChangesOf(k)
    <3>1. \A k, x : x \in ChangesOf(k) <=> [type |-> k, sid |-> x] \in changedServices
      BY DEF ChangesOf, TypeOK
    <3>2. \A k, x : x \in ChangesOf(k)' <=> [type |-> k, sid |-> x] \in changedServices'
      BY DEF ChangesOf, TypeOK
    <3>3. \A k, x : [type |-> k, sid |-> x] \in changedServices'
                      <=> IF x = s THEN k = "Removed" ELSE [type |-> k, sid |-> x] \in changedServices
      BY <2>1, ReplaceChange
    <3>4. QED
      BY <3>1, <3>2, <3>3
  <2>3. s \in DOMAIN matchServices
    BY <1>4 DEF ChangeLog, RegistryAgrees, ServicesAfterChanges
  <2>4. RegistryAgrees'
    BY <1>1, <2>2, <2>3 DEF ChangeLog, RegistryAgrees, ServicesAfterChanges
  <2> QED BY <2>4
<1>5. ChangesAreTimed'
  BY ConstantsAssumption
     DEF removeMatchService, tables, known, updateMatchesOrService, Armed, ChangesAreTimed, NoTimer, TypeOK
<1>6. QED
  BY <1>2, <1>3, <1>4, <1>5

\* A redistribution enters every living service into the table.
LEMMA RedistributeKeepsLog ==
    ASSUME TypeOK, ChangeLog, Redistribute
    PROVE  ChangeLog' /\ DOMAIN matchServices' = alive /\ alive' = alive
<1>1. PICK d \in Distributions(ListsAfterChanges, LoadedAfterChanges,
                               UndistAfterRemovals, matches) : matchServices' = d.services
  BY DEF Redistribute
<1>2. d \in DistributionRecord(ServicesAfterChanges, Entries)
  BY RedistributeTyped
<1>3. DOMAIN matchServices' = ServicesAfterChanges
  BY <1>1, <1>2 DEF DistributionRecord
<1>4. changedServices' = {} /\ plan' = "current" /\ alive' = alive /\ reports' = reports
  BY DEF Redistribute
<1>5. \A k : ChangesOf(k)' = {}
  BY <1>4 DEF ChangesOf
<1>6. RegistryAgrees'
  BY <1>3, <1>4, <1>5 DEF ChangeLog, RegistryAgrees, ServicesAfterChanges
<1>7. QED
  BY <1>3, <1>4, <1>6
     DEF ChangeLog, RegistryAgrees, OneChangePerService, ChangesAreTimed, ReportsAreAlive

(***************************************************************************)
(* No order of connecting, connecting again, closing, reporting and        *)
(* expiring timers leaves two pending changes for a service, makes the     *)
(* table with its pending changes differ from the registered services, or  *)
(* leaves a pending change without an armed timer.                         *)
(***************************************************************************)
THEOREM ChangeLogCorrect ==
    Spec => [](OneChangePerService /\ RegistryAgrees /\ ChangesAreTimed /\ ReportsAreAlive)
<1>1. Init => ChangeLog
  BY DEF Init, ChangeLog, OneChangePerService, RegistryAgrees, ServicesAfterChanges,
         ChangesOf, ChangesAreTimed, ReportsAreAlive
<1>2. TypeOK /\ TypeOK' /\ ChangeLog /\ [Next]_vars => ChangeLog'
  <2> SUFFICES ASSUME TypeOK, TypeOK', ChangeLog, [Next]_vars PROVE ChangeLog'
    OBVIOUS
  <2>1. ASSUME NEW s \in Sids, RegisterNew(s) PROVE ChangeLog'
    <3>1. updateMatchService(s) /\ alive' = alive \cup {s} /\ reports' = reports
      BY <2>1 DEF RegisterNew
    <3> QED
      BY <3>1, UpdateKeepsLog DEF ChangeLog, ReportsAreAlive
  <2>2. ASSUME NEW s \in Sids, NEW ms \in recoverable, RegisterReconnected(s, ms)
        PROVE ChangeLog'
    <3>1. /\ updateMatchService(s) /\ alive' = alive \cup {s}
          /\ reports' = reports \cup {[sid |-> s, mids |-> ms.mids]}
      BY <2>2 DEF RegisterReconnected
    <3>2. ReportsAreAlive'
      BY <3>1 DEF ChangeLog, ReportsAreAlive
    <3> QED
      BY <3>1, <3>2, UpdateKeepsLog DEF ChangeLog
  <2>4. ASSUME NEW s \in alive, RemoveService(s) PROVE ChangeLog'
    <3>1. /\ removeMatchService(s) /\ alive' = alive \ {s}
          /\ reports' = {r \in reports : r.sid # s}
      BY <2>4 DEF RemoveService
    <3>2. ReportsAreAlive'
      BY <3>1 DEF ChangeLog, ReportsAreAlive
    <3> QED
      BY <3>1, <3>2, RemoveKeepsLog DEF ChangeLog
  <2>11. ASSUME NEW s \in alive, LoseConnection(s) PROVE ChangeLog'
    BY <2>11 DEF LoseConnection, manager, tables, known, clock, ChangeLog, OneChangePerService, RegistryAgrees,
                 ServicesAfterChanges, ChangesOf, ChangesAreTimed, ReportsAreAlive
  <2>5. ASSUME NEW r \in reports, checkServiceDistMap(r) PROVE ChangeLog'
    <3>1. CASE CheckKnown(r)
      BY <3>1 DEF CheckKnown, manager, tables, known, clock, ChangeLog, OneChangePerService, RegistryAgrees,
                  ServicesAfterChanges, ChangesOf, ChangesAreTimed, ReportsAreAlive
    <3>2. CASE CheckReconnect(r)
      <4>1. /\ DOMAIN matchServices' = DOMAIN matchServices \cup {r.sid}
            /\ changedServices' = {c \in changedServices : c.sid # r.sid}
            /\ r.sid \notin DOMAIN matchServices
            /\ alive' = alive /\ reports' = reports \ {r} /\ timer' = timer /\ plan' = plan
        BY <3>2 DEF CheckReconnect, clock
      <4>2. \A k, x : x \in ChangesOf(k)' <=> x # r.sid /\ x \in ChangesOf(k)
        BY <4>1 DEF ChangesOf, TypeOK
      <4>3. RegistryAgrees'
        <5>1. r.sid \in alive
          BY DEF ChangeLog, ReportsAreAlive
        <5>2. r.sid \in ChangesOf("Added")
          BY <4>1, <5>1 DEF ChangeLog, RegistryAgrees, ServicesAfterChanges
        <5> QED
          BY <4>1, <4>2, <5>1, <5>2 DEF ChangeLog, RegistryAgrees, ServicesAfterChanges
      <4>5. ChangesAreTimed'
        BY <4>1 DEF ChangeLog, ChangesAreTimed
      <4> QED
        BY <4>1, <4>3, <4>5 DEF ChangeLog, OneChangePerService, ReportsAreAlive
    <3>3. CASE CheckNoMatch(r)
      BY <3>3, ConstantsAssumption
         DEF CheckNoMatch, manager, tables, known, updateMatchesOrService, Armed, NoTimer, ChangeLog,
             OneChangePerService, RegistryAgrees, ServicesAfterChanges, ChangesOf,
             ChangesAreTimed, ReportsAreAlive
    <3> QED
      BY <2>5, <3>1, <3>2, <3>3 DEF checkServiceDistMap
  <2>6. ASSUME NEW m \in Matches, createdMatches(m) PROVE ChangeLog'
    BY <2>6, ConstantsAssumption
       DEF createdMatches, peers, updateMatchesOrService, Armed, NoTimer, ChangeLog,
           OneChangePerService, RegistryAgrees, ServicesAfterChanges, ChangesOf,
           ChangesAreTimed, ReportsAreAlive
  <2>7. ASSUME updateDistMatchServices PROVE ChangeLog'
    <3>1. CASE Redistribute
      BY <3>1, RedistributeKeepsLog
    <3>2. CASE Postpone
      BY <3>2, ConstantsAssumption
         DEF Postpone, manager, tables, known, peers, NoTimer, ChangeLog, OneChangePerService, RegistryAgrees,
             ServicesAfterChanges, ChangesOf, ChangesAreTimed, ReportsAreAlive
    <3> QED
      BY <2>7, <3>1, <3>2 DEF updateDistMatchServices
  <2>8. CASE Tick
    BY <2>8 DEF Tick, Advance, manager, tables, known, peers, NoTimer, TypeOK, ChangeLog, OneChangePerService,
                RegistryAgrees, ServicesAfterChanges, ChangesOf, ChangesAreTimed, ReportsAreAlive
  <2>9. CASE UNCHANGED vars
    BY <2>9 DEF vars, manager, tables, known, clock, peers, ChangeLog, OneChangePerService, RegistryAgrees,
                ServicesAfterChanges, ChangesOf, ChangesAreTimed, ReportsAreAlive
  <2>10. QED
    BY <2>1, <2>2, <2>4, <2>11, <2>5, <2>6, <2>7, <2>8, <2>9
       DEF Next, TimerExpires, StartupTimerExpires, OrphanRuns
<1>3. QED
  BY <1>1, <1>2, TypeCorrect, PTL DEF Spec, ChangeLog
-----------------------------------------------------------------------------
(***************************************************************************)
(* The partition of the matches, when match servers that lost their        *)
(* connection to a running CS do not come back.  What makes it inductive:  *)
(* apart from repeated matches, a list that can still be recovered holds   *)
(* every match once, none that is on a service, and none that is in        *)
(* another such list.  A list can be recovered while it is reported by a   *)
(* service that has no entry in the table, or, before the first            *)
(* redistribution, while its match server is still away.                   *)
(***************************************************************************)
Unentered == {r \in reports : r.sid \notin DOMAIN matchServices}

Once(list) == \A e, f \in list : e[1] = f[1] /\ e[1] \notin repeated => e = f

Apart(list, other) == Mids(list) \cap Mids(other) \subseteq repeated

ReportsRecoverable ==
    /\ \A r \in Unentered : Once(r.mids) /\ Apart(r.mids, Assigned)
    /\ \A r, q \in Unentered : r # q => Apart(r.mids, q.mids)

AwayRecoverable ==
    plan = "none" =>
        /\ \A x \in recoverable : Once(x.mids) /\ Apart(x.mids, Assigned)
        /\ \A x, y \in recoverable : x # y => Apart(x.mids, y.mids)
        /\ \A x \in recoverable, r \in Unentered : Apart(x.mids, r.mids)

PartitionIInv == Partition /\ ReportsRecoverable /\ AwayRecoverable

\* The ids of two lists together.
LEMMA MidsOfUnion ==
    ASSUME NEW list, NEW other
    PROVE  Mids(list \cup other) = Mids(list) \cup Mids(other)
BY DEF Mids

\* A step that leaves the services' lists alone, and adds no list to recover,
\* keeps the lists recoverable.
LEMMA RecoverableUntouched ==
    ASSUME PartitionIInv, matchServices' = matchServices, repeated \subseteq repeated',
           reports' \subseteq reports, recoverable' \subseteq recoverable,
           plan' = "none" => plan = "none"
    PROVE  ReportsRecoverable' /\ AwayRecoverable'
<1>1. Unentered' \subseteq Unentered /\ Assigned' = Assigned
  BY DEF Unentered, Assigned
<1>2. /\ \A list : Once(list) => Once(list)'
      /\ \A list, other : Apart(list, other) => Apart(list, other)'
  BY DEF Once, Apart
<1>3. ReportsRecoverable'
  BY <1>1, <1>2 DEF PartitionIInv, ReportsRecoverable, Once, Apart
<1>4. AwayRecoverable'
  BY <1>1, <1>2 DEF PartitionIInv, AwayRecoverable, Once, Apart
<1> QED
  BY <1>3, <1>4

\* A step that leaves table and matches alone as well keeps the invariant.
LEMMA PartitionUntouched ==
    ASSUME PartitionIInv,
           UNCHANGED <<matchServices, matches, undistMatches, repeated>>,
           reports' \subseteq reports, recoverable' \subseteq recoverable,
           plan' = "none" => plan = "none"
    PROVE  PartitionIInv'
<1>1. Partition'
  BY DEF PartitionIInv, Partition, Assigned
<1>2. ReportsRecoverable' /\ AwayRecoverable'
  BY RecoverableUntouched
<1> QED
  BY <1>1, <1>2 DEF PartitionIInv

\* A redistribution starts from lists and undistributed matches that are still
\* apart: the entries of removed services are undistributed.
LEMMA ChangesConserve ==
    ASSUME TypeOK, ChangeLog, Partition
    PROVE  Conserves([services |-> ListsAfterChanges, loaded |-> LoadedAfterChanges,
                      undist |-> UndistAfterRemovals, changed |-> {}],
                     undistMatches \cup Assigned)
<1> DEFINE kept    == DOMAIN matchServices \ ChangesOf("Removed")
           removed == ChangesOf("Removed") \cap DOMAIN matchServices
           back    == UNION {matchServices[s] : s \in removed}
<1>1. ChangesOf("Added") \cap DOMAIN matchServices = {}
  BY DEF ChangeLog, RegistryAgrees
<1>2. DOMAIN ListsAfterChanges = ServicesAfterChanges /\ kept \subseteq ServicesAfterChanges
  BY DEF ListsAfterChanges, ServicesAfterChanges
<1>3. \A s \in ServicesAfterChanges :
         ListsAfterChanges[s] = IF s \in kept THEN matchServices[s] ELSE {}
  BY DEF ListsAfterChanges
<1>4. UNION {ListsAfterChanges[s] : s \in ServicesAfterChanges}
        = UNION {matchServices[s] : s \in kept}
  <2> HIDE DEF kept
  <2> QED BY <1>2, <1>3
<1>5. UndistAfterRemovals = undistMatches \cup back
  BY DEF UndistAfterRemovals
<1>6. \A s \in kept, t \in removed : matchServices[s] \cap matchServices[t] = {}
  BY DEF Partition
<1>7. \A s \in kept : matchServices[s] \cap back = {}
  BY <1>6
<1>8. \A m : m \in Assigned <=> m \in back \/ m \in UNION {matchServices[s] : s \in kept}
  BY DEF Assigned
<1>9. undistMatches \cup Assigned
        = UndistAfterRemovals \cup UNION {matchServices[s] : s \in kept}
  <2> HIDE DEF kept, back
  <2> QED BY <1>5, <1>8
<1>10. UndistAfterRemovals \cap UNION {matchServices[s] : s \in kept} = {}
  <2> HIDE DEF kept, back
  <2> QED BY <1>5, <1>7, <1>8 DEF Partition
<1>11. \A s, t \in ServicesAfterChanges :
          s # t => ListsAfterChanges[s] \cap ListsAfterChanges[t] = {}
  BY <1>3 DEF Partition
<1> HIDE DEF kept, removed, back
<1>12. QED
  BY <1>2, <1>4, <1>9, <1>10, <1>11 DEF Conserves

\* The CS takes over the list of a service that outlived its earlier run.
LEMMA ReconnectKeepsPartition ==
    ASSUME TypeOK, PartitionIInv, NEW r \in reports, CheckReconnect(r)
    PROVE  PartitionIInv'
<1> DEFINE left == {e \in undistMatches : e[1] \notin Mids(r.mids)}
<1>1. PICK mids : mids = Renumbered(r.mids, left \cup Assigned)
  OBVIOUS
<1>2. /\ r \in Unentered
      /\ r.mids \in SUBSET Entries /\ mids \in SUBSET Entries
      /\ mids \cap left = {} /\ mids \cap Assigned = {}
  BY <1>1, RenumberedFree DEF CheckReconnect, Unentered, TypeOK
<1>3. /\ DOMAIN matchServices' = DOMAIN matchServices \cup {r.sid}
      /\ r.sid \notin DOMAIN matchServices
      /\ matchServices'[r.sid] = mids
      /\ \A s \in DOMAIN matchServices : matchServices'[s] = matchServices[s]
      /\ undistMatches' = left
      /\ matches' = matches /\ repeated' = repeated
      /\ recoverable' = recoverable /\ reports' = reports \ {r} /\ plan' = plan
  BY <1>1 DEF CheckReconnect, known
<1>4. SameList(mids, r.mids)
  BY <1>1 DEF CheckReconnect
<1>5. Mids(mids) = Mids(r.mids) /\ Once(r.mids) /\ Apart(r.mids, Assigned)
  BY <1>2, <1>4, SameListSameMids DEF PartitionIInv, ReportsRecoverable
<1>6. Once(mids)
  <2>1. \A m : m \notin repeated => \A e, f \in r.mids : e[1] = m /\ f[1] = m => e = f
    BY <1>5 DEF Once
  <2>2. \A m : m \notin repeated => \A e, f \in mids : e[1] = m /\ f[1] = m => e = f
    BY <1>2, <1>4, <2>1, SameListSameMids
  <2> QED
    BY <2>2 DEF Once
<1>7. Unentered' \subseteq Unentered \ {r}
  BY <1>3 DEF Unentered
<1>8. Assigned' = Assigned \cup mids
  BY <1>3 DEF Assigned
<1>9. \A s \in DOMAIN matchServices : matchServices[s] \cap mids = {}
  BY <1>2 DEF Assigned
<1>10. PICK all : all = undistMatches \cup Assigned
  OBVIOUS
<1>11. /\ matches \subseteq Mids(all)
       /\ undistMatches \cap Assigned = {}
       /\ \A s, t \in DOMAIN matchServices :
             s # t => matchServices[s] \cap matchServices[t] = {}
       /\ \A e, f \in all : e[1] = f[1] /\ e[1] \notin repeated => e = f
  BY <1>10 DEF PartitionIInv, Partition
<1>12. left \subseteq all /\ Assigned \subseteq all
       /\ \A e \in all : e \in left \/ e \in Assigned \/ e[1] \in Mids(mids)
  BY <1>5, <1>10
<1>13. \A e \in left : e[1] \notin Mids(mids)
  BY <1>5
<1>14. \A e \in mids : e[1] \in Mids(mids)
  BY DEF Mids
<1> HIDE DEF left
<1>15. Partition'
  <2>1. matches \subseteq Mids(left \cup (Assigned \cup mids))
    <3> SUFFICES ASSUME NEW m \in matches PROVE m \in Mids(left \cup (Assigned \cup mids))
      OBVIOUS
    <3>1. PICK e \in all : e[1] = m
      BY <1>11 DEF Mids
    <3>2. e \in left \/ e \in Assigned \/ \E f \in mids : f[1] = m
      BY <1>12, <3>1 DEF Mids
    <3> QED
      BY <3>1, <3>2 DEF Mids
  <2>2. left \cap (Assigned \cup mids) = {}
    BY <1>2, <1>10, <1>11, <1>12 DEF left
  <2>3. \A s, t \in DOMAIN matchServices \cup {r.sid} :
           s # t => matchServices'[s] \cap matchServices'[t] = {}
    BY <1>3, <1>9, <1>11
  <2>4. ASSUME NEW e \in left \cup (Assigned \cup mids), NEW f \in left \cup (Assigned \cup mids),
               e[1] = f[1], e[1] \notin repeated
        PROVE  e = f
    <3>1. CASE e \in left \cup Assigned /\ f \in left \cup Assigned
      BY <1>11, <1>12, <2>4, <3>1
    <3>2. CASE e \in mids /\ f \in mids
      BY <1>6, <2>4, <3>2 DEF Once
    <3>3. \A x \in Assigned, y \in mids : x[1] = y[1] => x[1] \in repeated
      BY <1>5 DEF Apart, Mids
    <3>4. \A x \in left, y \in mids : x[1] # y[1]
      BY <1>13, <1>14
    <3> QED
      BY <2>4, <3>1, <3>2, <3>3, <3>4
  <2>5. undistMatches' \cup Assigned' = left \cup (Assigned \cup mids)
    BY <1>3, <1>8
  <2> QED
    BY <1>3, <1>8, <2>1, <2>2, <2>3, <2>4, <2>5 DEF Partition
<1>16. \A list : Apart(list, Assigned) /\ Apart(list, r.mids) => Apart(list, Assigned)'
  <2>1. Mids(Assigned)' = Mids(Assigned) \cup Mids(r.mids)
    BY <1>5, <1>8, MidsOfUnion DEF Mids
  <2> QED
    BY <1>3, <2>1 DEF Apart, Mids
<1>17. ReportsRecoverable'
  BY <1>3, <1>2, <1>7, <1>16 DEF PartitionIInv, ReportsRecoverable, Once, Apart
<1>18. AwayRecoverable'
  BY <1>3, <1>2, <1>7, <1>16 DEF PartitionIInv, AwayRecoverable, Once, Apart
<1> QED
  BY <1>15, <1>17, <1>18 DEF PartitionIInv

\* A creation is reported, of a new match or of one that is known.
LEMMA CreationKeepsPartition ==
    ASSUME TypeOK, PartitionIInv, NEW m \in Matches, createdMatches(m)
    PROVE  PartitionIInv'
<1>1. PICK e \in Renumbered({<<m, 1>>}, Assigned) :
            undistMatches' = Unique(undistMatches \cup {e})
  BY DEF createdMatches
<1>2. e \in Entries /\ e \notin Assigned
  BY RenumberedFree
<1>3. e[1] = m
  <2>1. {<<m, 1>>} \in SUBSET Entries
    BY ConstantsAssumption DEF Entries, Copies
  <2>2. e[1] \in Mids({<<m, 1>>})
    BY <2>1, RenumberedMids
  <2> QED
    BY <2>2 DEF Mids
<1>4. /\ matches' = matches \cup {m}
      /\ repeated' = repeated \cup ({m} \cap Mids(Assigned))
      /\ UNCHANGED <<matchServices, reports, recoverable>>
      /\ plan' = "none" => plan = "none"
  BY DEF createdMatches, peers, Outdate
<1>5. Assigned' = Assigned
  BY <1>4 DEF Assigned
<1> DEFINE list == undistMatches \cup {e}
<1>6. list \in SUBSET Entries
  BY <1>2 DEF TypeOK
<1>7. /\ Unique(list) \subseteq list
      /\ Mids(Unique(list)) = Mids(list)
      /\ \A x, y \in Unique(list) : x[1] = y[1] => x = y
  BY <1>6, UniqueKeepsMids
<1>8. /\ matches \subseteq Mids(undistMatches \cup Assigned)
      /\ undistMatches \cap Assigned = {}
      /\ \A s, t \in DOMAIN matchServices :
            s # t => matchServices[s] \cap matchServices[t] = {}
      /\ \A x, y \in undistMatches \cup Assigned : x[1] = y[1] /\ x[1] \notin repeated => x = y
  BY DEF PartitionIInv, Partition
<1>9. Mids(list) = Mids(undistMatches) \cup {m}
  BY <1>3 DEF Mids
<1> HIDE DEF list
<1>10. matches' \subseteq Mids(Unique(list) \cup Assigned)
  <2>1. Mids(Unique(list) \cup Assigned) = Mids(list) \cup Mids(Assigned)
    BY <1>7, MidsOfUnion
  <2>2. Mids(undistMatches \cup Assigned) = Mids(undistMatches) \cup Mids(Assigned)
    BY MidsOfUnion
  <2> QED
    BY <1>4, <1>8, <1>9, <2>1, <2>2
<1>11. Unique(list) \cap Assigned = {}
  BY <1>2, <1>7, <1>8 DEF list
<1>12. ASSUME NEW x \in Unique(list), NEW y \in Assigned, x[1] = y[1], x[1] \notin repeated'
       PROVE  x = y
  <2>1. CASE x \in undistMatches
    BY <1>4, <1>8, <1>12, <2>1
  <2>2. CASE x = e
    <3>1. m \in Mids(Assigned)
      BY <1>3, <1>12, <2>2 DEF Mids
    <3> QED
      BY <1>3, <1>4, <1>12, <2>2, <3>1
  <2> QED
    BY <1>7, <2>1, <2>2 DEF list
<1>13. \A x, y \in Unique(list) \cup Assigned : x[1] = y[1] /\ x[1] \notin repeated' => x = y
  BY <1>4, <1>7, <1>8, <1>12
<1>14. Partition'
  BY <1>1, <1>4, <1>5, <1>8, <1>10, <1>11, <1>13 DEF Partition, list
<1>15. ReportsRecoverable' /\ AwayRecoverable'
  BY <1>4, RecoverableUntouched
<1> QED
  BY <1>14, <1>15 DEF PartitionIInv

\* Every step keeps the matches partitioned among the servers' lists.
LEMMA PartitionInvariant ==
    ASSUME ~Reconnects
    PROVE  Spec => []PartitionIInv
<1>1. Init /\ TypeOK => PartitionIInv
  <2> SUFFICES ASSUME Init, TypeOK PROVE PartitionIInv
    OBVIOUS
  <2>1. Assigned = {} /\ Unentered = {} /\ Mids(Assigned) = {}
    BY DEF Init, Assigned, Unentered, Mids
  <2>2. Partition
    <3>1. /\ undistMatches = {<<m, 1>> : m \in matches}
          /\ undistMatches \cup Assigned = undistMatches /\ DOMAIN matchServices = {}
      BY <2>1 DEF Init
    <3>2. \A m \in matches : <<m, 1>> \in undistMatches /\ <<m, 1>>[1] = m
      BY <3>1
    <3>3. matches \subseteq Mids(undistMatches)
      BY <3>2 DEF Mids
    <3>4. \A e, f \in undistMatches : e[1] = f[1] => e = f
      BY <3>1
    <3> QED
      BY <2>1, <3>1, <3>3, <3>4 DEF Partition
  <2>3. \A x \in recoverable : \A e \in x.mids : e[1] \in Matches
    BY DEF TypeOK, Entries
  <2>4. \A x \in recoverable : Once(x.mids)
    BY <2>3 DEF Init, Doubled, Once
  <2>5. \A x, y \in recoverable : x # y => Apart(x.mids, y.mids)
    BY <2>3 DEF Init, Doubled, Apart, Mids
  <2>6. \A x \in recoverable : Apart(x.mids, Assigned)
    BY <2>1 DEF Apart
  <2> QED
    BY <2>1, <2>2, <2>4, <2>5, <2>6
       DEF PartitionIInv, ReportsRecoverable, AwayRecoverable
<1>2. TypeOK /\ ChangeLog /\ PartitionIInv /\ [Next]_vars => PartitionIInv'
  <2> SUFFICES ASSUME TypeOK, ChangeLog, PartitionIInv, [Next]_vars PROVE PartitionIInv'
    OBVIOUS
  <2>1. ASSUME NEW s \in Sids, RegisterNew(s) PROVE PartitionIInv'
    BY <2>1, PartitionUntouched DEF RegisterNew, updateMatchService, tables, known, Outdate
  <2>2. ASSUME NEW s \in Sids, NEW ms \in recoverable, RegisterReconnected(s, ms)
        PROVE PartitionIInv'
    <3> DEFINE new == [sid |-> s, mids |-> ms.mids]
    <3>1. /\ plan = "none" /\ UNCHANGED <<matchServices, matches, undistMatches, repeated>>
          /\ reports' = reports \cup {new} /\ recoverable' = recoverable \ {ms}
      BY <2>2 DEF RegisterReconnected, updateMatchService, tables, known
    <3>2. Unentered' \subseteq Unentered \cup {new} /\ Assigned' = Assigned
      BY <3>1 DEF Unentered, Assigned
    <3>3. /\ Once(ms.mids) /\ Apart(ms.mids, Assigned)
          /\ \A r \in Unentered : Apart(ms.mids, r.mids)
          /\ \A x \in recoverable' : Apart(x.mids, ms.mids)
      BY <3>1 DEF PartitionIInv, AwayRecoverable
    <3>4. new.mids = ms.mids /\ new.sid = s
      OBVIOUS
    <3> HIDE DEF new
    <3>5. Partition'
      BY <3>1 DEF PartitionIInv, Partition, Assigned
    <3>6. ReportsRecoverable'
      BY <3>1, <3>2, <3>3, <3>4 DEF PartitionIInv, ReportsRecoverable, Once, Apart
    <3>7. AwayRecoverable'
      BY <3>1, <3>2, <3>3, <3>4 DEF PartitionIInv, AwayRecoverable, Once, Apart
    <3> QED
      BY <3>5, <3>6, <3>7 DEF PartitionIInv
  <2>4. ASSUME NEW s \in alive, RemoveService(s) PROVE PartitionIInv'
    BY <2>4, PartitionUntouched DEF RemoveService, removeMatchService, tables, known, Outdate
  <2>11. ASSUME NEW s \in alive, LoseConnection(s) PROVE FALSE
    BY <2>11 DEF LoseConnection
  <2>5. ASSUME NEW r \in reports, checkServiceDistMap(r) PROVE PartitionIInv'
    <3>1. CASE CheckKnown(r)
      BY <3>1, PartitionUntouched DEF CheckKnown, manager, tables, known
    <3>2. CASE CheckReconnect(r)
      BY <3>2, ReconnectKeepsPartition
    <3>3. CASE CheckNoMatch(r)
      BY <3>3, PartitionUntouched DEF CheckNoMatch, manager, tables, known
    <3> QED
      BY <2>5, <3>1, <3>2, <3>3 DEF checkServiceDistMap
  <2>6. ASSUME NEW m \in Matches, createdMatches(m) PROVE PartitionIInv'
    BY <2>6, CreationKeepsPartition
  <2>7. ASSUME updateDistMatchServices PROVE PartitionIInv'
    <3>1. CASE Redistribute
      <4>1. PICK d \in Distributions(ListsAfterChanges, LoadedAfterChanges,
                                     UndistAfterRemovals, matches) :
              matchServices' = d.services /\ undistMatches' = d.undist
        BY <3>1 DEF Redistribute
      <4>2. Conserves(d, undistMatches \cup Assigned)
        BY RedistributeTyped, ChangesConserve DEF PartitionIInv
      <4>3. matches' = matches /\ repeated' = repeated
        BY <3>1 DEF Redistribute, known
      <4>4. /\ undistMatches' \cup Assigned' = undistMatches \cup Assigned
            /\ undistMatches' \cap Assigned' = {}
            /\ \A s, t \in DOMAIN matchServices' :
                  s # t => matchServices'[s] \cap matchServices'[t] = {}
        BY <4>1, <4>2 DEF Conserves, Assigned
      <4>5. Partition'
        BY <4>3, <4>4 DEF PartitionIInv, Partition, Mids
      <4>6. Unentered' = {}
        BY <3>1, RedistributeKeepsLog
           DEF Redistribute, Unentered, ChangeLog, ReportsAreAlive, PartitionIInv
      <4>7. plan' = "current" /\ UNCHANGED <<recoverable, reports>>
        BY <3>1 DEF Redistribute
      <4> QED
        BY <4>5, <4>6, <4>7 DEF PartitionIInv, ReportsRecoverable, AwayRecoverable
    <3>2. CASE Postpone
      BY <3>2, PartitionUntouched DEF Postpone, manager, tables, known, peers
    <3> QED
      BY <2>7, <3>1, <3>2 DEF updateDistMatchServices
  <2>8. CASE Tick
    BY <2>8, PartitionUntouched DEF Tick, manager, tables, known, peers
  <2>9. CASE UNCHANGED vars
    BY <2>9, PartitionUntouched DEF vars, manager, tables, known, clock, peers
  <2>10. QED
    BY <2>1, <2>2, <2>4, <2>11, <2>5, <2>6, <2>7, <2>8, <2>9
       DEF Next, TimerExpires, StartupTimerExpires, OrphanRuns
<1>4. Spec => []ChangeLog
  BY ChangeLogCorrect, PTL DEF ChangeLog
<1>5. QED
  BY <1>1, <1>2, <1>4, TypeCorrect, PTL DEF Spec

(***************************************************************************)
(* As long as match servers that lost their connection to a running CS do  *)
(* not report back, no known match is lost and no element of a list is in  *)
(* two places; every match is undistributed or on exactly one service,     *)
(* once, unless its creation was reported again while it was on a service  *)
(* or an earlier run of the CS left it doubled: across registrations,      *)
(* failures of match servers, the recovery of lists after a restart of the *)
(* CS, repeated creations and every redistribution.                        *)
(***************************************************************************)
THEOREM MatchesPartitioned ==
    ASSUME ~Reconnects
    PROVE  Spec => []Partition
<1>1. PartitionIInv => Partition
  BY DEF PartitionIInv
<1>2. QED
  BY <1>1, PartitionInvariant, PTL

-----------------------------------------------------------------------------
(***************************************************************************)
(* Loads, balance and the lists of the match servers.                      *)
(***************************************************************************)
\* The loads of a distribution are the lengths of its lists.
LoadsTrue(d) ==
    \A s \in DOMAIN d.services : d.loaded[s] = Cardinality(d.services[s])

\* A list that is not reported as changed is the one in services.
Reported(d, services) ==
    \A s \in DOMAIN d.services : s \notin d.changed => d.services[s] = services[s]

\* No element waits while one of the services D is below its share of n, and
\* none is idle when there is one for each.
Fair(d, D, n) ==
    LET share == n \div Cardinality(D)
    IN  /\ d.undist = {} \/ \A s \in D : Cardinality(d.services[s]) >= share
        /\ share > 0 => \A s \in D : d.services[s] # {}
-----------------------------------------------------------------------------
(***************************************************************************)
(* Counting.                                                               *)
(***************************************************************************)

\* Lists of at most k matches hold at most k matches per service together.
LEMMA UnionBound ==
    ASSUME NEW M, IsFiniteSet(M), NEW D, IsFiniteSet(D), NEW lists \in [D -> SUBSET M],
           NEW k \in Nat, \A s \in D : Cardinality(lists[s]) <= k
    PROVE  /\ IsFiniteSet(UNION {lists[s] : s \in D})
           /\ Cardinality(UNION {lists[s] : s \in D}) <= Cardinality(D) * k
<1> DEFINE U == UNION {lists[s] : s \in D}
           K == 1..k
<1>1. IsFiniteSet(K) /\ Cardinality(K) = k
  BY FS_Interval
<1>2. ASSUME NEW s \in D
      PROVE  \E f \in [lists[s] -> K] : \A m, n \in lists[s] : f[m] = f[n] => m = n
  <2> DEFINE L == 1..Cardinality(lists[s])
  <2>1. IsFiniteSet(lists[s]) /\ Cardinality(lists[s]) \in Nat
    BY FS_Subset, FS_CardinalityType
  <2>2. IsFiniteSet(L) /\ Cardinality(L) = Cardinality(lists[s]) /\ L \subseteq K
    <3>1. PICK c \in Nat : c = Cardinality(lists[s]) /\ c <= k
      BY <2>1
    <3>2. IsFiniteSet(1..c) /\ Cardinality(1..c) = IF 1 > c THEN 0 ELSE c - 1 + 1
      BY FS_Interval
    <3>3. Cardinality(1..c) = c /\ 1..c \subseteq 1..k
      BY <3>1, <3>2
    <3> QED
      BY <3>1, <3>2, <3>3
  <2> HIDE DEF L, K
  <2>3. PICK f : f \in Bijection(lists[s], L)
    BY <2>1, <2>2, FS_SameCardinalityBij DEF ExistsBijection
  <2>4. f \in [lists[s] -> K] /\ \A m, n \in lists[s] : f[m] = f[n] => m = n
    <3>1. f \in [lists[s] -> L] /\ f \in Injection(lists[s], L)
      BY <2>3, Fun_BijectionProperties
    <3>2. \A m, n \in lists[s] : f[m] = f[n] => m = n
      BY <3>1, Fun_InjectionProperties
    <3> QED
      BY <2>2, <3>1, <3>2
  <2> QED
    BY <2>4
<1> HIDE DEF K
<1> DEFINE at    == [m \in U |-> CHOOSE s \in D : m \in lists[s]]
           index == [s \in D |-> CHOOSE f \in [lists[s] -> K] :
                                    \A m, n \in lists[s] : f[m] = f[n] => m = n]
           place == [m \in U |-> <<at[m], index[at[m]][m]>>]
<1>3. \A m \in U : at[m] \in D /\ m \in lists[at[m]]
  OBVIOUS
<1>4. \A s \in D : /\ index[s] \in [lists[s] -> K]
                   /\ \A m, n \in lists[s] : index[s][m] = index[s][n] => m = n
  BY <1>2
<1> HIDE DEF at, index
<1>5. place \in [U -> D \X K] /\ \A m, n \in U : place[m] = place[n] => m = n
  <2>1. \A m \in U : place[m] = <<at[m], index[at[m]][m]>>
    OBVIOUS
  <2>2. place \in [U -> D \X K]
    BY <1>3, <1>4
  <2> HIDE DEF place, U
  <2> QED
    BY <1>3, <1>4, <2>1, <2>2
<1> HIDE DEF place, U
<1>6. place \in Injection(U, D \X K)
  BY <1>5, Fun_IsInj
<1>7. IsFiniteSet(D \X K) /\ Cardinality(D \X K) = Cardinality(D) * k
  BY <1>1, FS_Product
<1>8. IsFiniteSet(U) /\ Cardinality(U) <= Cardinality(D) * k
  BY <1>6, <1>7, FS_Injection
<1> QED
  BY <1>8 DEF U

\* If one list is empty and no other is longer than the average, matches are
\* left over.
LEMMA AverageFits ==
    ASSUME NEW a \in Nat, NEW n \in Nat \ {0}, a \div n > 0
    PROVE  (n - 1) * (a \div n) < a
<1>1. a \div n \in Nat
  OBVIOUS
<1>2. n * (a \div n) <= a
  OBVIOUS
<1>3. (n - 1) * (a \div n) = n * (a \div n) - (a \div n)
  BY <1>1
<1> QED
  BY <1>1, <1>2, <1>3

\* When no list is longer than the average of some of the entries, rounded down,
\* none is empty.
LEMMA NoneIdle ==
    ASSUME NEW M, IsFiniteSet(M), NEW D, IsFiniteSet(D), NEW lists \in [D -> SUBSET M],
           M = UNION {lists[s] : s \in D}, NEW a \in Nat, a <= Cardinality(M),
           NEW k, k = a \div Cardinality(D), k > 0,
           \A s \in D : Cardinality(lists[s]) <= k
    PROVE  \A s \in D : lists[s] # {}
<1> SUFFICES ASSUME NEW s \in D, lists[s] = {} PROVE FALSE
  OBVIOUS
<1>1. /\ IsFiniteSet(D \ {s}) /\ Cardinality(D \ {s}) = Cardinality(D) - 1
      /\ Cardinality(D) \in Nat \ {0} /\ Cardinality(M) \in Nat
  <2>1. /\ IsFiniteSet(D \ {s}) /\ Cardinality(D \ {s}) = Cardinality(D) - 1
        /\ Cardinality(D) \in Nat /\ Cardinality(M) \in Nat
    BY FS_RemoveElement, FS_CardinalityType
  <2>2. Cardinality(D \ {s}) \in Nat
    BY <2>1, FS_CardinalityType
  <2> QED
    BY <2>1, <2>2
<1>2. k \in Nat
  BY <1>1
<1> DEFINE rest == [t \in D \ {s} |-> lists[t]]
<1>3. rest \in [D \ {s} -> SUBSET M] /\ \A t \in D \ {s} : Cardinality(rest[t]) <= k
  OBVIOUS
<1>4. UNION {rest[t] : t \in D \ {s}} = M
  <2>1. \A m \in M : \E t \in D : t # s /\ m \in lists[t]
    OBVIOUS
  <2>2. \A t \in D \ {s} : rest[t] = lists[t] /\ rest[t] \subseteq M
    OBVIOUS
  <2> HIDE DEF rest
  <2> QED
    BY <2>1, <2>2
<1> HIDE DEF rest
<1>5. Cardinality(M) <= (Cardinality(D) - 1) * k
  <2>1. Cardinality(UNION {rest[t] : t \in D \ {s}}) <= Cardinality(D \ {s}) * k
    BY <1>1, <1>2, <1>3, UnionBound
  <2> QED
    BY <1>1, <1>4, <2>1
<1>6. (Cardinality(D) - 1) * k < a
  BY <1>1, AverageFits
<1> QED
  BY <1>1, <1>2, <1>5, <1>6

-----------------------------------------------------------------------------
(***************************************************************************)
(* What the strategy does to loads and lists.                              *)
(***************************************************************************)

\* The fields of a distribution over the services D.
LEMMA Fields ==
    ASSUME NEW M, IsFiniteSet(M), NEW D, NEW d \in DistributionRecord(D, M)
    PROVE  /\ DOMAIN d.services = D /\ d.services \in [D -> SUBSET M]
           /\ d.undist \subseteq M /\ d.loaded \in [D -> Nat] /\ d.changed \subseteq D
           /\ IsFiniteSet(d.undist)
           /\ \A s \in D : IsFiniteSet(d.services[s]) /\ Cardinality(d.services[s]) \in Nat
           /\ \A s \in D : d.loaded[s] \in Nat
<1>1. /\ DOMAIN d.services = D /\ d.services \in [D -> SUBSET M]
      /\ d.undist \subseteq M /\ d.loaded \in [D -> Nat] /\ d.changed \subseteq D
  BY DEF DistributionRecord
<1>2. \A s \in D : d.services[s] \in SUBSET M
  BY <1>1
<1> QED
  BY <1>1, <1>2, FS_Subset, FS_CardinalityType

\* A round of distributeFill: lists only grow, up to the average, and a match
\* stays undistributed only if every service has reached the average.
LEMMA FillStep ==
    ASSUME NEW M, IsFiniteSet(M), NEW D, Nowhere \notin D, NEW average \in Nat,
           NEW e \in DistributionRecord(D, M), NEW f \in distributeFill(e, average)
    PROVE  /\ f \in DistributionRecord(D, M)
           /\ \A all : Conserves(e, all) => Conserves(f, all)
           /\ LoadsTrue(e) => LoadsTrue(f)
           /\ \A lists : Reported(e, lists) => Reported(f, lists)
           /\ \A s \in D : e.services[s] \subseteq f.services[s]
           /\ LoadsTrue(e) /\ (\A s \in D : e.undist \cap e.services[s] = {}) =>
                /\ \A s \in D : Cardinality(e.services[s]) <= average =>
                                   Cardinality(f.services[s]) <= average
                /\ f.undist # {} => \A s \in D : Cardinality(f.services[s]) >= average
<1>1. DOMAIN e.services = D
  BY Fields
<1>2. PICK to \in [e.undist -> D \cup {Nowhere}] : f = Give(e, to) /\ Fills(e, average, to)
  BY <1>1 DEF distributeFill
<1>3. f \in DistributionRecord(D, M) /\ \A all : Conserves(e, all) => Conserves(f, all)
  BY <1>2, GiveConserves
<1> DEFINE got(s)  == {m \in e.undist : to[m] = s}
           changed == {s \in D : \E m \in e.undist : to[m] = s}
<1>4. /\ DOMAIN f.services = D
      /\ f.changed = e.changed \cup changed
      /\ f.undist = got(Nowhere)
      /\ \A s \in D : f.services[s] = e.services[s] \cup got(s)
      /\ \A s \in D : f.loaded[s] = IF s \in changed THEN Cardinality(f.services[s])
                                                     ELSE e.loaded[s]
  BY <1>1, <1>2 DEF Give, updateLoaded, evaluate
<1>5. \A s \in D : s \notin changed => f.services[s] = e.services[s]
  <2>1. \A s \in D : s \notin changed => got(s) = {}
    OBVIOUS
  <2> HIDE DEF got, changed
  <2> QED
    BY <1>4, <2>1, ZenonT(30)
<1>6. \A s \in D : /\ got(s) = Gets(e, to, s)
                   /\ IsFiniteSet(got(s)) /\ Cardinality(got(s)) \in Nat
  <2>1. \A s \in D : got(s) \in SUBSET e.undist
    OBVIOUS
  <2> QED
    BY <2>1, Fields, FS_Subset, FS_CardinalityType DEF Gets
<1>7. /\ \A s \in D : Cardinality(got(s)) <= FillQuota(e, average, s)
      /\ f.undist # {} => \A s \in D : Cardinality(got(s)) = FillQuota(e, average, s)
  BY <1>1, <1>2, <1>4, <1>6 DEF Fills, Gets
<1> HIDE DEF got, changed
<1>8. LoadsTrue(e) => LoadsTrue(f)
  BY <1>1, <1>4, <1>5 DEF LoadsTrue
<1>9. \A lists : Reported(e, lists) => Reported(f, lists)
  BY <1>1, <1>4, <1>5 DEF Reported
<1>10. ASSUME LoadsTrue(e), \A s \in D : e.undist \cap e.services[s] = {}
       PROVE  /\ \A s \in D : Cardinality(e.services[s]) <= average =>
                                 Cardinality(f.services[s]) <= average
              /\ f.undist # {} => \A s \in D : Cardinality(f.services[s]) >= average
  <2>1. \A s \in D : Cardinality(f.services[s])
                       = Cardinality(e.services[s]) + Cardinality(got(s))
    <3> SUFFICES ASSUME NEW s \in D
                 PROVE  Cardinality(f.services[s])
                          = Cardinality(e.services[s]) + Cardinality(got(s))
      OBVIOUS
    <3>1. e.services[s] \cap got(s) = {}
      BY <1>10 DEF got
    <3>2. IsFiniteSet(e.services[s]) /\ Cardinality(e.services[s]) \in Nat
      BY Fields
    <3>3. Cardinality(e.services[s] \cup got(s))
            = Cardinality(e.services[s]) + Cardinality(got(s)) - Cardinality({})
      BY <1>6, <3>1, <3>2, FS_Union
    <3>4. Cardinality({}) = 0
      BY FS_EmptySet
    <3>5. Cardinality(got(s)) \in Nat /\ f.services[s] = e.services[s] \cup got(s)
      BY <1>4, <1>6
    <3> QED
      BY <3>2, <3>3, <3>4, <3>5
  <2>2. \A s \in D : e.loaded[s] = Cardinality(e.services[s]) /\ e.loaded[s] \in Nat
    BY <1>1, <1>10, Fields DEF LoadsTrue
  <2> QED
    BY <1>6, <1>7, <2>1, <2>2 DEF FillQuota
<1> QED
  BY <1>3, <1>4, <1>8, <1>9, <1>10

\* distributeClipping: nobody is cut below the average, and if it is due nobody
\* stays above it.
LEMMA ClipStep ==
    ASSUME NEW M, IsFiniteSet(M), NEW D, NEW average \in Nat,
           NEW e \in DistributionRecord(D, M), NEW c \in distributeClipping(e, average)
    PROVE  /\ c \in DistributionRecord(D, M)
           /\ \A all : Conserves(e, all) => Conserves(c, all)
           /\ LoadsTrue(e) => LoadsTrue(c)
           /\ \A lists : Reported(e, lists) => Reported(c, lists)
           /\ LoadsTrue(e) => \A s \in D :
                /\ Cardinality(e.services[s]) <= average => c.services[s] = e.services[s]
                /\ Cardinality(e.services[s]) > average =>
                      Cardinality(c.services[s]) >= average
                /\ ClippingDue(e) => Cardinality(c.services[s]) <= average
<1>1. DOMAIN e.services = D
  BY Fields
<1>2. CASE ~ClippingDue(e)
  <2>1. c = e
    BY <1>2 DEF distributeClipping
  <2> QED
    BY <1>2, <2>1, Fields
<1>3. CASE ClippingDue(e)
  <2>1. PICK cut : /\ c = TakeBack(e, cut)
                   /\ \A s \in D : cut[s] \in kSubset(ClipQuota(e, average, s), e.services[s])
    BY <1>1, <1>3 DEF distributeClipping
  <2>2. \A s \in D : /\ cut[s] \subseteq e.services[s]
                     /\ Cardinality(cut[s]) = ClipQuota(e, average, s)
    BY <2>1 DEF kSubset
  <2>3. c \in DistributionRecord(D, M) /\ \A all : Conserves(e, all) => Conserves(c, all)
    BY <2>1, <2>2, TakeBackConserves
  <2> DEFINE changed == {s \in D : cut[s] # {}}
  <2>4. /\ DOMAIN c.services = D
        /\ c.changed = e.changed \cup changed
        /\ \A s \in D : c.services[s] = e.services[s] \ cut[s]
        /\ \A s \in D : c.loaded[s] = IF s \in changed THEN Cardinality(c.services[s])
                                                       ELSE e.loaded[s]
    BY <1>1, <2>1 DEF TakeBack, updateLoaded, evaluate
  <2>5. \A s \in D : s \notin changed => c.services[s] = e.services[s]
    <3>1. \A s \in D : s \notin changed => cut[s] = {}
      OBVIOUS
    <3>2. \A s \in D : c.services[s] = e.services[s] \ cut[s]
      BY <2>4
    <3> HIDE DEF changed
    <3>3. \A X : X \ {} = X
      OBVIOUS
    <3> QED
      BY <3>1, <3>2, <3>3, Zenon
  <2> HIDE DEF changed
  <2>6. LoadsTrue(e) => LoadsTrue(c)
    BY <1>1, <2>4, <2>5 DEF LoadsTrue
  <2>7. \A lists : Reported(e, lists) => Reported(c, lists)
    BY <1>1, <2>4, <2>5 DEF Reported
  <2>8. ASSUME LoadsTrue(e), NEW s \in D
        PROVE  /\ Cardinality(e.services[s]) <= average => c.services[s] = e.services[s]
               /\ Cardinality(e.services[s]) > average =>
                     Cardinality(c.services[s]) >= average
               /\ Cardinality(c.services[s]) <= average
    <3>1. /\ IsFiniteSet(e.services[s]) /\ Cardinality(e.services[s]) \in Nat
          /\ e.loaded[s] = Cardinality(e.services[s])
      BY <1>1, <2>8, Fields DEF LoadsTrue
    <3>2. IsFiniteSet(cut[s])
      BY <2>2, <3>1, FS_Subset
    <3>3. CASE Cardinality(e.services[s]) <= average
      <4>1. cut[s] = {}
        BY <2>2, <3>1, <3>2, <3>3, FS_EmptySet DEF ClipQuota
      <4>2. c.services[s] = e.services[s]
        BY <2>4, <4>1
      <4> QED
        BY <3>1, <3>3, <4>2
    <3>4. CASE Cardinality(e.services[s]) > average
      <4> PICK n : n = Cardinality(e.services[s])
        OBVIOUS
      <4>1. n \in Nat /\ n - average <= n /\ ClipQuota(e, average, s) = Min({n - average, n})
        BY <3>1, <3>4 DEF ClipQuota
      <4>2. Min({n - average, n}) = n - average
        BY <4>1, <3>4 DEF Min
      <4>3. Cardinality(e.services[s] \ cut[s]) = n - Cardinality(e.services[s] \cap cut[s])
        BY <3>1, FS_Difference
      <4>4. e.services[s] \cap cut[s] = cut[s]
        BY <2>2
      <4>5. Cardinality(cut[s]) = n - average
        BY <2>2, <4>1, <4>2
      <4>6. c.services[s] = e.services[s] \ cut[s]
        BY <2>4
      <4>7. Cardinality(c.services[s]) = average
        <5>1. Cardinality(c.services[s]) = n - (n - average)
          BY <4>3, <4>4, <4>5, <4>6
        <5> QED
          BY <4>1, <5>1
      <4> QED
        BY <3>1, <3>4, <4>7
    <3> QED
      BY <3>1, <3>3, <3>4
  <2> QED
    BY <2>3, <2>6, <2>7, <2>8
<1> QED
  BY <1>2, <1>3

(***************************************************************************)
(* A call of the strategy with true loads keeps them true, reports every   *)
(* list it changed, and ends in balance: no match is left while a service  *)
(* is below the average, and no service is idle if the average is not 0.   *)
(***************************************************************************)
LEMMA OutcomeBalanced ==
    ASSUME NEW M, IsFiniteSet(M), NEW D, IsFiniteSet(D), Nowhere \notin D,
           NEW services \in [D -> SUBSET M], NEW load \in [D -> Nat],
           NEW undist \in SUBSET M, NEW all \in SUBSET M,
           NEW matchIds, Cardinality(matchIds) \in Nat,
           NEW d \in Distributions(services, load, undist, matchIds),
           \A s \in D : load[s] = Cardinality(services[s])
    PROVE  /\ LoadsTrue(d)
           /\ Reported(d, services)
           /\ Conserves([services |-> services, loaded |-> load, undist |-> undist,
                         changed |-> {}], all)
                /\ Cardinality(matchIds) <= Cardinality(all) /\ D # {} =>
                Fair(d, D, Cardinality(matchIds))
<1> DEFINE average == countPerService(matchIds, services)
           start   == [services |-> services, loaded |-> load, undist |-> undist,
                       changed |-> {}]
<1>1. start \in DistributionRecord(D, M) /\ LoadsTrue(start) /\ Reported(start, services)
  BY DEF DistributionRecord, LoadsTrue, Reported
<1>2. CASE D = {}
  <2>1. d = start
    BY <1>2 DEF Distributions
  <2> QED
    BY <1>1, <1>2, <2>1
<1>3. CASE D # {}
  <2>1. /\ average = Cardinality(matchIds) \div Cardinality(D)
        /\ Cardinality(matchIds) \in Nat /\ Cardinality(D) \in Nat \ {0} /\ IsFiniteSet(all)
    BY <1>3, FS_Subset, FS_CardinalityType, FS_EmptySet DEF countPerService
  <2>2. average \in Nat
    BY <2>1
  <2>3. PICK f \in distributeFill(start, average) :
          d \in UNION {IF c.undist = {} THEN {c} ELSE distributeFill(c, average)
                         : c \in distributeClipping(f, average)}
    <3>1. d \in UNION {UNION {IF c.undist = {} THEN {c} ELSE distributeFill(c, average)
                               : c \in distributeClipping(f, average)}
                        : f \in distributeFill(start, average)}
      BY <1>3, Zenon DEF Distributions
    <3> HIDE DEF start, average
    <3> QED
      BY <3>1, Zenon
  <2> HIDE DEF start, average
  <2>4. PICK c \in distributeClipping(f, average) :
          d \in IF c.undist = {} THEN {c} ELSE distributeFill(c, average)
    BY <2>3, Zenon
  <2>5. /\ f \in DistributionRecord(D, M) /\ LoadsTrue(f) /\ Reported(f, services)
        /\ \A a : Conserves(start, a) => Conserves(f, a)
    BY <1>1, <2>2, FillStep
  <2>6. /\ c \in DistributionRecord(D, M) /\ LoadsTrue(c) /\ Reported(c, services)
        /\ \A a : Conserves(f, a) => Conserves(c, a)
    BY <2>2, <2>5, ClipStep
  <2>7. /\ d \in DistributionRecord(D, M) /\ LoadsTrue(d) /\ Reported(d, services)
        /\ \A a : Conserves(c, a) => Conserves(d, a)
        /\ \A s \in D : c.services[s] \subseteq d.services[s]
    <3>1. CASE c.undist = {}
      BY <2>4, <2>6, <3>1
    <3>2. CASE c.undist # {}
      BY <2>2, <2>4, <2>6, <3>2, FillStep
    <3> QED
      BY <3>1, <3>2
  <2>8. ASSUME Conserves(start, all), Cardinality(matchIds) <= Cardinality(all)
        PROVE  /\ d.undist = {} \/ \A s \in D : Cardinality(d.services[s]) >= average
               /\ average > 0 => \A s \in D : d.services[s] # {}
    <3>1. Conserves(f, all) /\ Conserves(c, all) /\ Conserves(d, all)
      BY <2>5, <2>6, <2>7, <2>8
    <3>2. /\ DOMAIN start.services = D /\ DOMAIN f.services = D
          /\ DOMAIN c.services = D /\ DOMAIN d.services = D
          /\ d.services \in [D -> SUBSET M]
      BY <1>1, <2>5, <2>6, <2>7, Fields
    <3>3. \A e \in {start, f, c, d} : \A s \in D : Conserves(e, all) =>
             e.undist \cap e.services[s] = {}
      BY <3>2 DEF Conserves
    <3>4. \A s \in D : /\ Cardinality(f.services[s]) \in Nat
                       /\ Cardinality(c.services[s]) \in Nat
                       /\ Cardinality(d.services[s]) \in Nat
      BY <2>5, <2>6, <2>7, Fields
    <3>5. f.undist # {} => \A s \in D : Cardinality(f.services[s]) >= average
      BY <1>1, <2>2, <2>8, <3>3, FillStep
    <3>6. \A s \in D :
            /\ Cardinality(f.services[s]) <= average => c.services[s] = f.services[s]
            /\ Cardinality(f.services[s]) > average => Cardinality(c.services[s]) >= average
            /\ ClippingDue(f) => Cardinality(c.services[s]) <= average
      BY <2>2, <2>5, ClipStep
    <3>7. /\ d.undist # {} => \A s \in D : Cardinality(d.services[s]) >= average
          /\ \A s \in D : Cardinality(c.services[s]) <= average =>
                             Cardinality(d.services[s]) <= average
      <4>1. CASE c.undist = {}
        BY <2>4, <4>1
      <4>2. CASE c.undist # {}
        BY <2>2, <2>4, <2>6, <3>1, <3>3, <4>2, FillStep
      <4> QED
        BY <4>1, <4>2
    <3>8. \A s \in D : Cardinality(c.services[s]) > 0 => d.services[s] # {}
      <4>1. Cardinality({}) = 0
        BY FS_EmptySet
      <4>2. \A s \in D : c.services[s] \subseteq d.services[s]
        BY <2>7
      <4>3. \A s \in D : d.services[s] = {} => c.services[s] = {}
        BY <4>2
      <4>4. \A s \in D : d.services[s] = {} => Cardinality(c.services[s]) = 0
        BY <4>1, <4>3, Zenon
      <4> QED
        BY <4>4
    <3>9. ASSUME average > 0, NEW s \in D PROVE d.services[s] # {}
      <4>1. CASE Cardinality(f.services[s]) > 0
        BY <2>2, <3>4, <3>6, <3>8, <3>9, <4>1
      <4>2. CASE Cardinality(f.services[s]) = 0
        <5>1. ClippingDue(f)
          BY <2>5, <3>2, <4>2 DEF ClippingDue, tooFree, LoadsTrue
        <5>2. \A t \in D : Cardinality(d.services[t]) <= average
          BY <3>6, <3>7, <5>1
        <5>3. CASE d.undist # {}
          <6>1. Cardinality(d.services[s]) >= average
            BY <3>7, <5>3
          <6>2. Cardinality(d.services[s]) # 0
            BY <2>2, <3>4, <3>9, <6>1
          <6>3. Cardinality({}) = 0
            BY FS_EmptySet
          <6> QED
            BY <6>2, <6>3
        <5>4. CASE d.undist = {}
          <6>1. all = UNION {d.services[t] : t \in D}
            BY <3>1, <3>2, <5>4 DEF Conserves
          <6>2. d.services \in [D -> SUBSET all]
            BY <3>2, <6>1
          <6> QED
            <7> PICK a : a = Cardinality(matchIds)
              OBVIOUS
            <7>1. a \in Nat /\ a <= Cardinality(all) /\ average = a \div Cardinality(D)
              BY <2>1, <2>8
            <7> QED
              BY <2>1, <3>9, <5>2, <6>1, <6>2, <7>1, NoneIdle
        <5> QED
          BY <5>3, <5>4
      <4> QED
        BY <3>4, <4>1, <4>2
    <3> QED
      BY <3>7, <3>9
  <2> QED
    BY <1>3, <2>1, <2>7, <2>8 DEF start, Fair
<1> QED
  BY <1>2, <1>3

-----------------------------------------------------------------------------
(***************************************************************************)
(* The loads.  A sid is handed out once, so a registration never meets an  *)
(* entry of its sid in the table: the branch that keys a service with load *)
(* 0 whatever it runs (a change of type Update) is never taken.            *)
(***************************************************************************)
EntriesUsed == DOMAIN matchServices \subseteq used

NoUpdates == \A c \in changedServices : c.type # "Update"

LoadIInv == EntriesUsed /\ NoUpdates /\ LoadAccurate

\* A redistribution starts from true loads.
LEMMA LoadsAfterChanges ==
    ASSUME TypeOK, ChangeLog, LoadIInv
    PROVE  \A s \in ServicesAfterChanges :
              LoadedAfterChanges[s] = Cardinality(ListsAfterChanges[s])
<1> DEFINE kept == DOMAIN matchServices \ ChangesOf("Removed")
<1>1. ChangesOf("Update") = {}
  BY DEF LoadIInv, NoUpdates, ChangesOf
<1>2. DOMAIN matchServices \ (ChangesOf("Removed") \cup ChangesOf("Update")) = kept
  BY <1>1
<1>3. \A s \in ServicesAfterChanges :
        /\ LoadedAfterChanges[s] = IF s \in kept THEN loaded[s] ELSE 0
        /\ ListsAfterChanges[s] = IF s \in kept THEN matchServices[s] ELSE {}
  BY <1>2 DEF LoadedAfterChanges, ListsAfterChanges
<1>4. Cardinality({}) = 0
  BY FS_EmptySet
<1>5. \A s \in kept : loaded[s] = Cardinality(matchServices[s])
  BY DEF LoadIInv, LoadAccurate
<1> HIDE DEF kept
<1> QED
  BY <1>3, <1>4, <1>5

\* A list is at least as long as the number of the ids in it.
LEMMA KnownAreListed ==
    ASSUME NEW list \in SUBSET Entries, NEW ids, ids \subseteq Mids(list)
    PROVE  Cardinality(ids) <= Cardinality(list)
<1> DEFINE entry == [m \in ids |-> CHOOSE e \in list : e[1] = m]
<1>1. \A m \in ids : entry[m] \in list /\ entry[m][1] = m
  BY DEF Mids
<1>2. entry \in [ids -> list]
  BY <1>1
<1> HIDE DEF entry
<1>3. entry \in Injection(ids, list)
  BY <1>1, <1>2, Fun_IsInj
<1>4. IsFiniteSet(list)
  BY EntriesFinite, FS_Subset
<1> QED
  BY <1>3, <1>4, FS_Injection

\* The outcome of a redistribution.
LEMMA RedistributeOutcome ==
    ASSUME TypeOK, ChangeLog, LoadIInv,
           NEW d \in Distributions(ListsAfterChanges, LoadedAfterChanges,
                                   UndistAfterRemovals, matches)
    PROVE  /\ d \in DistributionRecord(alive, Entries)
           /\ LoadsTrue(d)
           /\ Reported(d, ListsAfterChanges)
           /\ Partition /\ alive # {} => Fair(d, alive, Cardinality(matches))
<1>1. ServicesAfterChanges = alive
  BY DEF ChangeLog, RegistryAgrees
<1>2. alive \subseteq Sids /\ IsFiniteSet(alive) /\ Nowhere \notin alive
  BY ConstantsAssumption, FS_Subset DEF TypeOK, Nowhere
<1>3. ListsAfterChanges \in [alive -> SUBSET Entries]
  BY <1>1 DEF TypeOK, ListsAfterChanges
<1>4. LoadedAfterChanges \in [alive -> Nat]
  BY <1>1 DEF TypeOK, LoadedAfterChanges
<1>5. UndistAfterRemovals \in SUBSET Entries /\ undistMatches \cup Assigned \in SUBSET Entries
  BY DEF TypeOK, UndistAfterRemovals, Assigned
<1>6. \A s \in alive : LoadedAfterChanges[s] = Cardinality(ListsAfterChanges[s])
  BY <1>1, LoadsAfterChanges
<1>7. Partition => Conserves([services |-> ListsAfterChanges, loaded |-> LoadedAfterChanges,
                              undist |-> UndistAfterRemovals, changed |-> {}],
                             undistMatches \cup Assigned)
  BY ChangesConserve
<1>8. d \in DistributionRecord(alive, Entries)
  BY <1>1, RedistributeTyped
<1>9. Partition => Cardinality(matches) <= Cardinality(undistMatches \cup Assigned)
  BY <1>5, KnownAreListed DEF Partition
<1>10. Cardinality(matches) \in Nat
  BY ConstantsAssumption, FS_Subset, FS_CardinalityType DEF TypeOK
<1> PICK M, D, lists, loads, left, all, ids :
        /\ M = Entries /\ D = alive
        /\ lists = ListsAfterChanges /\ loads = LoadedAfterChanges
        /\ left = UndistAfterRemovals /\ all = undistMatches \cup Assigned /\ ids = matches
  OBVIOUS
<1>11. /\ IsFiniteSet(M) /\ IsFiniteSet(D) /\ Nowhere \notin D
       /\ lists \in [D -> SUBSET M] /\ loads \in [D -> Nat]
       /\ left \in SUBSET M /\ all \in SUBSET M
       /\ Cardinality(ids) \in Nat
       /\ d \in Distributions(lists, loads, left, ids)
       /\ \A s \in D : loads[s] = Cardinality(lists[s])
  BY <1>2, <1>3, <1>4, <1>5, <1>6, <1>10, EntriesFinite
<1>12. /\ LoadsTrue(d)
       /\ Reported(d, lists)
       /\ Conserves([services |-> lists, loaded |-> loads, undist |-> left,
                     changed |-> {}], all)
            /\ Cardinality(ids) <= Cardinality(all) /\ D # {} =>
            Fair(d, D, Cardinality(ids))
  BY <1>11, OutcomeBalanced
<1> QED
  BY <1>7, <1>8, <1>9, <1>12

\* Every step keeps the loads accurate.
LEMMA LoadInvariant == Spec => []LoadIInv
<1>1. Init => LoadIInv
  BY DEF Init, LoadIInv, EntriesUsed, NoUpdates, LoadAccurate
<1>2. TypeOK /\ TypeOK' /\ ChangeLog /\ LoadIInv /\ [Next]_vars => LoadIInv'
  <2> SUFFICES ASSUME TypeOK, TypeOK', ChangeLog, LoadIInv, [Next]_vars PROVE LoadIInv'
    OBVIOUS
  <2>1. ASSUME NEW s \in Sids \ used, updateMatchService(s), used' = used \cup {s}
        PROVE  LoadIInv'
    <3>1. /\ changedServices' = {c \in changedServices : c.sid # s} \cup {Change("Added", s)}
          /\ UNCHANGED <<matchServices, loaded>>
      BY <2>1 DEF updateMatchService, tables, known, LoadIInv, EntriesUsed
    <3> QED
      BY <2>1, <3>1 DEF LoadIInv, EntriesUsed, NoUpdates, LoadAccurate, Change
  <2>2. ASSUME UNCHANGED <<matchServices, loaded, used>>, changedServices' \subseteq changedServices
        PROVE  LoadIInv'
    BY <2>2 DEF LoadIInv, EntriesUsed, NoUpdates, LoadAccurate
  <2>3. ASSUME NEW s \in Sids, RegisterNew(s) PROVE LoadIInv'
    BY <2>1, <2>3 DEF RegisterNew
  <2>4. ASSUME NEW s \in Sids, NEW ms \in recoverable, RegisterReconnected(s, ms)
        PROVE  LoadIInv'
    BY <2>1, <2>4 DEF RegisterReconnected
  <2>5. ASSUME NEW s \in alive, LoseConnection(s) PROVE LoadIInv'
    BY <2>2, <2>5 DEF LoseConnection, manager, tables, known
  <2>6. ASSUME NEW s \in alive, RemoveService(s) PROVE LoadIInv'
    BY <2>6 DEF RemoveService, removeMatchService, tables, known, Change, LoadIInv, EntriesUsed, NoUpdates,
                LoadAccurate
  <2>7. ASSUME NEW r \in reports, checkServiceDistMap(r) PROVE LoadIInv'
    <3>1. CASE CheckKnown(r)
      BY <2>2, <3>1 DEF CheckKnown, manager, tables, known
    <3>2. CASE CheckReconnect(r)
      <4>1. /\ DOMAIN matchServices' = DOMAIN matchServices \cup {r.sid}
            /\ loaded'[r.sid] = Cardinality(matchServices'[r.sid])
            /\ \A s \in DOMAIN matchServices \ {r.sid} :
                  matchServices'[s] = matchServices[s] /\ loaded'[s] = loaded[s]
            /\ changedServices' \subseteq changedServices /\ used' = used
        <5>1. PICK mids : mids = Renumbered(r.mids, {e \in undistMatches :
                                     e[1] \notin Mids(r.mids)} \cup Assigned)
          OBVIOUS
        <5> QED
          BY <3>2, <5>1 DEF CheckReconnect, evaluate
      <4>2. r.sid \in used
        BY DEF ChangeLog, ReportsAreAlive, TypeOK
      <4> QED
        BY <4>1, <4>2 DEF LoadIInv, EntriesUsed, NoUpdates, LoadAccurate
    <3>3. CASE CheckNoMatch(r)
      BY <2>2, <3>3 DEF CheckNoMatch, manager, tables, known
    <3> QED
      BY <2>7, <3>1, <3>2, <3>3 DEF checkServiceDistMap
  <2>8. ASSUME NEW m \in Matches, createdMatches(m) PROVE LoadIInv'
    BY <2>2, <2>8 DEF createdMatches, peers
  <2>9. ASSUME updateDistMatchServices PROVE LoadIInv'
    <3>1. CASE Redistribute
      <4>1. PICK d \in Distributions(ListsAfterChanges, LoadedAfterChanges,
                                     UndistAfterRemovals, matches) :
              matchServices' = d.services /\ loaded' = d.loaded
        BY <3>1 DEF Redistribute
      <4>2. d \in DistributionRecord(alive, Entries) /\ LoadsTrue(d)
        BY RedistributeOutcome
      <4>3. DOMAIN d.services = alive
        BY <4>2 DEF DistributionRecord
      <4>4. changedServices' = {} /\ used' = used
        BY <3>1 DEF Redistribute
      <4> QED
        BY <4>1, <4>2, <4>3, <4>4
           DEF LoadIInv, EntriesUsed, NoUpdates, LoadAccurate, LoadsTrue, TypeOK
    <3>2. CASE Postpone
      BY <2>2, <3>2 DEF Postpone, manager, tables, known, peers
    <3> QED
      BY <2>9, <3>1, <3>2 DEF updateDistMatchServices
  <2>10. CASE Tick
    BY <2>2, <2>10 DEF Tick, manager, tables, known, peers
  <2>11. CASE UNCHANGED vars
    BY <2>2, <2>11 DEF vars, manager, tables, known, clock, peers
  <2> QED
    BY <2>3, <2>4, <2>5, <2>6, <2>7, <2>8, <2>9, <2>10, <2>11
       DEF Next, TimerExpires, StartupTimerExpires, OrphanRuns
<1>3. Spec => []ChangeLog
  BY ChangeLogCorrect, PTL DEF ChangeLog
<1> QED
  BY <1>1, <1>2, <1>3, TypeCorrect, PTL DEF Spec

(***************************************************************************)
(* The load in the key of a service is the number of its matches in every  *)
(* reachable state: reports taken over, fill and clipping re-key what they *)
(* change, and no registration resets the load of a service with matches.  *)
(***************************************************************************)
THEOREM LoadsAccurate == Spec => []LoadAccurate
<1>1. LoadIInv => LoadAccurate
  BY DEF LoadIInv
<1> QED
  BY <1>1, LoadInvariant, PTL

-----------------------------------------------------------------------------
(***************************************************************************)
(* What the match servers hold.  While match servers that lost a running   *)
(* CS do not come back and no report is overtaken by a redistribution, a   *)
(* report is the list of a service that has no entry yet, and a service    *)
(* without a report holds what the table says, or nothing before it has an *)
(* entry.                                                                  *)
(***************************************************************************)
ReportsAreHeld ==
    \A r \in reports : r.sid \notin DOMAIN matchServices /\ held[r.sid] = r.mids

Silent(s) == \A r \in reports : r.sid # s

SilentHoldTheirs ==
    \A s \in alive : Silent(s) =>
        SameList(held[s], IF s \in DOMAIN matchServices THEN matchServices[s] ELSE {})

PeersIInv == ReportsAreHeld /\ SilentHoldTheirs

\* Having the same ids equally often is an equivalence of lists.
LEMMA SameListEquivalence ==
    ASSUME NEW x, NEW y, NEW z
    PROVE  /\ SameList(x, x)
           /\ SameList(x, y) => SameList(y, x)
           /\ SameList(x, y) /\ SameList(y, z) => SameList(x, z)
BY DEF SameList

\* A step that leaves table, lists and reports alone keeps what is held.
LEMMA PeersUntouched ==
    ASSUME PeersIInv, UNCHANGED <<matchServices, held, reports, alive>>
    PROVE  PeersIInv'
BY DEF PeersIInv, ReportsAreHeld, SilentHoldTheirs, Silent, SameList, Count

\* A redistribution sends a list to everybody whose list it changed.
LEMMA RedistributeKeepsPeers ==
    ASSUME TypeOK, ChangeLog, LoadIInv, PeersIInv, reports = {}, Redistribute
    PROVE  PeersIInv'
<1>1. PICK d \in Distributions(ListsAfterChanges, LoadedAfterChanges,
                               UndistAfterRemovals, matches) :
        matchServices' = d.services /\ held' = HeldAfterNotify(d)
  BY DEF Redistribute
<1>2. d \in DistributionRecord(alive, Entries) /\ Reported(d, ListsAfterChanges)
  BY RedistributeOutcome
<1>3. DOMAIN d.services = alive
  BY <1>2 DEF DistributionRecord
<1>4. reports' = {} /\ alive' = alive
  BY DEF Redistribute
<1>5. ASSUME NEW s \in alive PROVE SameList(held'[s], d.services[s])
  <2>1. held'[s] = IF s \in d.changed THEN d.services[s] ELSE held[s]
    BY <1>1 DEF HeldAfterNotify, TypeOK
  <2>2. SameList(held[s], IF s \in DOMAIN matchServices THEN matchServices[s] ELSE {})
    BY DEF PeersIInv, SilentHoldTheirs, Silent
  <2>3. s \in ServicesAfterChanges
    BY DEF ChangeLog, RegistryAgrees
  <2>4. s \in DOMAIN matchServices => s \notin ChangesOf("Removed")
    BY <2>3 DEF ServicesAfterChanges, ChangeLog, RegistryAgrees
  <2>5. SameList(held[s], ListsAfterChanges[s])
    BY <2>2, <2>3, <2>4 DEF ListsAfterChanges
  <2>6. s \notin d.changed => d.services[s] = ListsAfterChanges[s]
    BY <1>2, <1>3 DEF Reported
  <2> QED
    BY <2>1, <2>5, <2>6, SameListEquivalence
<1>6. SilentHoldTheirs'
  BY <1>1, <1>3, <1>4, <1>5 DEF SilentHoldTheirs, SameList, Count
<1> QED
  BY <1>4, <1>6 DEF PeersIInv, ReportsAreHeld

\* Every step leaves the MatchServers with the lists they were sent.
LEMMA PeersInvariant ==
    ASSUME ~Reconnects, ~SlowReports
    PROVE  Spec => []PeersIInv
<1>1. Init => PeersIInv
  BY DEF Init, PeersIInv, ReportsAreHeld, SilentHoldTheirs
<1>2. TypeOK /\ ChangeLog /\ LoadIInv /\ PeersIInv /\ [Next]_vars => PeersIInv'
  <2> SUFFICES ASSUME TypeOK, ChangeLog, LoadIInv, PeersIInv, [Next]_vars PROVE PeersIInv'
    OBVIOUS
  <2>0. /\ \A r \in reports : r.sid \in alive
        /\ alive \subseteq used /\ used \subseteq Sids
        /\ DOMAIN matchServices \subseteq used
        /\ held \in [Sids -> SUBSET Entries]
    BY DEF ChangeLog, ReportsAreAlive, TypeOK, LoadIInv, EntriesUsed
  <2>1. ASSUME NEW s \in Sids, RegisterNew(s) PROVE PeersIInv'
    <3>1. /\ s \notin used /\ alive' = alive \cup {s}
          /\ held' = [held EXCEPT ![s] = {}]
          /\ UNCHANGED <<matchServices, reports>>
      BY <2>1 DEF RegisterNew, updateMatchService, tables, known
    <3>2. held'[s] = {} /\ \A t \in alive : held'[t] = held[t]
      BY <2>0, <3>1
    <3>3. ReportsAreHeld'
      BY <2>0, <3>1, <3>2 DEF PeersIInv, ReportsAreHeld
    <3>4. SilentHoldTheirs'
      <4>1. s \notin DOMAIN matchServices
        BY <2>0, <3>1
      <4> QED
        BY <3>1, <3>2, <4>1 DEF PeersIInv, SilentHoldTheirs, Silent, SameList, Count
    <3> QED
      BY <3>3, <3>4 DEF PeersIInv
  <2>2. ASSUME NEW s \in Sids, NEW ms \in recoverable, RegisterReconnected(s, ms)
        PROVE  PeersIInv'
    <3>1. /\ s \notin used /\ alive' = alive \cup {s}
          /\ held' = [held EXCEPT ![s] = ms.mids]
          /\ reports' = reports \cup {[sid |-> s, mids |-> ms.mids]}
          /\ matchServices' = matchServices
      BY <2>2 DEF RegisterReconnected, updateMatchService, tables, known
    <3>2. held'[s] = ms.mids /\ \A t \in alive : held'[t] = held[t]
      BY <2>0, <3>1
    <3>3. ReportsAreHeld'
      BY <2>0, <3>1, <3>2 DEF PeersIInv, ReportsAreHeld
    <3>4. SilentHoldTheirs'
      <4>1. ~Silent(s)'
        <5>1. [sid |-> s, mids |-> ms.mids] \in reports'
          BY <3>1
        <5>2. [sid |-> s, mids |-> ms.mids].sid = s
          OBVIOUS
        <5> QED
          BY <5>1, <5>2, Zenon DEF Silent
      <4>2. \A t \in alive : Silent(t)' => Silent(t)
        BY <3>1 DEF Silent
      <4> QED
        BY <3>1, <3>2, <4>1, <4>2 DEF PeersIInv, SilentHoldTheirs, SameList, Count
    <3> QED
      BY <3>3, <3>4 DEF PeersIInv
  <2>3. ASSUME NEW s \in alive, LoseConnection(s) PROVE FALSE
    BY <2>3 DEF LoseConnection
  <2>4. ASSUME NEW s \in alive, RemoveService(s) PROVE PeersIInv'
    <3>1. /\ alive' = alive \ {s} /\ reports' = {r \in reports : r.sid # s}
          /\ matchServices' = matchServices
          /\ \A t \in alive' : held'[t] = held[t]
      BY <2>0, <2>4 DEF RemoveService, removeMatchService, tables, known
    <3>2. \A t \in alive' : Silent(t)' => Silent(t)
      BY <3>1 DEF Silent
    <3>3. ReportsAreHeld'
      BY <2>0, <3>1 DEF PeersIInv, ReportsAreHeld
    <3>4. SilentHoldTheirs'
      BY <3>1, <3>2 DEF PeersIInv, SilentHoldTheirs, SameList, Count
    <3> QED
      BY <3>3, <3>4 DEF PeersIInv
  <2>5. ASSUME NEW r \in reports, checkServiceDistMap(r) PROVE PeersIInv'
    <3>0. r.sid \notin DOMAIN matchServices /\ held[r.sid] = r.mids
      BY DEF PeersIInv, ReportsAreHeld
    <3>1. \A q \in reports : q.sid = r.sid => q = r
      <4>1. \A q \in reports : q.sid = r.sid => q.mids = r.mids
        BY <3>0 DEF PeersIInv, ReportsAreHeld
      <4> QED
        BY <4>1 DEF TypeOK
    <3>2. \A t \in alive : reports' = reports \ {r} /\ Silent(t)' => Silent(t) \/ t = r.sid
      BY DEF Silent
    <3>3. CASE CheckReconnect(r)
      <4>1. /\ DOMAIN matchServices' = DOMAIN matchServices \cup {r.sid}
            /\ SameList(matchServices'[r.sid], r.mids)
            /\ \A s \in DOMAIN matchServices : matchServices'[s] = matchServices[s]
            /\ reports' = reports \ {r} /\ UNCHANGED <<alive, held>>
        <5>1. PICK mids : mids = Renumbered(r.mids, {e \in undistMatches :
                                     e[1] \notin Mids(r.mids)} \cup Assigned)
          OBVIOUS
        <5> QED
          BY <3>0, <3>3, <5>1 DEF CheckReconnect
      <4>2. ReportsAreHeld'
        BY <3>1, <4>1 DEF PeersIInv, ReportsAreHeld
      <4>3. SilentHoldTheirs'
        <5>1. SameList(held[r.sid], matchServices'[r.sid])
          BY <3>0, <4>1, SameListEquivalence
        <5> QED
          BY <3>0, <3>2, <4>1, <5>1 DEF PeersIInv, SilentHoldTheirs, SameList, Count
      <4> QED
        BY <4>2, <4>3 DEF PeersIInv
    <3>4. CASE CheckNoMatch(r)
      <4>1. /\ r.mids = {} /\ reports' = reports \ {r}
            /\ UNCHANGED <<alive, held, matchServices>>
        BY <3>4 DEF CheckNoMatch, manager, tables, known
      <4>2. ReportsAreHeld'
        BY <4>1 DEF PeersIInv, ReportsAreHeld
      <4>3. SilentHoldTheirs'
        BY <3>0, <3>2, <4>1 DEF PeersIInv, SilentHoldTheirs, SameList, Count
      <4> QED
        BY <4>2, <4>3 DEF PeersIInv
    <3> QED
      BY <2>5, <3>0, <3>3, <3>4 DEF checkServiceDistMap, CheckKnown
  <2>6. ASSUME NEW m \in Matches, createdMatches(m) PROVE PeersIInv'
    BY <2>6, PeersUntouched DEF createdMatches, peers
  <2>7. ASSUME updateDistMatchServices PROVE PeersIInv'
    <3>1. CASE Redistribute
      <4>1. reports = {}
        BY <3>1 DEF Redistribute
      <4> QED
        BY <3>1, <4>1, RedistributeKeepsPeers
    <3>2. CASE Postpone
      BY <3>2, PeersUntouched DEF Postpone, manager, tables, known, peers
    <3> QED
      BY <2>7, <3>1, <3>2 DEF updateDistMatchServices
  <2>8. CASE Tick
    BY <2>8, PeersUntouched DEF Tick, manager, tables, known, peers
  <2>9. CASE UNCHANGED vars
    BY <2>9, PeersUntouched DEF vars, manager, tables, known, clock, peers
  <2> QED
    BY <2>1, <2>2, <2>3, <2>4, <2>5, <2>6, <2>7, <2>8, <2>9
       DEF Next, TimerExpires, StartupTimerExpires, OrphanRuns
<1>3. Spec => []ChangeLog
  BY ChangeLogCorrect, PTL DEF ChangeLog
<1> QED
  BY <1>1, <1>2, <1>3, LoadInvariant, TypeCorrect, PTL DEF Spec

(***************************************************************************)
(* Under the same two conditions a connected match server holds the list   *)
(* the CS has for it, each id as often, although the CS sends only the     *)
(* lists it believes have changed.                                         *)
(***************************************************************************)
THEOREM PeersHold ==
    ASSUME ~Reconnects, ~SlowReports
    PROVE  Spec => []PeersHoldTheirLists
<1>1. PeersIInv => PeersHoldTheirLists
  BY DEF PeersIInv, SilentHoldTheirs, Silent, PeersHoldTheirLists
<1> QED
  BY <1>1, PeersInvariant, PTL

(***************************************************************************)
(* Under the same two conditions no two connected match servers run the    *)
(* same match, also while the lists of match servers that outlived a       *)
(* restart of the CS are still being recovered, unless its creation was    *)
(* reported again while it was on a service or an earlier run doubled it.  *)
(***************************************************************************)
THEOREM NoneRunsTwice ==
    ASSUME ~Reconnects, ~SlowReports
    PROVE  Spec => []NoMatchRunsTwice
<1>1. TypeOK /\ PeersIInv /\ PartitionIInv => NoMatchRunsTwice
  <2> SUFFICES ASSUME TypeOK, PeersIInv, PartitionIInv,
                      NEW s \in alive \ lost, NEW t \in alive \ lost, s # t
               PROVE  Apart(held[s], held[t])
    BY DEF NoMatchRunsTwice, Apart
  \* What a service holds has the ids of its entry, or is a list to be
  \* recovered, or is nothing.
  <2>1. ASSUME NEW x \in alive
        PROVE  \/ x \in DOMAIN matchServices /\ Mids(held[x]) = Mids(matchServices[x])
               \/ \E r \in Unentered : r.sid = x /\ Mids(held[x]) = Mids(r.mids)
               \/ Mids(held[x]) = {}
    <3>1. held[x] \in SUBSET Entries /\ {} \in SUBSET Entries /\ Mids({}) = {}
          /\ (x \in DOMAIN matchServices => matchServices[x] \in SUBSET Entries)
      BY DEF TypeOK, Mids
    <3>2. CASE Silent(x)
      BY <3>1, <3>2, SameListSameMids DEF PeersIInv, SilentHoldTheirs
    <3>3. CASE ~Silent(x)
      BY <3>3 DEF PeersIInv, ReportsAreHeld, Silent, Unentered
    <3> QED
      BY <3>2, <3>3
  <2>2. \A x \in DOMAIN matchServices, r \in Unentered : Apart(matchServices[x], r.mids)
    <3>1. \A x \in DOMAIN matchServices : Mids(matchServices[x]) \subseteq Mids(Assigned)
      BY DEF Mids, Assigned
    <3> QED
      BY <3>1 DEF PartitionIInv, ReportsRecoverable, Apart
  <2>3. \A r, q \in Unentered : r # q => Apart(r.mids, q.mids)
    BY DEF PartitionIInv, ReportsRecoverable
  <2>4. ASSUME NEW x \in DOMAIN matchServices, NEW y \in DOMAIN matchServices, x # y
        PROVE  Apart(matchServices[x], matchServices[y])
    <3>1. \A e \in matchServices[x], f \in matchServices[y] : e # f
      BY <2>4 DEF PartitionIInv, Partition
    <3>2. \A e \in matchServices[x], f \in matchServices[y] : e[1] = f[1] => e[1] \in repeated
      BY <3>1 DEF PartitionIInv, Partition, Assigned
    <3> QED
      BY <3>2 DEF Apart, Mids
  <2> QED
    BY <2>1, <2>2, <2>3, <2>4 DEF Apart
<1> QED
  BY <1>1, TypeCorrect, PeersInvariant, PartitionInvariant, PTL
-----------------------------------------------------------------------------
(***************************************************************************)
(* The balance.  Once a redistribution is done no report is under way, and *)
(* whatever could disturb the balance asks for another redistribution.     *)
(***************************************************************************)
BalanceIInv == Balanced /\ (plan = "current" => reports = {})

\* Every redistribution leaves the lists balanced.
LEMMA BalanceInvariant ==
    ASSUME ~Reconnects, ~SlowReports
    PROVE  Spec => []BalanceIInv
<1>1. Init => BalanceIInv
  BY DEF Init, BalanceIInv, Balanced
<1>2. TypeOK /\ ChangeLog /\ LoadIInv /\ Partition /\ BalanceIInv /\ [Next]_vars => BalanceIInv'
  <2> SUFFICES ASSUME TypeOK, ChangeLog, LoadIInv, Partition, BalanceIInv, [Next]_vars
               PROVE  BalanceIInv'
    OBVIOUS
  <2>1. ASSUME plan' # "current" PROVE BalanceIInv'
    BY <2>1 DEF BalanceIInv, Balanced
  <2>2. ASSUME UNCHANGED <<matchServices, matches, undistMatches, reports, plan>>
        PROVE  BalanceIInv'
    BY <2>2 DEF BalanceIInv, Balanced, countPerService
  <2>3. ASSUME NEW s \in Sids, RegisterNew(s) PROVE BalanceIInv'
    BY <2>1, <2>3 DEF RegisterNew, updateMatchService, tables, known, Outdate
  <2>4. ASSUME NEW s \in Sids, NEW ms \in recoverable, RegisterReconnected(s, ms)
        PROVE  BalanceIInv'
    BY <2>1, <2>4 DEF RegisterReconnected, updateMatchService, tables, known, Outdate
  <2>5. ASSUME NEW s \in alive, LoseConnection(s) PROVE FALSE
    BY <2>5 DEF LoseConnection
  <2>6. ASSUME NEW s \in alive, RemoveService(s) PROVE BalanceIInv'
    BY <2>1, <2>6 DEF RemoveService, removeMatchService, tables, known, Outdate
  <2>7. ASSUME NEW r \in reports, checkServiceDistMap(r) PROVE BalanceIInv'
    <3>1. plan # "current" /\ plan' = plan
      BY <2>7 DEF BalanceIInv, checkServiceDistMap, CheckKnown, CheckReconnect, CheckNoMatch
    <3> QED
      BY <2>1, <3>1
  <2>8. ASSUME NEW m \in Matches, createdMatches(m) PROVE BalanceIInv'
    BY <2>1, <2>8 DEF createdMatches, Outdate
  <2>9. ASSUME updateDistMatchServices PROVE BalanceIInv'
    <3>1. CASE Redistribute
      <4>1. PICK d \in Distributions(ListsAfterChanges, LoadedAfterChanges,
                                     UndistAfterRemovals, matches) :
              matchServices' = d.services /\ undistMatches' = d.undist
        BY <3>1 DEF Redistribute
      <4>2. /\ d \in DistributionRecord(alive, Entries)
            /\ alive # {} => Fair(d, alive, Cardinality(matches))
        BY RedistributeOutcome
      <4>3. DOMAIN d.services = alive
        BY <4>2 DEF DistributionRecord
      <4>4. reports' = {} /\ matches' = matches
        BY <3>1 DEF Redistribute, known
      <4>5. Balanced'
        BY <4>1, <4>2, <4>3, <4>4 DEF Balanced, countPerService, Fair
      <4> QED
        BY <4>4, <4>5 DEF BalanceIInv
    <3>2. CASE Postpone
      BY <2>2, <3>2 DEF Postpone, manager, tables, known, peers
    <3> QED
      BY <2>9, <3>1, <3>2 DEF updateDistMatchServices
  <2>10. CASE Tick
    BY <2>2, <2>10 DEF Tick, manager, tables, known, peers
  <2>11. CASE UNCHANGED vars
    BY <2>2, <2>11 DEF vars, manager, tables, known, clock, peers
  <2> QED
    BY <2>3, <2>4, <2>5, <2>6, <2>7, <2>8, <2>9, <2>10, <2>11
       DEF Next, TimerExpires, StartupTimerExpires, OrphanRuns
<1>3. Spec => []ChangeLog
  BY ChangeLogCorrect, PTL DEF ChangeLog
<1> QED
  BY <1>1, <1>2, <1>3, LoadInvariant, MatchesPartitioned, TypeCorrect, PTL DEF Spec

(***************************************************************************)
(* Under the same two conditions a redistribution ends in balance, for     *)
(* every number of matches and services: no match waits while a service is *)
(* below its share, and no service idles when there is a match for each.   *)
(***************************************************************************)
THEOREM RedistributionsBalance ==
    ASSUME ~Reconnects, ~SlowReports
    PROVE  Spec => []Balanced
<1>1. BalanceIInv => Balanced
  BY DEF BalanceIInv
<1> QED
  BY <1>1, BalanceInvariant, PTL

(***************************************************************************)
(* The timer that will apply a pending change is armed in every reachable  *)
(* state, whichever handlers ran in between.                               *)
(***************************************************************************)
THEOREM ChangesTimed == Spec => []ChangesAreTimed
BY ChangeLogCorrect, PTL
=============================================================================
