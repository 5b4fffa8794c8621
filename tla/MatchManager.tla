---------------------------- MODULE MatchManager ----------------------------
(***************************************************************************)
(* CSMatchManager, the part of the CentralServer (CS) that decides which   *)
(* match server (MS) runs which match, with the two things around it that  *)
(* its correctness depends on: the connections the CSKernel registers, and *)
(* the match list each MS holds (MSMatchManager::matches_).                *)
(*                                                                         *)
(* All handlers run on the one io_context thread of the CS, so a handler   *)
(* is one action.  Time is counted in units of five seconds.               *)
(*                                                                         *)
(* A list of match ids (std::list<int>) may hold an id more than once.  It *)
(* is a set of entries <<id, number>>; the entries of one id in the lists  *)
(* of the CS have different numbers, so that the same entry in two of them *)
(* would be one element of a list in two places.                           *)
(***************************************************************************)
EXTENDS MatchDistribution

CONSTANTS
    Matches,        \* the match ids that can ever exist
    Sids,           \* the service ids the CSKernel can hand out
    QuietPeriod,    \* updateDuration: 25 s without a change before a redistribution
    TimerPeriod,    \* the re-check timer: 10 s
    StartupDelay,   \* the self check after the start of the CS: 20 s
    OldSids,        \* the match servers that outlive an earlier run of the CS, by
                    \* the sid they had then
    OldLists,       \* the lists such a match server can hold
    Reconnects,     \* may an MS that lost its connection to a running CS come back?
    SlowReports,    \* may a report of an MS still be under way at a redistribution?
    MaxCopies,      \* bound: entries of one match in the lists of the CS
    MaxRepeats      \* bound: creations reported of a match that is known already

Copies  == 1..MaxCopies
Entries == Matches \X Copies

ASSUME ConstantsAssumption ==
    /\ IsFiniteSet(Matches)
    /\ IsFiniteSet(Sids) /\ Sids \subseteq Nat
    /\ QuietPeriod \in Nat \ {0}
    /\ TimerPeriod \in Nat \ {0}
    /\ StartupDelay \in Nat
    /\ IsFiniteSet(OldSids) /\ OldSids \cap Sids = {}
    /\ OldLists \subseteq SUBSET Entries
    /\ Reconnects \in BOOLEAN
    /\ SlowReports \in BOOLEAN
    /\ MaxCopies \in Nat \ {0}
    /\ MaxRepeats \in Nat

VARIABLES
    matchServices,    \* sid -> the list distributed to it (matchServices_)
    loaded,           \* sid -> the loaded field of its key in matchServices_
    matches,          \* the known matches (keys of matches_)
    undistMatches,    \* the list of matches without a service (undistMatches_)
    changedServices,  \* the changes not yet applied (changedServices_)
    timer,            \* units until timer_ expires, NoTimer when timer_ is null
    startupTimer,     \* the same for the one-shot timer of initialize()
    orphan,           \* a handler of a replaced, already expired timer_ is queued
    quiet,            \* units since matchLatestUpdateTime_, up to QuietPeriod
    alive,            \* sessions registered as a match service (servers_)
    used,             \* sids handed out so far (a sid is the uuid of a session)
    lost,             \* sessions the MS has lost, which the CS may not know yet
    recoverable,      \* last sid and match list of MSs that run without a connection
    reports,          \* CheckMatchDistributeRQ messages on their way to the CS
    held,             \* the match list of the MS on each session, {} without one
    plan,             \* "none" before the first redistribution, then "current"
                      \* until a change asks for another one, then "outdated"
    repeated,         \* history: the matches reported as created while they were on
                      \* a service, or left doubled by an earlier run of the CS
    repeats           \* how often a known match was reported as created

known   == <<matches, repeated, repeats>>
tables  == <<matchServices, loaded, undistMatches>>
manager == <<tables, known, changedServices>>
clock   == <<timer, startupTimer, orphan, quiet>>
peers   == <<alive, used, lost, recoverable, reports, held>>
vars    == <<manager, clock, peers, plan>>

NoTimer == -1

\* The ids in a list, and how often an id is in it.
Mids(list)     == {e[1] : e \in list}
Count(list, m) == Cardinality({e \in list : e[1] = m})

\* The lists hold the same ids, each equally often; list has an id that other
\* has less often or not at all (std::set_difference finds it).
SameList(list, other) == \A m \in Matches : Count(list, m) = Count(other, m)
Exceeds(list, other)  == \E m \in Matches : Count(list, m) > Count(other, m)

\* std::list::unique on a sorted list: one entry of each id is left.
Unique(list) == {CHOOSE e \in list : e[1] = m : m \in Mids(list)}

\* The entries of list under the lowest numbers that are not taken.
Renumbered(list, taken) ==
    {e \in Entries \ taken :
        Cardinality({k \in 1..e[2] : <<e[1], k>> \notin taken}) <= Count(list, e[1])}

\* What the services have.
Assigned == UNION {matchServices[s] : s \in DOMAIN matchServices}

Change(type, s) == [type |-> type, sid |-> s]
ChangesOf(type) == {c.sid : c \in {x \in changedServices : x.type = type}}
-----------------------------------------------------------------------------
TypeOK ==
    /\ DOMAIN matchServices \subseteq Sids
    /\ matchServices \in [DOMAIN matchServices -> SUBSET Entries]
    /\ loaded \in [DOMAIN matchServices -> Nat]
    /\ matches \subseteq Matches
    /\ undistMatches \subseteq Entries
    /\ changedServices \subseteq [type : {"Added", "Update", "Removed"}, sid : Sids]
    /\ timer \in {NoTimer} \cup 0..TimerPeriod
    /\ startupTimer \in {NoTimer} \cup 0..StartupDelay
    /\ orphan \in BOOLEAN
    /\ quiet \in 0..QuietPeriod
    /\ alive \subseteq used /\ used \subseteq Sids
    /\ lost \subseteq Sids
    /\ recoverable \subseteq [sid : Sids \cup OldSids, mids : SUBSET Entries]
    /\ reports \subseteq [sid : Sids, mids : SUBSET Entries]
    /\ held \in [Sids -> SUBSET Entries]
    /\ plan \in {"none", "current", "outdated"}
    /\ repeated \subseteq Matches
    /\ repeats \in 0..MaxRepeats

(***************************************************************************)
(* initialize(): every match is undistributed and the one-shot self check  *)
(* is armed.  The match servers of an earlier run of the CS still hold the *)
(* lists that run gave them, and are about to reconnect.                   *)
(***************************************************************************)
Doubled(R) ==
    {m \in Matches : \E x, y \in R : \E e \in x.mids, f \in y.mids :
                        e[1] = m /\ f[1] = m /\ (x # y \/ e # f)}

Init ==
    /\ matchServices = [s \in {} |-> {}]
    /\ loaded = [s \in {} |-> 0]
    /\ matches \in SUBSET Matches
    /\ undistMatches = {<<m, 1>> : m \in matches}
    /\ changedServices = {}
    /\ timer = NoTimer
    /\ startupTimer = StartupDelay
    /\ orphan = FALSE
    /\ quiet = 0
    /\ alive = {}
    /\ used = {}
    /\ lost = {}
    /\ \E S \in SUBSET OldSids : \E list \in [S -> OldLists] :
          recoverable = {[sid |-> s, mids |-> list[s]] : s \in S}
    /\ reports = {}
    /\ held = [s \in Sids |-> {}]
    /\ plan = "none"
    /\ repeated = Doubled(recoverable)
    /\ repeats = 0
-----------------------------------------------------------------------------
\* startTimerCheckDistMatchServices: arms timer_ unless it is armed.
Armed(t) == IF t = NoTimer THEN TimerPeriod ELSE t

\* updateMatchesOrService: remembers the time of the change, arms the timer.
updateMatchesOrService ==
    /\ quiet' = 0
    /\ timer' = Armed(timer)
    /\ UNCHANGED <<startupTimer, orphan>>

Outdate == plan' = IF plan = "none" THEN "none" ELSE "outdated"

\* updateMatchService: the newest change replaces the earlier ones of the sid.
updateMatchService(s) ==
    /\ changedServices' =
         {c \in changedServices : c.sid # s}
           \cup {Change(IF s \in DOMAIN matchServices THEN "Update" ELSE "Added", s)}
    /\ updateMatchesOrService
    /\ Outdate
    /\ UNCHANGED <<tables, known>>

\* Mutation of removeMatchService: a departure is always entered.
RemoveAlwaysEntered(s) ==
    /\ changedServices' =
         {c \in changedServices : c.sid # s} \cup {Change("Removed", s)}
    /\ updateMatchesOrService
    /\ Outdate
    /\ UNCHANGED <<tables, known>>

\* removeMatchService: a service that was only about to be added is forgotten.
removeMatchService(s) ==
    /\ changedServices' =
         {c \in changedServices : c.sid # s}
           \cup (IF Change("Added", s) \in changedServices
                 THEN {} ELSE {Change("Removed", s)})
    /\ updateMatchesOrService
    /\ Outdate
    /\ UNCHANGED <<tables, known>>
-----------------------------------------------------------------------------
(***************************************************************************)
(* Registration of match servers by the CSKernel (serverRegistRQ,          *)
(* removeService), as far as it calls the match manager.                   *)
(***************************************************************************)

\* A match server connects for the first time: it holds no match.
RegisterNew(s) ==
    /\ s \in Sids \ used
    /\ alive' = alive \cup {s}
    /\ used' = used \cup {s}
    /\ held' = [held EXCEPT ![s] = {}]
    /\ updateMatchService(s)
    /\ UNCHANGED <<lost, recoverable, reports>>

\* A running match server connects again, on session s, and reports the list
\* it holds (M2CSession::sendInitData).  It registers with the logicID of its
\* session, which is never its sid: the answer to a registration lists the CS
\* itself among the services to connect to, and addNewConnect gives the session
\* that is already there the sid of the CS, which no registry is as large as.
\* So it gets a new sid.
RegisterReconnected(s, ms) ==
    /\ s \in Sids \ used
    /\ ms \in recoverable
    /\ Reconnects \/ plan = "none"
    /\ alive' = alive \cup {s}
    /\ used' = used \cup {s}
    /\ recoverable' = recoverable \ {ms}
    /\ reports' = reports \cup {[sid |-> s, mids |-> ms.mids]}
    /\ held' = [held EXCEPT ![s] = ms.mids]
    /\ updateMatchService(s)
    /\ UNCHANGED lost

\* A match server loses its connection, and the CS does not notice yet.
LoseConnection(s) ==
    /\ Reconnects
    /\ s \in alive \ lost
    /\ lost' = lost \cup {s}
    /\ recoverable' = recoverable \cup {[sid |-> s, mids |-> held[s]]}
    /\ UNCHANGED <<manager, clock, alive, used, reports, held, plan>>

\* The session of a service closes, with what it had still to deliver.
RemoveService(s) ==
    /\ s \in alive
    /\ alive' = alive \ {s}
    /\ reports' = {r \in reports : r.sid # s}
    /\ held' = [held EXCEPT ![s] = {}]
    /\ removeMatchService(s)
    /\ UNCHANGED <<used, lost, recoverable>>
-----------------------------------------------------------------------------
(***************************************************************************)
(* checkServiceDistMap and the reply of CSKernel::checkMatchDistributeRQ,  *)
(* which the MS applies (MSKernel::checkMatchDistributeRS).  Replies and   *)
(* notifications reach the MS in the order they were sent and nothing      *)
(* depends on when, so they take effect at once.                           *)
(***************************************************************************)

\* The result when the service has an entry: More overrides Less.
CheckError(s, mids) ==
    IF Exceeds(mids, matchServices[s]) THEN "ErrorMatchServerMore"
    ELSE IF Exceeds(matchServices[s], mids) THEN "ErrorMatchServerLess"
    ELSE "ErrorNo"

\* The list the MS holds after the reply: with More the reply carries the
\* MS's own list, with Less it carries none, and the MS takes it as it is.
HeldAfterReply(r) ==
    CASE CheckError(r.sid, r.mids) = "ErrorMatchServerMore" -> r.mids
      [] CheckError(r.sid, r.mids) = "ErrorMatchServerLess" -> {}
      [] OTHER -> held[r.sid]

CheckKnown(r) ==
    /\ r \in reports
    /\ r.sid \in DOMAIN matchServices
    /\ reports' = reports \ {r}
    /\ held' = [held EXCEPT ![r.sid] = HeldAfterReply(r)]
    /\ UNCHANGED <<manager, clock, alive, used, lost, recoverable, plan>>

\* ErrorReconnect: the CS takes over what the service says it holds, and no
\* entry of a match in that list stays undistributed.
CheckReconnect(r) ==
    LET left     == {e \in undistMatches : e[1] \notin Mids(r.mids)}
        mids     == Renumbered(r.mids, left \cup Assigned)
        services == DOMAIN matchServices \cup {r.sid}
    IN  /\ r \in reports
        /\ r.sid \notin DOMAIN matchServices
        /\ r.mids # {}
        /\ SameList(mids, r.mids)
        /\ reports' = reports \ {r}
        /\ matchServices' = [s \in services |->
                               IF s = r.sid THEN mids ELSE matchServices[s]]
        /\ loaded' = [s \in services |-> IF s = r.sid THEN evaluate(mids) ELSE loaded[s]]
        /\ undistMatches' = left
        /\ changedServices' = {c \in changedServices : c.sid # r.sid}
        /\ UNCHANGED <<known, clock, alive, used, lost, recoverable, held, plan>>

\* ErrorNoMatch: neither side knows of a match of this service.
CheckNoMatch(r) ==
    /\ r \in reports
    /\ r.sid \notin DOMAIN matchServices
    /\ r.mids = {}
    /\ reports' = reports \ {r}
    /\ updateMatchesOrService
    /\ UNCHANGED <<manager, alive, used, lost, recoverable, held, plan>>

checkServiceDistMap(r) == CheckKnown(r) \/ CheckReconnect(r) \/ CheckNoMatch(r)

\* createdMatches: the DB thread has stored a new match.  Its id may be one that
\* is known (the SELECT after the INSERT can find an older row): addUndistriteMatches
\* drops it only among the undistributed ones, so that a match that is on a
\* service gets a second entry.
createdMatches(m) ==
    /\ repeats' = repeats + (IF m \in matches THEN 1 ELSE 0)
    /\ repeats' <= MaxRepeats
    /\ matches' = matches \cup {m}
    /\ \E e \in Renumbered({<<m, 1>>}, Assigned) :
          undistMatches' = Unique(undistMatches \cup {e})
    /\ repeated' = repeated \cup ({m} \cap Mids(Assigned))
    /\ updateMatchesOrService
    /\ Outdate
    /\ UNCHANGED <<matchServices, loaded, changedServices, peers>>
-----------------------------------------------------------------------------
(***************************************************************************)
(* updateDistMatchServices, once the quiet period is over.                 *)
(***************************************************************************)

\* Mutation of UndistAfterRemovals: the matches of removed services are lost.
UndistForgetsRemoved == undistMatches

\* 1: the matches of removed services become undistributed.
UndistAfterRemovals ==
    undistMatches \cup
        UNION {matchServices[s] : s \in ChangesOf("Removed") \cap DOMAIN matchServices}

\* 1 and 3: removed services leave the map, added ones enter it.
ServicesAfterChanges ==
    (DOMAIN matchServices \ ChangesOf("Removed")) \cup ChangesOf("Added")

\* 3: an added service starts with no match; one already there keeps its list.
ListsAfterChanges ==
    [s \in ServicesAfterChanges |->
        IF s \in DOMAIN matchServices \ ChangesOf("Removed")
        THEN matchServices[s] ELSE {}]

\* Mutation of LoadedAfterChanges: the keys of removed services stay.
LoadedKeepsRemoved ==
    [s \in DOMAIN matchServices \cup ChangesOf("Added") |->
        IF s \in DOMAIN matchServices THEN loaded[s] ELSE 0]

\* 2: an updated service is keyed with the load of its ServerInfo, which
\* nothing ever sets: it is 0, whatever the service runs.
LoadedAfterChanges ==
    [s \in ServicesAfterChanges |->
        IF s \in DOMAIN matchServices \ (ChangesOf("Removed") \cup ChangesOf("Update"))
        THEN loaded[s] ELSE 0]

\* distributeMatch: each list that changed is sent to the session of its sid.
HeldAfterNotify(d) ==
    [s \in Sids |-> IF s \in d.changed THEN d.services[s] ELSE held[s]]

\* 4: the strategy, then the new lists are sent to the services that changed
\* (changedMatchMapCB_ = CSKernel::distributeMatch).  The timer stays off:
\* the list tested for "matches are left" was emptied by the merge of 1.
Redistribute ==
    /\ SlowReports \/ reports = {}
    /\ \E d \in Distributions(ListsAfterChanges, LoadedAfterChanges,
                              UndistAfterRemovals, matches) :
          /\ matchServices' = d.services
          /\ loaded' = d.loaded
          /\ undistMatches' = d.undist
          /\ held' = HeldAfterNotify(d)
    /\ changedServices' = {}
    /\ plan' = "current"
    /\ timer' = NoTimer
    /\ UNCHANGED <<known, alive, used, lost, recoverable, reports>>

\* Mutation of Postpone: the timer is stopped and not armed anew.
PostponeForGood ==
    /\ timer' = NoTimer
    /\ UNCHANGED <<manager, peers, plan>>

\* Otherwise the timer is stopped and armed anew.
Postpone ==
    /\ timer' = TimerPeriod
    /\ UNCHANGED <<manager, peers, plan>>

updateDistMatchServices ==
    /\ UNCHANGED quiet
    /\ \/ quiet >= QuietPeriod /\ Redistribute
       \/ quiet < QuietPeriod /\ Postpone

\* The handler of timer_ runs.
TimerExpires ==
    /\ timer = 0
    /\ updateDistMatchServices
    /\ UNCHANGED <<startupTimer, orphan>>

\* The handler of the timer of initialize() runs.  It replaces timer_: a
\* handler of timer_ that is queued by then can no longer be cancelled.
StartupTimerExpires ==
    /\ startupTimer = 0
    /\ startupTimer' = NoTimer
    /\ orphan' = (orphan \/ timer = 0)
    /\ updateDistMatchServices

\* The handler that could not be cancelled runs.
OrphanRuns ==
    /\ orphan
    /\ orphan' = (timer = 0)
    /\ updateDistMatchServices
    /\ UNCHANGED startupTimer

\* A unit of time passes; an expired timer may wait for its handler.
Advance(t) == IF t > 0 THEN t - 1 ELSE t

Tick ==
    /\ timer' = Advance(timer)
    /\ startupTimer' = Advance(startupTimer)
    /\ quiet' = IF quiet < QuietPeriod THEN quiet + 1 ELSE quiet
    /\ UNCHANGED <<manager, orphan, peers, plan>>
-----------------------------------------------------------------------------
Next ==
    \/ \E s \in Sids : RegisterNew(s)
    \/ \E s \in Sids, ms \in recoverable : RegisterReconnected(s, ms)
    \/ \E s \in alive : LoseConnection(s)
    \/ \E s \in alive : RemoveService(s)
    \/ \E r \in reports : checkServiceDistMap(r)
    \/ \E m \in Matches : createdMatches(m)
    \/ TimerExpires
    \/ StartupTimerExpires
    \/ OrphanRuns
    \/ Tick

Spec == Init /\ [][Next]_vars

\* Time passes, and the io_context runs what has expired or arrived.
Fairness ==
    /\ WF_vars(Tick)
    /\ WF_vars(TimerExpires)
    /\ WF_vars(StartupTimerExpires)
    /\ WF_vars(OrphanRuns)
    /\ WF_vars(\E r \in reports : checkServiceDistMap(r))

FairSpec == Spec /\ Fairness
-----------------------------------------------------------------------------
(***************************************************************************)
(* "changedServices_ holds one change per sid" (the comment above          *)
(* updateDistMatchServices): whatever order connections are made, repeated *)
(* and lost in, no service has two pending changes.                        *)
(***************************************************************************)
OneChangePerService ==
    \A c, d \in changedServices : c.sid = d.sid => c = d

(***************************************************************************)
(* The manager's table with the pending changes applied is exactly the set *)
(* of match services the CSKernel has registered: no change is lost, and   *)
(* steps 2 and 3 of updateDistMatchServices never meet the cases they log  *)
(* as errors.                                                              *)
(***************************************************************************)
RegistryAgrees ==
    /\ alive = ServicesAfterChanges
    /\ ChangesOf("Added") \cap DOMAIN matchServices = {}
    /\ ChangesOf("Update") \cup ChangesOf("Removed") \subseteq DOMAIN matchServices

(***************************************************************************)
(* While a change waits to be applied, the timer that will apply it is     *)
(* armed: no early return, cancelled timer or late handler forgets it.     *)
(***************************************************************************)
ChangesAreTimed ==
    changedServices # {} \/ plan = "outdated" => timer # NoTimer

(***************************************************************************)
(* No known match is lost, no element of a list is in two places, and a    *)
(* match is undistributed or on one service, once: through failures of     *)
(* match servers, the recovery after a restart of the CS, fill, clipping   *)
(* and repeated creations.  Only a match whose creation is reported again  *)
(* while it is on a service, or which an earlier run left doubled, is at   *)
(* two places.                                                             *)
(***************************************************************************)
Partition ==
    LET all == undistMatches \cup Assigned
    IN  /\ matches \subseteq Mids(all)
        /\ undistMatches \cap Assigned = {}
        /\ \A s, t \in DOMAIN matchServices :
              s # t => matchServices[s] \cap matchServices[t] = {}
        /\ \A e, f \in all : e[1] = f[1] /\ e[1] \notin repeated => e = f

(***************************************************************************)
(* The load in the key of a service, which orders fill and clipping, is    *)
(* the length of its list, whatever reports and redistributions did.       *)
(***************************************************************************)
LoadAccurate ==
    \A s \in DOMAIN matchServices : loaded[s] = Cardinality(matchServices[s])

(***************************************************************************)
(* Right after a redistribution no match waits while a service is below    *)
(* its share, and no service idles when there is a match for each.         *)
(***************************************************************************)
Balanced ==
    plan = "current" /\ DOMAIN matchServices # {} =>
        LET share == countPerService(matches, matchServices)
        IN  /\ \/ undistMatches = {}
               \/ \A s \in DOMAIN matchServices : Cardinality(matchServices[s]) >= share
            /\ share > 0 => \A s \in DOMAIN matchServices : matchServices[s] # {}

(***************************************************************************)
(* Each connected match server holds exactly the list the CS has for it,   *)
(* although the CS only sends the lists it believes have changed.          *)
(***************************************************************************)
PeersHoldTheirLists ==
    \A s \in (alive \ lost) \cap DOMAIN matchServices :
        (\A r \in reports : r.sid # s) => SameList(held[s], matchServices[s])

(***************************************************************************)
(* No two connected match servers come to run the same match, after a      *)
(* restart of the CS either: "MSs send the matches distributed to them to  *)
(* the CS", which recovers them (the comments at the top of                *)
(* CSMatchManager.hpp).  A match that Partition excepts can.               *)
(***************************************************************************)
NoMatchRunsTwice ==
    \A s, t \in alive \ lost : s # t => Mids(held[s]) \cap Mids(held[t]) \subseteq repeated

(***************************************************************************)
(* The start of the CS and every later change of services or matches is    *)
(* followed by a redistribution, whichever timers, late handlers and       *)
(* further changes come between: a registered service gets its entry.      *)
(***************************************************************************)
ChangesAreApplied == plan # "current" ~> plan = "current"

(***************************************************************************)
(* What a comment of the code says and the code does not do.               *)
(***************************************************************************)

\* "Matches are left undistributed": the comment above the restart of the
\* timer at the end of updateDistMatchServices.
LeftoversAreTimed ==
    plan = "current" /\ undistMatches # {} /\ DOMAIN matchServices # {} => timer # NoTimer
=============================================================================
