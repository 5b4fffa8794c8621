---------------------------- MODULE MatchCreation ----------------------------
(***************************************************************************)
(* The creation of a match over the web, across three threads of the CS:   *)
(* the web thread checks a request, hands it to the DB thread and waits on *)
(* a promise; the DB thread stores the match, queues the rest of the work  *)
(* for the main thread and keeps the promise; the main thread enters the   *)
(* match into matches_ and into the distribution.                          *)
(*                                                                         *)
(* crow runs its handlers on one thread.  That thread is started before    *)
(* the main thread has loaded matches_.  The work queued for the main      *)
(* thread refers to a local variable of the DB thread's function, which    *)
(* may have ended, or may have been called again, by the time it runs.     *)
(***************************************************************************)
EXTENDS Integers, Sequences, FiniteSets

CONSTANTS
    Slots,         \* start times and types of matches
    Fees,          \* entry fees
    Stored,        \* the matches in the database when the CS starts
    Faults,        \* which queries may fail: "insert", "select"
    MaxRequests,   \* bound: requests to create a match
    StrayMids      \* bound: the mids that are found in freed memory

\* The mids of rows, of rows to come, and the one of no match.
INVALID_MID == -1
Mids == 1..(Len(Stored) + MaxRequests) \cup {INVALID_MID}

Profiles == [slot : Slots, fee : Fees]

ASSUME CreationAssumption ==
    /\ Stored \in Seq(Profiles)
    /\ Faults \subseteq {"insert", "select"}
    /\ MaxRequests \in Nat
    /\ StrayMids \subseteq Mids

VARIABLES
    rows,          \* the table match_infos; the mid of a row is its number
    matches,       \* matches_, from mids to profiles
    undist,        \* the mids that were handed to addUndistriteMatches
    initialized,   \* has initialize() run?
    requests,      \* what was asked for, in order; promise ids are their numbers
    waiting,       \* the request the web thread waits for, 0 if for none
    answers,       \* what each request was answered: a mid, an error, nothing yet
    promises,      \* what setData has put into promiseMap_, by promise id
    events,        \* the requests queued for the DB thread
    frame,         \* newmatch, the local variable of createMatch on the DB thread
    step,          \* how far createMatch is
    mainQueue,     \* the work queued for the main thread, by promise id
    dangled,       \* did some of it run when its variable was no longer its own?
    crashed        \* the CS has ended on that, or on what it left behind

web  == <<requests, waiting, answers>>
db   == <<rows, promises, events, frame, step>>
main == <<matches, undist, initialized, dangled, crashed>>
vars == <<web, db, main, mainQueue>>

\* A match in matches_ whose memory is no longer its own.
Gone == [gone |-> TRUE]

Errors == {"kCreateMatch_ErrorTimeOut", "kCreateMatch_ErrorHasExist"}
nothing == "nothing"

\* An answer or the value of a promise: a mid, an error or nothing yet.
Mid(mid)   == [mid |-> mid]
Error(err) == [error |-> err]
Results    == {Mid(mid) : mid \in Mids} \cup {Error(e) : e \in Errors \cup {nothing}}

TypeOK ==
    /\ rows \in Seq(Profiles)
    /\ DOMAIN matches \subseteq Mids
    /\ \A mid \in DOMAIN matches : matches[mid] \in Profiles \cup {Gone}
    /\ undist \subseteq Mids
    /\ requests \in Seq(Profiles) /\ Len(requests) <= MaxRequests
    /\ waiting \in 0..Len(requests)
    /\ answers \in [1..MaxRequests -> Results] /\ promises \in [1..MaxRequests -> Results]
    /\ events \in Seq(1..MaxRequests) /\ mainQueue \in Seq(1..MaxRequests)
    /\ frame.id \in 0..MaxRequests /\ frame.mid \in Mids
    /\ step \in {"idle", "dispatched", "kept"}
    /\ initialized \in BOOLEAN /\ dangled \in BOOLEAN /\ crashed \in BOOLEAN

Init ==
    /\ rows = Stored
    /\ matches = <<>>
    /\ undist = {}
    /\ initialized = FALSE
    /\ requests = <<>>
    /\ waiting = 0
    /\ answers = [id \in 1..MaxRequests |-> Error(nothing)]
    /\ promises = [id \in 1..MaxRequests |-> Error(nothing)]
    /\ events = <<>>
    /\ frame = [id |-> 0, mid |-> INVALID_MID]
    /\ step = "idle"
    /\ mainQueue = <<>>
    /\ dangled = FALSE
    /\ crashed = FALSE
-----------------------------------------------------------------------------
(***************************************************************************)
(* The web thread.                                                         *)
(***************************************************************************)

HasGone == \E mid \in DOMAIN matches : matches[mid] = Gone

\* createMatchValid, for a match that starts too soon or late enough.  It
\* reads matches_, which the main thread may be about to change, and where a
\* match that is gone can look like any other: the codes it can return.
createMatchValid(profile, soon) ==
    IF soon THEN {Error("kCreateMatch_ErrorTimeOut")}
    ELSE IF \E mid \in DOMAIN matches : matches[mid] = profile
    THEN {Error("kCreateMatch_ErrorHasExist")}
    ELSE IF HasGone
    THEN {Error("kCreateMatch_ErrorHasExist"), Error(nothing)}
    ELSE {Error(nothing)}

\* "/match/create": nextPromise, createMatch, and the wait on the future, or
\* the answer when the check fails; the promise then stays in promiseMap_.
Request(profile, soon) ==
    LET id == Len(requests) + 1
    IN /\ waiting = 0
       /\ Len(requests) < MaxRequests
       /\ requests' = Append(requests, profile)
       /\ \E code \in createMatchValid(profile, soon) :
             /\ answers' = [answers EXCEPT ![id] = code]
             /\ \/ code = Error(nothing) /\ waiting' = id /\ events' = Append(events, id)
                \/ code # Error(nothing) /\ UNCHANGED <<waiting, events>>
       /\ UNCHANGED <<rows, promises, frame, step, main, mainQueue>>

\* future.get() returns: the answer is the mid in the data of the promise.
Answer ==
    /\ waiting # 0
    /\ promises[waiting] # Error(nothing)
    /\ answers' = [answers EXCEPT ![waiting] = promises[waiting]]
    /\ waiting' = 0
    /\ UNCHANGED <<requests, db, main, mainQueue>>
-----------------------------------------------------------------------------
(***************************************************************************)
(* The DB thread, which initialize() starts when matches_ is loaded.       *)
(***************************************************************************)

\* Mutation of queryMatchMid: the last row is taken to be the one inserted.
LastRow(profile, table, fails) ==
    IF fails \/ table = <<>> THEN {INVALID_MID} ELSE {Len(table)}

\* Mutation of queryMatchMid: 0, the mid of a request, when there is no row.
RowOrZero(profile, table, fails) ==
    LET found == {mid \in DOMAIN table : table[mid].slot = profile.slot}
    IN IF fails \/ found = {} THEN {0} ELSE found

\* queryMatchMid: any one of the rows with the start time and the type.
queryMatchMid(profile, table, fails) ==
    LET found == {mid \in DOMAIN table : table[mid].slot = profile.slot}
    IN IF fails \/ found = {} THEN {INVALID_MID} ELSE found

\* createAndStoreMatch: the INSERT, whose failure is only logged, and the SELECT.
createAndStoreMatch(id, failed) ==
    LET profile == requests[id]
    IN /\ rows' = IF "insert" \in failed THEN rows ELSE Append(rows, profile)
       /\ \E mid \in queryMatchMid(profile, rows', "select" \in failed) :
              frame' = [id |-> id, mid |-> mid]

\* Mutation of StoreAndDispatch: after a failed INSERT nothing is queued.
StoreAndDispatchIfStored ==
    /\ initialized
    /\ step = "idle" /\ events # <<>>
    /\ \E failed \in SUBSET Faults :
          /\ createAndStoreMatch(Head(events), failed)
          /\ mainQueue' = IF "insert" \in failed THEN mainQueue
                         ELSE Append(mainQueue, Head(events))
    /\ events' = Tail(events)
    /\ step' = "dispatched"
    /\ UNCHANGED <<web, promises, main>>

\* createMatch as far as the work for the main thread is queued.
StoreAndDispatch ==
    /\ initialized
    /\ step = "idle" /\ events # <<>>
    /\ \E failed \in SUBSET Faults :
          /\ createAndStoreMatch(Head(events), failed)
          /\ mainQueue' = Append(mainQueue, Head(events))
    /\ events' = Tail(events)
    /\ step' = "dispatched"
    /\ UNCHANGED <<web, promises, main>>

\* Mutation of setData: a match without a mid is not reported.
SetValidData ==
    /\ step = "dispatched"
    /\ promises' = IF frame.mid = INVALID_MID THEN promises
                   ELSE [promises EXCEPT ![frame.id] = Mid(frame.mid)]
    /\ step' = "kept"
    /\ UNCHANGED <<web, rows, events, frame, main, mainQueue>>

\* setData: the promise gets its value, kNoneError whatever the mid is.
setData ==
    /\ step = "dispatched"
    /\ promises' = [promises EXCEPT ![frame.id] = Mid(frame.mid)]
    /\ step' = "kept"
    /\ UNCHANGED <<web, rows, events, frame, main, mainQueue>>

\* createMatch returns; newmatch is destroyed, and nobody else refers to it
\* unless the work for the main thread has run.
Return ==
    /\ step = "kept"
    /\ step' = "idle"
    /\ UNCHANGED <<web, rows, promises, events, frame, main, mainQueue>>
-----------------------------------------------------------------------------
(***************************************************************************)
(* The main thread.                                                        *)
(***************************************************************************)

\* initialize: the matches of the database; all of them are to be distributed.
initialize ==
    /\ ~initialized
    /\ initialized' = TRUE
    /\ matches' = rows
    /\ undist' = DOMAIN rows
    /\ UNCHANGED <<web, db, mainQueue, dangled, crashed>>

\* Mutation of createdMatches: the match is distributed, but not kept.
CreatedAndForgotten(mid, profile) ==
    /\ undist' = undist \cup {mid}
    /\ UNCHANGED matches

\* createdMatches: whatever had this mid is replaced.
createdMatches(mid, profile) ==
    /\ matches' = [m \in DOMAIN matches \cup {mid} |->
                       IF m = mid THEN profile ELSE matches[m]]
    /\ undist' = undist \cup {mid}

\* The queued work: createdMatches of what newmatch holds by now.  While a call
\* of createMatch is alive that is its match, of this request or of a later one
\* (the calls have the same place on the stack of the DB thread).  Otherwise
\* it is freed memory: the CS crashes on it, or takes any number in it for the
\* mid and enters a match that is gone.
RunQueued ==
    LET alive == step # "idle"
    IN /\ initialized
       /\ mainQueue # <<>>
       /\ mainQueue' = Tail(mainQueue)
       /\ dangled' = (dangled \/ ~alive \/ frame.id # Head(mainQueue))
       /\ \/ alive /\ createdMatches(frame.mid, requests[frame.id]) /\ UNCHANGED crashed
          \/ ~alive /\ (\E mid \in StrayMids : createdMatches(mid, Gone)) /\ UNCHANGED crashed
          \/ ~alive /\ crashed' = TRUE /\ UNCHANGED <<matches, undist>>
       /\ UNCHANGED <<web, db, initialized>>

\* Any later use or release of a match that is gone can end the CS.
CrashOnGone ==
    /\ HasGone
    /\ crashed' = TRUE
    /\ UNCHANGED <<web, db, matches, undist, initialized, dangled, mainQueue>>

dbThread   == ~crashed /\ (StoreAndDispatch \/ setData \/ Return)
mainThread == ~crashed /\ (initialize \/ RunQueued)
webThread  == ~crashed /\ Answer

Next ==
    \/ ~crashed /\ \E profile \in Profiles, soon \in BOOLEAN : Request(profile, soon)
    \/ webThread
    \/ dbThread
    \/ mainThread
    \/ ~crashed /\ CrashOnGone

Spec == Init /\ [][Next]_vars

\* The threads run; a thread is never scheduled away for ever.
FairSpec == Spec /\ WF_vars(webThread) /\ WF_vars(dbThread) /\ WF_vars(mainThread)
-----------------------------------------------------------------------------
\* The requests that were answered with a mid.
Created == {id \in DOMAIN requests : "mid" \in DOMAIN answers[id]}

(***************************************************************************)
(* The mid in an answer is one that was stored for the start time and the  *)
(* type of that very request, whichever other requests and refusals the    *)
(* threads handled meanwhile; it is INVALID_MID only if a query failed.    *)
(***************************************************************************)
AnswersAreOwn ==
    \A id \in Created :
        LET mid == answers[id].mid
        IN \/ mid \in DOMAIN rows /\ rows[mid].slot = requests[id].slot
           \/ mid = INVALID_MID /\ Faults # {}

(***************************************************************************)
(* As long as no queued work ran after its variable had ended, a match     *)
(* that was reported as created is in matches_ and in the distribution, or *)
(* the work that will put it there is queued: no answer overtakes it.      *)
(***************************************************************************)
CreatedMatchesOpen ==
    ~dangled => \A id \in Created :
                    \/ answers[id].mid \in DOMAIN matches \cap undist
                    \/ id \in {mainQueue[i] : i \in DOMAIN mainQueue}

(***************************************************************************)
(* matches_ and the distribution hold the same mids, and each is a row of  *)
(* the table with the start time and the type of its match, or, after a    *)
(* failed query, INVALID_MID; also when work queued by one call of         *)
(* createMatch ran in another one.  Only a match that was entered from     *)
(* freed memory can have any mid.                                          *)
(***************************************************************************)
OpenMatchesAreStored ==
    /\ undist = DOMAIN matches
    /\ \A mid \in DOMAIN matches :
           \/ matches[mid] = Gone /\ dangled
           \/ mid \in DOMAIN rows /\ rows[mid].slot = matches[mid].slot
           \/ mid = INVALID_MID /\ Faults # {}

(***************************************************************************)
(* The web thread waits for every request it hands over, and always gets   *)
(* its answer, with or without a mid, unless the CS crashes.               *)
(***************************************************************************)
RequestsGetAnswered ==
    \A id \in 1..MaxRequests : waiting = id ~> waiting # id \/ crashed

\* "Store it in mysql, get its unique mid": the comment on createMatch
\* (CSMatchManager.cpp).
MidsAreUnique ==
    \A i, j \in Created :
        i # j /\ INVALID_MID \notin {answers[i].mid, answers[j].mid}
            => answers[i].mid # answers[j].mid
=============================================================================
