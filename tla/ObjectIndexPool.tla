--------------------------- MODULE ObjectIndexPool ---------------------------
(***************************************************************************)
(* ObjectIndexPool and its only use, the sessions of a TCPSessionManager.  *)
(* The index a session gets is its uuid, by which messages are addressed,  *)
(* and on the CentralServer also the sid of the service behind it.         *)
(*                                                                         *)
(* Sessions are added and removed on the one io_context thread.            *)
(***************************************************************************)
EXTENDS Integers, Sequences, FiniteSets

CONSTANTS
    Sessions,    \* the sessions that are ever made
    Types,       \* the server types of sessions
    Retrying,    \* the ClientSessions that retry: they keep their slot when closed
    MaxNum       \* MAX_NUM, the largest index (10000 in the code)

nullptr == "nullptr"

ASSUME PoolAssumption ==
    /\ IsFiniteSet(Sessions) /\ nullptr \notin Sessions
    /\ Retrying \subseteq Sessions
    /\ MaxNum \in Nat

VARIABLES
    objectArray,     \* index -> session, nullptr where there is none
    objects,         \* the sessions foreach visits (objects_)
    maxIndex,        \* the next index that was never handed out
    size,            \* size_
    invalidIndexs,   \* the indexes to hand out again, oldest first
    uuid,            \* uuid_ of each session
    type,            \* type_ of each session
    phase            \* whether a session is still to come, open or closed

vars == <<objectArray, objects, maxIndex, size, invalidIndexs, uuid, type, phase>>

\* POOL_INVALID_INDEX, 0xFFFFFFFF, as the int32 that addSession stores.
INVALID_UUID == -1
-----------------------------------------------------------------------------
TypeOK ==
    /\ objectArray \in [0..MaxNum -> Sessions \cup {nullptr}]
    /\ objects \subseteq Sessions
    /\ maxIndex \in 0..(MaxNum + 1)
    /\ size \in Nat
    /\ invalidIndexs \in Seq(0..MaxNum)
    /\ uuid \in [Sessions -> 0..MaxNum \cup {INVALID_UUID}]
    /\ type \in [Sessions -> Types]
    /\ phase \in [Sessions -> {"new", "open", "closed"}]

\* The constructor puts MAX_NUM among the indexes to hand out again.
Init ==
    /\ objectArray = [i \in 0..MaxNum |-> nullptr]
    /\ objects = {}
    /\ maxIndex = 0
    /\ size = 0
    /\ invalidIndexs = <<MaxNum>>
    /\ uuid = [s \in Sessions |-> INVALID_UUID]
    /\ type \in [Sessions -> Types]
    /\ phase = [s \in Sessions |-> "new"]
-----------------------------------------------------------------------------
\* addObject put session s at an index, which becomes its uuid (addSession).
Placed(s, index) ==
    /\ objectArray' = [objectArray EXCEPT ![index] = s]
    /\ objects' = objects \cup {s}
    /\ size' = size + 1
    /\ uuid' = [uuid EXCEPT ![s] = index]

\* Mutation of AddFresh: one index too many.
AddBeyondArray(s) ==
    /\ maxIndex <= MaxNum + 1
    /\ Placed(s, maxIndex)
    /\ maxIndex' = maxIndex + 1
    /\ UNCHANGED invalidIndexs

\* There is an index that was never handed out.
AddFresh(s) ==
    /\ maxIndex <= MaxNum
    /\ Placed(s, maxIndex)
    /\ maxIndex' = maxIndex + 1
    /\ UNCHANGED invalidIndexs

\* Mutation of AddReused: the index comes from the wrong end of the list.
AddReusedFromBack(s) ==
    /\ maxIndex > MaxNum
    /\ invalidIndexs # <<>>
    /\ Placed(s, invalidIndexs[Len(invalidIndexs)])
    /\ invalidIndexs' = Tail(invalidIndexs)
    /\ UNCHANGED maxIndex

\* There is none, but one to hand out again.
AddReused(s) ==
    /\ maxIndex > MaxNum
    /\ invalidIndexs # <<>>
    /\ Placed(s, Head(invalidIndexs))
    /\ invalidIndexs' = Tail(invalidIndexs)
    /\ UNCHANGED maxIndex

\* There is none at all: the session stays open, without an index.
AddRefused(s) ==
    /\ maxIndex > MaxNum
    /\ invalidIndexs = <<>>
    /\ uuid' = [uuid EXCEPT ![s] = INVALID_UUID]
    /\ UNCHANGED <<objectArray, objects, maxIndex, size, invalidIndexs>>

addSession(s) ==
    /\ phase[s] = "new"
    /\ phase' = [phase EXCEPT ![s] = "open"]
    /\ AddFresh(s) \/ AddReused(s) \/ AddRefused(s)
    /\ UNCHANGED type

\* Mutation of removeObject: the index is not handed back.
RemoveAndKeepIndex(index) ==
    /\ size' = size - 1
    /\ objects' = objects \ {objectArray[index]}
    /\ objectArray' = [objectArray EXCEPT ![index] = nullptr]
    /\ UNCHANGED invalidIndexs

\* removeObject: takes what the slot holds by now out of objects_.
removeObject(index) ==
    /\ size' = size - 1
    /\ objects' = objects \ {objectArray[index]}
    /\ objectArray' = [objectArray EXCEPT ![index] = nullptr]
    /\ invalidIndexs' = Append(invalidIndexs, index)

\* The session closes; INVALID_UUID is beyond MAX_NUM as an unsigned int.
removeSessionPtr(s) ==
    /\ phase[s] = "open"
    /\ s \notin Retrying
    /\ phase' = [phase EXCEPT ![s] = "closed"]
    /\ \/ uuid[s] # INVALID_UUID /\ removeObject(uuid[s])
       \/ uuid[s] = INVALID_UUID /\ UNCHANGED <<size, objects, objectArray, invalidIndexs>>
    /\ UNCHANGED <<maxIndex, uuid, type>>

Next == \E s \in Sessions : addSession(s) \/ removeSessionPtr(s)

Spec == Init /\ [][Next]_vars
-----------------------------------------------------------------------------
\* getSession and sendMsg: the sessions that get a message sent to a uuid.
\* Without a session there, it goes to every session of the given type.
Receivers(id, stype) ==
    IF id >= 0 /\ objectArray[id] # nullptr
    THEN {objectArray[id]}
    ELSE {s \in objects : type[s] = stype}

Open == {s \in Sessions : phase[s] = "open"}

\* The open sessions with an index, except at MAX_NUM, which is handed out
\* twice: once as a fresh index, once because the constructor put it there.
Proper == {s \in Open : uuid[s] \in 0..(MaxNum - 1)}

(***************************************************************************)
(* No index below MAX_NUM belongs to two open sessions, however often      *)
(* indexes are handed back and out again.                                  *)
(***************************************************************************)
UuidsAreExclusive ==
    \A s \in Proper, t \in Open : s # t => uuid[s] # uuid[t]

(***************************************************************************)
(* A message sent to the uuid of an open session reaches that session and  *)
(* no other, and one sent to a type reaches all open sessions of the type: *)
(* no other session's arrival or departure displaced one from its slot or  *)
(* from objects_.                                                          *)
(***************************************************************************)
SendsReachTheirSessions ==
    \A s \in Proper :
        /\ \A stype \in Types : Receivers(uuid[s], stype) = {s}
        /\ s \in Receivers(INVALID_UUID, type[s])

(***************************************************************************)
(* No index is lost and none is counted twice: what was ever handed out,   *)
(* and the MAX_NUM of the constructor, is in use or waits to be reused.    *)
(* So a session is refused only when MAX_NUM + 2 sessions are in the pool. *)
(***************************************************************************)
IndexesAccounted ==
    size + Len(invalidIndexs) = maxIndex + 1
=============================================================================
