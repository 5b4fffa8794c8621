--------------------------------- MODULE Gate ---------------------------------
(***************************************************************************)
(* The players of a gateway, in the session pool they share with the       *)
(* gateway's own sessions to the services.  A request of a player goes to  *)
(* a service with the uuid of its session as extraID, the reply comes back *)
(* with that extraID and is sent to whoever has that uuid by then.  A      *)
(* timer closes the players that have not been heard of for too long.      *)
(*                                                                         *)
(* The BalanceServer passes requests and replies on in the same way.       *)
(***************************************************************************)
EXTENDS ObjectIndexPool, SequencesExt

CONSTANTS
    Services,        \* the gateway's own sessions to other servers
    Client,          \* ServerType_Client, the type of the players' sessions
    Duration,        \* kClientHeartBeatDuration, in seconds
    Overtime,        \* kClientHeartBeatOvertime
    MaxRequests      \* bound: requests of players

ASSUME GateAssumption ==
    /\ Retrying \subseteq Services
    /\ Client \in Types
    /\ Duration \in Nat \ {0} /\ Overtime \in Nat
    /\ MaxRequests \in Nat

VARIABLES
    asked,     \* who has sent a request, in order
    pending,   \* the requests a service has not answered yet, by number
    got,       \* the replies each session was sent, by the number of the request
    missed     \* how many checks have seen each player since its last heartbeat

players  == <<asked, pending, got>>
gateVars == <<vars, players, missed>>

\* The sessions that the gateway opens itself, of which the one to the
\* CentralServer retries and the others are given up; all others are players.
GateInit ==
    /\ Init
    /\ \A s \in Sessions : type[s] = Client <=> s \notin Services
    /\ asked = <<>>
    /\ pending = {}
    /\ got = [s \in Sessions |-> {}]
    /\ missed = [s \in Sessions |-> 0]
-----------------------------------------------------------------------------
Connect(s) == addSession(s) /\ UNCHANGED <<players, missed>>

Leave(s) ==
    /\ removeSessionPtr(s)
    /\ missed' = [missed EXCEPT ![s] = 0]
    /\ UNCHANGED players

\* CGSession::handlerMsg: extraID becomes the player's uuid, and the request
\* goes to its service.  (Without a session there it changes nothing.)
handlerMsg(s) ==
    /\ phase[s] = "open"
    /\ type[s] = Client
    /\ Len(asked) < MaxRequests
    /\ asked' = Append(asked, s)
    /\ pending' = pending \cup {Len(asked')}
    /\ UNCHANGED <<vars, got, missed>>

\* Mutation of extraID: the uuid that was handed out last.
LatestUuid(request) == maxIndex - 1

\* The extraID of a request and its reply; uuid_ stays when a session closes.
extraID(request) == uuid[asked[request]]

\* transToClient: a service has answered a request.
transToClient(request) ==
    /\ request \in pending
    /\ pending' = pending \ {request}
    /\ got' = [s \in Sessions |->
                   IF s \in Receivers(extraID(request), Client)
                   THEN got[s] \cup {request} ELSE got[s]]
    /\ UNCHANGED <<vars, asked, missed>>

\* heartBeatRQ of a player.
heartBeatRQ(s) ==
    /\ phase[s] = "open"
    /\ type[s] = Client
    /\ missed' = [missed EXCEPT ![s] = 0]
    /\ UNCHANGED <<vars, players>>

\* forceClose of all of some sessions; those in the pool leave it in the order
\* of a sequence, which is then the order of the indexes to hand out again.
CloseAll(closing) ==
    LET pooled  == {s \in closing : uuid[s] # INVALID_UUID}
        indexes == {uuid[s] : s \in pooled}
    IN /\ phase' = [s \in Sessions |-> IF s \in closing THEN "closed" ELSE phase[s]]
       /\ size' = size - Cardinality(pooled)
       /\ objects' = objects \ {objectArray[i] : i \in indexes}
       /\ objectArray' = [i \in 0..MaxNum |-> IF i \in indexes THEN nullptr ELSE objectArray[i]]
       /\ \E order \in SetToSeqs(pooled) :
             invalidIndexs' = invalidIndexs \o [i \in DOMAIN order |-> uuid[order[i]]]
       /\ UNCHANGED <<maxIndex, uuid, type>>

\* The players a check may find overtime: the last heartbeat was up to
\* missed checks ago, and at least one check less.  A closed session that is
\* still in objects_ is found as well, but forceClose does nothing to it.
SeenPlayers == {s \in objects : type[s] = Client}

MayBeOvertime(s) ==
    /\ s \in SeenPlayers /\ phase[s] = "open"
    /\ (missed[s] + 1) * Duration > Overtime

IsOvertime(s) == MayBeOvertime(s) /\ missed[s] * Duration > Overtime

\* Mutation of Overdue: one session is closed at each check.
OverdueOne(closing) ==
    \A s \in closing : MayBeOvertime(s) /\ \A t \in closing : s = t

\* What clientCheckOvertime may close: all that are overtime.
Overdue(closing) ==
    /\ \A s \in closing : MayBeOvertime(s)
    /\ \A s \in Sessions : IsOvertime(s) => s \in closing

\* The timer fires: foreach over objects_, then forceClose of those it found.
clientCheckOvertime ==
    /\ \E closing \in SUBSET objects :
          /\ missed' = [s \in Sessions |->
                            IF phase[s] = "open" /\ s \in SeenPlayers \ closing
                            THEN missed[s] + 1 ELSE 0]
          /\ Overdue(closing)
          /\ CloseAll(closing)
    /\ UNCHANGED players

GateNext ==
    \/ \E s \in Sessions : Connect(s) \/ Leave(s) \/ handlerMsg(s) \/ heartBeatRQ(s)
    \/ \E request \in pending : transToClient(request)
    \/ clientCheckOvertime

GateSpec == GateInit /\ [][GateNext]_gateVars
-----------------------------------------------------------------------------
(***************************************************************************)
(* The reply to a request of a player who is still there has reached that  *)
(* player and no other, whoever came, left or was timed out between the    *)
(* request and its reply.  (When the player has left, the next one with    *)
(* that uuid gets it, or everyone; so it is for sessions at or beyond      *)
(* MAX_NUM.)                                                               *)
(***************************************************************************)
RepliesReachTheirAskers ==
    \A request \in DOMAIN asked \ pending :
        asked[request] \in Proper => {s \in Sessions : request \in got[s]} = {asked[request]}

(***************************************************************************)
(* A player who has fallen silent is gone within a period after Overtime,  *)
(* whatever the other sessions do to the pool between the checks.          *)
(***************************************************************************)
SilentPlayersLeave ==
    \A s \in Proper : type[s] = Client => (missed[s] - 1) * Duration <= Overtime
=============================================================================
