--------------------------- MODULE ServiceRouting ---------------------------
(***************************************************************************)
(* How a gateway (GS) finds the services it passes messages on to: the     *)
(* registry of the CentralServer (CSKernel::servers_), the announcements   *)
(* it sends to gateways, the gateway's connections (ServiceKernel) and its *)
(* routes (GSKernel).                                                      *)
(*                                                                         *)
(* Three kinds of processes interact: the CS, one GS, and services that    *)
(* crash, start again and lose their connection to the CS.  Each of them   *)
(* handles its events on one thread, so that a handler is one action.      *)
(* What the match manager decides is any assignment of matches to          *)
(* registered match servers; MatchManager has the details.                 *)
(***************************************************************************)
EXTENDS Integers, Sequences, FiniteSets, Functions

CONSTANTS
    MatchServers,   \* match server processes, each with one listening address
    LoginServers,   \* login server processes
    Configured,     \* the services in ServerConfig.json: the GS connects to them at once
    Matches,
    MaxLink,        \* bound: messages of the CS on their way to the GS
    MaxFaults       \* bound: crashes, lost connections, restarts of the CS

Services == MatchServers \cup LoginServers

ASSUME RoutingAssumption ==
    /\ IsFiniteSet(Services)
    /\ MatchServers \cap LoginServers = {}
    /\ Configured \subseteq Services
    /\ IsFiniteSet(Matches)
    /\ MaxLink \in Nat
    /\ MaxFaults \in Nat

VARIABLES
    running,     \* which service processes run
    sidOf,       \* the sid of a service that is registered, NoSid otherwise
    servers,     \* CS: sid -> service (servers_)
    nextSid,     \* CS: the uuid of the next session
    table,       \* CS: match -> sid (matchServices_ of the match manager)
    pending,     \* CS: a redistribution is due
    gate,        \* the session of the GS at the CS
    link,        \* messages of the CS on their way to the GS
    connects,    \* GS: session -> the sid of the service there (connectServices_)
    made,        \* GS: how many sessions were made to each service
    status,      \* GS: the connection of each session
    routes,      \* GS: match -> session (matchesServices_)
    login,       \* GS: loginSession_
    faults,      \* how many faults there were
    unhealed     \* what happened that the code does not recover from

central == <<servers, nextSid, table, pending>>
gateway == <<connects, made, status, routes, login>>
vars    == <<running, sidOf, central, gate, link, gateway, faults, unhealed>>

NoSid == -1   \* INVALID_LID

\* A session of the GS: the service it is for, and its number.
Session(x, n) == [service |-> x, number |-> n]
NoSession == [service |-> "none", number |-> 0]

\* An unordered_map after new entries were assigned.
Assign(new, map) ==
    [k \in DOMAIN new \cup DOMAIN map |-> IF k \in DOMAIN new THEN new[k] ELSE map[k]]

Sessions == {s \in [service : Services, number : Nat] : s.number > 0}
-----------------------------------------------------------------------------
TypeOK ==
    /\ running \in [Services -> BOOLEAN]
    /\ sidOf \in [Services -> Nat \cup {NoSid}]
    /\ DOMAIN servers \subseteq Nat /\ servers \in [DOMAIN servers -> Services]
    /\ nextSid \in Nat
    /\ DOMAIN table \subseteq Matches /\ table \in [DOMAIN table -> Nat]
    /\ pending \in BOOLEAN
    /\ gate \in {"down", "connected", "registered"}
    /\ DOMAIN connects \subseteq Sessions
    /\ connects \in [DOMAIN connects -> Nat \cup {NoSid}]
    /\ made \in [Services -> Nat]
    /\ status \in [DOMAIN connects -> {"connecting", "open", "broken"}]
    /\ DOMAIN routes \subseteq Matches /\ routes \in [DOMAIN routes -> Sessions]
    /\ login \in Sessions \cup {NoSession}
    /\ faults \in 0..MaxFaults
    /\ unhealed \subseteq {"late", "connection", "restart"}

\* netInitializer: the GS connects to the configured services, whose sids it
\* does not know; updateServiceConnect remembers one to a login server.
Init ==
    /\ running = [x \in Services |-> TRUE]
    /\ sidOf = [x \in Services |-> NoSid]
    /\ servers = << >>
    /\ nextSid = 0
    /\ table = << >>
    /\ pending = TRUE
    /\ gate = "down"
    /\ link = << >>
    /\ connects = [s \in {Session(x, 1) : x \in Configured} |-> NoSid]
    /\ made = [x \in Services |-> IF x \in Configured THEN 1 ELSE 0]
    /\ status = [s \in DOMAIN connects |-> "connecting"]
    /\ routes = << >>
    /\ IF Configured \cap LoginServers = {}
       THEN login = NoSession
       ELSE login \in {Session(x, 1) : x \in Configured \cap LoginServers}
    /\ faults = 0
    /\ unhealed = {}
-----------------------------------------------------------------------------
(***************************************************************************)
(* The CentralServer.                                                      *)
(***************************************************************************)

\* A message to every session of type GateServer, registered or not.
ToGates(lk, msg) == IF gate = "down" THEN lk ELSE Append(lk, msg)

\* NewConnServiceNotify, and the list in ServerRegisterRS: sid -> service.
ServicesMsg(list) == [kind |-> "services", list |-> list]

\* ServerAllMatchDistributeNotify (sendAllDistributeMatchInfos): match -> sid.
DistributionMsg == [kind |-> "distribution", list |-> table]

SessionsTo(x) == {s \in DOMAIN connects : s.service = x}
Broken(x) == \E s \in SessionsTo(x) : status[s] = "broken"

\* serverRegistRQ of a service: it gets the uuid of its session as sid, and the
\* gateways are told.  (What a service says its sid is never counts: it is that
\* of the CS, or none.)  Not recovered from: the GS still has to notice
\* the end of a connection to the service, or the CS of the former session.
Register(x) ==
    /\ Len(link) < MaxLink
    /\ running[x]
    /\ sidOf[x] = NoSid
    /\ sidOf' = [sidOf EXCEPT ![x] = nextSid]
    /\ servers' = Assign([sid \in {nextSid} |-> x], servers)
    /\ nextSid' = nextSid + 1
    /\ link' = ToGates(link, ServicesMsg([sid \in {nextSid} |-> x]))
    /\ pending' = (pending \/ x \in MatchServers)
    /\ unhealed' = unhealed \cup (IF Broken(x) \/ x \in Range(servers) THEN {"late"} ELSE {})
    /\ UNCHANGED <<running, table, gate, gateway, faults>>

\* The session of a service closes at the CS: removeService.  No one is told.
RemoveService(sid) ==
    /\ sid \in DOMAIN servers
    /\ sidOf[servers[sid]] # sid
    /\ servers' = Restrict(servers, DOMAIN servers \ {sid})
    /\ pending' = (pending \/ servers[sid] \in MatchServers)
    /\ UNCHANGED <<running, sidOf, nextSid, table, gate, link, gateway, faults, unhealed>>

\* checkServiceDistMap: a match server that registered again and has no entry
\* yet brings the matches M it runs.
Recover(sid, M) ==
    /\ pending
    /\ sid \in DOMAIN servers
    /\ servers[sid] \in MatchServers
    /\ sid \notin Range(table)
    /\ M # {} /\ M \cap DOMAIN table = {}
    /\ table' = Assign([m \in M |-> sid], table)
    /\ UNCHANGED <<running, sidOf, servers, nextSid, pending, gate, link, gateway,
                   faults, unhealed>>

\* Mutation of Redistribute: the gateways hear of it only if an entry changed
\* that was there before.
RedistributeQuietly(t) ==
    /\ Len(link) < MaxLink
    /\ pending
    /\ table' = t
    /\ pending' = FALSE
    /\ link' = IF \E m \in DOMAIN table : m \notin DOMAIN t \/ t[m] # table[m]
               THEN ToGates(link, DistributionMsg') ELSE link
    /\ UNCHANGED <<running, sidOf, servers, nextSid, gate, gateway, faults, unhealed>>

\* updateDistMatchServices, distributeMatch: a new table goes to the gateways.
Redistribute(t) ==
    /\ Len(link) < MaxLink
    /\ pending
    /\ table' = t
    /\ pending' = FALSE
    /\ link' = ToGates(link, DistributionMsg')
    /\ UNCHANGED <<running, sidOf, servers, nextSid, gate, gateway, faults, unhealed>>

\* Any assignment of some of the matches to registered match servers.
Tables ==
    LET sids == {sid \in DOMAIN servers : servers[sid] \in MatchServers}
    IN  UNION {[M -> sids] : M \in SUBSET Matches}
-----------------------------------------------------------------------------
(***************************************************************************)
(* The connection of the GS to the CS, which G2CSession keeps and retries. *)
(***************************************************************************)
GateConnects ==
    /\ gate = "down"
    /\ gate' = "connected"
    /\ UNCHANGED <<running, sidOf, central, link, gateway, faults, unhealed>>

\* Mutation of GateRegisters: the GS is not told of the distribution.
GateRegistersOnly ==
    /\ Len(link) < MaxLink
    /\ gate = "connected"
    /\ gate' = "registered"
    /\ link' = Append(link, ServicesMsg(servers))
    /\ UNCHANGED <<running, sidOf, central, gateway, faults, unhealed>>

\* serverRegistRQ of the GS: the reply lists the services it shall connect to,
\* then comes the distribution.
GateRegisters ==
    /\ Len(link) < MaxLink
    /\ gate = "connected"
    /\ gate' = "registered"
    /\ link' = link \o <<ServicesMsg(servers), DistributionMsg>>
    /\ UNCHANGED <<running, sidOf, central, gateway, faults, unhealed>>
-----------------------------------------------------------------------------
(***************************************************************************)
(* The gateway.                                                            *)
(***************************************************************************)

\* Mutation of Missing: every service gets a new session.
MissingAlways(list) == Range(list)

\* checkConnectService: the services of a list without a session.
Missing(list) == {x \in Range(list) : SessionsTo(x) = {}}

\* The sessions to services of a list.
Known(list) == {s \in DOMAIN connects : s.service \in Range(list)}

\* addNewConnect for each entry of a list, with updateServiceConnect: a service
\* without a session gets one, which connects; the sid of the others is updated.
\* Of two entries for one service (the CS has not noticed the end of its former
\* session) the last one counts, and the order is that of an unordered_map.
addNewConnects(list) ==
    LET new == {Session(x, made[x] + 1) : x \in Missing(list)}
        lgn == {s \in Known(list) \cup new : s.service \in LoginServers}
    IN  /\ \E sid \in [Range(list) -> DOMAIN list] :
             /\ \A x \in Range(list) : list[sid[x]] = x
             /\ connects' = Assign([s \in Known(list) \cup new |-> sid[s.service]], connects)
        /\ status' = Assign([s \in new |-> "connecting"], status)
        /\ made' = [x \in Services |-> IF x \in Missing(list) THEN made[x] + 1 ELSE made[x]]
        /\ IF lgn = {} THEN UNCHANGED login ELSE login' \in lgn

\* connectServiceSession: a session whose service has the sid.
SessionsOf(sid) == {s \in DOMAIN connects : connects[s] = sid}

\* distibuteMatchesNotify: the matches of a service with a session are routed
\* there, other routes stay.
distibuteMatchesNotify(t) ==
    LET found == {m \in DOMAIN t : SessionsOf(t[m]) # {}}
    IN  \E to \in [{t[m] : m \in found} -> DOMAIN connects] :
          /\ \A sid \in DOMAIN to : to[sid] \in SessionsOf(sid)
          /\ routes' = Assign([m \in found |-> to[t[m]]], routes)

\* The GS handles the next message of the CS.
Deliver ==
    /\ link # << >>
    /\ link' = Tail(link)
    /\ \/ /\ Head(link).kind = "services"
          /\ addNewConnects(Head(link).list)
          /\ UNCHANGED routes
       \/ /\ Head(link).kind = "distribution"
          /\ distibuteMatchesNotify(Head(link).list)
          /\ UNCHANGED <<connects, made, status, login>>
    /\ UNCHANGED <<running, sidOf, central, gate, faults, unhealed>>

\* A session of the GS, which retries until it succeeds, is connected.
SessionConnects(s) ==
    /\ status[s] = "connecting"
    /\ running[s.service]
    /\ status' = [status EXCEPT ![s] = "open"]
    /\ UNCHANGED <<running, sidOf, central, gate, link, connects, made, routes, login,
                   faults, unhealed>>

\* Mutation of removeConnectMatchService: the routes stay.
KeepRoutes(s) ==
    /\ UNCHANGED routes
    /\ login' = IF login = s THEN NoSession ELSE login

\* removeConnectMatchService: what led to the session is forgotten.
removeConnectMatchService(s) ==
    /\ routes' = IF s.service \in MatchServers
                 THEN Restrict(routes, {m \in DOMAIN routes : routes[m] # s})
                 ELSE routes
    /\ login' = IF login = s THEN NoSession ELSE login

\* Mutation of SessionCloses: the retries are not ended.
SessionClosesAndRetries(s) ==
    /\ status[s] = "broken"
    /\ connects' = Restrict(connects, DOMAIN connects \ {s})
    /\ status' = [status EXCEPT ![s] = "connecting"]
    /\ removeConnectMatchService(s)
    /\ UNCHANGED <<running, sidOf, central, gate, link, made, faults, unhealed>>

\* The GS notices that a connection has ended: onClose of G2MSession and
\* G2LSession ends the retries and calls removeServiceSession.
SessionCloses(s) ==
    /\ status[s] = "broken"
    /\ connects' = Restrict(connects, DOMAIN connects \ {s})
    /\ status' = Restrict(status, DOMAIN status \ {s})
    /\ removeConnectMatchService(s)
    /\ UNCHANGED <<running, sidOf, central, gate, link, made, faults, unhealed>>
-----------------------------------------------------------------------------
(***************************************************************************)
(* Faults.                                                                 *)
(***************************************************************************)
Fault == faults < MaxFaults /\ faults' = faults + 1

Breaks(X) ==
    status' = [s \in DOMAIN status |->
                 IF s \in X /\ status[s] = "open" THEN "broken" ELSE status[s]]

Crash(x) ==
    /\ Fault
    /\ running[x]
    /\ running' = [running EXCEPT ![x] = FALSE]
    /\ sidOf' = [sidOf EXCEPT ![x] = NoSid]
    /\ Breaks(SessionsTo(x))
    /\ UNCHANGED <<central, gate, link, connects, made, routes, login, unhealed>>

Start(x) ==
    /\ ~running[x]
    /\ running' = [running EXCEPT ![x] = TRUE]
    /\ UNCHANGED <<sidOf, central, gate, link, gateway, faults, unhealed>>

\* A service loses its connection to the CS, and will register again.
ServiceLosesCentral(x) ==
    /\ Fault
    /\ sidOf[x] # NoSid
    /\ sidOf' = [sidOf EXCEPT ![x] = NoSid]
    /\ UNCHANGED <<running, central, gate, link, gateway, unhealed>>

\* The GS loses its connection to the CS, with what was on its way.
GateLosesCentral ==
    /\ Fault
    /\ gate # "down"
    /\ gate' = "down"
    /\ link' = << >>
    /\ UNCHANGED <<running, sidOf, central, gateway, unhealed>>

\* The GS loses its connection to a service that goes on: it is not made again
\* until the service registers anew.
GateLosesService(s) ==
    /\ Fault
    /\ status[s] = "open"
    /\ Breaks({s})
    /\ unhealed' = unhealed \cup {"connection"}
    /\ UNCHANGED <<running, sidOf, central, gate, link, connects, made, routes, login>>

\* The CS restarts.  It hands out sids from 0 on again, while the GS still has
\* those of the earlier run.
CentralRestarts ==
    /\ Fault
    /\ sidOf' = [x \in Services |-> NoSid]
    /\ servers' = << >>
    /\ nextSid' = 0
    /\ table' = << >>
    /\ pending' = TRUE
    /\ gate' = "down"
    /\ link' = << >>
    /\ unhealed' = unhealed \cup {"restart"}
    /\ UNCHANGED <<running, gateway>>
-----------------------------------------------------------------------------
Next ==
    \/ \E x \in Services : Register(x)
    \/ \E sid \in DOMAIN servers : RemoveService(sid)
    \/ \E sid \in DOMAIN servers, M \in SUBSET Matches : Recover(sid, M)
    \/ \E t \in Tables : Redistribute(t)
    \/ GateConnects
    \/ GateRegisters
    \/ Deliver
    \/ \E s \in DOMAIN connects : SessionConnects(s)
    \/ \E s \in DOMAIN connects : SessionCloses(s)
    \/ \E x \in Services : Crash(x)
    \/ \E x \in Services : Start(x)
    \/ \E x \in Services : ServiceLosesCentral(x)
    \/ GateLosesCentral
    \/ \E s \in DOMAIN connects : GateLosesService(s)
    \/ CentralRestarts

Spec == Init /\ [][Next]_vars

\* Services that run and the GS connect again (SessionComesBack of
\* ClientSession), the end of a connection is noticed, messages arrive, and the
\* match manager applies the changes (ChangesAreApplied of MatchManager).
Fairness ==
    /\ \A x \in Services : WF_vars(Register(x))
    /\ WF_vars(\E sid \in DOMAIN servers : RemoveService(sid))
    /\ WF_vars(\E t \in Tables : Redistribute(t))
    /\ WF_vars(GateConnects)
    /\ WF_vars(GateRegisters)
    /\ WF_vars(Deliver)
    /\ WF_vars(\E s \in DOMAIN connects : SessionConnects(s))
    /\ WF_vars(\E s \in DOMAIN connects : SessionCloses(s))

FairSpec == Spec /\ Fairness
-----------------------------------------------------------------------------
(***************************************************************************)
(* Whatever fails in whatever order, short of the CS, a route and          *)
(* loginSession_ lead to a session the gateway still has, and to a service *)
(* of the right type: transToMS and transToLS never send into a session    *)
(* that was given up.                                                      *)
(***************************************************************************)
RoutesAreOpen ==
    /\ "restart" \notin unhealed => \A m \in DOMAIN routes :
             routes[m] \in DOMAIN connects /\ routes[m].service \in MatchServers
    /\ login = NoSession \/ (login \in DOMAIN connects /\ login.service \in LoginServers)

(***************************************************************************)
(* The gateway never has two sessions to one service, although it hears of *)
(* a service from its configuration, from the reply to each of its own     *)
(* registrations and from each registration of the service.                *)
(***************************************************************************)
OneSessionPerService ==
    \A s, t \in DOMAIN connects : s.service = t.service => s = t

\* The gateway is registered and has handled what the CS sent it.
UpToDate == gate = "registered" /\ link = << >>

(***************************************************************************)
(* An up-to-date gateway knows every registered service by its present     *)
(* sid, and routes every match to the match server the CS assigned it to:  *)
(* as long as nothing unhealed happened and the service is still there.    *)
(***************************************************************************)
MatchesReachTheirService ==
    UpToDate /\ unhealed = {} =>
        /\ \A sid \in DOMAIN servers :
              sidOf[servers[sid]] = sid =>
                  \E s \in DOMAIN connects : s.service = servers[sid] /\ connects[s] = sid
        /\ ~pending => \A m \in DOMAIN table :
              sidOf[servers[table[m]]] = table[m] =>
                  m \in DOMAIN routes /\ routes[m].service = servers[table[m]]

(***************************************************************************)
(* When faults end, routes settle: every match the CS assigned is routed   *)
(* over an open connection to the service it is assigned to, and a login   *)
(* server that runs is connected.                                          *)
(***************************************************************************)
Settled ==
    /\ \A m \in DOMAIN table :
          /\ table[m] \in DOMAIN servers
          /\ m \in DOMAIN routes
          /\ routes[m].service = servers[table[m]]
          /\ status[routes[m]] = "open"
    /\ (\E x \in LoginServers : running[x]) => login # NoSession /\ status[login] = "open"

RoutesSettle == <>[](unhealed # {} \/ Settled)
=============================================================================
