------------------------ MODULE ServiceRoutingProofs ------------------------
(***************************************************************************)
(* Proofs about ServiceRouting: how long a route may be trusted, whatever  *)
(* fails and in whatever order.                                            *)
(***************************************************************************)
EXTENDS ServiceRouting, SequenceTheorems, TLAPS

\* What the CS says in its messages: lists of services by sid, and tables.
ServiceLists == UNION {[D -> Services] : D \in SUBSET Nat}
MatchTables  == UNION {[M -> Nat] : M \in SUBSET Matches}
Messages     == [kind : {"services"}, list : ServiceLists]
                    \cup [kind : {"distribution"}, list : MatchTables]

TypeIInv == TypeOK /\ link \in Seq(Messages)

\* A service that believes to be registered is, and the next sid is free.
Registered ==
    /\ \A x \in Services : sidOf[x] # NoSid =>
          sidOf[x] \in DOMAIN servers /\ servers[sidOf[x]] = x
    /\ \A sid \in DOMAIN servers : sid < nextSid

\* What a message says.
Tells(msg, sid, x) == msg.kind = "services" /\ sid \in DOMAIN msg.list /\ msg.list[sid] = x
Assigns(msg, m, sid) == msg.kind = "distribution" /\ m \in DOMAIN msg.list /\ msg.list[m] = sid

\* Until the CS restarts a sid stands for one service, for whoever knows it,
\* and matches are assigned to match servers.
OwnedBy(owner) ==
    /\ \A sid \in DOMAIN servers : owner[sid] = servers[sid]
    /\ \A i \in DOMAIN link, sid \in Nat, x \in Services :
          Tells(link[i], sid, x) => sid < nextSid /\ owner[sid] = x
    /\ \A s \in DOMAIN connects : connects[s] # NoSid =>
          connects[s] < nextSid /\ owner[connects[s]] = s.service
    /\ \A m \in DOMAIN table : table[m] < nextSid /\ owner[table[m]] \in MatchServers
    /\ \A i \in DOMAIN link, m \in Matches, sid \in Nat :
          Assigns(link[i], m, sid) => sid < nextSid /\ owner[sid] \in MatchServers

SidsAgree ==
    "restart" \notin unhealed => \E owner \in [0..(nextSid - 1) -> Services] : OwnedBy(owner)

\* The CS holds no two sids of one service, and a registered one has no
\* connection whose end the GS has yet to notice.
OneSid ==
    unhealed = {} =>
        /\ \A i, j \in DOMAIN servers : servers[i] = servers[j] => i = j
        /\ \A x \in Services : sidOf[x] # NoSid => ~Broken(x)

\* From the k-th message on the GS knows x by its present sid: it is told so by
\* that message, or was before (k = 0), and is told nothing else later.
Informs(k, x) ==
    /\ IF k = 0 THEN \E s \in SessionsTo(x) : connects[s] = sidOf[x]
                ELSE Tells(link[k], sidOf[x], x)
    /\ \A j \in k..Len(link), sid \in Nat : j > 0 /\ Tells(link[j], sid, x) => sid = sidOf[x]

ServicesKnown ==
    unhealed = {} /\ gate = "registered" =>
        \A x \in Services : sidOf[x] # NoSid => \E k \in 0..Len(link) : Informs(k, x)

\* From the i-th message on m is routed to x.
Routes(i, m, x) ==
    /\ IF i = 0 THEN m \in DOMAIN routes /\ routes[m].service = x
                ELSE Assigns(link[i], m, sidOf[x]) /\ \E k \in 0..(i - 1) : Informs(k, x)
    /\ \A j \in i..Len(link), sid \in Nat : j > 0 /\ Assigns(link[j], m, sid) => sid = sidOf[x]

MatchesRouted ==
    ~pending => \A m \in DOMAIN table :
        /\ table[m] \in DOMAIN servers /\ servers[table[m]] \in MatchServers
        /\ unhealed = {} /\ gate = "registered" =>
              \A x \in Services : sidOf[x] = table[m] => \E i \in 0..Len(link) : Routes(i, m, x)

RoutingIInv ==
    /\ Registered
    /\ SidsAgree
    /\ OneSid
    /\ ServicesKnown
    /\ MatchesRouted
    /\ OneSessionPerService
    /\ RoutesAreOpen
-----------------------------------------------------------------------------
(***************************************************************************)
(* The operators on functions and on the link.                             *)
(***************************************************************************)

\* Assigning entries keeps the type of a map.
LEMMA AssignedType ==
    ASSUME NEW S, NEW f, f \in [DOMAIN f -> S], NEW g, g \in [DOMAIN g -> S]
    PROVE  Assign(f, g) \in [DOMAIN f \cup DOMAIN g -> S]
<1> DEFINE v(x) == IF x \in DOMAIN f THEN f[x] ELSE g[x]
<1>1. \A x \in DOMAIN f \cup DOMAIN g : v(x) \in S
  OBVIOUS
<1> HIDE DEF v
<1>2. [x \in DOMAIN f \cup DOMAIN g |-> v(x)] \in [DOMAIN f \cup DOMAIN g -> S]
  BY <1>1
<1> QED
  BY <1>2 DEF v, Assign

\* Erasing entries leaves the others alone.
LEMMA Restricted ==
    ASSUME NEW S, NEW f, f \in [DOMAIN f -> S], NEW D, D \subseteq DOMAIN f
    PROVE  /\ Restrict(f, D) \in [D -> S]
           /\ DOMAIN Restrict(f, D) = D
           /\ \A x \in D : Restrict(f, D)[x] = f[x]
<1>1. Restrict(f, D) = [x \in D |-> f[x]]
  BY DEF Restrict
<1>2. \A x \in D : f[x] \in S
  OBVIOUS
<1> QED
  BY <1>1, <1>2

\* The messages of the CS are messages.
LEMMA MessagesTyped ==
    /\ \A list \in ServiceLists : ServicesMsg(list) \in Messages
    /\ \A t \in MatchTables : [kind |-> "distribution", list |-> t] \in Messages
<1>1. \A list \in ServiceLists : ServicesMsg(list) \in Messages
  BY DEF ServicesMsg, Messages
<1>2. \A t \in MatchTables : [kind |-> "distribution", list |-> t] \in Messages
  BY DEF Messages
<1> QED
  BY <1>1, <1>2

\* What a message's list is, by its kind.
LEMMA MessageLists ==
    ASSUME NEW msg \in Messages
    PROVE  /\ msg.kind = "services" =>
                msg.list \in [DOMAIN msg.list -> Services] /\ DOMAIN msg.list \subseteq Nat
           /\ msg.kind = "distribution" =>
                msg.list \in [DOMAIN msg.list -> Nat] /\ DOMAIN msg.list \subseteq Matches
<1>1. CASE msg \in [kind : {"services"}, list : ServiceLists]
  <2>1. PICK D \in SUBSET Nat : msg.list \in [D -> Services]
    BY <1>1 DEF ServiceLists
  <2> QED
    BY <1>1, <2>1
<1>2. CASE msg \in [kind : {"distribution"}, list : MatchTables]
  <2>1. PICK D \in SUBSET Matches : msg.list \in [D -> Nat]
    BY <1>2 DEF MatchTables
  <2> QED
    BY <1>2, <2>1
<1> QED
  BY <1>1, <1>2 DEF Messages

\* What is known stays in its place when the CS sends one more message.
LEMMA Sent ==
    ASSUME link \in Seq(Messages), NEW msg \in Messages
    PROVE  /\ ToGates(link, msg) \in Seq(Messages)
           /\ Len(link) \in Nat
           /\ gate = "down" => ToGates(link, msg) = link
           /\ gate # "down" =>
                /\ Len(ToGates(link, msg)) = Len(link) + 1
                /\ ToGates(link, msg)[Len(link) + 1] = msg
                /\ \A i \in 1..Len(link) : ToGates(link, msg)[i] = link[i]
<1>1. Append(link, msg) \in Seq(Messages)
  OBVIOUS
<1>2. /\ Len(Append(link, msg)) = Len(link) + 1
      /\ Append(link, msg)[Len(link) + 1] = msg
      /\ \A i \in 1..Len(link) : Append(link, msg)[i] = link[i]
      /\ Len(link) \in Nat
  OBVIOUS
<1> QED
  BY <1>1, <1>2 DEF ToGates

\* Two messages are put at the end of the link.
LEMMA SentTwo ==
    ASSUME link \in Seq(Messages), NEW p \in Messages, NEW q \in Messages
    PROVE  /\ link \o <<p, q>> \in Seq(Messages)
           /\ Len(link) \in Nat
           /\ Len(link \o <<p, q>>) = Len(link) + 2
           /\ (link \o <<p, q>>)[Len(link) + 1] = p
           /\ (link \o <<p, q>>)[Len(link) + 2] = q
           /\ \A i \in 1..Len(link) : (link \o <<p, q>>)[i] = link[i]
<1>1. <<p, q>> \in Seq(Messages) /\ Len(<<p, q>>) = 2 /\ <<p, q>>[1] = p /\ <<p, q>>[2] = q
  OBVIOUS
<1>2. /\ link \o <<p, q>> \in Seq(Messages)
      /\ Len(link \o <<p, q>>) = Len(link) + Len(<<p, q>>)
      /\ \A i \in 1..(Len(link) + Len(<<p, q>>)) :
            (link \o <<p, q>>)[i] = IF i <= Len(link) THEN link[i] ELSE <<p, q>>[i - Len(link)]
  BY <1>1, ConcatProperties
<1> QED
  BY <1>1, <1>2

-----------------------------------------------------------------------------
(***************************************************************************)
(* What the handlers of the gateway do.                                    *)
(***************************************************************************)

\* A session is for a service; a new one is none the GS had.
LEMMA SessionShape ==
    /\ \A x \in Services, n \in Nat :
          /\ Session(x, n + 1) \in Sessions
          /\ Session(x, n).service = x /\ Session(x, n).number = n
    /\ \A s \in Sessions : s.service \in Services /\ s.number \in Nat \ {0}
    /\ NoSession \notin Sessions
  BY DEF Session, Sessions, NoSession

\* What addNewConnects does: every service of the list has a session with its sid.
LEMMA AddEffect ==
    ASSUME TypeIInv, NEW list, list \in [DOMAIN list -> Services], DOMAIN list \subseteq Nat,
           addNewConnects(list)
    PROVE  \E sid \in [Range(list) -> DOMAIN list], new \in SUBSET Sessions :
             /\ \A x \in Range(list) : list[sid[x]] = x
             /\ DOMAIN connects' = DOMAIN connects \cup new
             /\ connects' \in [DOMAIN connects' -> Nat \cup {NoSid}]
             /\ \A s \in DOMAIN connects' :
                   s.service \in Range(list) => connects'[s] = sid[s.service]
             /\ \A s \in DOMAIN connects :
                   s.service \notin Range(list) => connects'[s] = connects[s]
             /\ \A s \in new : s.service \in Range(list) /\ SessionsTo(s.service) = {}
             /\ \A s, t \in new : s.service = t.service => s = t
             /\ \A x \in Range(list) : \E s \in DOMAIN connects' : s.service = x
             /\ status' \in [DOMAIN connects' -> {"connecting", "open", "broken"}]
             /\ \A s \in DOMAIN connects : s \notin new => status'[s] = status[s]
             /\ \A s \in new : status'[s] = "connecting"
             /\ \/ login' = login
                \/ login' \in DOMAIN connects' /\ login'.service \in LoginServers
             /\ made' \in [Services -> Nat]
<1> DEFINE new == {Session(x, made[x] + 1) : x \in Missing(list)}
           lgn == {s \in Known(list) \cup new : s.service \in LoginServers}
<1>1. PICK sid \in [Range(list) -> DOMAIN list] :
        /\ \A x \in Range(list) : list[sid[x]] = x
        /\ connects' = Assign([s \in Known(list) \cup new |-> sid[s.service]], connects)
  BY DEF addNewConnects
<1>2. /\ status' = Assign([s \in new |-> "connecting"], status)
      /\ made' = [x \in Services |-> IF x \in Missing(list) THEN made[x] + 1 ELSE made[x]]
      /\ IF lgn = {} THEN UNCHANGED login ELSE login' \in lgn
  BY DEF addNewConnects
<1>3. /\ Range(list) \subseteq Services
      /\ DOMAIN connects \subseteq Sessions
      /\ \A x \in Services : made[x] \in Nat
      /\ status \in [DOMAIN connects -> {"connecting", "open", "broken"}]
      /\ connects \in [DOMAIN connects -> Nat \cup {NoSid}]
  BY DEF TypeIInv, TypeOK, Range
<1>4. \A x \in Missing(list) : x \in Range(list) /\ x \in Services /\ SessionsTo(x) = {}
  BY <1>3 DEF Missing
<1>5. \A s \in new : \E x \in Missing(list) : s = Session(x, made[x] + 1) /\ s.service = x
  BY <1>3, <1>4, SessionShape
<1>6. /\ new \in SUBSET Sessions
      /\ \A s \in new : s.service \in Missing(list)
      /\ \A s, t \in new : s.service = t.service => s = t
      /\ \A x \in Missing(list) : \E s \in new : s.service = x
  <2>1. new \in SUBSET Sessions
    BY <1>3, <1>4, SessionShape
  <2>2. \A x \in Missing(list) : \E s \in new : s.service = x
    BY <1>3, <1>4, SessionShape, SMTT(30)
  <2> QED
    BY <1>5, <2>1, <2>2
<1> HIDE DEF new, lgn
<1> DEFINE f == [s \in Known(list) \cup new |-> sid[s.service]]
           g == [s \in new |-> "connecting"]
<1>7. /\ DOMAIN f = Known(list) \cup new
      /\ \A s \in DOMAIN f : s.service \in Range(list) /\ f[s] = sid[s.service]
      /\ f \in [DOMAIN f -> Nat \cup {NoSid}]
  BY <1>4, <1>6 DEF Known
<1>8. /\ DOMAIN g = new /\ g \in [DOMAIN g -> {"connecting", "open", "broken"}]
      /\ \A s \in new : g[s] = "connecting"
  OBVIOUS
<1>9. Known(list) \subseteq DOMAIN connects
  BY DEF Known
<1> HIDE DEF f, g
<1>10. connects' = Assign(f, connects) /\ status' = Assign(g, status)
  BY <1>1, <1>2 DEF f, g
<1>11. DOMAIN connects' = DOMAIN connects \cup new
  BY <1>7, <1>9, <1>10 DEF Assign
<1>12. connects' \in [DOMAIN connects' -> Nat \cup {NoSid}]
  BY <1>3, <1>7, <1>9, <1>10, <1>11, AssignedType
<1>13. \A s \in DOMAIN connects' :
          s.service \in Range(list) => connects'[s] = sid[s.service]
  BY <1>7, <1>10, <1>11 DEF Known, Assign
<1>14. \A s \in DOMAIN connects :
          s.service \notin Range(list) => connects'[s] = connects[s]
  BY <1>7, <1>10 DEF Assign
<1>15. \A x \in Range(list) : \E s \in DOMAIN connects' : s.service = x
  BY <1>6, <1>11 DEF Missing, SessionsTo
<1>16. status' \in [DOMAIN connects' -> {"connecting", "open", "broken"}]
  <2>1. Assign(g, status) \in [DOMAIN g \cup DOMAIN status -> {"connecting", "open", "broken"}]
    BY <1>3, <1>8, AssignedType
  <2>2. DOMAIN g \cup DOMAIN status = DOMAIN connects'
    BY <1>3, <1>8, <1>11
  <2> QED
    BY <1>10, <2>1, <2>2
<1>17. /\ \A s \in DOMAIN connects : s \notin new => status'[s] = status[s]
       /\ \A s \in new : status'[s] = "connecting"
  BY <1>3, <1>8, <1>10 DEF Assign
<1>18. \/ login' = login
       \/ login' \in DOMAIN connects' /\ login'.service \in LoginServers
  BY <1>2, <1>9, <1>11 DEF lgn
<1>19. made' \in [Services -> Nat]
  BY <1>2, <1>3
<1>20. \A s \in new : s.service \in Range(list) /\ SessionsTo(s.service) = {}
  BY <1>4, <1>6
<1>21. /\ \A x \in Range(list) : list[sid[x]] = x
       /\ \A s, t \in new : s.service = t.service => s = t
       /\ new \in SUBSET Sessions
  BY <1>1, <1>6
<1> QED
  BY Zenon, <1>20, <1>21, <1>11, <1>12, <1>13, <1>14, <1>15, <1>16, <1>17, <1>18, <1>19

\* What distibuteMatchesNotify does: a match goes to a session with the sid the table gives.
LEMMA RouteEffect ==
    ASSUME TypeIInv, NEW t, t \in [DOMAIN t -> Nat], DOMAIN t \subseteq Matches,
           distibuteMatchesNotify(t)
    PROVE  /\ routes' \in [DOMAIN routes' -> Sessions] /\ DOMAIN routes' \subseteq Matches
           /\ \A m \in DOMAIN t : SessionsOf(t[m]) # {} =>
                 m \in DOMAIN routes' /\ routes'[m] \in SessionsOf(t[m])
           /\ \A m \in Matches : ~(m \in DOMAIN t /\ SessionsOf(t[m]) # {}) =>
                 /\ m \in DOMAIN routes' <=> m \in DOMAIN routes
                 /\ m \in DOMAIN routes => routes'[m] = routes[m]
<1> DEFINE found == {m \in DOMAIN t : SessionsOf(t[m]) # {}}
<1>1. PICK to \in [{t[m] : m \in found} -> DOMAIN connects] :
        /\ \A sid \in DOMAIN to : to[sid] \in SessionsOf(sid)
        /\ routes' = Assign([m \in found |-> to[t[m]]], routes)
  BY DEF distibuteMatchesNotify
<1>2. /\ DOMAIN connects \subseteq Sessions /\ DOMAIN routes \subseteq Matches
      /\ routes \in [DOMAIN routes -> Sessions]
  BY DEF TypeIInv, TypeOK
<1> DEFINE f == [m \in found |-> to[t[m]]]
<1>3. /\ DOMAIN f = found /\ \A m \in found : f[m] \in SessionsOf(t[m])
      /\ f \in [DOMAIN f -> Sessions]
  BY <1>1, <1>2
<1> HIDE DEF f
<1>4. routes' = Assign(f, routes)
  BY <1>1 DEF f
<1>5. routes' \in [DOMAIN routes' -> Sessions] /\ DOMAIN routes' = found \cup DOMAIN routes
  <2>1. Assign(f, routes) \in [DOMAIN f \cup DOMAIN routes -> Sessions]
    BY <1>2, <1>3, AssignedType
  <2> QED
    BY <1>3, <1>4, <2>1
<1>6. \A m \in found : m \in DOMAIN routes' /\ routes'[m] \in SessionsOf(t[m])
  BY <1>3, <1>4, <1>5 DEF Assign
<1>7. \A m \in Matches : m \notin found =>
         /\ m \in DOMAIN routes' <=> m \in DOMAIN routes
         /\ m \in DOMAIN routes => routes'[m] = routes[m]
  BY <1>3, <1>4, <1>5 DEF Assign
<1> QED
  BY <1>2, <1>5, <1>6, <1>7

\* What the end of a session does: its routes, if it is a MatchServer's, end with it.
LEMMA CloseEffect ==
    ASSUME TypeIInv, NEW s \in DOMAIN connects, SessionCloses(s)
    PROVE  /\ DOMAIN connects' = DOMAIN connects \ {s}
           /\ connects' \in [DOMAIN connects' -> Nat \cup {NoSid}]
           /\ status' \in [DOMAIN connects' -> {"connecting", "open", "broken"}]
           /\ \A r \in DOMAIN connects' : connects'[r] = connects[r] /\ status'[r] = status[r]
           /\ routes' \in [DOMAIN routes' -> Sessions] /\ DOMAIN routes' \subseteq DOMAIN routes
           /\ \A m \in DOMAIN routes' : routes'[m] = routes[m]
           /\ \A m \in DOMAIN routes : routes[m] # s => m \in DOMAIN routes'
           /\ s.service \in MatchServers => \A m \in DOMAIN routes' : routes'[m] # s
           /\ login' = IF login = s THEN NoSession ELSE login
<1>1. /\ connects' = Restrict(connects, DOMAIN connects \ {s})
      /\ status' = Restrict(status, DOMAIN status \ {s})
      /\ removeConnectMatchService(s)
  BY DEF SessionCloses
<1>2. /\ connects \in [DOMAIN connects -> Nat \cup {NoSid}]
      /\ status \in [DOMAIN connects -> {"connecting", "open", "broken"}]
      /\ routes \in [DOMAIN routes -> Sessions]
  BY DEF TypeIInv, TypeOK
<1>3. /\ DOMAIN connects' = DOMAIN connects \ {s}
      /\ connects' \in [DOMAIN connects' -> Nat \cup {NoSid}]
      /\ \A r \in DOMAIN connects' : connects'[r] = connects[r]
  BY <1>1, <1>2, Restricted DEF Restrict
<1>4. /\ status' \in [DOMAIN connects' -> {"connecting", "open", "broken"}]
      /\ \A r \in DOMAIN connects' : status'[r] = status[r]
  BY <1>1, <1>2, <1>3 DEF Restrict
<1>5. /\ routes' \in [DOMAIN routes' -> Sessions] /\ DOMAIN routes' \subseteq DOMAIN routes
      /\ \A m \in DOMAIN routes' : routes'[m] = routes[m]
      /\ \A m \in DOMAIN routes : routes[m] # s => m \in DOMAIN routes'
      /\ s.service \in MatchServers => \A m \in DOMAIN routes' : routes'[m] # s
  <2>1. CASE s.service \in MatchServers
    BY <1>1, <1>2, <2>1 DEF removeConnectMatchService, Restrict
  <2>2. CASE s.service \notin MatchServers
    BY <1>1, <1>2, <2>2 DEF removeConnectMatchService
  <2> QED
    BY <2>1, <2>2
<1>6. login' = IF login = s THEN NoSession ELSE login
  BY <1>1 DEF removeConnectMatchService
<1> QED
  BY <1>3, <1>4, <1>5, <1>6
-----------------------------------------------------------------------------
(***************************************************************************)
(* Types.                                                                  *)
(***************************************************************************)
LEMMA TypeInit == Init => TypeIInv
<1> SUFFICES ASSUME Init PROVE TypeIInv
  OBVIOUS
<1>1. DOMAIN connects = {Session(x, 1) : x \in Configured}
  BY DEF Init
<1>2. DOMAIN connects \subseteq Sessions /\ \A x \in Services : Session(x, 1) \in Sessions
  BY <1>1, RoutingAssumption DEF Session, Sessions
<1>3. /\ connects \in [DOMAIN connects -> Nat \cup {NoSid}]
      /\ status \in [DOMAIN connects -> {"connecting", "open", "broken"}]
  BY DEF Init
<1>4. login \in Sessions \cup {NoSession}
  BY <1>2, RoutingAssumption DEF Init, Services
<1>5. DOMAIN servers = {} /\ DOMAIN table = {} /\ DOMAIN routes = {}
  BY DEF Init
<1>6. /\ servers \in [DOMAIN servers -> Services] /\ table \in [DOMAIN table -> Nat]
      /\ routes \in [DOMAIN routes -> Sessions]
  BY <1>5 DEF Init
<1>7. link \in Seq(Messages)
  BY DEF Init
<1>8. /\ running \in [Services -> BOOLEAN] /\ sidOf \in [Services -> Nat \cup {NoSid}]
      /\ made \in [Services -> Nat] /\ nextSid \in Nat /\ pending \in BOOLEAN
      /\ gate \in {"down", "connected", "registered"} /\ faults \in 0..MaxFaults
      /\ unhealed \subseteq {"late", "connection", "restart"}
  BY RoutingAssumption DEF Init
<1> QED
  BY <1>2, <1>3, <1>4, <1>5, <1>6, <1>7, <1>8 DEF TypeIInv, TypeOK

\* A table of Tables is one, and its sids are those of match servers.
LEMMA TablesTyped ==
    ASSUME NEW t \in Tables
    PROVE  /\ DOMAIN t \subseteq Matches
           /\ \A m \in DOMAIN t : t[m] \in DOMAIN servers /\ servers[t[m]] \in MatchServers
           /\ DOMAIN servers \subseteq Nat => t \in MatchTables /\ t \in [DOMAIN t -> Nat]
<1> DEFINE sids == {sid \in DOMAIN servers : servers[sid] \in MatchServers}
<1>1. PICK M \in SUBSET Matches : t \in [M -> sids]
  BY DEF Tables
<1>2. DOMAIN t = M /\ \A m \in DOMAIN t : t[m] \in sids
  BY <1>1
<1>3. ASSUME DOMAIN servers \subseteq Nat PROVE t \in [M -> Nat]
  BY <1>1, <1>3
<1> QED
  BY <1>2, <1>3 DEF MatchTables

\* Registration keeps the types.
LEMMA TypeRegister ==
    ASSUME TypeIInv, NEW x \in Services, Register(x)
    PROVE  TypeIInv'
<1> DEFINE one == [sid \in {nextSid} |-> x]
<1>1. one \in ServiceLists /\ one \in [DOMAIN one -> Services] /\ DOMAIN one = {nextSid}
  <2>1. {nextSid} \in SUBSET Nat /\ one \in [{nextSid} -> Services]
    BY DEF TypeIInv, TypeOK
  <2> QED
    BY <2>1 DEF ServiceLists
<1> HIDE DEF one
<1>2. servers' = Assign(one, servers) /\ link' = ToGates(link, ServicesMsg(one))
  BY DEF Register, one
<1>3. link' \in Seq(Messages)
  BY <1>1, <1>2, Sent, MessagesTyped DEF TypeIInv
<1>4. servers' \in [{nextSid} \cup DOMAIN servers -> Services]
  BY <1>1, <1>2, AssignedType DEF TypeIInv, TypeOK
<1>5. DOMAIN servers' \subseteq Nat /\ servers' \in [DOMAIN servers' -> Services]
  BY <1>4 DEF TypeIInv, TypeOK
<1> QED
  BY <1>3, <1>5, SMTT(30) DEF TypeIInv, TypeOK, Register, gateway

\* Every step keeps the types.
LEMMA TypeNext == TypeIInv /\ [Next]_vars => TypeIInv'
<1> SUFFICES ASSUME TypeIInv, [Next]_vars PROVE TypeIInv'
  OBVIOUS
<1>1. ASSUME NEW x \in Services, Register(x) PROVE TypeIInv'
  BY <1>1, TypeRegister
<1>2. ASSUME NEW sid \in DOMAIN servers, RemoveService(sid) PROVE TypeIInv'
  <2>1. servers' \in [DOMAIN servers \ {sid} -> Services]
    BY <1>2, Restricted DEF RemoveService, TypeIInv, TypeOK
  <2> QED
    BY <1>2, <2>1 DEF RemoveService, gateway, TypeIInv, TypeOK
<1>3. ASSUME NEW sid \in DOMAIN servers, NEW M \in SUBSET Matches, Recover(sid, M)
      PROVE  TypeIInv'
  <2> DEFINE f == [m \in M |-> sid]
  <2>1. f \in [DOMAIN f -> Nat] /\ DOMAIN f = M
    BY DEF TypeIInv, TypeOK
  <2> HIDE DEF f
  <2>2. table' = Assign(f, table)
    BY <1>3 DEF Recover, f
  <2>3. table' \in [M \cup DOMAIN table -> Nat]
    BY <2>1, <2>2, AssignedType DEF TypeIInv, TypeOK
  <2>4. DOMAIN table' \subseteq Matches /\ table' \in [DOMAIN table' -> Nat]
    BY <2>3 DEF TypeIInv, TypeOK
  <2> QED
    BY <1>3, <2>4 DEF Recover, gateway, TypeIInv, TypeOK
<1>4. ASSUME NEW t \in Tables, Redistribute(t) PROVE TypeIInv'
  <2>1. table' \in MatchTables /\ table' \in [DOMAIN table' -> Nat] /\ DOMAIN table' \subseteq Matches
    BY <1>4, TablesTyped DEF Redistribute, TypeIInv, TypeOK
  <2>2. DistributionMsg' \in Messages
    BY <2>1, MessagesTyped DEF DistributionMsg
  <2>3. link' \in Seq(Messages)
    BY <1>4, <2>2, Sent DEF Redistribute, TypeIInv
  <2> QED
    BY <1>4, <2>1, <2>3 DEF Redistribute, gateway, TypeIInv, TypeOK
<1>5. ASSUME GateConnects PROVE TypeIInv'
  BY <1>5 DEF GateConnects, central, gateway, TypeIInv, TypeOK
<1>6. ASSUME GateRegisters PROVE TypeIInv'
  <2>1. servers \in ServiceLists /\ table \in MatchTables
    BY DEF TypeIInv, TypeOK, ServiceLists, MatchTables
  <2>2. ServicesMsg(servers) \in Messages /\ DistributionMsg \in Messages
    BY <2>1, MessagesTyped DEF DistributionMsg
  <2>3. link' \in Seq(Messages)
    BY <1>6, <2>2, SentTwo DEF GateRegisters, TypeIInv
  <2> QED
    BY <1>6, <2>3 DEF GateRegisters, central, gateway, TypeIInv, TypeOK
<1>7. ASSUME Deliver PROVE TypeIInv'
  <2>1. Head(link) \in Messages /\ link' \in Seq(Messages)
    BY <1>7 DEF Deliver, TypeIInv
  <2>2. CASE Head(link).kind = "services" /\ addNewConnects(Head(link).list) /\ UNCHANGED routes
    <3>1. PICK new \in SUBSET Sessions :
            /\ DOMAIN connects' = DOMAIN connects \cup new
            /\ connects' \in [DOMAIN connects' -> Nat \cup {NoSid}]
            /\ status' \in [DOMAIN connects' -> {"connecting", "open", "broken"}]
            /\ login' = login \/ login' \in DOMAIN connects'
            /\ made' \in [Services -> Nat]
      BY <2>1, <2>2, MessageLists, AddEffect
    <3> QED
      BY <1>7, <2>1, <2>2, <3>1 DEF Deliver, central, TypeIInv, TypeOK
  <2>3. CASE /\ Head(link).kind = "distribution" /\ distibuteMatchesNotify(Head(link).list)
             /\ UNCHANGED <<connects, made, status, login>>
    <3>1. routes' \in [DOMAIN routes' -> Sessions] /\ DOMAIN routes' \subseteq Matches
      BY <2>1, <2>3, MessageLists, RouteEffect
    <3> QED
      BY <1>7, <2>1, <2>3, <3>1 DEF Deliver, central, TypeIInv, TypeOK
  <2> QED
    BY <1>7, <2>2, <2>3 DEF Deliver
<1>8. ASSUME NEW s \in DOMAIN connects, SessionConnects(s) PROVE TypeIInv'
  BY <1>8 DEF SessionConnects, central, TypeIInv, TypeOK
<1>9. ASSUME NEW s \in DOMAIN connects, SessionCloses(s) PROVE TypeIInv'
  <2>1. /\ DOMAIN connects' \subseteq Sessions
        /\ connects' \in [DOMAIN connects' -> Nat \cup {NoSid}]
        /\ status' \in [DOMAIN connects' -> {"connecting", "open", "broken"}]
        /\ routes' \in [DOMAIN routes' -> Sessions] /\ DOMAIN routes' \subseteq Matches
        /\ login' \in Sessions \cup {NoSession}
    BY <1>9, CloseEffect DEF TypeIInv, TypeOK
  <2> QED
    BY <1>9, <2>1 DEF SessionCloses, central, TypeIInv, TypeOK
<1>10. ASSUME NEW x \in Services, Crash(x) PROVE TypeIInv'
  BY <1>10, RoutingAssumption DEF Crash, Fault, Breaks, central, TypeIInv, TypeOK
<1>11. ASSUME NEW x \in Services, Start(x) PROVE TypeIInv'
  BY <1>11 DEF Start, central, gateway, TypeIInv, TypeOK
<1>12. ASSUME NEW x \in Services, ServiceLosesCentral(x) PROVE TypeIInv'
  BY <1>12, RoutingAssumption DEF ServiceLosesCentral, Fault, central, gateway, TypeIInv, TypeOK
<1>13. ASSUME GateLosesCentral PROVE TypeIInv'
  BY <1>13, RoutingAssumption DEF GateLosesCentral, Fault, central, gateway, TypeIInv, TypeOK
<1>14. ASSUME NEW s \in DOMAIN connects, GateLosesService(s) PROVE TypeIInv'
  BY <1>14, RoutingAssumption DEF GateLosesService, Fault, Breaks, central, TypeIInv, TypeOK
<1>15. ASSUME CentralRestarts PROVE TypeIInv'
  <2>1. DOMAIN servers' = {} /\ DOMAIN table' = {} /\ link' \in Seq(Messages)
    BY <1>15 DEF CentralRestarts
  <2>2. servers' \in [DOMAIN servers' -> Services] /\ table' \in [DOMAIN table' -> Nat]
    BY <1>15, <2>1 DEF CentralRestarts
  <2> QED
    BY <1>15, <2>1, <2>2, RoutingAssumption
    DEF CentralRestarts, Fault, gateway, TypeIInv, TypeOK
<1>16. ASSUME UNCHANGED vars PROVE TypeIInv'
  BY <1>16 DEF vars, central, gateway, TypeIInv, TypeOK
<1> QED
  BY <1>1, <1>2, <1>3, <1>4, <1>5, <1>6, <1>7, <1>8, <1>9, <1>10, <1>11, <1>12, <1>13, <1>14,
     <1>15, <1>16 DEF Next

(***************************************************************************)
(* The state of the CS, of the gateway and of the link between them keeps  *)
(* its types.                                                              *)
(***************************************************************************)
THEOREM RoutingTypeCorrect == Spec => []TypeOK
<1>1. Spec => []TypeIInv
  BY TypeInit, TypeNext, PTL DEF Spec
<1>2. TypeIInv => TypeOK
  BY DEF TypeIInv
<1> QED
  BY <1>1, <1>2, PTL

-----------------------------------------------------------------------------
(***************************************************************************)
(* What stays true of what is on its way.                                  *)
(***************************************************************************)

\* The link grows, and nothing new is said of y.
LinkGrows ==
    /\ Len(link) <= Len(link')
    /\ \A i \in 1..Len(link) : link'[i] = link[i]

\* A message on its way still tells the sid when others are put behind it.
LEMMA InformsStays ==
    ASSUME TypeIInv, TypeIInv', LinkGrows, NEW y \in Services, NEW k \in 0..Len(link),
           connects' = connects, sidOf'[y] = sidOf[y], Informs(k, y),
           \A j \in (Len(link) + 1)..Len(link'), sid \in Nat :
               Tells(link'[j], sid, y) => sid = sidOf[y]
    PROVE  k \in 0..Len(link') /\ Informs(k, y)'
<1>1. Len(link) \in Nat /\ Len(link') \in Nat
  BY DEF TypeIInv
<1>2. k \in 0..Len(link')
  BY <1>1 DEF LinkGrows
<1>3. IF k = 0 THEN \E s \in SessionsTo(y)' : connects'[s] = sidOf'[y]
               ELSE Tells(link'[k], sidOf'[y], y)
  BY <1>1 DEF Informs, LinkGrows, SessionsTo
<1>4. \A j \in k..Len(link'), sid \in Nat : j > 0 /\ Tells(link'[j], sid, y) => sid = sidOf'[y]
  BY <1>1 DEF Informs, LinkGrows
<1> QED
  BY <1>2, <1>3, <1>4 DEF Informs

\* A message on its way still routes the match when others are put behind it.
LEMMA RoutesStays ==
    ASSUME TypeIInv, TypeIInv', LinkGrows, NEW y \in Services, NEW m \in Matches,
           NEW i \in 0..Len(link),
           connects' = connects, routes' = routes, sidOf'[y] = sidOf[y], Routes(i, m, y),
           \A j \in (Len(link) + 1)..Len(link'), sid \in Nat :
               /\ Tells(link'[j], sid, y) => sid = sidOf[y]
               /\ Assigns(link'[j], m, sid) => sid = sidOf[y]
    PROVE  i \in 0..Len(link') /\ Routes(i, m, y)'
<1>1. Len(link) \in Nat /\ Len(link') \in Nat
  BY DEF TypeIInv
<1>2. i \in 0..Len(link')
  BY <1>1 DEF LinkGrows
<1>3. IF i = 0 THEN m \in DOMAIN routes' /\ routes'[m].service = y
               ELSE Assigns(link'[i], m, sidOf'[y]) /\ \E k \in 0..(i - 1) : Informs(k, y)'
  <2>1. CASE i = 0
    BY <2>1 DEF Routes
  <2>2. CASE i # 0
    <3>1. Assigns(link'[i], m, sidOf'[y])
      BY <1>1, <2>2 DEF Routes, LinkGrows
    <3>2. PICK k \in 0..(i - 1) : Informs(k, y)
      BY <2>2 DEF Routes
    <3>3. k \in 0..Len(link)
      BY <1>1, <2>2
    <3>4. Informs(k, y)'
      BY <3>2, <3>3, InformsStays
    <3> QED
      BY <2>2, <3>1, <3>4
  <2> QED
    BY <2>1, <2>2
<1>4. \A j \in i..Len(link'), sid \in Nat : j > 0 /\ Assigns(link'[j], m, sid) => sid = sidOf'[y]
  BY <1>1 DEF Routes, LinkGrows
<1> QED
  BY <1>2, <1>3, <1>4 DEF Routes

\* A step that tells the GS nothing keeps what it is to know of the services
\* that are still registered.
LEMMA QuietKeeps ==
    ASSUME TypeIInv, TypeIInv', ServicesKnown, MatchesRouted,
           UNCHANGED <<table, gate, link, connects, routes>>,
           pending => pending', unhealed' = {} => unhealed = {},
           \A x \in Services : sidOf'[x] # NoSid => sidOf'[x] = sidOf[x],
           ~pending' => \A m \in DOMAIN table :
               servers[table[m]] \in MatchServers =>
                   table[m] \in DOMAIN servers' /\ servers'[table[m]] = servers[table[m]]
    PROVE  ServicesKnown' /\ MatchesRouted'
<1>1. LinkGrows /\ Len(link) \in Nat /\ Len(link') = Len(link)
  BY DEF LinkGrows, TypeIInv
<1>2. \A j \in (Len(link) + 1)..Len(link') : FALSE
  BY <1>1
<1>3. ServicesKnown'
  <2> SUFFICES ASSUME unhealed' = {}, gate' = "registered", NEW x \in Services, sidOf'[x] # NoSid
               PROVE  \E k \in 0..Len(link') : Informs(k, x)'
    BY DEF ServicesKnown
  <2>1. PICK k \in 0..Len(link) : Informs(k, x)
    BY DEF ServicesKnown
  <2> QED
    BY <1>1, <1>2, <2>1, InformsStays
<1>4. ASSUME ~pending', NEW m \in DOMAIN table'
      PROVE  /\ table'[m] \in DOMAIN servers' /\ servers'[table'[m]] \in MatchServers
             /\ unhealed' = {} /\ gate' = "registered" =>
                   \A x \in Services : sidOf'[x] = table'[m] =>
                      \E i \in 0..Len(link') : Routes(i, m, x)'
  <2>1. table'[m] \in DOMAIN servers' /\ servers'[table'[m]] \in MatchServers
    BY <1>4 DEF MatchesRouted
  <2>2. ASSUME unhealed' = {}, gate' = "registered", NEW x \in Services, sidOf'[x] = table'[m]
        PROVE  \E i \in 0..Len(link') : Routes(i, m, x)'
    <3>1. sidOf'[x] = sidOf[x] /\ m \in Matches
      BY <1>4, <2>2 DEF NoSid, TypeIInv, TypeOK
    <3>2. PICK i \in 0..Len(link) : Routes(i, m, x)
      BY <1>4, <2>2, <3>1 DEF MatchesRouted
    <3> QED
      BY <1>1, <1>2, <3>1, <3>2, RoutesStays
  <2> QED
    BY <2>1, <2>2
<1>5. MatchesRouted'
  BY <1>4 DEF MatchesRouted
<1> QED
  BY <1>3, <1>5

\* At first nothing is registered.
LEMMA RoutingInit == Init => RoutingIInv
<1> SUFFICES ASSUME Init PROVE RoutingIInv
  OBVIOUS
<1>1. /\ DOMAIN servers = {} /\ DOMAIN table = {} /\ DOMAIN routes = {} /\ DOMAIN link = {}
      /\ \A x \in Services : sidOf[x] = NoSid
      /\ \A s \in DOMAIN connects : connects[s] = NoSid
      /\ gate = "down" /\ pending
  BY DEF Init
<1>2. DOMAIN connects = {Session(x, 1) : x \in Configured}
  BY DEF Init
<1>3. Registered /\ OneSid /\ ServicesKnown /\ MatchesRouted
  BY <1>1 DEF Registered, OneSid, ServicesKnown, MatchesRouted
<1>4. SidsAgree
  <2>1. \E owner \in [0..(nextSid - 1) -> Services] : TRUE
    <3>1. nextSid = 0
      BY DEF Init
    <3>2. \A i \in 0..(0 - 1) : FALSE
      OBVIOUS
    <3>3. [i \in 0..(0 - 1) |-> i] \in [0..(0 - 1) -> Services]
      BY <3>2
    <3> QED
      BY <3>1, <3>3
  <2> QED
    BY <1>1, <2>1 DEF SidsAgree, OwnedBy
<1>5. OneSessionPerService
  BY <1>2, RoutingAssumption DEF OneSessionPerService, Session
<1>6. RoutesAreOpen
  <2>1. \A x \in LoginServers : Session(x, 1).service \in LoginServers
    BY DEF Session
  <2> QED
    BY <1>1, <1>2, <2>1 DEF RoutesAreOpen, Init
<1> QED
  BY <1>3, <1>4, <1>5, <1>6 DEF RoutingIInv

-----------------------------------------------------------------------------
(***************************************************************************)
(* One lemma per action.                                                   *)
(***************************************************************************)

\* Steps of the services and of the connections to them: nothing is sent or
\* handled, a service may be registered no longer, a connection may end.
LEMMA QuietStep ==
    ASSUME TypeIInv, TypeIInv', RoutingIInv,
           UNCHANGED <<servers, nextSid, table, pending, gate, link, connects, routes, login>>,
           unhealed \subseteq unhealed',
           \A x \in Services : sidOf'[x] # NoSid => sidOf'[x] = sidOf[x],
           unhealed' = {} => \A s \in DOMAIN connects :
               status'[s] = "broken" /\ sidOf'[s.service] # NoSid => status[s] = "broken"
    PROVE  RoutingIInv'
<1>1. ServicesKnown' /\ MatchesRouted'
  BY QuietKeeps DEF RoutingIInv, MatchesRouted
<1>2. Registered'
  BY DEF RoutingIInv, Registered
<1>3. SidsAgree'
  BY DEF RoutingIInv, SidsAgree, OwnedBy
<1>4. OneSid'
  <2>1. ASSUME unhealed' = {}, NEW x \in Services, sidOf'[x] # NoSid PROVE ~Broken(x)'
    BY <2>1 DEF RoutingIInv, OneSid, Broken, SessionsTo
  <2> QED
    BY <2>1 DEF RoutingIInv, OneSid
<1>5. OneSessionPerService' /\ RoutesAreOpen'
  BY DEF RoutingIInv, OneSessionPerService, RoutesAreOpen
<1> QED
  BY <1>1, <1>2, <1>3, <1>4, <1>5 DEF RoutingIInv

\* A service registers and gets a sid.
LEMMA RegisterKeeps ==
    ASSUME TypeIInv, TypeIInv', RoutingIInv, NEW x \in Services, Register(x)
    PROVE  RoutingIInv'
<1> DEFINE one == [sid \in {nextSid} |-> x]
           msg == ServicesMsg(one)
<1>1. /\ UNCHANGED <<running, table, gate, connects, made, status, routes, login>>
      /\ sidOf[x] = NoSid /\ sidOf'[x] = nextSid /\ nextSid' = nextSid + 1
      /\ \A y \in Services : y # x => sidOf'[y] = sidOf[y]
      /\ nextSid \in Nat /\ unhealed \subseteq unhealed'
      /\ Len(link) \in Nat /\ Len(link') \in Nat
  BY DEF Register, gateway, TypeIInv, TypeOK
<1>2. unhealed' = {} => unhealed = {} /\ ~Broken(x) /\ x \notin Range(servers)
  BY DEF Register
<1>3. /\ DOMAIN servers' = DOMAIN servers \cup {nextSid}
      /\ servers'[nextSid] = x
      /\ \A sid \in DOMAIN servers : sid # nextSid => servers'[sid] = servers[sid]
  BY DEF Register, Assign
<1>4. /\ \A sid, y : Tells(msg, sid, y) <=> sid = nextSid /\ y = x
      /\ \A m, sid : ~Assigns(msg, m, sid)
  BY DEF Tells, Assigns, ServicesMsg
<1>5. msg \in Messages
  <2>1. one \in ServiceLists
    <3>1. {nextSid} \in SUBSET Nat /\ one \in [{nextSid} -> Services]
      BY <1>1
    <3> QED
      BY <3>1 DEF ServiceLists
  <2> QED
    BY <2>1, MessagesTyped
<1> HIDE DEF msg
<1>6. link' = ToGates(link, msg)
  BY DEF Register, msg
<1>7. /\ LinkGrows
      /\ gate = "down" => link' = link
      /\ gate # "down" => Len(link') = Len(link) + 1 /\ link'[Len(link) + 1] = msg
      /\ \A j \in (Len(link) + 1)..Len(link') : link'[j] = msg
  BY <1>1, <1>5, <1>6, Sent DEF LinkGrows, TypeIInv
<1>8. DOMAIN link = 1..Len(link) /\ DOMAIN link' = 1..Len(link')
  BY DEF TypeIInv
<1>9. \A j \in DOMAIN link' : (j \in DOMAIN link /\ link'[j] = link[j]) \/ link'[j] = msg
  <2>1. \A j \in 1..Len(link') : j \in 1..Len(link) \/ j \in (Len(link) + 1)..Len(link')
    BY <1>1
  <2> QED
    BY <1>7, <1>8, <2>1 DEF LinkGrows
<1>10. \A sid \in DOMAIN servers : sid < nextSid /\ sid # nextSid
  BY <1>1 DEF RoutingIInv, Registered, TypeIInv, TypeOK
<1>11. Registered'
  <2>1. \A sid \in DOMAIN servers' : sid < nextSid'
    BY <1>1, <1>3, <1>10 DEF TypeIInv, TypeOK
  <2>2. \A y \in Services : sidOf'[y] # NoSid =>
           sidOf'[y] \in DOMAIN servers' /\ servers'[sidOf'[y]] = y
    BY <1>1, <1>3, <1>10 DEF RoutingIInv, Registered
  <2> QED
    BY <2>1, <2>2 DEF Registered
<1>12. SidsAgree'
  <2> SUFFICES ASSUME "restart" \notin unhealed'
               PROVE  \E owner \in [0..(nextSid' - 1) -> Services] : OwnedBy(owner)'
    BY DEF SidsAgree
  <2>1. PICK owner \in [0..(nextSid - 1) -> Services] : OwnedBy(owner)
    BY <1>1 DEF RoutingIInv, SidsAgree
  <2> DEFINE next == [sid \in 0..(nextSid' - 1) |-> IF sid = nextSid THEN x ELSE owner[sid]]
  <2>2. /\ next \in [0..(nextSid' - 1) -> Services]
        /\ next[nextSid] = x
        /\ \A sid \in Nat : sid < nextSid => next[sid] = owner[sid] /\ sid < nextSid'
        /\ nextSid < nextSid'
    BY <1>1
  <2> HIDE DEF next
  <2>3. \A sid \in DOMAIN servers' : next[sid] = servers'[sid]
    BY <1>3, <1>10, <2>1, <2>2 DEF OwnedBy, TypeIInv, TypeOK
  <2>4. \A i \in DOMAIN link', sid \in Nat, y \in Services :
           Tells(link'[i], sid, y) => sid < nextSid' /\ next[sid] = y
    BY <1>4, <1>9, <2>1, <2>2 DEF OwnedBy
  <2>5. \A s \in DOMAIN connects' : connects'[s] # NoSid =>
           connects'[s] < nextSid' /\ next[connects'[s]] = s.service
    BY <1>1, <2>1, <2>2 DEF OwnedBy, TypeIInv, TypeOK
  <2>6. \A m \in DOMAIN table' : table'[m] < nextSid' /\ next[table'[m]] \in MatchServers
    BY <1>1, <2>1, <2>2 DEF OwnedBy, TypeIInv, TypeOK
  <2>7. \A i \in DOMAIN link', m \in Matches, sid \in Nat :
           Assigns(link'[i], m, sid) => sid < nextSid' /\ next[sid] \in MatchServers
    BY <1>4, <1>9, <2>1, <2>2 DEF OwnedBy
  <2> QED
    BY <2>2, <2>3, <2>4, <2>5, <2>6, <2>7 DEF OwnedBy
<1>13. OneSid'
  <2> SUFFICES ASSUME unhealed' = {}
               PROVE  /\ \A i, j \in DOMAIN servers' : servers'[i] = servers'[j] => i = j
                      /\ \A y \in Services : sidOf'[y] # NoSid => ~Broken(y)'
    BY DEF OneSid
  <2>1. \A i, j \in DOMAIN servers' : servers'[i] = servers'[j] => i = j
    BY <1>2, <1>3 DEF RoutingIInv, OneSid, Range
  <2>2. \A y \in Services : Broken(y)' <=> Broken(y)
    BY <1>1 DEF Broken, SessionsTo
  <2> QED
    BY <1>1, <1>2, <2>1, <2>2 DEF RoutingIInv, OneSid
<1>14. ServicesKnown'
  <2> SUFFICES ASSUME unhealed' = {}, gate' = "registered", NEW y \in Services, sidOf'[y] # NoSid
               PROVE  \E k \in 0..Len(link') : Informs(k, y)'
    BY DEF ServicesKnown
  <2>1. CASE y = x
    <3>1. PICK k \in Nat : k = Len(link')
      BY <1>1
    <3>2. k \in 0..Len(link') /\ k # 0 /\ link'[k] = msg
      BY <1>1, <1>7, <3>1
    <3>3. \A j \in k..Len(link') : j = k
      BY <3>1
    <3>4. Informs(k, x)'
      BY <1>1, <1>4, <3>2, <3>3 DEF Informs
    <3> QED
      BY <2>1, <3>2, <3>4
  <2>2. CASE y # x
    <3>1. PICK k \in 0..Len(link) : Informs(k, y)
      BY <1>1, <1>2, <2>2 DEF RoutingIInv, ServicesKnown
    <3> QED
      BY <1>1, <1>4, <1>7, <2>2, <3>1, InformsStays
  <2> QED
    BY <2>1, <2>2
<1>15. MatchesRouted'
  <2>1. ASSUME ~pending', NEW m \in DOMAIN table'
        PROVE  /\ table'[m] \in DOMAIN servers' /\ servers'[table'[m]] \in MatchServers
               /\ unhealed' = {} /\ gate' = "registered" =>
                   \A y \in Services : sidOf'[y] = table'[m] =>
                      \E i \in 0..Len(link') : Routes(i, m, y)'
    <3>1. ~pending /\ x \notin MatchServers /\ m \in Matches
      BY <1>1, <2>1 DEF Register, TypeIInv, TypeOK
    <3>2. table'[m] \in DOMAIN servers /\ servers[table'[m]] \in MatchServers
      BY <1>1, <2>1, <3>1 DEF RoutingIInv, MatchesRouted
    <3>3. table'[m] \in DOMAIN servers' /\ servers'[table'[m]] \in MatchServers
      BY <1>3, <1>10, <3>2
    <3>4. ASSUME unhealed' = {}, gate' = "registered", NEW y \in Services, sidOf'[y] = table'[m]
          PROVE  \E i \in 0..Len(link') : Routes(i, m, y)'
      <4>1. y # x /\ sidOf'[y] = sidOf[y]
        BY <1>1, <1>10, <3>2, <3>4
      <4>2. PICK i \in 0..Len(link) : Routes(i, m, y)
        BY <1>1, <1>2, <2>1, <3>1, <3>4, <4>1 DEF RoutingIInv, MatchesRouted
      <4> QED
        BY <1>1, <1>4, <1>7, <3>1, <4>1, <4>2, RoutesStays
    <3> QED
      BY <3>3, <3>4
  <2> QED
    BY <2>1 DEF MatchesRouted
<1>16. OneSessionPerService' /\ RoutesAreOpen'
  BY <1>1 DEF RoutingIInv, OneSessionPerService, RoutesAreOpen
<1> QED
  BY <1>11, <1>12, <1>13, <1>14, <1>15, <1>16 DEF RoutingIInv

\* The CentralServer forgets a service.
LEMMA RemoveKeeps ==
    ASSUME TypeIInv, TypeIInv', RoutingIInv, NEW sid \in DOMAIN servers, RemoveService(sid)
    PROVE  RoutingIInv'
<1>1. /\ UNCHANGED <<running, sidOf, nextSid, table, gate, link, connects, made, status, routes,
                    login, faults, unhealed>>
      /\ sidOf[servers[sid]] # sid
      /\ pending' = (pending \/ servers[sid] \in MatchServers)
  BY DEF RemoveService, gateway
<1>2. /\ DOMAIN servers' = DOMAIN servers \ {sid}
      /\ \A i \in DOMAIN servers' : servers'[i] = servers[i]
  BY DEF RemoveService, Restrict
<1>3. Registered'
  BY <1>1, <1>2 DEF RoutingIInv, Registered
<1>4. SidsAgree'
  BY <1>1, <1>2 DEF RoutingIInv, SidsAgree, OwnedBy
<1>5. OneSid'
  <2>1. \A x \in Services : Broken(x)' <=> Broken(x)
    BY <1>1 DEF Broken, SessionsTo
  <2> QED
    BY <1>1, <1>2, <2>1 DEF RoutingIInv, OneSid
<1>6. ~pending' => \A m \in DOMAIN table :
         servers[table[m]] \in MatchServers =>
             table[m] \in DOMAIN servers' /\ servers'[table[m]] = servers[table[m]]
  BY <1>1, <1>2 DEF RoutingIInv, MatchesRouted
<1>7. ServicesKnown' /\ MatchesRouted'
  BY <1>1, <1>6, QuietKeeps DEF RoutingIInv
<1>8. OneSessionPerService' /\ RoutesAreOpen'
  BY <1>1 DEF RoutingIInv, OneSessionPerService, RoutesAreOpen
<1> QED
  BY <1>3, <1>4, <1>5, <1>7, <1>8 DEF RoutingIInv

\* A service reports the matches it runs.
LEMMA RecoverKeeps ==
    ASSUME TypeIInv, TypeIInv', RoutingIInv, NEW sid \in DOMAIN servers,
           NEW M \in SUBSET Matches, Recover(sid, M)
    PROVE  RoutingIInv'
<1>1. /\ UNCHANGED <<running, sidOf, servers, nextSid, pending, gate, link, connects, made,
                    status, routes, login, faults, unhealed>>
      /\ pending /\ servers[sid] \in MatchServers
  BY DEF Recover, gateway
<1>2. \A m \in DOMAIN table' : table'[m] = sid \/ (m \in DOMAIN table /\ table'[m] = table[m])
  BY DEF Recover, Assign
<1>3. SidsAgree'
  <2> SUFFICES ASSUME "restart" \notin unhealed'
               PROVE  \E owner \in [0..(nextSid' - 1) -> Services] : OwnedBy(owner)'
    BY DEF SidsAgree
  <2>1. PICK owner \in [0..(nextSid - 1) -> Services] : OwnedBy(owner)
    BY <1>1 DEF RoutingIInv, SidsAgree
  <2>2. \A m \in DOMAIN table' : table'[m] < nextSid' /\ owner[table'[m]] \in MatchServers
    BY <1>1, <1>2, <2>1 DEF OwnedBy, RoutingIInv, Registered
  <2>3. OwnedBy(owner)'
    BY <1>1, <2>1, <2>2 DEF OwnedBy
  <2> QED
    BY <1>1, <2>3
<1>4. ServicesKnown'
  BY <1>1 DEF RoutingIInv, ServicesKnown, Informs, SessionsTo
<1>5. MatchesRouted'
  BY <1>1 DEF MatchesRouted
<1>6. Registered' /\ OneSid' /\ OneSessionPerService' /\ RoutesAreOpen'
  BY <1>1 DEF RoutingIInv, Registered, OneSid, Broken, SessionsTo, OneSessionPerService,
              RoutesAreOpen
<1> QED
  BY <1>3, <1>4, <1>5, <1>6 DEF RoutingIInv

\* The CentralServer sends a new distribution.
LEMMA RedistributeKeeps ==
    ASSUME TypeIInv, TypeIInv', RoutingIInv, NEW t \in Tables, Redistribute(t)
    PROVE  RoutingIInv'
<1>1. /\ UNCHANGED <<running, sidOf, servers, nextSid, gate, connects, made, status, routes,
                    login, faults, unhealed>>
      /\ table' = t
      /\ Len(link) \in Nat /\ Len(link') \in Nat
  BY DEF Redistribute, gateway, TypeIInv
<1>2. /\ DOMAIN t \subseteq Matches /\ t \in MatchTables /\ t \in [DOMAIN t -> Nat]
      /\ \A m \in DOMAIN t : t[m] \in DOMAIN servers /\ servers[t[m]] \in MatchServers
  BY TablesTyped DEF TypeIInv, TypeOK
<1> DEFINE msg == [kind |-> "distribution", list |-> t]
<1>3. /\ \A sid, y : ~Tells(msg, sid, y)
      /\ \A m, sid : Assigns(msg, m, sid) <=> m \in DOMAIN t /\ sid = t[m]
      /\ msg \in Messages
  BY <1>2, MessagesTyped DEF Tells, Assigns
<1>4. link' = ToGates(link, msg)
  BY <1>1 DEF Redistribute, DistributionMsg
<1> HIDE DEF msg
<1>5. /\ LinkGrows
      /\ gate # "down" => Len(link') = Len(link) + 1
      /\ \A j \in (Len(link) + 1)..Len(link') : link'[j] = msg
  BY <1>1, <1>3, <1>4, Sent DEF LinkGrows, TypeIInv
<1>6. \A j \in DOMAIN link' : (j \in DOMAIN link /\ link'[j] = link[j]) \/ link'[j] = msg
  <2>1. \A j \in 1..Len(link') : j \in 1..Len(link) \/ j \in (Len(link) + 1)..Len(link')
    BY <1>1
  <2>2. DOMAIN link = 1..Len(link) /\ DOMAIN link' = 1..Len(link')
    BY DEF TypeIInv
  <2> QED
    BY <1>5, <2>1, <2>2 DEF LinkGrows
<1>7. SidsAgree'
  <2> SUFFICES ASSUME "restart" \notin unhealed'
               PROVE  \E owner \in [0..(nextSid' - 1) -> Services] : OwnedBy(owner)'
    BY DEF SidsAgree
  <2>1. PICK owner \in [0..(nextSid - 1) -> Services] : OwnedBy(owner)
    BY <1>1 DEF RoutingIInv, SidsAgree
  <2>2. \A m \in DOMAIN t : t[m] < nextSid' /\ owner[t[m]] \in MatchServers
    BY <1>1, <1>2, <2>1 DEF OwnedBy, RoutingIInv, Registered
  <2>3. \A i \in DOMAIN link', sid \in Nat, y \in Services :
           Tells(link'[i], sid, y) => sid < nextSid' /\ owner[sid] = y
    BY <1>1, <1>3, <1>6, <2>1 DEF OwnedBy
  <2>4. \A i \in DOMAIN link', m \in Matches, sid \in Nat :
           Assigns(link'[i], m, sid) => sid < nextSid' /\ owner[sid] \in MatchServers
    BY <1>1, <1>3, <1>6, <2>1, <2>2 DEF OwnedBy
  <2>5. OwnedBy(owner)'
    BY <1>1, <2>1, <2>2, <2>3, <2>4 DEF OwnedBy
  <2> QED
    BY <1>1, <2>5
<1>8. ASSUME unhealed = {}, gate = "registered", NEW y \in Services, sidOf[y] # NoSid
      PROVE  \E k \in 0..Len(link) : Informs(k, y) /\ k \in 0..Len(link') /\ Informs(k, y)'
  <2>1. PICK k \in 0..Len(link) : Informs(k, y)
    BY <1>8 DEF RoutingIInv, ServicesKnown
  <2>2. k \in 0..Len(link') /\ Informs(k, y)'
    BY <1>1, <1>3, <1>5, <2>1, InformsStays
  <2> QED
    BY <2>1, <2>2
<1>9. ServicesKnown'
  BY <1>1, <1>8 DEF ServicesKnown
<1>10. MatchesRouted'
  <2>1. ASSUME unhealed' = {}, gate' = "registered", NEW m \in DOMAIN t,
               NEW y \in Services, sidOf'[y] = t[m]
        PROVE  \E i \in 0..Len(link') : Routes(i, m, y)'
    <3>1. PICK i \in Nat : i = Len(link')
      BY <1>1
    <3>2. i \in 0..Len(link') /\ i # 0 /\ link'[i] = msg /\ i - 1 = Len(link)
      BY <1>1, <1>5, <2>1, <3>1
    <3>3. \A j \in i..Len(link') : j = i
      BY <3>1
    <3>4. sidOf[y] # NoSid /\ sidOf[y] = t[m]
      BY <1>1, <1>2, <2>1 DEF NoSid
    <3>5. PICK k \in 0..(i - 1) : Informs(k, y)'
      BY <1>1, <1>8, <2>1, <3>2, <3>4
    <3>6. Routes(i, m, y)'
      BY <1>1, <1>3, <3>2, <3>3, <3>4, <3>5 DEF Routes
    <3> QED
      BY <3>2, <3>6
  <2> QED
    BY <1>1, <1>2, <2>1 DEF MatchesRouted
<1>11. Registered' /\ OneSid' /\ OneSessionPerService' /\ RoutesAreOpen'
  BY <1>1 DEF RoutingIInv, Registered, OneSid, Broken, SessionsTo, OneSessionPerService,
              RoutesAreOpen
<1> QED
  BY <1>7, <1>9, <1>10, <1>11 DEF RoutingIInv

\* While the GS is not registered nothing is expected of it.
LEMMA UnregisteredStep ==
    ASSUME TypeIInv, TypeIInv', RoutingIInv, gate' # "registered",
           UNCHANGED <<servers, nextSid, table, pending, sidOf, connects, status, routes, login,
                       unhealed>>,
           link' = link \/ link' = <<>>
    PROVE  RoutingIInv'
<1>1. SidsAgree'
  <2>1. \A i \in DOMAIN link' : i \in DOMAIN link /\ link'[i] = link[i]
    OBVIOUS
  <2> QED
    BY <2>1 DEF RoutingIInv, SidsAgree, OwnedBy
<1>2. ServicesKnown' /\ MatchesRouted'
  BY DEF RoutingIInv, ServicesKnown, MatchesRouted
<1>3. Registered' /\ OneSid' /\ OneSessionPerService' /\ RoutesAreOpen'
  BY DEF RoutingIInv, Registered, OneSid, Broken, SessionsTo, OneSessionPerService,
         RoutesAreOpen
<1> QED
  BY <1>1, <1>2, <1>3 DEF RoutingIInv

\* The GateWay registers and is told everything.
LEMMA GateRegistersKeeps ==
    ASSUME TypeIInv, TypeIInv', RoutingIInv, GateRegisters
    PROVE  RoutingIInv'
<1> DEFINE p == ServicesMsg(servers)
           q == DistributionMsg
<1>1. /\ UNCHANGED <<running, sidOf, servers, nextSid, table, pending, connects, made, status,
                    routes, login, faults, unhealed>>
      /\ link' = link \o <<p, q>>
      /\ Len(link) \in Nat /\ Len(link') \in Nat
  BY DEF GateRegisters, central, gateway, TypeIInv
<1>2. p \in Messages /\ q \in Messages
  <2>1. servers \in ServiceLists /\ table \in MatchTables
    BY DEF TypeIInv, TypeOK, ServiceLists, MatchTables
  <2> QED
    BY <2>1, MessagesTyped DEF DistributionMsg
<1>3. /\ \A sid, y : Tells(p, sid, y) <=> sid \in DOMAIN servers /\ servers[sid] = y
      /\ \A sid, y : ~Tells(q, sid, y)
      /\ \A m, sid : Assigns(q, m, sid) <=> m \in DOMAIN table /\ table[m] = sid
      /\ \A m, sid : ~Assigns(p, m, sid)
  BY DEF Tells, Assigns, ServicesMsg, DistributionMsg
<1> HIDE DEF p, q
<1>4. /\ Len(link') = Len(link) + 2
      /\ link'[Len(link) + 1] = p /\ link'[Len(link) + 2] = q
      /\ \A i \in 1..Len(link) : link'[i] = link[i]
  BY <1>1, <1>2, SentTwo DEF TypeIInv
<1>5. \A j \in DOMAIN link' :
         (j \in DOMAIN link /\ link'[j] = link[j]) \/ link'[j] = p \/ link'[j] = q
  <2>1. \A j \in 1..Len(link') : j \in 1..Len(link) \/ j = Len(link) + 1 \/ j = Len(link) + 2
    BY <1>1, <1>4
  <2>2. DOMAIN link = 1..Len(link) /\ DOMAIN link' = 1..Len(link')
    BY DEF TypeIInv
  <2> QED
    BY <1>4, <2>1, <2>2
<1>6. SidsAgree'
  <2> SUFFICES ASSUME "restart" \notin unhealed'
               PROVE  \E owner \in [0..(nextSid' - 1) -> Services] : OwnedBy(owner)'
    BY DEF SidsAgree
  <2>1. PICK owner \in [0..(nextSid - 1) -> Services] : OwnedBy(owner)
    BY <1>1 DEF RoutingIInv, SidsAgree
  <2>2. \A i \in DOMAIN link', sid \in Nat, y \in Services :
           Tells(link'[i], sid, y) => sid < nextSid' /\ owner[sid] = y
    BY <1>1, <1>3, <1>5, <2>1, SMTT(30) DEF OwnedBy, RoutingIInv, Registered
  <2>3. \A i \in DOMAIN link', m \in Matches, sid \in Nat :
           Assigns(link'[i], m, sid) => sid < nextSid' /\ owner[sid] \in MatchServers
    BY <1>1, <1>3, <1>5, <2>1 DEF OwnedBy
  <2>4. OwnedBy(owner)'
    BY <1>1, <2>1, <2>2, <2>3 DEF OwnedBy
  <2> QED
    BY <1>1, <2>4
<1>7. PICK k \in Nat : k = Len(link) + 1
  BY <1>1
<1>8. /\ k # 0 /\ k \in 0..Len(link') /\ k + 1 \in 0..Len(link') /\ k \in 0..((k + 1) - 1)
      /\ k + 1 # 0 /\ link'[k] = p /\ link'[k + 1] = q
      /\ \A j \in k..Len(link') : j = k \/ j = k + 1
      /\ \A j \in (k + 1)..Len(link') : j = k + 1
  BY <1>1, <1>4, <1>7
<1>9. ASSUME unhealed' = {}, NEW y \in Services, sidOf'[y] # NoSid
      PROVE  Informs(k, y)'
  <2>1. sidOf[y] \in DOMAIN servers /\ servers[sidOf[y]] = y
    BY <1>1, <1>9 DEF RoutingIInv, Registered
  <2>2. \A sid \in Nat : Tells(p, sid, y) => sid = sidOf[y]
    BY <1>1, <1>3, <1>9, <2>1 DEF RoutingIInv, OneSid
  <2> QED
    BY <1>1, <1>3, <1>8, <2>1, <2>2 DEF Informs
<1>10. ServicesKnown'
  BY <1>8, <1>9 DEF ServicesKnown
<1>11. ASSUME unhealed' = {}, NEW m \in DOMAIN table, NEW y \in Services, sidOf'[y] = table[m]
       PROVE  Routes(k + 1, m, y)'
  <2>1. Informs(k, y)'
    BY <1>9, <1>11 DEF NoSid, TypeIInv, TypeOK
  <2> QED
    BY <1>1, <1>3, <1>8, <1>11, <2>1 DEF Routes
<1>12. MatchesRouted'
  BY <1>1, <1>8, <1>11 DEF RoutingIInv, MatchesRouted
<1>13. Registered' /\ OneSid' /\ OneSessionPerService' /\ RoutesAreOpen'
  BY <1>1 DEF RoutingIInv, Registered, OneSid, Broken, SessionsTo, OneSessionPerService,
              RoutesAreOpen
<1> QED
  BY <1>6, <1>10, <1>12, <1>13 DEF RoutingIInv

\* The messages move up by one place when the first of them is handled.
LEMMA LinkMoves ==
    ASSUME TypeIInv, Deliver
    PROVE  /\ Len(link) \in Nat \ {0} /\ Len(link') = Len(link) - 1
           /\ \A j \in 1..Len(link') : link'[j] = link[j + 1] /\ j + 1 \in 1..Len(link)
           /\ DOMAIN link = 1..Len(link) /\ DOMAIN link' = 1..Len(link')
           /\ Head(link) = link[1] /\ Head(link) \in Messages /\ 1 \in DOMAIN link
           /\ UNCHANGED <<running, sidOf, servers, nextSid, table, pending, gate, faults,
                          unhealed>>
<1>1. link # <<>> /\ link' = Tail(link) /\ link \in Seq(Messages)
  BY DEF Deliver, TypeIInv
<1>2. /\ Len(link) \in Nat \ {0} /\ Len(link') = Len(link) - 1
      /\ \A j \in 1..Len(link') : link'[j] = link[j + 1]
      /\ DOMAIN link = 1..Len(link) /\ DOMAIN link' = 1..Len(link')
      /\ Head(link) = link[1] /\ Head(link) \in Messages
  BY <1>1
<1> QED
  BY <1>2 DEF Deliver, central

\* A message behind the one delivered moves forward.
LEMMA InformsMoves ==
    ASSUME TypeIInv, Deliver, NEW y \in Services, NEW k \in 0..Len(link), Informs(k, y),
           k \in {0, 1} => \E s \in SessionsTo(y)' : connects'[s] = sidOf'[y]
    PROVE  \E n \in 0..Len(link') : Informs(n, y)' /\ (k = 0 => n = 0) /\ (k > 0 => n = k - 1)
<1>1. CASE k \in {0, 1}
  <2>1. \A j \in 0..Len(link'), sid \in Nat :
           j > 0 /\ Tells(link'[j], sid, y) => sid = sidOf'[y]
    <3> SUFFICES ASSUME NEW j \in 0..Len(link'), NEW sid \in Nat, j > 0, Tells(link'[j], sid, y)
                 PROVE  sid = sidOf'[y]
      OBVIOUS
    <3>1. j \in 1..Len(link') /\ j + 1 \in k..Len(link) /\ j + 1 > 0 /\ link'[j] = link[j + 1]
      BY <1>1, LinkMoves
    <3> QED
      BY <3>1, LinkMoves DEF Informs
  <2>2. Informs(0, y)'
    BY <1>1, <2>1 DEF Informs
  <2> QED
    BY <1>1, <2>2, LinkMoves
<1>2. CASE k \notin {0, 1}
  <2>1. k - 1 \in 1..Len(link') /\ k - 1 \in 0..Len(link') /\ k - 1 # 0
        /\ link'[k - 1] = link[k] /\ k # 0
    BY <1>2, LinkMoves
  <2>2. Tells(link'[k - 1], sidOf'[y], y)
    BY <2>1, LinkMoves DEF Informs
  <2>3. \A j \in (k - 1)..Len(link'), sid \in Nat :
           j > 0 /\ Tells(link'[j], sid, y) => sid = sidOf'[y]
    <3> SUFFICES ASSUME NEW j \in (k - 1)..Len(link'), NEW sid \in Nat, j > 0,
                        Tells(link'[j], sid, y)
                 PROVE  sid = sidOf'[y]
      OBVIOUS
    <3>1. j \in 1..Len(link') /\ j + 1 \in k..Len(link) /\ j + 1 > 0 /\ link'[j] = link[j + 1]
      BY <2>1, LinkMoves
    <3> QED
      BY <3>1, LinkMoves DEF Informs
  <2>4. Informs(k - 1, y)'
    BY <2>1, <2>2, <2>3 DEF Informs
  <2> QED
    BY <2>1, <2>4
<1> QED
  BY <1>1, <1>2

\* What the handlers have to do so that what was to come is there.
LEMMA DeliverKeeps ==
    ASSUME TypeIInv, TypeIInv', RoutingIInv, Deliver,
           \A y \in Services, k \in {0, 1} :
               Informs(k, y) => \E s \in SessionsTo(y)' : connects'[s] = sidOf'[y],
           unhealed = {} => \A m \in Matches, y \in Services, i \in {0, 1} :
               sidOf[y] # NoSid /\ Routes(i, m, y) =>
                   m \in DOMAIN routes' /\ routes'[m].service = y
    PROVE  ServicesKnown' /\ MatchesRouted'
<1>1. ServicesKnown'
  <2> SUFFICES ASSUME unhealed' = {}, gate' = "registered", NEW x \in Services, sidOf'[x] # NoSid
               PROVE  \E k \in 0..Len(link') : Informs(k, x)'
    BY DEF ServicesKnown
  <2>1. PICK k \in 0..Len(link) : Informs(k, x)
    BY LinkMoves DEF RoutingIInv, ServicesKnown
  <2> QED
    BY <2>1, InformsMoves
<1>2. ASSUME ~pending', unhealed' = {}, gate' = "registered", NEW m \in DOMAIN table',
             NEW y \in Services, sidOf'[y] = table'[m]
      PROVE  \E i \in 0..Len(link') : Routes(i, m, y)'
  <2>1. /\ m \in Matches /\ sidOf[y] = table[m] /\ sidOf[y] # NoSid /\ sidOf' = sidOf
        /\ unhealed = {} /\ gate = "registered" /\ ~pending /\ m \in DOMAIN table
    <3>1. table \in [DOMAIN table -> Nat] /\ DOMAIN table \subseteq Matches
      BY DEF TypeIInv, TypeOK
    <3>2. UNCHANGED <<table, sidOf, unhealed, gate, pending>>
      BY LinkMoves
    <3> QED
      BY <1>2, <3>1, <3>2 DEF NoSid
  <2>2. PICK i \in 0..Len(link) : Routes(i, m, y)
    BY <2>1 DEF RoutingIInv, MatchesRouted
  <2>3. CASE i \in {0, 1}
    <3>1. \A j \in 0..Len(link'), sid \in Nat :
             j > 0 /\ Assigns(link'[j], m, sid) => sid = sidOf'[y]
      <4> SUFFICES ASSUME NEW j \in 0..Len(link'), NEW sid \in Nat, j > 0,
                          Assigns(link'[j], m, sid)
                   PROVE  sid = sidOf'[y]
        OBVIOUS
      <4>1. j \in 1..Len(link') /\ j + 1 \in i..Len(link) /\ j + 1 > 0
            /\ link'[j] = link[j + 1]
        BY <2>3, LinkMoves
      <4> QED
        BY <2>1, <2>2, <4>1 DEF Routes
    <3>2. m \in DOMAIN routes' /\ routes'[m].service = y
      BY <2>1, <2>2, <2>3
    <3>3. Routes(0, m, y)'
      BY <3>1, <3>2 DEF Routes
    <3> QED
      BY <3>3, LinkMoves
  <2>4. CASE i \notin {0, 1}
    <3>1. i - 1 \in 1..Len(link') /\ i - 1 \in 0..Len(link') /\ i - 1 # 0
          /\ link'[i - 1] = link[i] /\ i # 0
      BY <2>4, LinkMoves
    <3>2. Assigns(link'[i - 1], m, sidOf'[y])
      BY <2>1, <2>2, <3>1 DEF Routes
    <3>3. PICK k \in 0..(i - 1) : Informs(k, y)
      BY <2>2, <3>1 DEF Routes
    <3>4. k \in 0..Len(link)
      BY <2>4, LinkMoves
    <3>5. PICK n \in 0..Len(link') :
            Informs(n, y)' /\ (k = 0 => n = 0) /\ (k > 0 => n = k - 1)
      BY <3>3, <3>4, InformsMoves
    <3>6. n \in 0..((i - 1) - 1)
      BY <2>4, <3>5, LinkMoves
    <3>7. \A j \in (i - 1)..Len(link'), sid \in Nat :
             j > 0 /\ Assigns(link'[j], m, sid) => sid = sidOf'[y]
      <4> SUFFICES ASSUME NEW j \in (i - 1)..Len(link'), NEW sid \in Nat, j > 0,
                          Assigns(link'[j], m, sid)
                   PROVE  sid = sidOf'[y]
        OBVIOUS
      <4>1. j \in 1..Len(link') /\ j + 1 \in i..Len(link) /\ j + 1 > 0
            /\ link'[j] = link[j + 1]
        BY <3>1, LinkMoves
      <4> QED
        BY <2>1, <2>2, <4>1 DEF Routes
    <3>8. Routes(i - 1, m, y)'
      BY <3>1, <3>2, <3>5, <3>6, <3>7 DEF Routes
    <3> QED
      BY <3>1, <3>8
  <2> QED
    BY <2>3, <2>4
<1>3. MatchesRouted'
  BY <1>2, LinkMoves DEF RoutingIInv, MatchesRouted
<1> QED
  BY <1>1, <1>3

\* A list of services arrives.
LEMMA DeliverServicesKeeps ==
    ASSUME TypeIInv, TypeIInv', RoutingIInv, Deliver,
           Head(link).kind = "services", addNewConnects(Head(link).list), UNCHANGED routes
    PROVE  RoutingIInv'
<1>1. PICK list : list = Head(link).list
  OBVIOUS
<1>2. /\ list \in [DOMAIN list -> Services] /\ DOMAIN list \subseteq Nat
      /\ \A sid, y : Tells(link[1], sid, y) <=> sid \in DOMAIN list /\ list[sid] = y
      /\ \A m, sid : ~Assigns(link[1], m, sid)
  BY <1>1, LinkMoves, MessageLists DEF Tells, Assigns
<1>3. PICK sid \in [Range(list) -> DOMAIN list], new \in SUBSET Sessions :
             /\ \A x \in Range(list) : list[sid[x]] = x
             /\ DOMAIN connects' = DOMAIN connects \cup new
             /\ connects' \in [DOMAIN connects' -> Nat \cup {NoSid}]
             /\ \A s \in DOMAIN connects' :
                   s.service \in Range(list) => connects'[s] = sid[s.service]
             /\ \A s \in DOMAIN connects :
                   s.service \notin Range(list) => connects'[s] = connects[s]
             /\ \A s \in new : s.service \in Range(list) /\ SessionsTo(s.service) = {}
             /\ \A s, t \in new : s.service = t.service => s = t
             /\ \A x \in Range(list) : \E s \in DOMAIN connects' : s.service = x
             /\ status' \in [DOMAIN connects' -> {"connecting", "open", "broken"}]
             /\ \A s \in DOMAIN connects : s \notin new => status'[s] = status[s]
             /\ \A s \in new : status'[s] = "connecting"
             /\ \/ login' = login
                \/ login' \in DOMAIN connects' /\ login'.service \in LoginServers
             /\ made' \in [Services -> Nat]
  <2>1. addNewConnects(list)
    BY <1>1
  <2> QED
    BY <1>2, <2>1, AddEffect, Zenon
<1>4. \A x \in Range(list) : sid[x] \in Nat /\ Tells(link[1], sid[x], x)
  BY <1>2, <1>3
<1>5. \A y \in Services, k \in {0, 1} :
         Informs(k, y) => \E s \in SessionsTo(y)' : connects'[s] = sidOf'[y]
  <2> SUFFICES ASSUME NEW y \in Services, NEW k \in {0, 1}, Informs(k, y)
               PROVE  \E s \in SessionsTo(y)' : connects'[s] = sidOf'[y]
    OBVIOUS
  <2>1. CASE y \in Range(list)
    <3>1. 1 \in k..Len(link) /\ 1 > 0
      BY LinkMoves
    <3>2. sid[y] = sidOf[y]
      BY <1>4, <2>1, <3>1 DEF Informs
    <3> QED
      BY <1>3, <2>1, <3>2, LinkMoves DEF SessionsTo
  <2>2. CASE y \notin Range(list)
    <3>1. k = 0
      BY <1>2, <2>2 DEF Informs, Range
    <3>2. PICK s \in DOMAIN connects : s.service = y /\ connects[s] = sidOf[y]
      BY <3>1 DEF Informs, SessionsTo
    <3> QED
      BY <1>3, <2>2, <3>2, LinkMoves DEF SessionsTo
  <2> QED
    BY <2>1, <2>2
<1>6. ServicesKnown' /\ MatchesRouted'
  <2>1. \A m \in Matches, y \in Services, i \in {0, 1} :
           sidOf[y] # NoSid /\ Routes(i, m, y) =>
               m \in DOMAIN routes' /\ routes'[m].service = y
    BY <1>2 DEF Routes
  <2> QED
    BY <1>5, <2>1, DeliverKeeps
<1>7. SidsAgree'
  <2> SUFFICES ASSUME "restart" \notin unhealed'
               PROVE  \E owner \in [0..(nextSid' - 1) -> Services] : OwnedBy(owner)'
    BY DEF SidsAgree
  <2>1. PICK owner \in [0..(nextSid - 1) -> Services] : OwnedBy(owner)
    BY LinkMoves DEF RoutingIInv, SidsAgree
  <2>2. \A s \in DOMAIN connects' : connects'[s] # NoSid =>
           connects'[s] < nextSid' /\ owner[connects'[s]] = s.service
    <3> SUFFICES ASSUME NEW s \in DOMAIN connects', connects'[s] # NoSid
                 PROVE  connects'[s] < nextSid' /\ owner[connects'[s]] = s.service
      OBVIOUS
    <3>1. CASE s.service \in Range(list)
      <4>1. s.service \in Services
        BY <1>2, <3>1 DEF Range
      <4> QED
        BY <1>3, <1>4, <2>1, <3>1, <4>1, LinkMoves, SMTT(30) DEF OwnedBy
    <3>2. CASE s.service \notin Range(list)
      BY <1>3, <2>1, <3>2, LinkMoves DEF OwnedBy
    <3> QED
      BY <3>1, <3>2
  <2>3. \A j \in DOMAIN link' : \E n \in DOMAIN link : link'[j] = link[n]
    BY LinkMoves
  <2>4. OwnedBy(owner)'
    BY <2>1, <2>2, <2>3, LinkMoves DEF OwnedBy
  <2> QED
    BY <2>4, LinkMoves
<1>8. OneSid'
  <2>1. \A x \in Services : Broken(x)' => Broken(x)
    BY <1>3 DEF Broken, SessionsTo
  <2> QED
    BY <2>1, LinkMoves DEF RoutingIInv, OneSid
<1>9. OneSessionPerService'
  BY <1>3 DEF RoutingIInv, OneSessionPerService, SessionsTo
<1>10. RoutesAreOpen'
  BY <1>3, LinkMoves DEF RoutingIInv, RoutesAreOpen
<1>11. Registered'
  BY LinkMoves DEF RoutingIInv, Registered
<1> QED
  BY <1>6, <1>7, <1>8, <1>9, <1>10, <1>11 DEF RoutingIInv

\* A distribution arrives.
LEMMA DeliverDistributionKeeps ==
    ASSUME TypeIInv, TypeIInv', RoutingIInv, Deliver,
           Head(link).kind = "distribution", distibuteMatchesNotify(Head(link).list),
           UNCHANGED <<connects, made, status, login>>
    PROVE  RoutingIInv'
<1>1. PICK t : t = Head(link).list
  OBVIOUS
<1>2. /\ t \in [DOMAIN t -> Nat] /\ DOMAIN t \subseteq Matches
      /\ \A sid, y : ~Tells(link[1], sid, y)
      /\ \A m, sid : Assigns(link[1], m, sid) <=> m \in DOMAIN t /\ t[m] = sid
  BY <1>1, LinkMoves, MessageLists DEF Tells, Assigns
<1>3. /\ routes' \in [DOMAIN routes' -> Sessions] /\ DOMAIN routes' \subseteq Matches
      /\ \A m \in DOMAIN t : SessionsOf(t[m]) # {} =>
            m \in DOMAIN routes' /\ routes'[m] \in SessionsOf(t[m])
      /\ \A m \in Matches : ~(m \in DOMAIN t /\ SessionsOf(t[m]) # {}) =>
            /\ m \in DOMAIN routes' <=> m \in DOMAIN routes
            /\ m \in DOMAIN routes => routes'[m] = routes[m]
  BY <1>1, <1>2, RouteEffect
<1>4. ASSUME "restart" \notin unhealed, NEW m \in DOMAIN t, NEW s \in SessionsOf(t[m])
      PROVE  /\ s \in DOMAIN connects /\ s.service \in MatchServers
             /\ \A y \in Services : sidOf[y] = t[m] => s.service = y
  <2>1. PICK owner \in [0..(nextSid - 1) -> Services] : OwnedBy(owner)
    BY <1>4 DEF RoutingIInv, SidsAgree
  <2>2. s \in DOMAIN connects /\ connects[s] = t[m] /\ t[m] \in Nat /\ connects[s] # NoSid
        /\ m \in Matches
    BY <1>2, <1>4 DEF SessionsOf, NoSid
  <2>3. owner[t[m]] = s.service /\ owner[t[m]] \in MatchServers
    BY <1>2, <2>1, <2>2, LinkMoves DEF OwnedBy
  <2>4. \A y \in Services : sidOf[y] = t[m] => owner[t[m]] = y
    BY <2>1, <2>2 DEF OwnedBy, RoutingIInv, Registered, NoSid
  <2> QED
    BY <2>2, <2>3, <2>4
<1>5. \A y \in Services, k \in {0, 1} :
         Informs(k, y) => k = 0 /\ \E s \in SessionsTo(y)' : connects'[s] = sidOf'[y]
  BY <1>2, LinkMoves DEF Informs, SessionsTo
<1>6. unhealed = {} => \A m \in Matches, y \in Services, i \in {0, 1} :
         sidOf[y] # NoSid /\ Routes(i, m, y) => m \in DOMAIN routes' /\ routes'[m].service = y
  <2> SUFFICES ASSUME unhealed = {}, NEW m \in Matches, NEW y \in Services, NEW i \in {0, 1},
                      sidOf[y] # NoSid, Routes(i, m, y)
               PROVE  m \in DOMAIN routes' /\ routes'[m].service = y
    OBVIOUS
  <2>1. m \in DOMAIN t => t[m] = sidOf[y]
    <3>1. 1 \in i..Len(link) /\ 1 > 0
      BY LinkMoves
    <3> QED
      BY <1>2, <3>1 DEF Routes
  <2>2. CASE m \in DOMAIN t /\ SessionsOf(t[m]) # {}
    <3>1. m \in DOMAIN routes' /\ routes'[m] \in SessionsOf(t[m])
      BY <1>3, <2>2
    <3> QED
      BY <1>4, <2>1, <2>2, <3>1
  <2>3. CASE ~(m \in DOMAIN t /\ SessionsOf(t[m]) # {})
    <3>1. i = 0
      <4> SUFFICES ASSUME i = 1 PROVE FALSE
        OBVIOUS
      <4>1. m \in DOMAIN t /\ \E k \in 0..(1 - 1) : Informs(k, y)
        BY <1>2 DEF Routes
      <4>2. \E s \in SessionsTo(y) : connects[s] = sidOf[y]
        BY <4>1 DEF Informs
      <4> QED
        BY <2>1, <2>3, <4>1, <4>2 DEF SessionsOf, SessionsTo
    <3> QED
      BY <1>3, <2>3, <3>1 DEF Routes
  <2> QED
    BY <2>2, <2>3
<1>7. ServicesKnown' /\ MatchesRouted'
  BY <1>5, <1>6, DeliverKeeps
<1>8. SidsAgree'
  <2>1. \A j \in DOMAIN link' : \E n \in DOMAIN link : link'[j] = link[n]
    BY LinkMoves
  <2> QED
    BY <2>1, LinkMoves DEF RoutingIInv, SidsAgree, OwnedBy
<1>9. RoutesAreOpen'
  <2>1. ASSUME "restart" \notin unhealed, NEW m \in DOMAIN routes'
        PROVE  routes'[m] \in DOMAIN connects /\ routes'[m].service \in MatchServers
    <3>1. CASE m \in DOMAIN t /\ SessionsOf(t[m]) # {}
      BY <1>3, <1>4, <2>1, <3>1
    <3>2. CASE ~(m \in DOMAIN t /\ SessionsOf(t[m]) # {})
      BY <1>3, <2>1, <3>2 DEF RoutingIInv, RoutesAreOpen
    <3> QED
      BY <3>1, <3>2
  <2> QED
    BY <2>1, LinkMoves DEF RoutingIInv, RoutesAreOpen
<1>10. Registered' /\ OneSid' /\ OneSessionPerService'
  BY LinkMoves DEF RoutingIInv, Registered, OneSid, Broken, SessionsTo, OneSessionPerService
<1> QED
  BY <1>7, <1>8, <1>9, <1>10 DEF RoutingIInv

\* A session closes.
LEMMA CloseKeeps ==
    ASSUME TypeIInv, TypeIInv', RoutingIInv, NEW s \in DOMAIN connects, SessionCloses(s)
    PROVE  RoutingIInv'
<1>1. /\ UNCHANGED <<running, sidOf, servers, nextSid, table, pending, gate, link, made, faults,
                    unhealed>>
      /\ status[s] = "broken"
  BY DEF SessionCloses, central
<1>2. /\ DOMAIN connects' = DOMAIN connects \ {s}
      /\ \A r \in DOMAIN connects' : connects'[r] = connects[r] /\ status'[r] = status[r]
      /\ DOMAIN routes' \subseteq DOMAIN routes
      /\ \A m \in DOMAIN routes' : routes'[m] = routes[m]
      /\ \A m \in DOMAIN routes : routes[m] # s => m \in DOMAIN routes'
      /\ s.service \in MatchServers => \A m \in DOMAIN routes' : routes'[m] # s
      /\ login' = IF login = s THEN NoSession ELSE login
  BY CloseEffect
<1>3. unhealed = {} => \A x \in Services : sidOf[x] # NoSid => s.service # x
  BY <1>1 DEF RoutingIInv, OneSid, Broken, SessionsTo
<1>4. ASSUME unhealed = {}, NEW y \in Services, sidOf[y] # NoSid, NEW k, Informs(k, y)
      PROVE  Informs(k, y)'
  <2>1. SessionsTo(y) = SessionsTo(y)' /\ \A r \in SessionsTo(y) : connects'[r] = connects[r]
    BY <1>2, <1>3, <1>4 DEF SessionsTo
  <2> QED
    BY <1>1, <1>4, <2>1 DEF Informs
<1>5. ServicesKnown'
  BY <1>1, <1>4 DEF RoutingIInv, ServicesKnown
<1>6. ASSUME unhealed = {}, NEW y \in Services, sidOf[y] # NoSid, NEW m, NEW i, Routes(i, m, y)
      PROVE  Routes(i, m, y)'
  <2>1. m \in DOMAIN routes /\ routes[m].service = y =>
            m \in DOMAIN routes' /\ routes'[m].service = y
    BY <1>2, <1>3, <1>6
  <2> QED
    BY <1>1, <1>4, <1>6, <2>1 DEF Routes
<1>7. MatchesRouted'
  <2>1. table \in [DOMAIN table -> Nat]
    BY DEF TypeIInv, TypeOK
  <2>2. \A m \in DOMAIN table : table[m] # NoSid
    BY <2>1 DEF NoSid
  <2> QED
    BY <1>1, <1>6, <2>2 DEF RoutingIInv, MatchesRouted
<1>8. SidsAgree'
  BY <1>1, <1>2 DEF RoutingIInv, SidsAgree, OwnedBy
<1>9. OneSid'
  <2>1. \A x \in Services : Broken(x)' => Broken(x)
    BY <1>2 DEF Broken, SessionsTo
  <2> QED
    BY <1>1, <2>1 DEF RoutingIInv, OneSid
<1>10. RoutesAreOpen'
  BY <1>1, <1>2 DEF RoutingIInv, RoutesAreOpen
<1>11. Registered' /\ OneSessionPerService'
  BY <1>1, <1>2 DEF RoutingIInv, Registered, OneSessionPerService
<1> QED
  BY <1>5, <1>7, <1>8, <1>9, <1>10, <1>11 DEF RoutingIInv

\* The CentralServer restarts.
LEMMA RestartKeeps ==
    ASSUME TypeIInv, TypeIInv', RoutingIInv, CentralRestarts
    PROVE  RoutingIInv'
<1>1. /\ UNCHANGED <<running, connects, made, status, routes, login>>
      /\ \A x \in Services : sidOf'[x] = NoSid
      /\ DOMAIN servers' = {} /\ pending' /\ "restart" \in unhealed'
  BY DEF CentralRestarts, gateway
<1>2. Registered' /\ SidsAgree' /\ OneSid' /\ ServicesKnown' /\ MatchesRouted'
  BY <1>1 DEF Registered, SidsAgree, OneSid, ServicesKnown, MatchesRouted
<1>3. OneSessionPerService' /\ RoutesAreOpen'
  BY <1>1 DEF RoutingIInv, OneSessionPerService, RoutesAreOpen
<1> QED
  BY <1>2, <1>3 DEF RoutingIInv

\* Every step keeps the invariant.
LEMMA RoutingNext == TypeIInv /\ TypeIInv' /\ RoutingIInv /\ [Next]_vars => RoutingIInv'
<1> SUFFICES ASSUME TypeIInv, TypeIInv', RoutingIInv, [Next]_vars PROVE RoutingIInv'
  OBVIOUS
<1>1. ASSUME NEW x \in Services, Register(x) PROVE RoutingIInv'
  BY <1>1, RegisterKeeps
<1>2. ASSUME NEW sid \in DOMAIN servers, RemoveService(sid) PROVE RoutingIInv'
  BY <1>2, RemoveKeeps
<1>3. ASSUME NEW sid \in DOMAIN servers, NEW M \in SUBSET Matches, Recover(sid, M)
      PROVE  RoutingIInv'
  BY <1>3, RecoverKeeps
<1>4. ASSUME NEW t \in Tables, Redistribute(t) PROVE RoutingIInv'
  BY <1>4, RedistributeKeeps
<1>5. ASSUME GateConnects PROVE RoutingIInv'
  BY <1>5, UnregisteredStep DEF GateConnects, central, gateway
<1>6. ASSUME GateRegisters PROVE RoutingIInv'
  BY <1>6, GateRegistersKeeps
<1>7. ASSUME Deliver PROVE RoutingIInv'
  BY <1>7, DeliverServicesKeeps, DeliverDistributionKeeps DEF Deliver
<1>8. ASSUME NEW s \in DOMAIN connects, SessionConnects(s) PROVE RoutingIInv'
  <2>1. \A r \in DOMAIN connects : status'[r] = "broken" => status[r] = "broken"
    BY <1>8 DEF SessionConnects, TypeIInv, TypeOK
  <2> QED
    BY <1>8, <2>1, QuietStep DEF SessionConnects, central
<1>9. ASSUME NEW s \in DOMAIN connects, SessionCloses(s) PROVE RoutingIInv'
  BY <1>9, CloseKeeps
<1>10. ASSUME NEW x \in Services, Crash(x) PROVE RoutingIInv'
  <2>1. \A y \in Services : sidOf'[y] # NoSid => sidOf'[y] = sidOf[y]
    BY <1>10 DEF Crash, TypeIInv, TypeOK
  <2>2. \A s \in DOMAIN connects :
           status'[s] = "broken" /\ sidOf'[s.service] # NoSid => status[s] = "broken"
    BY <1>10 DEF Crash, Breaks, SessionsTo, TypeIInv, TypeOK
  <2> QED
    BY <1>10, <2>1, <2>2, QuietStep DEF Crash, central
<1>11. ASSUME NEW x \in Services, Start(x) PROVE RoutingIInv'
  BY <1>11, QuietStep DEF Start, central, gateway
<1>12. ASSUME NEW x \in Services, ServiceLosesCentral(x) PROVE RoutingIInv'
  <2>1. \A y \in Services : sidOf'[y] # NoSid => sidOf'[y] = sidOf[y]
    BY <1>12 DEF ServiceLosesCentral, TypeIInv, TypeOK
  <2> QED
    BY <1>12, <2>1, QuietStep DEF ServiceLosesCentral, central, gateway
<1>13. ASSUME GateLosesCentral PROVE RoutingIInv'
  BY <1>13, UnregisteredStep DEF GateLosesCentral, central, gateway
<1>14. ASSUME NEW s \in DOMAIN connects, GateLosesService(s) PROVE RoutingIInv'
  BY <1>14, QuietStep DEF GateLosesService, central
<1>15. ASSUME CentralRestarts PROVE RoutingIInv'
  BY <1>15, RestartKeeps
<1>16. ASSUME UNCHANGED vars PROVE RoutingIInv'
  BY <1>16, QuietStep DEF vars, central, gateway
<1> QED
  BY <1>1, <1>2, <1>3, <1>4, <1>5, <1>6, <1>7, <1>8, <1>9, <1>10, <1>11, <1>12, <1>13, <1>14,
     <1>15, <1>16 DEF Next

\* So it holds in every state.
LEMMA RoutingInvariant == Spec => [](TypeIInv /\ RoutingIInv)
<1>1. Init => TypeIInv /\ RoutingIInv
  BY TypeInit, RoutingInit
<1>2. TypeIInv /\ RoutingIInv /\ [Next]_vars => (TypeIInv /\ RoutingIInv)'
  BY TypeNext, RoutingNext
<1> QED
  BY <1>1, <1>2, PTL DEF Spec

(***************************************************************************)
(* transToMS and transToLS never send into a session that was given up,    *)
(* nor to a service of the wrong type, until the CS restarts and hands out *)
(* the sids of its former run.                                             *)
(***************************************************************************)
THEOREM RoutesOpen == Spec => []RoutesAreOpen
<1>1. TypeIInv /\ RoutingIInv => RoutesAreOpen
  BY DEF RoutingIInv
<1> QED
  BY <1>1, RoutingInvariant, PTL

(***************************************************************************)
(* However often the gateway hears of a service, checkConnectService keeps *)
(* it to one session.                                                      *)
(***************************************************************************)
THEOREM OneSession == Spec => []OneSessionPerService
<1>1. TypeIInv /\ RoutingIInv => OneSessionPerService
  BY DEF RoutingIInv
<1> QED
  BY <1>1, RoutingInvariant, PTL

(***************************************************************************)
(* A gateway that has handled what the CS sent it knows every registered   *)
(* service and routes every match to the match server it was assigned to,  *)
(* for any number of services, matches, messages on their way and faults.  *)
(***************************************************************************)
THEOREM MatchesReach == Spec => []MatchesReachTheirService
<1>1. ASSUME TypeIInv, RoutingIInv, UpToDate, unhealed = {}
      PROVE  /\ \A sid \in DOMAIN servers :
                  sidOf[servers[sid]] = sid =>
                     \E s \in DOMAIN connects : s.service = servers[sid] /\ connects[s] = sid
             /\ ~pending => \A m \in DOMAIN table :
                  sidOf[servers[table[m]]] = table[m] =>
                     m \in DOMAIN routes /\ routes[m].service = servers[table[m]]
  <2>1. gate = "registered" /\ \A k \in 0..Len(link) : k = 0
    BY <1>1 DEF UpToDate
  <2>2. /\ servers \in [DOMAIN servers -> Services] /\ DOMAIN servers \subseteq Nat
        /\ \A sid \in DOMAIN servers : sid # NoSid
    BY <1>1 DEF TypeIInv, TypeOK, NoSid
  <2>3. ASSUME NEW sid \in DOMAIN servers, sidOf[servers[sid]] = sid
        PROVE  \E s \in DOMAIN connects : s.service = servers[sid] /\ connects[s] = sid
    <3>1. PICK x \in Services : x = servers[sid]
      BY <2>2
    <3>2. \E k \in 0..Len(link) : Informs(k, x)
      BY <1>1, <2>1, <2>2, <2>3, <3>1 DEF RoutingIInv, ServicesKnown
    <3>3. Informs(0, x)
      BY <2>1, <3>2
    <3> QED
      BY <2>3, <3>1, <3>3 DEF Informs, SessionsTo
  <2>4. ASSUME ~pending, NEW m \in DOMAIN table, sidOf[servers[table[m]]] = table[m]
        PROVE  m \in DOMAIN routes /\ routes[m].service = servers[table[m]]
    <3>1. PICK x \in Services : x = servers[table[m]]
      BY <1>1, <2>2, <2>4 DEF RoutingIInv, MatchesRouted
    <3>2. \E i \in 0..Len(link) : Routes(i, m, x)
      BY <1>1, <2>1, <2>4, <3>1 DEF RoutingIInv, MatchesRouted
    <3>3. Routes(0, m, x)
      BY <2>1, <3>2
    <3> QED
      BY <3>1, <3>3 DEF Routes
  <2> QED
    BY <2>3, <2>4
<1>2. TypeIInv /\ RoutingIInv => MatchesReachTheirService
  BY <1>1 DEF MatchesReachTheirService
<1> QED
  BY <1>2, RoutingInvariant, PTL
=============================================================================
