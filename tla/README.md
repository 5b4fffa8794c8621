# TLA+ models of asio_utils

`asio_utils` is a C++ network library on standalone asio (`ASIO_ALONE_STUDY/Net`), some shared
server code (`ASIO_ALONE_STUDY/CPG`) and the servers of a distributed card-match platform built
on them. This directory models the parts of it that carry state across messages, timers, threads
and failures.

## 1. Inventory

### 1.1 The system

The CentralServer (CS) is the hub. Every other server (match servers MS, gateways GS, login servers
LS, the balance server BS) connects to it as a client, registers, and is told of the servers it
shall connect to. The CS alone decides which MS runs which match. Gateways hold the connections of
players and pass their messages on to MS, LS or CS. Each server handles its network events on one
`io_context` thread, so a handler runs to its end undisturbed; concurrency is between servers,
between a handler and the timers and messages that are under way, and between the `io_context`
thread and the worker threads (database, logging, HTTP).

| component | state it keeps | operations | interacts with |
|---|---|---|---|
| CSMatchManager | `matchServices_` (service, load -> matches), `matches_`, `undistMatches_`, `changedServices_`, `timer_`, `matchLatestUpdateTime_` | updateMatchService, removeMatchService, checkServiceDistMap, createMatch(es), updateDistMatchServices (timer) | called by CSKernel; calls MatchDistribution; result goes out by CSKernel::distributeMatch |
| MatchDistribution | none (works on the manager's map and list) | fill, clip, fill | CSMatchLoadedEvaluation |
| CSKernel | `servers_` (sid -> ServerInfo) | serverRegistRQ, removeService, checkMatchDistributeRQ, distributeMatch, requestBestGateServer | all sessions of the CS |
| MatchServer | `matches_`, the gateways' sessions | apply a distribution, report the list on connecting | CS, GS |
| ObjectIndexPool, TCPSessionManager | index -> session, free indexes | addSession, removeSessionPtr, getSession, sendMsg | every server; the index is the session's uuid and, on the CS, the service's sid |
| TCPSession, ClientSession | connection state, input and output buffers | send, read, write, close, reconnect | TCPConnector, session managers |
| TCPConnector | state, retry delay, endpoint iterator | start, stop, restart, retry | resolver, timers |
| ServiceKernel, CPGToCentralSession | connected services, logicID | addNewConnect, removeServiceSession, register, heart beat | CS |
| GateWay | match -> session routes, sessions to LS and CS | distibuteMatchesNotify, updateServiceConnect, transTo* | CS, MS, LS, players |
| match creation | DB queue, promises | createMatch, DB worker, completion on the main queue | CSMatchManager, DBActiveWrapper |
| Active, EventActive | work queue, worker, stop flag | add, stop, run | DB wrapper, HTTP client |
| AsyncLogging | current and next buffer, full buffers | append, threadFunc, stop | everybody |
| DataBuffer, packets | read and write index | append, retrieve, makeSpace, hasPacket | TCPSession |
| heartbeats | time of last beat per session | beat, overtime check | session managers |
| LS, BS, robots, configuration, SQL, web | little or none of their own | | |

### 1.2 What is hard

* **Failures of match servers around the CS's quiet period.** Changes are not applied at once but
  logged, and applied by a timer when 25 seconds have passed without another change. Services come,
  leave, return and report in between.
* **Restart of the CS.** It forgets everything; the MSs reconnect on their own, get new sids and
  report their lists, while gateways still have the sids and routes of the earlier run.
* **Reports and redistributions cross.** A report describes the past.
* **Partial information.** The CS sends only the lists that the strategy reports as changed.
* **Limits.** The session pool at its capacity; more services than matches; the remainder of a
  division.
* **Connections under a session.** A session outlives its connections: a write fails or is partial,
  a handler of an earlier socket runs late, attempts are stopped, retried or doubled.
* **Announcements and connections cross.** A gateway hears of services from its configuration, from
  the replies to its registrations and from theirs, while connections end and sids change.
* **Addresses that are used again.** A reply is addressed by the uuid of a player who may have left.
* **Streams.** The network cuts packets anywhere, and the input buffer outlives the connection.
* **Threads.** The creation of a match crosses the web, DB and main threads; log buffers change
  hands between the appending threads and the log thread.

The full list, with lines, is under `hazards` in `PROJECT.json`.

### 1.3 What makes each component correct

* CSMatchManager: no match lost, none on two services unless it is created again; the log of changes
  agrees with the registry of connections; a logged change is eventually applied; what the MSs run is what
  the CS has on record; the load is spread.
* MatchDistribution: conserves matches, keeps the cached loads right, settles.
* ObjectIndexPool: one session per index, no index lost, a message reaches the session it is for.
* TCPSession, TCPConnector: one connection at a time, no data lost or doubled, retries go on until stopped.
* DataBuffer, packets: what is sent as a packet is handled as that packet, once and in order; memory
  does not grow with the stream.
* ServiceKernel, CSKernel: a registered server has one entry; whoever must connect to it learns of it
  and has one session to it.
* GateWay: messages of a match go to the MS that runs it; a reply reaches the player who asked;
  silent players go.
* Match creation: each request is answered, with a mid of its own match; what was created opens.
* Logging: no line is lost silently, none is read while it is written.

## 2. Modules

| module | models | from |
|---|---|---|
| `MatchDistribution` | the strategy on sets of matches | `CSMatchDistribution.cpp`, `CSMatchLoadedEvaluation.cpp` |
| `MatchDistributionList` | the strategy as the code runs it, on lists; also the module of its run | the same |
| `MatchDistributionListProofs` | theorems about `MatchDistributionList` | |
| `MatchManager` | the match manager, the registry and the lists of the MSs | `CSMatchManager.cpp`, `CSKernel.cpp`, `M2CSession.cpp`, `MSKernel.cpp` |
| `MCMatchManager` | instances for TLC | |
| `MatchManagerProofs` | theorems about `MatchManager` and the strategy: types, the log of changes, the partition of the matches; loads, balance, the lists of the MSs | |
| `ObjectIndexPool` | the pool and its use by TCPSessionManager | `ObjectIndexPool.hpp`, `TCPSessionManager.cpp` |
| `MessageQueue` | what a session promises: an abstract queue | |
| `ClientSession` | a session to another server, its connector and its close callback; also the module of its runs | `TCPSession.cpp`, `TCPConnector.cpp`, `TCPSessionManager.cpp` |
| `ClientSessionProofs` | theorems about `ClientSession` | |
| `DataBuffer` | the growing buffer, as operators | `DataBuffer.hpp` |
| `PacketStream` | the bytes of a connection, cut into packets; extends `DataBuffer` and is the module of its run | `TCPSession.cpp`, `NetPacket.cpp`, `CPGNetSession.cpp` |
| `PacketStreamProofs` | theorems about `PacketStream` and the operators of `DataBuffer` | |
| `ServiceRouting` | the registry of the CS, what it tells a gateway, the gateway's connections and routes, and failing services | `CSKernel.cpp`, `ServiceKernel.cpp`, `CPGToCentralSession.cpp`, `GSKernel.cpp` |
| `MCServiceRouting` | its instance for TLC | |
| `ServiceRoutingProofs` | theorems about `ServiceRouting` | |
| `Gate` | players, requests, replies and time-outs; extends `ObjectIndexPool` | `ClientSession.cpp`, `GSKernel.cpp`, `GSSessionManager.cpp` of the gateway |
| `MCGate` | its instance for TLC | |
| `GateProofs` | theorems about `ObjectIndexPool`, and about `Gate` on them | |
| `MatchCreation` | the creation of a match on three threads of the CS | `CSWebServer.cpp`, `CSMatchManager+AsyncDBHandler.cpp`, `CPGMatchCreateFactory.cpp`, `PromiseFutureQueue.cpp` |
| `MCMatchCreation` | its instances for TLC | |
| `MatchCreationProofs` | theorems about `MatchCreation` | |
| `AsyncLogging` | the log thread and its buffers; also the module of its run | `Logging.cpp`, `Logging.hpp` |
| `AsyncLoggingProofs` | theorems about `AsyncLogging` | |

`ServiceRouting` takes from `MatchManager` only that a redistribution follows every change and assigns
matches to registered MSs, and that a match is on at most one of them: its table is a function of matches,
so it is about matches whose creation was not repeated (section 6). `MatchCreation` ends with what
`createdMatches` is in `MatchManager`, where the mid is any, also one that is known already, as a repeated
mid or the -1 of a second failed statement is. The retries that `ServiceRouting` assumes are those of
`ClientSession`.

A definition commented "Mutation of ..." is a deliberately wrong variant of the definition that
follows it; no specification uses it. It documents which error in the code a property catches.

### 2.1 MatchDistribution and MatchDistributionList

`MatchDistribution::operator()` fills the services below the average with undistributed matches, lets the
services above it give matches back if some service is too free or too busy, and fills again. *Which*
match moves depends on list order and nobody looks at it, *how many* move and between whom is what
matters. `MatchDistribution` therefore works on sets, exact in the numbers and free in the choice. A
service's place in the loop is expressed by `ServedBefore`, and the loop by `Fills`: no service gets more
than its `FillQuota`, and none gets less that is served before another which gets a match, or while a
match is left over. `MatchDistributionList` is the code's loops over lists, as recursive functions of the
round (`FillRounds`, `ClipRounds`) over the services in the order of the stable sort (`Ascending`,
`Descending`). A call is made with what the manager can have: every element in one list or undistributed,
in any order, and loads that are right or 0. The elements are the entries of `MatchManager` (2.2): the
strategy moves elements and never compares them, so an id that is in the lists twice is two elements, and
each behaves as a match of its own. `ListsRefineSets` says that every result is one the set version allows
and that each match is in exactly one place. The match manager and its proofs are built on the set
version. `canRedistribute` is constantly true in the code and is left out; `tooBusy`'s 10 is the constant
`BusyLoad`.

### 2.2 MatchManager

State: `matchServices`, `loaded` (the code keys its map by a pair of sid and load, compared by sid only:
two functions on the same domain), `matches` (the keys of `matches_`), `undistMatches`, `changedServices`
(a list without two entries of a sid: a set), the timers, and the surroundings the manager's correctness
depends on:

* `alive`: the MSs in `servers_`; `lost`: those whose connection has ended unnoticed by the CS;
* `recoverable`: MSs that run without a connection, with their old sid and list;
* `reports`: `CheckMatchDistributeRQ` messages under way;
* `held`: the match list of each MS, empty again when its session has closed.

A list of ids can hold an id twice, and two lists can hold the same id: `createdMatches` passes every
mid to `addUndistriteMatches`, which drops doubles among the undistributed ones only (`Unique`), so that a
match that is on a service gets a second entry there (`CSMatchManager.cpp:574-583`, `153-159`). A list is
therefore a set of entries, an id with a number; the numbers tell the entries of an id apart and mean
nothing: lists are compared by how often they hold each id (`SameList`, `Exceeds`), as `set_difference`
does, and a list that is reported gets numbers that are free (`Renumbered`). `repeated` are the matches
that may be at two places for this reason, or because an earlier run of the CS left them so; `repeats`
counts towards the bound `MaxRepeats`.

Time is counted in units of five seconds. `quiet` counts the units since `matchLatestUpdateTime_`,
up to the quiet period; an expired timer may wait for its handler arbitrarily long.

| action | code |
|---|---|
| `RegisterNew`, `RegisterReconnected` | `CSKernel::serverRegistRQ` for an MS, with `updateMatchService`; the MS's `sendInitData` |
| `LoseConnection` | an MS sees its connection break, the CS not yet |
| `RemoveService` | `MatchSession::onClose`, `CSKernel::removeService`, `removeMatchService` |
| `checkServiceDistMap` | `checkMatchDistributeRQ`, the three outcomes, the reply and what the MS makes of it |
| `createdMatches` | the end of the creation of a match |
| `TimerExpires`, `StartupTimerExpires`, `OrphanRuns` | the handlers that call `updateDistMatchServices`; an orphan is a handler that was already queued when its timer was replaced |
| `Tick` | time |

`updateDistMatchServices` is one action (`Redistribute` or `Postpone`): removals, updates and
additions are applied, the strategy runs, the log is cleared, the lists are sent. A reply or
notification takes effect at the MS in the same step: the connection keeps their order, an MS only
reads its list to report it when it connects, and a report under way is itself modelled.

A server registers with the logicID of its session to the CS. `ServerRegisterRS` lists the CS itself
among the services to connect to, and `addNewConnect` (`ServiceKernel.cpp:98-107`) then gives the
session that is already there the sid of the CS, 100000000, as its logicID. So a server that
connects again registers with a sid no registry is as large as, `serverRegistRQ` takes its first
branch, and the server gets a new sid: `RegisterReconnected` is `RegisterNew` with a list and a
report. (The comment at `CPGToCentralSession.cpp:155`, that repeated registrations are told by the
logicID, describes what does not happen.) This holds for a process with one entry in
`ServerConfig.json`. The shipped configuration of the MS has two, hence two sessions to the CS that
share one list of matches; the models are of processes with one entry.

`OldSids` are the MSs of an earlier run of the CS, by the sids they had; `recoverable` starts with
some of them, each with one of the lists `OldLists`, two of them possibly with the same match.

### 2.3 ObjectIndexPool

`objectArray`, `objects`, `maxIndex`, `size` and `invalidIndexs` are the members of the pool;
`uuid`, `type` and `phase` belong to the sessions. `addSession` has the three ways `addObject` can
end; `removeSessionPtr` is the close of a session. A `ClientSession` that retries keeps its slot
(`Retrying`). `Receivers` says whom `sendMsg` addresses. `Gate` runs it with players (2.6).

### 2.4 ClientSession and MessageQueue

One session of the kind every server keeps to another one. `state`, `retry`, `output`, `sending` and
`operating` are members of `TCPSession` and `ClientSession`, `connector` and `endpoint` of
`TCPConnector`. What asio has under way is counted: `resolves`, `connects`, `waits` (of the retry
timer), `reads`, and `writing`. `late` counts the reads of a socket that was closed or replaced and
that had already finished: closing a socket aborts its reads, but cannot take back a handler that is
queued. The buffers hold messages, numbered in the order of the sends, instead of bytes; `log` is
what the network has taken. `oneShot` and `greets` are the two ways in which the subclasses differ:
`onClose` of `G2MSession`, `G2LSession` and `C2BSession` ends the retries, and `sendInitData` of all
but `G2MSession` and `G2LSession` sends a message.

| action | code |
|---|---|
| `Send` | `TCPSession::send`, with `internalSend`, in any state |
| `HandWrite`, `HandWriteError` | `handWrite`; `HandWrite(n)` with n below the length of the buffer is a partial write |
| `Resolved` | the handler of `resolveAddress`, `connect` |
| `HandleConnect` | `handleConnect` without an error, `connectCallback`, `connectEstablished`, `sendInitData` |
| `HandleConnectError` | `handleConnect` with an error: the next endpoint, `retry`, or the end of the attempt |
| `RetryTimer` | the timer's handler, `start` |
| `HandRead`, `HandReadError`, `HandLateRead`, `HandLateError` | `handRead`; `handClose` with `onClose`, `removeSessionPtr` and its `reconnect` or removal |
| `ForceClose`, `Shutdown`, `Reconnect`, `Stop` | the calls of these names; `connectDestroyed` is `ForceClose` |

The constants `Calls` and `Faults` say what the application calls and what fails besides lost and
refused connections: `"write"` a write that ends with an error, `"partial"` one that takes a part,
`"fatal"` a connect error that is not retried. Handlers may run in any order, as asio promises none.

Left out or fixed: the retry delay (the timer ends at some time); a resolution that fails gives an
end iterator, which the code dereferences; after the removal of a session with an attempt or a
handler still under way the code uses a destroyed object. Behaviours are followed up to that point.
An increment of the endpoint iterator at its end is undefined: the model lets the test that follows
go either way. `TCPSession::addMore` appends what a following `send` sends and is part of it.
Two reads under way at once write to the same place of the input buffer; its contents are
those of `PacketStream`, for one read at a time.

`MessageQueue` is the promise: messages are accepted at the end and handed over from the front, all
of them eventually unless the session is removed. The refinement mapping reads the pending messages
as `sending \o output`.

### 2.5 DataBuffer and PacketStream

A byte is the number of its packet and its place in it, so that a wrong byte anywhere shows; memory
that was read keeps its bytes until it is overwritten, as in the code. `handRead(n, g)` is one
completion of a read: n bytes are stored behind the writer, `defaultMessageCallback` handles and
retrieves packets as long as `hasPacket` says there is one, and `startAsyncRead` makes room. `g` is
the size found where the bytes are not a header, one of `BodySizes`: in the code it may also be huge, which
leaves the rest of the stream unhandled, or negative, which is not modelled. It matters only after a
connection ended inside a packet, where nothing but `TypeOK` is claimed: `torn` records that one did: the
buffer is kept (`TCPSession.cpp:159` does not empty it), and what the other properties say is over for
that session. The loop is a recursive function (`Cuts`): how many bytes its first i rounds
have retrieved. The sizes (header 2, buffer 4, read 3) are those of the code scaled down, in
the same order of magnitude to each other except that the buffer must move and grow early.

### 2.6 ServiceRouting and Gate

`ServiceRouting` has the CS (`servers`, `table`), one gateway (`connects`, `status`, `routes`,
`login`), the messages between them (`link`), and services that crash, start and lose connections.

| action | code |
|---|---|
| `Register`, `GateRegisters` | `serverRegistRQ` with `serverRegistRS`, the notification of the gateways, `sendAllDistributeMatchInfos` |
| `RemoveService` | `CSKernel::removeService`: nobody is told |
| `Recover`, `Redistribute` | the match manager's `checkServiceDistMap` and `updateDistMatchServices`, any table it may produce |
| `Deliver` | `newServicesNotify`, `serverRegistRS` (`addNewConnect`, `updateServiceConnect`), `distibuteMatchesNotify` |
| `SessionConnects`, `SessionCloses` | `connectEstablished`; `onClose` of `G2MSession` and `G2LSession`, `removeServiceSession`, `removeConnectMatchService` |
| `Crash`, `Start`, `ServiceLosesCentral`, `GateLosesCentral`, `GateLosesService`, `CentralRestarts` | faults |

`unhealed` records the three things the code does not recover from, section 6 describes them; the
properties about where routes lead are stated for behaviours without them.

`Gate` puts players on the pool, which the gateway's own sessions (`Services`) share: the one to the CS
retries and keeps its index, those to MSs and LSs are given up when they close (`G2MSession.cpp:24`,
`G2LSession.cpp:21`). A request takes the uuid of its session along, the reply is sent to
whoever has that uuid, and `clientCheckOvertime` closes the players it finds overtime, in any order.
A heartbeat comes at any time between two checks, so a player with n missed checks has been silent
for n - 1 to n periods, and the check may or must find it accordingly. A player who left before the
reply is the open case: the next player with that uuid gets it, or all do (`RepliesReachTheirAskers`
is about players who are still there). The BalanceServer passes requests on in the same way, and the
CS checks its services in the same way.

### 2.7 MatchCreation

Three threads: web (`Request`, `Answer`), DB (`StoreAndDispatch`, `setData`, `Return`) and main
(`initialize`, `RunQueued`). The function that the DB thread queues for the main thread
(`CSMatchManager+AsyncDBHandler.cpp:114`) takes its match by reference to a local variable. `frame` is
that variable. While a call of `createMatch` is alive on the DB thread (`step`), the function enters what
`frame` holds by then: the match of its request or of a later one, as the calls have the same place on the
stack. Otherwise it reads freed memory: either the CS crashes (`crashed`), or what it finds there is taken
for a match with any mid (of `StrayMids`), which is entered in `matches_` as `Gone` and among the
undistributed ones. A match that is `Gone` looks to `createMatchValid` like any other match or like none,
and using or releasing it may end the CS at any time (`CrashOnGone`). Other damage that a write through
such a pointer does to the heap is not modelled. `dangled` records that it happened. Statements that fail
are `Faults`. A slot is a start time with a type, which is what the SELECT looks for.

### 2.8 AsyncLogging

What holds the mutex is one action: `append` (in the buffer, or in the next one), and the exchange
of buffers by the worker (`Lock`, and `Wake` after a wait). Outside it the worker trims, writes one
buffer after the other and recycles two (`Trim`, `Write`, `Refill`). `Buffers` are addresses, so
that a buffer shared by mistake shows. `stop` is not an action: it never returns (section 6).

## 3. Runs

| run | configuration | shows |
|---|---|---|
| `match_manager` | 3 matches, one of them created again, sids 0..2, two MSs of an earlier run, symmetry on matches | `Partition`, `LoadAccurate`, `Balanced`, `NoMatchRunsTwice`, `PeersHoldTheirLists` when MSs die, new ones come and the MSs of an earlier run return before the first redistribution |
| `reconnect` | 1 match, created up to twice, 2 sids and one MS of an earlier run, connections lost and made again at any time, late reports, fairness | `RegistryAgrees`, `ChangesAreTimed`, `ChangesAreApplied` |
| `distribution_lists` | every call with up to 3 services and 4 matches in any order, loads right or reset to 0 | `ListsRefineSets`, `DistributionSettles` |
| `client_session` | all calls, all faults, all kinds of sessions, 2 endpoints | `MessagesStayInOrder`, `ConnectedSessionsRead` |
| `client_session_queue` | the sessions between servers: forceClose, lost connections, 2 endpoints, 5 messages, fairness | `OneConnectionAttempt`, `OutputMoves`, `ImplementsQueue`, `SessionComesBack` |
| `gate` | a session to the CS, one to a service and 3 players on indexes 0..2, 2 requests, symmetry on players | `SendsReachTheirSessions` (hence `UuidsAreExclusive`), `IndexesAccounted`, `RepliesReachTheirAskers`, `SilentPlayersLeave` |
| `routing` | 2 MSs, an LS the gateway is configured with, 1 match, 1 fault of any kind, fairness | `RoutesAreOpen`, `OneSessionPerService`, `MatchesReachTheirService`, `RoutesSettle` |
| `match_creation` | 2 slots, 2 fees, one stored match, 3 requests, failing statements, freed memory, fairness | `AnswersAreOwn`, `CreatedMatchesOpen`, `OpenMatchesAreStored`, `RequestsGetAnswered` |
| `logging` | 10 lines, buffers of 2 lines, more than 3 dropped, fairness | `NoSilentLoss`, `BuffersAreExclusive`, `LinesGetWritten` |
| `packets` | 3 packets with and without a body on 2 connections, cut anywhere, fairness | `PacketsStayWhole`, `BufferStaysBounded`, `PacketsGetHandled` |

Runs that are expected to end in a violation show where the code does not do what a comment of the
repository says; section 6 has them.

**Bounds.** Three services are needed for a fill and a clipping that involve a giver, a receiver and a
bystander, and for a third service to come while one leaves; three matches give a remainder with two
services, an average of one with three, and `BusyLoad = 3` makes a service too busy when it has all of
them. `MaxRepeats = 1`: one creation of a known match is reported, while the match is undistributed, on a
service, reported by an MS, or gone with one. `MaxCopies` bounds the entries of a match: a further
repetition is left out when so many are there (2, or 3 in `reconnect`). The lists of `OldLists` have one
match or none, and two MSs may have the same one. In `match_manager` all periods are one unit, so a timer
that expires after a new change is too early and is armed anew; in `reconnect` the quiet period of 2 units
against a timer of 1 makes every timer expire too early at least once, and the startup delay of 1 is below
it as 20 s is below 25 s. Sids are not reused within a run: the pool hands out an old index only after
10001 fresh ones. In `gate` five sessions on three indexes reach fresh, reused, doubled and refused
indexes, and two requests let one reply come to an index that was used again while another is under way.
For a session, two endpoints are one that fails with a next one and a last one; two closings give two
restarts while the first one's attempts are under way, hence two sockets at once and handlers of the first
that are late; with two or more messages, and one for each connection, a message waits while another is
being written, at a connection and across two. In `routing` two MSs are enough for a match to move and for
its former service to fail before or after the gateway learns of it; one fault at any point of the
protocol is what the run explores (with two the instance is beyond a few minutes), so combinations of
independent faults are not covered. In `match_creation` three requests are two that race and one that
meets what they left; of `StrayMids` 1 is a stored row from the start and 3 a row only after two
insertions, so that freed memory yields a mid of another match or of none. In `logging` more lines than
three full buffers and the two spares hold reach a trim and a new allocation. In `packets` an empty body
after a full one, two reads inside one packet and a move and a growth of the buffer all occur;
`CHECK_DEADLOCK` is off where all bounds can be used up (`routing`, `match_creation`, `packets`).

**What the runs assume, as constants.** `Reconnects = FALSE`: an MS that lost its connection does
not come back to a running CS (it is restarted, empty, or not at all), but those of an earlier run
of the CS do before the first redistribution. `SlowReports = FALSE`: a report sent at a connection
arrives within the quiet period that the connection starts. Each is necessary for `Partition` and
`NoMatchRunsTwice` or `PeersHoldTheirLists`: section 6 says what happens without each. The run
`reconnect` makes neither of them.

`RoutesSettle` and `MatchesReachTheirService` hold where nothing of `unhealed`
happened; `PacketsStayWhole` and the other properties of `PacketStream` where no connection ended
inside a packet; `CreatedMatchesOpen` where the queued function ran in time.

For a session, `OneConnectionAttempt` takes `Calls` without `reconnect`, `stop` and `shutdown` (no
server calls them; the robots call `reconnect`) and no `"fatal"` error; `OutputMoves` takes writes
that do not fail and sessions that send a message on connecting; `ImplementsQueue` takes writes that
neither fail nor are partial.

**Fairness** (`FairSpec` of `MatchManager`): weak fairness of time, of the handlers of expired timers and
of the handling of a report that has arrived. The `io_context` of the CS runs for ever and its handlers do
not block. Nothing is assumed of MSs: they need not connect, report or fail. A behaviour in which changes
go on for ever can put off every redistribution; it does not occur within the bounds, as there are
finitely many sids and matches, and the code does not exclude it in general.

`FairSpec` of `ClientSession`: weak fairness of the handlers of resolutions, connection attempts,
the retry timer and writes, which asio runs when the operation is finished, and strong fairness of
`HandleConnect`: of attempts without end one succeeds, as the peer is up again at some time. Nothing
is assumed of the application or of the end of connections.

`ServiceRouting`: weak fairness of registrations, of the notice that a connection has ended, of
messages and connections under way and of the redistribution, which the runs of `ClientSession`
(`SessionComesBack`) and `MatchManager` (`ChangesAreApplied`) justify; none of crashes, starts and
other faults. `MatchCreation`: each of the three threads runs. `AsyncLogging`: the worker runs, and
its wait has a time-out. `PacketStream`: a read ends when bytes have arrived, a session connects
again.

## 4. Proofs

TLAPS checks them for every value of the constants that satisfies the assumptions named in the
modules (finite sets, positive periods).

* `TypeCorrect`: `Spec => []TypeOK`. The core is that every distribution has the type of its
  arguments (`DistributionsType`), proved through fill and clipping.
* `ChangeLogCorrect`: `OneChangePerService`, `RegistryAgrees`, `ChangesAreTimed`, with all
  failures allowed. `RegistryAgrees` is not inductive: `CheckReconnect` enters a service and erases
  its pending change, which is right only if that service is alive. The inductive invariant
  `ChangeLog` adds that reports come from open sessions and carry their sid.
* `MatchesPartitioned`: `Partition`, assuming `~Reconnects`: for every sequence of creations, repeated
  ones included. No entry is at two places, and two entries of a match exist only for the `repeated`.
  The strengthening says that what is reported or can still be reported is undistributed, and that
  the lists of different reporters are disjoint: that is why taking over a report keeps the
  partition. It also says that these exist only before the first redistribution.
* `PoolTypeCorrect`: also that `size` never goes below zero, for which it is related to the number
  of sessions that are open with an index.
* `PoolCorrect`: the three properties of the pool. The inductive invariant relates slots, `objects`
  and uuids, says that no index below MAX_NUM is both free and in use and that the free list has
  each of them once.
* `SessionTypeCorrect`, `SessionsRead`: `TypeOK` and `ConnectedSessionsRead`, with all calls and
  faults; the second is inductive with the first.
* `OneAttempt`: `OneConnectionAttempt`, assuming that only forceClose is called and that no error is
  fatal. The invariant `AttemptInvariant` adds that the connector is in kDisconnected while its timer
  runs (else the timer's `start` would be lost), is never stopped, and that a session which was
  never connected has no read that could close it.
* `MessagesInOrder`: `MessagesStayInOrder`, with all calls and faults. `OrderInvariant` splits the
  order into statements about the three sequences and their pairs, and adds that a buffer that is
  not operating is empty: the reason why the swap of the buffers is right.
* `OutputAlwaysMoves`: `OutputMoves`, assuming no failed write and a message on connecting.
  `MoveInvariant` adds that the buffer is marked as operating exactly while it is written.
* `SessionIsQueue`: where writes are not partial, every step of `Spec` is a step of
  `MessageQueue!Next` under the refinement mapping, or a stutter, from `OrderInvariant`.

* `LoadsAccurate`: `LoadAccurate`, with all failures allowed. The strategy looks at the load a service
  is keyed with, so the invariant `LoadIInv` follows it through the changes that are applied before it
  runs: entries of the table are used sids, and no pending change is an update.
* `PeersHold`, `NoneRunsTwice`: `PeersHoldTheirLists` and `NoMatchRunsTwice`, assuming `~Reconnects` and
  `~SlowReports`. The CS sends only the lists the strategy reports as changed; `FillStep` and `ClipStep`
  show that a list it does not report has not changed. `PeersIInv` says of an MS with a report under way
  that the report is what it has; of the others, that they have the ids on record, each as often. With the
  partition, no match runs twice but the `repeated`.
* `RedistributionsBalance`: `Balanced`, under the same assumptions, for every number of matches and
  services and every `BusyLoad`. A fill leaves a match over only if every service has its average. Where
  clipping is due it leaves nobody above the average, and lists of at most the average (rounded down, and
  not 0) that hold all matches (`KnownAreListed`; entries of repeated ones only add to them) cannot do
  without any service (`UnionBound`, `AverageFits`, `NoneIdle`).
* `ChangesTimed`: `ChangesAreTimed` alone, a part of `ChangeLogCorrect`.
* `GatePoolCorrect`, `RepliesReach`, `SilentLeave`: the properties of the pool hold for the gateway's use
  of it, where a check closes many players in one step (`CloseAllKeepsPool`);
  `RepliesReachTheirAskers` from the exclusive uuids; `SilentPlayersLeave` with the types of the counts.
* `CreationTypeCorrect`, `AnswersOwn`, `CreatedOpen`, `OpenStored`: `TypeOK`, `AnswersAreOwn`,
  `CreatedMatchesOpen`, `OpenMatchesAreStored`, for every interleaving of the three threads and with
  failing statements. `CreationIInv` says whose turn it is (`Turns`), that the mid in the frame and in
  a kept promise was stored for the slot of that request (`MidsAreOwn`), and that such a mid is open or
  the function that opens it is queued, unless the frame was read too late (`PromisesOpen`). An open
  match has a row, unless it was entered from freed memory. The types
  need that each added row stands for a request that has left the queue (`RowsCounted`).
* `RoutingTypeCorrect`, `RoutesOpen`, `OneSession`, `MatchesReach`: `TypeOK` and the three invariants of
  `ServiceRouting`, for any number of services, matches and faults; TLC explores one fault. `RoutingIInv`
  relates what the CS has registered, what it has told (the messages under way included: the last word
  on a service is its present sid) and what the gateway has made of it.
* `BuffersExclusive`, `LossesAreTold`: `BuffersAreExclusive` and `NoSilentLoss`, for every size and number
  of buffers and any number of lines. Both assume that memory is unlimited (`~IsFiniteSet(Buffers)`): the
  code takes it that `new` succeeds. TLC's instance has 11 buffers, more than 10 lines can use.
  `ExclusiveIInv` says where each address can be in each phase of a round. For the second theorem the
  texts of the buffers that wait are taken as one row of texts; `Kept` says that what is in the file and
  then in the row is numbered, in order, and that each line is there or behind a report of a loss. The
  effect of a step on the row (a line is added, a text begun, the row trimmed or its first text written)
  is proved first, without buffers; then each action is shown to have one of these effects.
* `PacketTypeCorrect`, `BufferBounded`, `PacketsWhole`: the three invariants of `PacketStream`, for every
  size of headers, buffers and reads and any number of packets and connections.
  1. *Buffers.* `RetrieveLeaves`, `ResizeKeeps`, `MoveKeeps`, `EnsureKeeps` and `StoreAdds` say of each
     operation of `DataBuffer` what can be read after it and how large the memory is.
  2. *The loop.* `CuttingExists` and `CutsIs`: the recursive function is defined and stays within the
     buffer. `LoopIs`: it handles packet after packet and ends where `hasPacket` finds none, for each
     round that retrieves something takes at least a header.
  3. *The bound.* What is left is thus less than the largest packet, and `makeSpace` adds memory only
     where the reader is less than a read from the beginning; `Bounded` says both and is inductive.
  4. *Whole packets.* `PacketsStayWhole` is not inductive. `Unbroken` adds that the bytes in the buffer and
     then on the wire are those of the packets from some `first` on, packet n beginning at `off[n]`; that
     those before `first` are done with; and that all from `first` on are of the present connection.
     `LoopFollows`: round i handles packet `first + i - 1`, wherever the read ended.

  `TypeOK` assumes nothing of torn connections; the other two are about streams that are not torn, as
  their properties are. The inductions over rounds and positions are over sets of numbers (`Inductive`,
  from the existence of least elements), as the theorem of the library takes an operator.

* `ListsImplementSets`, `DistributionsSettle`: the two invariants of `MatchDistributionList`, for every
  finite set of matches and services, every order of the lists and every `BusyLoad`. `IInv` says that
  the inputs are in order (`States`: every match in one place) and that the output is the call's result.
  1. *Orders and loops.* `OrderExists`: a finite set that is ordered linearly can be listed in its order,
     so `Ascending` and `Descending` are what the sort returns. `FillRoundsRun` and `ClipRoundsRun`: the
     recursive functions are defined, and each round is one `FillOne` or `ClipOne` of a state in order.
  2. *Rounds.* `FillOneGives` and `ClipOneTakes` say which matches a round moves, on lists without
     doubles as on their sets: how many, from where to where, and that the state stays in order.
  3. *Fill.* The loop's invariant gives each match that has left the undistributed ones its service
     `to[m]` (`Given`), and says that the services before round i have got what they lack or nothing is
     left, and the others nothing (`Served`). At the end this is `Fills` of the set version (`ServedFills`):
     an early `break` and a round without effect are the same, as the services are in order.
  4. *Clipping.* The invariant `CutBack` has the matches `cut[s]` each service gave back, `Clipped` their
     number. `EndsTell`: the first and the last of the order tell whether some service is too busy or
     too free, which is how the set version asks.
  5. *Settling.* With right loads a call ends with no match left or no service below the average, and
     with nothing to clip or no service above it (`Settled`). `FillIdle` and `ClipIdle`: such a state is
     left as it is. This needs the loads evaluated anew after each loop.

  `ListsImplementSets` carries the theorems on the set version, above, over to the code's lists.

Every invariant that a passing run checks is thus the subject of a theorem. Only model-checked:

* the liveness properties (`ChangesAreApplied`, `SessionComesBack`, `RoutesSettle`, `RequestsGetAnswered`,
  `LinesGetWritten`, `PacketsGetHandled`), and of `ImplementsQueue` the fairness of the queue: both are
  about fairness, which the prover does not treat;
* the two violations of section 6.

## 5. Plan

Done: the match manager with its strategy and its MSs, the session pool and the gateway's use of it,
the session with its connector and its packets, the routing of gateways, the creation of matches and
the log thread; the proofs of section 4, which cover every invariant that is checked by a run. Next:

1. Action properties: what a step of the routing or of a session may never do.
2. Two faults in TLC's instance of `ServiceRouting`, once it is small enough.

## 6. Where the code and its comments disagree

| run | property | what happens |
|---|---|---|
| `leftovers` | `LeftoversAreTimed` | the test for left-over matches looks at a list that was just emptied; the timer is not restarted |
| `unique_mid` | `MidsAreUnique` | the mid of a new match is looked up by start time and type only; two matches are given one mid, and the second replaces the first in `matches_` |

The models also show the following, by what their properties except or by the constants that the passing
runs restrict:

* A mid that is reported as created again (`unique_mid` shows that it happens, and after failed
  statements -1 is one) while its match is on an MS: `addUndistriteMatches` puts it among the undistributed
  ones as well (`CSMatchManager.cpp:574-583`, `153-159`), and the next redistribution can give it to a
  second MS. `Partition` and `NoMatchRunsTwice` except such matches (`repeated`) and hold for all others.
* An MS that comes back under a new sid before its old one is removed (`Reconnects = TRUE`): its
  matches are given to the new sid by `checkServiceDistMap` and put among the undistributed ones by
  the removal of the old sid; `Partition` fails (`CSMatchManager.cpp:259`).
* A report handled after a redistribution (`SlowReports = TRUE`): the reply carries the MS's own list,
  or none, instead of the one on record (`CSMatchManager.cpp:395`, "return the newly distributed
  matches"); `PeersHoldTheirLists` fails.
* With more services than matches the average is 0, every match is taken from its service and the
  second fill gives it to nobody (`CSMatchDistribution.cpp:132`, against the comment at line 143,
  "redistribute diff matches").
* The index MAX_NUM is handed out to two sessions at once (`ObjectIndexPool.hpp:32`), against
  "globally unique" in `CPGServerDefine.h:37`; the properties of the pool are about the indexes below
  it. The session that was displaced stays in `objects_` after it has closed, and sessions beyond the
  pool are never timed out.
* After a failed write the send buffer stays marked as operating (`TCPSession.cpp:133`): the session
  reconnects but never sends again; `OutputMoves` fails.
* A connection that ends inside a packet (`torn`): the packets of the next one are cut at the wrong
  places, for good.
* After a restart of the CS sids begin at 0 again, while a gateway keeps the old ones until the
  services have registered: a match can be routed to another MS or to the session of the login
  server, and the latter route is not removed with its session (`GSKernel.cpp:120`).
* A service that registers again before the gateway has noticed the end of the old connection: the
  new sid is written to the dying session, which is then removed, and nothing connects again
  (`G2MSession.cpp:24`). The same when the connection between a gateway and an MS is lost alone. While
  the CS lists both sids of a service, the order of an unordered_map decides which one the gateway
  takes (`CSKernel.cpp:183`).
* With two login servers the end of one sets `loginSession_` to null although the other is connected
  (`GSKernel.cpp:140`).
* The match of a creation is taken by reference by a function that runs later (`CSMatchManager+
  AsyncDBHandler.cpp:114`): the CS may crash, enter the match of another request, or enter freed memory as
  a match with any mid. The answer is given before the
  match is entered, so an equal request passes the check meanwhile (against the comment at
  `CSMatchManager.cpp:593`). After a failed statement the requester is told of success with mid -1,
  and -1 is distributed. Promises are never removed from the map.
* `AsyncLogging::stop` sets `running_` to true (`Logging.hpp:385`), so that its join, and the
  destructor, never return. The report of a loss stands before the two buffers that were kept.
* `stop` (`"stop" \in Calls`): an attempt under way still connects the session, as `handleConnect`
  does not look at the state (`TCPConnector.cpp:73`), and in the wait for a retry it does nothing.
* `shutdown`: in kDisconnecting `handClose` does nothing (`TCPSession.cpp:146`), so that neither the
  end of the connection nor `forceClose` closes the session, and no read is left.
* A partial write (`"partial" \in Faults`): the rest of the buffer is dropped (`TCPSession.cpp:136`);
  `ImplementsQueue` fails.
* A session that sends no message on connecting (`Greetings = {FALSE}`: `G2MSession`, `G2LSession`):
  what was sent before the connection waits for the next send, as `connectEstablished` does not call
  `internalSend`; `OutputMoves` fails.

## 7. Not modelled

Vendored code (`CPG/Third`: json, crow, simple_web_server) and generated protobuf code, which are three
quarters of the repository's C++ lines; project files. Of the repository's own code:

* the formatting and parsing of logs, database rows, JSON and configuration files, and the wrappers
  over asio (`TCPClient`, `TCPServer`, `TCPAcceptor`, `TCPListener`, `IOContextPool`, `TimerManager`):
  they keep no state that a handler could find wrong;
* the LoginServer's answer (a constant), the BalanceServer (2.6), the choice of a gateway
  (`CSKernel.cpp:228-281`), which changes nothing and looks at a load that is always 0, and the stubs
  of the web servers and the MS;
* `cancelMatch`, `updateMatch`, `Active`, `ActiveBuffer`, `HTTPClientManager`, `BetAlgorithm`, which
  no server calls; `ObjectPool.hpp`, whose correctness is one of types and lifetimes; the robots, a
  load-test client whose calls of `reconnect` are those of `ClientSession`;
* the data race on `matches_` between `createMatchValid` on the web thread and `createdMatches` on the
  main thread: the model lets the check see the map before or after the change.
