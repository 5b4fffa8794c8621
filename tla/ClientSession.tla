---------------------------- MODULE ClientSession ----------------------------
(***************************************************************************)
(* A session that a server keeps to another one: ClientSession with its    *)
(* base TCPSession, its TCPConnector, and the close callback that the      *)
(* TCPSessionManager gives it.                                             *)
(*                                                                         *)
(* Every handler runs on the one io_context thread and is one action, with *)
(* the callbacks it calls.  What asio still has to finish (resolutions,    *)
(* connection attempts, waits of the retry timer, reads, a write) is part  *)
(* of the state.                                                           *)
(***************************************************************************)
EXTENDS Integers, Sequences, FiniteSets

CONSTANTS
    Calls,         \* what the application may call, besides send
    Faults,        \* what may go wrong, besides lost and refused connections
    OneShots,      \* whether onClose() may, or must, end the retries
    Greetings,     \* whether sendInitData() may, or must, send a message
    Endpoints,     \* how many endpoints the address resolves to
    MaxMessages,   \* bound: the application sends only while fewer were sent
    MaxClosings    \* bound: how often a connection ends or is called to end

ASSUME SessionAssumption ==
    /\ Calls \subseteq {"reconnect", "stop", "shutdown", "forceClose"}
    /\ Faults \subseteq {"write", "partial", "fatal"}
    /\ OneShots \subseteq BOOLEAN
    /\ Greetings \subseteq BOOLEAN
    /\ Endpoints \in Nat \ {0}
    /\ MaxMessages \in Nat
    /\ MaxClosings \in Nat

VARIABLES
    state,        \* TCPSession::state_
    retry,        \* retry_
    oneShot,      \* does onClose() call unenableRetry()?
    greets,       \* does sendInitData() send a message?
    removed,      \* the manager has dropped the session
    connector,    \* TCPConnector::state_
    endpoint,     \* endpoint_iterator_; Endpoints is its end
    resolves,     \* resolutions under way
    connects,     \* connection attempts under way
    waits,        \* waits of retryTimer_ whose handler is still to run
    reads,        \* reads under way on socket_
    late,         \* reads of an earlier socket, finished, handler still to run
    output,       \* outputBuffer_, as the messages in it
    sending,      \* sendBuffer_
    operating,    \* isOperating_ of sendBuffer_
    writing,      \* is a write under way?
    log,          \* the messages the network has taken
    sent,         \* how many messages send() was called with; they are numbered
    closings      \* how often a connection ended or was called to end

kind    == <<oneShot, greets>>
link    == <<endpoint, resolves, connects, waits>>
buffers == <<output, sending, operating, writing, log, sent>>
vars    == <<state, retry, kind, removed, connector, link, reads, late, buffers, closings>>

TypeOK ==
    /\ state \in {"kDisconnected", "kConnecting", "kConnected", "kDisconnecting"}
    /\ retry \in BOOLEAN /\ removed \in BOOLEAN
    /\ oneShot \in BOOLEAN /\ greets \in BOOLEAN
    /\ connector \in {"kDisconnected", "kConnecting", "kConnected", "kStopped"}
    /\ endpoint \in 0..Endpoints
    /\ resolves \in Nat /\ connects \in Nat /\ waits \in Nat
    /\ reads \in Nat /\ late \in Nat
    /\ output \in Seq(Nat) /\ sending \in Seq(Nat) /\ log \in Seq(Nat)
    /\ operating \in BOOLEAN /\ writing \in BOOLEAN
    /\ sent \in Nat
    /\ closings \in 0..MaxClosings

\* TCPSessionManager::createConnector has made the session and started the
\* connector.
Init ==
    /\ state = "kConnecting"
    /\ retry = TRUE
    /\ oneShot \in OneShots
    /\ greets \in Greetings
    /\ removed = FALSE
    /\ connector = "kConnecting"
    /\ endpoint = Endpoints
    /\ resolves = 1
    /\ connects = 0
    /\ waits = 0
    /\ reads = 0
    /\ late = 0
    /\ output = <<>>
    /\ sending = <<>>
    /\ operating = FALSE
    /\ writing = FALSE
    /\ log = <<>>
    /\ sent = 0
    /\ closings = 0
-----------------------------------------------------------------------------
(***************************************************************************)
(* Sending.  The write of a connection that was closed or replaced may     *)
(* have been taken by the network: its handler still runs.                 *)
(***************************************************************************)

\* Mutation of internalSend: the buffers are swapped while one is being written.
InternalSendWhenBusy(st, out, snd, busy) ==
    IF st # "kConnected" \/ out = <<>>
    THEN /\ output' = out
         /\ sending' = snd
         /\ operating' = busy
         /\ UNCHANGED writing
    ELSE /\ output' = snd
         /\ sending' = out
         /\ operating' = TRUE
         /\ writing' = TRUE

\* internalSend, in a session in state st with buffers out and snd.
internalSend(st, out, snd, busy) ==
    IF st # "kConnected" \/ busy \/ out = <<>>
    THEN /\ output' = out
         /\ sending' = snd
         /\ operating' = busy
         /\ UNCHANGED writing
    ELSE /\ output' = snd
         /\ sending' = out
         /\ operating' = TRUE
         /\ writing' = TRUE

\* Mutation of send: a message for a session without connection is dropped.
SendConnectedOnly(st) ==
    /\ sent' = sent + 1
    /\ internalSend(st, IF st = "kConnected" THEN Append(output, sent') ELSE output,
                    sending, operating)
    /\ UNCHANGED log

\* send: the message is appended to the output, which is sent if it can be.
send(st) ==
    /\ sent' = sent + 1
    /\ internalSend(st, Append(output, sent'), sending, operating)
    /\ UNCHANGED log

\* The application sends a message, whether the session is connected or not.
Send ==
    /\ ~removed
    /\ sent < MaxMessages
    /\ send(state)
    /\ UNCHANGED <<state, retry, kind, removed, connector, link, reads, late, closings>>

\* Mutation of HandWrite: what was sent meanwhile is left in the output.
HandWriteAndRest(n) ==
    /\ ~removed
    /\ writing
    /\ n = Len(sending) \/ "partial" \in Faults
    /\ log' = log \o SubSeq(sending, 1, n)
    /\ sending' = <<>>
    /\ operating' = FALSE
    /\ writing' = FALSE
    /\ UNCHANGED <<output, state, retry, kind, removed, connector, link, reads, late,
                   sent, closings>>

\* handWrite without an error: the whole buffer is dropped.  With a partial
\* write the network took only the first n messages of it.
HandWrite(n) ==
    /\ ~removed
    /\ writing
    /\ n = Len(sending) \/ "partial" \in Faults
    /\ log' = log \o SubSeq(sending, 1, n)
    /\ IF state = "kConnected" /\ output # <<>>
       THEN /\ output' = <<>>
            /\ sending' = output
            /\ UNCHANGED <<operating, writing>>
       ELSE /\ sending' = <<>>
            /\ operating' = FALSE
            /\ writing' = FALSE
            /\ UNCHANGED output
    /\ UNCHANGED <<state, retry, kind, removed, connector, link, reads, late, sent, closings>>

\* handWrite with an error does nothing: the buffer stays marked as operating.
HandWriteError ==
    /\ ~removed
    /\ "write" \in Faults
    /\ writing
    /\ writing' = FALSE
    /\ UNCHANGED <<state, retry, kind, removed, connector, link, reads, late,
                   output, sending, operating, log, sent, closings>>
-----------------------------------------------------------------------------
(***************************************************************************)
(* The connector.                                                          *)
(***************************************************************************)

\* start, with the connector in state st.
start(st) ==
    IF st = "kConnecting"
    THEN connector' = st /\ UNCHANGED resolves
    ELSE connector' = "kConnecting" /\ resolves' = resolves + 1

\* restart, called n times in a row: each call leaves kConnecting first.
restart(n) ==
    /\ connector' = "kConnecting"
    /\ resolves' = resolves + n

\* resolveAddress has finished; connect to the first endpoint.
Resolved ==
    /\ resolves > 0
    /\ resolves' = resolves - 1
    /\ endpoint' = 0
    /\ connects' = connects + 1
    /\ UNCHANGED <<state, retry, kind, removed, connector, waits, reads, late,
                   buffers, closings>>

\* connectCallback, connectEstablished: the session takes the new socket, reads
\* from it and, if it is of such a kind, sends a first message (sendInitData).
\* A socket it still had is closed; a read on it that had finished is still
\* handled.
connectEstablished ==
    /\ state' = "kConnected"
    /\ reads' = 1
    /\ late' \in {late, late + reads}
    /\ IF greets THEN send("kConnected") ELSE UNCHANGED buffers

\* handleConnect without an error, also when the connector was stopped.
HandleConnect ==
    /\ ~removed
    /\ connects > 0
    /\ connects' = connects - 1
    /\ connector' = "kConnected"
    /\ connectEstablished
    /\ UNCHANGED <<retry, kind, removed, endpoint, resolves, waits, closings>>

\* Mutation of NextEndpoint: the end of the endpoints is not tested for.
NextEndpointUnchecked ==
    /\ endpoint' = endpoint + 1
    /\ UNCHANGED <<connector, connects, waits>>

\* handleConnect with an error.  Incrementing an iterator that is at its end
\* is undefined: the comparison can go either way.
NextEndpoint ==
    /\ endpoint + 1 # Endpoints
    /\ endpoint' = IF endpoint < Endpoints THEN endpoint + 1 ELSE endpoint
    /\ UNCHANGED <<connector, connects, waits>>

LastEndpoint ==
    /\ endpoint + 1 >= Endpoints
    /\ endpoint' = Endpoints
    /\ connects' = connects - 1

\* Mutation of Retry: the timer is not armed.
RetryWithoutTimer ==
    /\ LastEndpoint
    /\ connector' = IF connector = "kStopped" THEN connector ELSE "kDisconnected"
    /\ UNCHANGED waits

\* retry: after an error that may pass, unless the connector was stopped.
Retry ==
    /\ LastEndpoint
    /\ IF connector = "kStopped"
       THEN UNCHANGED <<connector, waits>>
       ELSE connector' = "kDisconnected" /\ waits' = waits + 1

\* Any other error ends the attempt.
GiveUp ==
    /\ "fatal" \in Faults
    /\ LastEndpoint
    /\ UNCHANGED <<connector, waits>>

HandleConnectError ==
    /\ connects > 0
    /\ NextEndpoint \/ Retry \/ GiveUp
    /\ UNCHANGED <<state, retry, kind, removed, resolves, reads, late, buffers, closings>>

\* Mutation of RetryTimer: the timer is armed again instead of start().
RetryTimerAgain ==
    /\ waits > 0
    /\ UNCHANGED vars

\* The handler of the retry timer, which runs as well when a later retry has
\* cancelled its wait.
RetryTimer ==
    /\ waits > 0
    /\ waits' = waits - 1
    /\ start(connector)
    /\ UNCHANGED <<state, retry, kind, removed, endpoint, connects, reads, late,
                   buffers, closings>>
-----------------------------------------------------------------------------
(***************************************************************************)
(* Closing.                                                                *)
(***************************************************************************)

connected == state \in {"kConnected", "kConnecting"}

\* handClose of a connected session.  Closing the socket aborts its reads,
\* except one that has finished: of the rd under way on it, and lt on earlier
\* sockets, those handlers are still to run.  The close callback
\* (removeSessionPtr) lets the session reconnect, which here only restarts the
\* connector, or removes it.  The caller, when it is reconnect itself, restarts
\* the connector again.
handClose(again, rd, lt) ==
    /\ connected
    /\ state' = "kDisconnected"
    /\ reads' = 0
    /\ late' \in {lt, lt + rd}
    /\ retry' = (retry /\ ~oneShot)
    /\ removed' = ~retry'
    /\ IF retry' THEN restart(IF again THEN 2 ELSE 1) ELSE UNCHANGED <<connector, resolves>>
    /\ UNCHANGED <<kind, endpoint, connects, waits, buffers>>

Closing ==
    /\ ~removed
    /\ closings < MaxClosings
    /\ closings' = closings + 1

\* Mutation of HandRead: no next read is begun.
HandReadOnce ==
    /\ ~removed
    /\ reads > 0
    /\ reads' = reads - 1
    /\ UNCHANGED <<state, retry, kind, removed, connector, link, late, buffers, closings>>

\* handRead: data was read.  Without a connection there is no next read.
HandRead ==
    /\ ~removed
    /\ reads > 0
    /\ reads' = IF state = "kConnected" THEN reads ELSE reads - 1
    /\ UNCHANGED <<state, retry, kind, removed, connector, link, late, buffers, closings>>

\* handRead with an error, the end of the stream included.
HandReadError ==
    /\ Closing
    /\ reads > 0
    /\ \/ handClose(FALSE, reads - 1, late)
       \/ /\ ~connected
          /\ reads' = reads - 1
          /\ UNCHANGED <<state, retry, kind, removed, connector, link, late, buffers>>

\* The same two for a read of an earlier socket.
HandLateRead ==
    /\ ~removed
    /\ late > 0
    /\ late' = late - 1
    /\ reads' = IF state = "kConnected" THEN reads + 1 ELSE reads
    /\ UNCHANGED <<state, retry, kind, removed, connector, link, buffers, closings>>

HandLateError ==
    /\ Closing
    /\ late > 0
    /\ \/ handClose(FALSE, reads, late - 1)
       \/ /\ ~connected
          /\ late' = late - 1
          /\ UNCHANGED <<state, retry, kind, removed, connector, link, reads, buffers>>

\* connectDestroyed, forceClose: in kDisconnecting, handClose does nothing.
ForceClose ==
    /\ "forceClose" \in Calls
    /\ Closing
    /\ state = "kConnected"
    /\ handClose(FALSE, reads, late)

Shutdown ==
    /\ "shutdown" \in Calls
    /\ ~removed
    /\ state = "kConnected"
    /\ state' = "kDisconnecting"
    /\ UNCHANGED <<retry, kind, removed, connector, link, reads, late, buffers, closings>>

\* ClientSession::reconnect, called by the application.
Reconnect ==
    /\ "reconnect" \in Calls
    /\ Closing
    /\ \/ state = "kConnected" /\ handClose(TRUE, reads, late)
       \/ /\ state # "kConnected"
          /\ retry
          /\ restart(1)
          /\ UNCHANGED <<state, retry, kind, removed, endpoint, connects, waits,
                         reads, late, buffers>>

\* ClientSession::stop, TCPConnector::stop.
Stop ==
    /\ "stop" \in Calls
    /\ connector = "kConnecting"
    /\ connector' = "kStopped"
    /\ UNCHANGED <<state, retry, kind, removed, link, reads, late, buffers, closings>>
-----------------------------------------------------------------------------
Next ==
    \/ Send
    \/ \E n \in 0..Len(sending) : HandWrite(n)
    \/ HandWriteError
    \/ Resolved
    \/ HandleConnect
    \/ HandleConnectError
    \/ RetryTimer
    \/ HandRead
    \/ HandReadError
    \/ HandLateRead
    \/ HandLateError
    \/ ForceClose
    \/ Shutdown
    \/ Reconnect
    \/ Stop

Spec == Init /\ [][Next]_vars

\* asio finishes what it has begun; of attempts without end one succeeds.
Fairness ==
    /\ WF_vars(Resolved)
    /\ WF_vars(RetryTimer)
    /\ WF_vars(HandleConnect \/ HandleConnectError)
    /\ SF_vars(HandleConnect)
    /\ WF_vars(HandWrite(Len(sending)))

FairSpec == Spec /\ Fairness
-----------------------------------------------------------------------------
(***************************************************************************)
(* Through lost connections, retries and two connections at once, no       *)
(* message is handed to the network twice or before an earlier one: what   *)
(* was taken, is being written and waits is in the order of the sends.     *)
(***************************************************************************)
MessagesStayInOrder ==
    LET all == log \o sending \o output
    IN  \A i, j \in 1..Len(all) : i < j => all[i] < all[j]

(***************************************************************************)
(* A connected session always has a read under way, so that it notices the *)
(* end of its connection.                                                  *)
(***************************************************************************)
ConnectedSessionsRead == state = "kConnected" => reads > 0

(***************************************************************************)
(* The session is connected or exactly one attempt to connect it is under  *)
(* way, or it was removed and none is: retries are never given up, and     *)
(* never doubled, when only the network and forceClose end connections.    *)
(***************************************************************************)
OneConnectionAttempt ==
    resolves + connects + waits + (IF state = "kConnected" THEN 1 ELSE 0)
        = IF removed THEN 0 ELSE 1

(***************************************************************************)
(* On a connected session nothing waits in the output unless a write is    *)
(* under way whose handler will send it: "the other services reconnect,    *)
(* the MS sends the CS its matches" (the comment on a crash of the CS in   *)
(* CSMatchManager.hpp).  It takes writes that do not fail, and sessions    *)
(* that send a message when they are connected: connectEstablished itself  *)
(* does not send what waits.                                               *)
(***************************************************************************)
OutputMoves == state = "kConnected" /\ output # <<>> => writing

(***************************************************************************)
(* Without failed or partial writes the session is the queue it promises   *)
(* to be: also what is sent without a connection is handed over, in order  *)
(* and, unless the session is removed, eventually.                         *)
(***************************************************************************)
Queue == INSTANCE MessageQueue
            WITH open <- ~removed, accepted <- sent, pending <- sending \o output, delivered <- log

ImplementsQueue == Queue!Spec

\* A session that lost its connection gets a new one, or was not to retry.
SessionComesBack == state = "kDisconnected" ~> (state = "kConnected" \/ removed)
=============================================================================
