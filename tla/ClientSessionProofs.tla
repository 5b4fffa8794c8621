------------------------ MODULE ClientSessionProofs ------------------------
(***************************************************************************)
(* Proofs about ClientSession, for every number of messages, closings and  *)
(* endpoints.                                                              *)
(***************************************************************************)
EXTENDS ClientSession, SequenceTheorems, TLAPS

-----------------------------------------------------------------------------
(***************************************************************************)
(* Type correctness.  The invariant is split by what its parts need: the   *)
(* flags, the counts and the buffers.                                      *)
(***************************************************************************)

\* What internalSend leaves has the type of what it was given.
LEMMA InternalSendType ==
    ASSUME NEW st, NEW out \in Seq(Nat), NEW snd \in Seq(Nat), NEW busy \in BOOLEAN,
           writing \in BOOLEAN,
           internalSend(st, out, snd, busy)
    PROVE  /\ output' \in Seq(Nat) /\ sending' \in Seq(Nat)
           /\ operating' \in BOOLEAN /\ writing' \in BOOLEAN
BY DEF internalSend

\* So has what send leaves.
LEMMA SendType ==
    ASSUME TypeOK, NEW st, send(st)
    PROVE  /\ output' \in Seq(Nat) /\ sending' \in Seq(Nat) /\ log' \in Seq(Nat)
           /\ operating' \in BOOLEAN /\ writing' \in BOOLEAN /\ sent' \in Nat
<1>1. sent' \in Nat /\ log' \in Seq(Nat)
  BY DEF TypeOK, send
<1>2. Append(output, sent') \in Seq(Nat)
  BY <1>1 DEF TypeOK
<1> QED
  BY <1>1, <1>2, InternalSendType DEF TypeOK, send

\* And what a finished write leaves.
LEMMA HandWriteType ==
    ASSUME TypeOK, NEW n \in 0..Len(sending), HandWrite(n)
    PROVE  /\ output' \in Seq(Nat) /\ sending' \in Seq(Nat) /\ log' \in Seq(Nat)
           /\ operating' \in BOOLEAN /\ writing' \in BOOLEAN
<1>1. SubSeq(sending, 1, n) \in Seq(Nat)
  BY DEF TypeOK
<1>2. log' \in Seq(Nat)
  BY <1>1 DEF TypeOK, HandWrite
<1>3. CASE state = "kConnected" /\ output # <<>>
  BY <1>2, <1>3 DEF TypeOK, HandWrite
<1>4. CASE ~(state = "kConnected" /\ output # <<>>)
  <2>1. output' = output /\ sending' = <<>> /\ operating' = FALSE /\ writing' = FALSE
    BY <1>4 DEF HandWrite
  <2>2. output \in Seq(Nat) /\ <<>> \in Seq(Nat)
    BY DEF TypeOK
  <2> QED
    BY <1>2, <2>1, <2>2
<1> QED
  BY <1>3, <1>4

\* And what handClose leaves.
LEMMA CloseType ==
    ASSUME TypeOK, NEW again, NEW rd \in Nat, NEW lt \in Nat, handClose(again, rd, lt)
    PROVE  /\ state' = "kDisconnected"
           /\ retry' \in BOOLEAN /\ removed' \in BOOLEAN
           /\ connector' \in {"kConnecting", connector}
           /\ resolves' \in Nat /\ reads' \in Nat /\ late' \in Nat
           /\ UNCHANGED <<kind, endpoint, connects, waits, buffers>>
<1>1. retry' \in BOOLEAN /\ removed' \in BOOLEAN
  BY DEF handClose, TypeOK
<1>2. connector' \in {"kConnecting", connector} /\ resolves' \in Nat
  <2>1. CASE retry'
    <3>1. (IF again THEN 2 ELSE 1) \in Nat
      OBVIOUS
    <3> QED
      BY <2>1, <3>1 DEF handClose, restart, TypeOK
  <2>2. CASE ~retry'
    BY <2>2 DEF handClose, TypeOK
  <2> QED
    BY <2>1, <2>2
<1>3. reads' \in Nat /\ late' \in Nat /\ state' = "kDisconnected"
  BY DEF handClose, TypeOK
<1> QED
  BY <1>1, <1>2, <1>3 DEF handClose

\* A program starts with typed variables.
LEMMA TypeInit == Init => TypeOK
<1> SUFFICES ASSUME Init PROVE TypeOK
  OBVIOUS
<1>1. oneShot \in BOOLEAN /\ greets \in BOOLEAN /\ retry \in BOOLEAN /\ removed \in BOOLEAN
  BY SessionAssumption DEF Init
<1>2. operating \in BOOLEAN /\ writing \in BOOLEAN
  BY DEF Init
<1>3. endpoint \in 0..Endpoints /\ closings \in 0..MaxClosings
  BY SessionAssumption DEF Init
<1>4. output \in Seq(Nat) /\ sending \in Seq(Nat) /\ log \in Seq(Nat)
  BY DEF Init
<1>5. /\ resolves \in Nat /\ connects \in Nat /\ waits \in Nat
      /\ reads \in Nat /\ late \in Nat /\ sent \in Nat
  BY DEF Init
<1> QED
  BY <1>1, <1>2, <1>3, <1>4, <1>5 DEF Init, TypeOK

\* Every step keeps the type invariant.
LEMMA TypeStep == TypeOK /\ [Next]_vars => TypeOK'
<1> SUFFICES ASSUME TypeOK, [Next]_vars PROVE TypeOK'
  OBVIOUS
<1> USE SessionAssumption
<1>1. CASE Send
  BY <1>1, SendType DEF Send, TypeOK, link, kind
<1>2. ASSUME NEW n \in 0..Len(sending), HandWrite(n) PROVE TypeOK'
  BY <1>2, HandWriteType DEF HandWrite, TypeOK, link, kind
<1>3. CASE HandWriteError
  BY <1>3 DEF HandWriteError, TypeOK, link, kind
<1>4. CASE Resolved
  BY <1>4 DEF Resolved, TypeOK, buffers, kind
<1>5. CASE HandleConnect
  <2>1. CASE greets
    BY <1>5, <2>1, SendType DEF HandleConnect, connectEstablished, TypeOK, kind
  <2>2. CASE ~greets
    BY <1>5, <2>2 DEF HandleConnect, connectEstablished, TypeOK, buffers, kind
  <2> QED
    BY <2>1, <2>2
<1>6. CASE HandleConnectError
  <2>1. CASE NextEndpoint
    BY <1>6, <2>1 DEF HandleConnectError, NextEndpoint, TypeOK, buffers, kind
  <2>2. CASE Retry
    <3>1. endpoint' \in 0..Endpoints /\ connects' \in Nat /\ waits' \in Nat
      BY <1>6, <2>2 DEF HandleConnectError, Retry, LastEndpoint, TypeOK
    <3>2. connector' \in {"kDisconnected", connector}
      BY <2>2 DEF Retry
    <3> QED
      BY <1>6, <3>1, <3>2 DEF HandleConnectError, TypeOK, buffers, kind
  <2>3. CASE GiveUp
    <3>1. endpoint' \in 0..Endpoints /\ connects' \in Nat
      BY <1>6, <2>3 DEF HandleConnectError, GiveUp, LastEndpoint, TypeOK
    <3> QED
      BY <1>6, <2>3, <3>1 DEF HandleConnectError, GiveUp, TypeOK, buffers, kind
  <2> QED
    BY <1>6, <2>1, <2>2, <2>3 DEF HandleConnectError
<1>7. CASE RetryTimer
  <2>1. waits' \in Nat /\ resolves' \in Nat /\ connector' \in {"kConnecting", connector}
    BY <1>7 DEF RetryTimer, start, TypeOK
  <2> QED
    BY <1>7, <2>1 DEF RetryTimer, TypeOK, buffers, kind
<1>8. CASE HandRead
  BY <1>8 DEF HandRead, TypeOK, buffers, link, kind
<1>9. CASE HandReadError
  <2>1. closings' \in 0..MaxClosings /\ reads - 1 \in Nat /\ late \in Nat
    BY <1>9 DEF HandReadError, Closing, TypeOK
  <2>2. CASE handClose(FALSE, reads - 1, late)
    BY <2>1, <2>2, CloseType DEF TypeOK, buffers, kind
  <2>3. CASE ~handClose(FALSE, reads - 1, late)
    <3>1. /\ reads' = reads - 1
          /\ UNCHANGED <<state, retry, kind, removed, connector, link, late, buffers>>
      BY <1>9, <2>3 DEF HandReadError
    <3> QED
      BY <2>1, <3>1 DEF TypeOK, buffers, link, kind
  <2> QED
    BY <2>2, <2>3
<1>10. CASE HandLateRead
  BY <1>10 DEF HandLateRead, TypeOK, buffers, link, kind
<1>11. CASE HandLateError
  <2>1. closings' \in 0..MaxClosings /\ reads \in Nat /\ late - 1 \in Nat
    BY <1>11 DEF HandLateError, Closing, TypeOK
  <2>2. CASE handClose(FALSE, reads, late - 1)
    BY <2>1, <2>2, CloseType DEF TypeOK, buffers, kind
  <2>3. CASE ~handClose(FALSE, reads, late - 1)
    <3>1. /\ late' = late - 1
          /\ UNCHANGED <<state, retry, kind, removed, connector, link, reads, buffers>>
      BY <1>11, <2>3 DEF HandLateError
    <3> QED
      BY <2>1, <3>1 DEF TypeOK, buffers, link, kind
  <2> QED
    BY <2>2, <2>3
<1>12. CASE ForceClose
  <2>1. closings' \in 0..MaxClosings /\ reads \in Nat /\ late \in Nat
    BY <1>12 DEF ForceClose, Closing, TypeOK
  <2> QED
    BY <1>12, <2>1, CloseType DEF ForceClose, TypeOK, buffers, kind
<1>13. CASE Shutdown
  BY <1>13 DEF Shutdown, TypeOK, buffers, link, kind
<1>14. CASE Reconnect
  <2>1. closings' \in 0..MaxClosings /\ reads \in Nat /\ late \in Nat
    BY <1>14 DEF Reconnect, Closing, TypeOK
  <2>2. CASE state = "kConnected"
    BY <1>14, <2>1, <2>2, CloseType DEF Reconnect, TypeOK, buffers, kind
  <2>3. CASE state # "kConnected"
    <3> restart(1)
      BY <1>14, <2>3 DEF Reconnect
    <3>1. resolves' \in Nat /\ connector' = "kConnecting"
      BY DEF restart, TypeOK
    <3>2. UNCHANGED <<state, retry, kind, removed, endpoint, connects, waits, reads, late,
                      buffers>>
      BY <1>14, <2>3 DEF Reconnect
    <3> QED
      BY <2>1, <3>1, <3>2 DEF TypeOK, buffers, kind
  <2> QED
    BY <2>2, <2>3
<1>15. CASE Stop
  BY <1>15 DEF Stop, TypeOK, buffers, link, kind
<1>16. CASE UNCHANGED vars
  BY <1>16 DEF vars, link, buffers, TypeOK, kind
<1> QED
  BY <1>1, <1>2, <1>3, <1>4, <1>5, <1>6, <1>7, <1>8, <1>9, <1>10, <1>11, <1>12, <1>13,
     <1>14, <1>15, <1>16 DEF Next

\* The session and its connector keep their types, whatever is called and
\* whatever fails; in particular no count of what asio has still to finish
\* goes below zero.
THEOREM SessionTypeCorrect == Spec => []TypeOK
BY TypeInit, TypeStep, PTL DEF Spec

-----------------------------------------------------------------------------
(***************************************************************************)
(* Reading.                                                                *)
(***************************************************************************)

\* Every step keeps ConnectedSessionsRead: only HandRead, HandLateRead and
\* HandleConnect leave the session connected and change its reads.
LEMMA ReadsStep == TypeOK /\ ConnectedSessionsRead /\ [Next]_vars => ConnectedSessionsRead'
<1> SUFFICES ASSUME TypeOK, ConnectedSessionsRead, [Next]_vars PROVE ConnectedSessionsRead'
  OBVIOUS
<1>1. CASE UNCHANGED <<state, reads>>
  BY <1>1 DEF ConnectedSessionsRead
<1>2. CASE state' # "kConnected"
  BY <1>2 DEF ConnectedSessionsRead
<1>3. CASE HandleConnect
  BY <1>3 DEF HandleConnect, connectEstablished, ConnectedSessionsRead
<1>4. CASE HandRead
  BY <1>4 DEF HandRead, ConnectedSessionsRead, TypeOK
<1>5. CASE HandLateRead
  BY <1>5 DEF HandLateRead, ConnectedSessionsRead, TypeOK
<1>6. CASE HandReadError
  <2>1. state' = "kDisconnected" \/ (~connected /\ state' = state)
    BY <1>6 DEF HandReadError, handClose
  <2> QED
    BY <2>1, <1>2 DEF connected
<1>7. CASE HandLateError
  <2>1. state' = "kDisconnected" \/ (~connected /\ state' = state)
    BY <1>7 DEF HandLateError, handClose
  <2> QED
    BY <2>1, <1>2 DEF connected
<1>8. CASE ForceClose
  <2>1. state' = "kDisconnected"
    BY <1>8 DEF ForceClose, handClose
  <2> QED
    BY <2>1, <1>2
<1>9. CASE Shutdown
  <2>1. state' = "kDisconnecting"
    BY <1>9 DEF Shutdown
  <2> QED
    BY <2>1, <1>2
<1>10. CASE Reconnect
  <2>1. state' = "kDisconnected" \/ (state # "kConnected" /\ state' = state)
    BY <1>10 DEF Reconnect, handClose
  <2> QED
    BY <2>1, <1>2
<1>11. CASE Send \/ HandWriteError \/ Resolved \/ HandleConnectError \/ RetryTimer \/ Stop
  BY <1>1, <1>11 DEF Send, HandWriteError, Resolved, HandleConnectError, RetryTimer, Stop
<1>12. CASE \E n \in 0..Len(sending) : HandWrite(n)
  BY <1>1, <1>12 DEF HandWrite
<1>13. CASE UNCHANGED vars
  BY <1>1, <1>13 DEF vars
<1> QED
  BY <1>3, <1>4, <1>5, <1>6, <1>7, <1>8, <1>9, <1>10, <1>11, <1>12, <1>13 DEF Next

\* A connected session always has a read under way, whatever is called,
\* whatever fails, and however late the reads of its earlier sockets end.
THEOREM SessionsRead == Spec => []ConnectedSessionsRead
<1>1. Init => ConnectedSessionsRead
  BY DEF Init, ConnectedSessionsRead
<1> QED
  BY <1>1, ReadsStep, SessionTypeCorrect, PTL DEF Spec

-----------------------------------------------------------------------------
(***************************************************************************)
(* One connection attempt.  The invariant adds what the connector's state  *)
(* says of the attempt: while its timer runs the connector does not count  *)
(* as connecting, so that start() begins again when the timer ends, and it *)
(* is never stopped.  A session that has not yet been connected has no     *)
(* read that could close it.                                               *)
(***************************************************************************)
Attempts == resolves + connects + waits

AttemptInvariant ==
    /\ state # "kDisconnecting"
    /\ state = "kConnecting" => reads = 0 /\ late = 0
    /\ connector # "kStopped"
    /\ waits > 0 => connector = "kDisconnected"
    /\ state = "kConnected" => Attempts = 0 /\ removed = FALSE
    /\ removed = TRUE => Attempts = 0
    /\ removed = FALSE /\ state # "kConnected" => Attempts = 1

\* The invariant says what OneConnectionAttempt does.
LEMMA AttemptMeaning == TypeOK /\ AttemptInvariant => OneConnectionAttempt
<1> SUFFICES ASSUME TypeOK, AttemptInvariant PROVE OneConnectionAttempt
  OBVIOUS
<1>1. CASE removed = TRUE
  BY <1>1 DEF AttemptInvariant, OneConnectionAttempt, Attempts, TypeOK
<1>2. CASE removed = FALSE /\ state = "kConnected"
  BY <1>2 DEF AttemptInvariant, OneConnectionAttempt, Attempts, TypeOK
<1>3. CASE removed = FALSE /\ state # "kConnected"
  BY <1>3 DEF AttemptInvariant, OneConnectionAttempt, Attempts, TypeOK
<1> QED
  BY <1>1, <1>2, <1>3 DEF TypeOK

\* The end of a connection begins one attempt or removes the session.
LEMMA AttemptClose ==
    ASSUME TypeOK, AttemptInvariant, reads > 0 \/ late > 0,
           NEW rd \in Nat, NEW lt \in Nat, handClose(FALSE, rd, lt)
    PROVE  AttemptInvariant'
<1>1. state = "kConnected"
  BY DEF handClose, connected, AttemptInvariant, TypeOK
<1>2. /\ resolves = 0 /\ connects = 0 /\ waits = 0
  BY <1>1 DEF AttemptInvariant, Attempts, TypeOK
<1>3. state' = "kDisconnected" /\ connects' = connects /\ waits' = waits
  BY DEF handClose
<1>4. CASE retry'
  <2>1. connector' = "kConnecting" /\ resolves' = resolves + 1
    BY <1>4 DEF handClose, restart
  <2>2. removed' = FALSE
    BY <1>4 DEF handClose
  <2> QED
    BY <1>2, <1>3, <2>1, <2>2 DEF AttemptInvariant, Attempts
<1>5. CASE ~retry'
  <2>1. connector' = connector /\ resolves' = resolves
    BY <1>5 DEF handClose
  <2>2. removed' = TRUE
    BY <1>5 DEF handClose
  <2> QED
    BY <1>2, <1>3, <2>1, <2>2 DEF AttemptInvariant, Attempts
<1> QED
  BY <1>4, <1>5

\* Every step keeps the invariant, if nothing but forceClose is called and no
\* attempt ends with an error that is not retried.
LEMMA AttemptStep ==
    ASSUME Calls \subseteq {"forceClose"}, "fatal" \notin Faults,
           TypeOK, ConnectedSessionsRead, AttemptInvariant, [Next]_vars
    PROVE  AttemptInvariant'
<1>1. CASE UNCHANGED <<state, removed, connector, link, reads, late>>
  BY <1>1 DEF AttemptInvariant, Attempts, link
<1>2. CASE Send \/ HandWriteError
  BY <1>1, <1>2 DEF Send, HandWriteError
<1>3. CASE \E n \in 0..Len(sending) : HandWrite(n)
  BY <1>1, <1>3 DEF HandWrite
<1>4. CASE Resolved
  <2>1. Attempts' = Attempts /\ waits' = waits
    BY <1>4 DEF Resolved, Attempts, TypeOK
  <2> QED
    BY <1>4, <2>1 DEF Resolved, AttemptInvariant
<1>5. CASE HandleConnect
  <2>1. removed = FALSE
    BY <1>5 DEF HandleConnect, connectEstablished, TypeOK
  <2>2. Attempts = 1 /\ Attempts' = 0 /\ waits' = 0
    BY <1>5, <2>1 DEF HandleConnect, connectEstablished, AttemptInvariant, Attempts, TypeOK
  <2>3. removed' = removed /\ state' = "kConnected" /\ connector' = "kConnected"
    BY <1>5 DEF HandleConnect, connectEstablished
  <2> QED
    BY <2>1, <2>2, <2>3 DEF AttemptInvariant
<1>6. CASE HandleConnectError
  <2>1. connects > 0 /\ UNCHANGED <<state, removed, resolves, reads, late>>
    BY <1>6 DEF HandleConnectError
  <2>2. CASE NextEndpoint
    BY <1>1, <2>1, <2>2 DEF NextEndpoint, AttemptInvariant, Attempts
  <2>3. CASE Retry
    <3>1. connector' = "kDisconnected" /\ waits' = waits + 1 /\ connects' = connects - 1
      BY <2>3 DEF Retry, LastEndpoint, AttemptInvariant
    <3>2. Attempts' = Attempts
      BY <2>1, <3>1 DEF Attempts, TypeOK
    <3> QED
      BY <2>1, <3>1, <3>2 DEF AttemptInvariant
  <2> QED
    BY <1>6, <2>2, <2>3 DEF HandleConnectError, GiveUp
<1>7. CASE RetryTimer
  <2>1. connector = "kDisconnected" /\ waits > 0
    BY <1>7 DEF RetryTimer, AttemptInvariant
  <2>2. connector' = "kConnecting" /\ resolves' = resolves + 1 /\ waits' = waits - 1
    BY <1>7, <2>1 DEF RetryTimer, start
  <2>3. UNCHANGED <<state, removed, connects, reads, late>>
    BY <1>7 DEF RetryTimer
  <2>4. Attempts' = Attempts
    BY <2>2, <2>3 DEF Attempts, TypeOK
  <2>5. waits' = 0
    <3>1. Attempts \in {0, 1}
      BY DEF AttemptInvariant, TypeOK
    <3> QED
      BY <2>1, <2>2, <3>1 DEF Attempts, TypeOK
  <2> QED
    BY <2>2, <2>3, <2>4, <2>5 DEF AttemptInvariant
<1>8. CASE HandRead
  <2>1. state # "kConnecting"
    BY <1>8 DEF HandRead, AttemptInvariant
  <2> QED
    BY <1>8, <2>1 DEF HandRead, AttemptInvariant, Attempts, link
<1>9. CASE HandReadError
  <2>1. reads > 0 /\ reads - 1 \in Nat /\ late \in Nat
    BY <1>9 DEF HandReadError, TypeOK
  <2>2. state # "kConnecting"
    BY <2>1 DEF AttemptInvariant
  <2>3. CASE handClose(FALSE, reads - 1, late)
    BY <2>1, <2>3, AttemptClose
  <2>4. CASE ~handClose(FALSE, reads - 1, late)
    <3>1. UNCHANGED <<state, removed, connector, link>>
      BY <1>9, <2>4 DEF HandReadError
    <3> QED
      BY <2>2, <3>1 DEF AttemptInvariant, Attempts, link
  <2> QED
    BY <2>3, <2>4
<1>10. CASE HandLateRead
  <2>1. state # "kConnecting"
    BY <1>10 DEF HandLateRead, AttemptInvariant
  <2> QED
    BY <1>10, <2>1 DEF HandLateRead, AttemptInvariant, Attempts, link
<1>11. CASE HandLateError
  <2>1. late > 0 /\ late - 1 \in Nat /\ reads \in Nat
    BY <1>11 DEF HandLateError, TypeOK
  <2>2. state # "kConnecting"
    BY <2>1 DEF AttemptInvariant
  <2>3. CASE handClose(FALSE, reads, late - 1)
    BY <2>1, <2>3, AttemptClose
  <2>4. CASE ~handClose(FALSE, reads, late - 1)
    <3>1. UNCHANGED <<state, removed, connector, link>>
      BY <1>11, <2>4 DEF HandLateError
    <3> QED
      BY <2>2, <3>1 DEF AttemptInvariant, Attempts, link
  <2> QED
    BY <2>3, <2>4
<1>12. CASE ForceClose
  <2>1. reads > 0 /\ reads \in Nat /\ late \in Nat
    BY <1>12 DEF ForceClose, ConnectedSessionsRead, TypeOK
  <2>2. handClose(FALSE, reads, late)
    BY <1>12 DEF ForceClose
  <2> QED
    BY <2>1, <2>2, AttemptClose
<1>13. CASE Shutdown \/ Reconnect \/ Stop
  BY <1>13 DEF Shutdown, Reconnect, Stop
<1>14. CASE UNCHANGED vars
  BY <1>1, <1>14 DEF vars
<1> QED
  BY <1>2, <1>3, <1>4, <1>5, <1>6, <1>7, <1>8, <1>9, <1>10, <1>11, <1>12, <1>13, <1>14
     DEF Next

\* A session between servers, which only the network and forceClose end, is
\* connected or has exactly one attempt under way, or was removed: it retries
\* for ever and never twice at once, for every number of endpoints, messages
\* and lost connections.
THEOREM OneAttempt ==
    ASSUME Calls \subseteq {"forceClose"}, "fatal" \notin Faults
    PROVE  Spec => []OneConnectionAttempt
<1>1. Init => AttemptInvariant
  BY DEF Init, AttemptInvariant, Attempts
<1>2. TypeOK /\ ConnectedSessionsRead /\ AttemptInvariant /\ [Next]_vars => AttemptInvariant'
  BY AttemptStep
<1> QED
  BY <1>1, <1>2, AttemptMeaning, SessionTypeCorrect, SessionsRead, PTL DEF Spec

-----------------------------------------------------------------------------
(***************************************************************************)
(* The order of the messages.  The invariant says of log, sending and      *)
(* output, in this order, that each is increasing and below the next ones, *)
(* that no number is above sent, and that a buffer not being written is    *)
(* empty: the swap of internalSend would otherwise put it back behind the  *)
(* messages sent after it.                                                 *)
(***************************************************************************)
Increasing(s) == \A i, j \in 1..Len(s) : i < j => s[i] < s[j]

Below(s, t) == \A i \in 1..Len(s), j \in 1..Len(t) : s[i] < t[j]

UpTo(s, m) == \A i \in 1..Len(s) : s[i] <= m

OrderInvariant ==
    /\ operating = FALSE => sending = <<>>
    /\ writing = TRUE => operating = TRUE
    /\ Increasing(log) /\ Increasing(sending) /\ Increasing(output)
    /\ Below(log, sending) /\ Below(log, output) /\ Below(sending, output)
    /\ UpTo(log, sent) /\ UpTo(sending, sent) /\ UpTo(output, sent)

\* An empty sequence is in order with everything.
LEMMA EmptyOrdered ==
    ASSUME NEW s, NEW m
    PROVE  Increasing(<<>>) /\ Below(<<>>, s) /\ Below(s, <<>>) /\ UpTo(<<>>, m)
BY DEF Increasing, Below, UpTo

\* Two sequences in order, all of one before all of the other.
LEMMA ConcatIncreasing ==
    ASSUME NEW s \in Seq(Nat), NEW t \in Seq(Nat),
           Increasing(s), Increasing(t), Below(s, t)
    PROVE  Increasing(s \o t)
<1> SUFFICES ASSUME NEW i \in 1..Len(s \o t), NEW j \in 1..Len(s \o t), i < j
             PROVE  (s \o t)[i] < (s \o t)[j]
  BY DEF Increasing
<1>1. CASE j <= Len(s)
  BY <1>1 DEF Increasing
<1>2. CASE i > Len(s)
  <2>1. i - Len(s) \in 1..Len(t) /\ j - Len(s) \in 1..Len(t) /\ i - Len(s) < j - Len(s)
    BY <1>2
  <2>2. (s \o t)[i] = t[i - Len(s)] /\ (s \o t)[j] = t[j - Len(s)]
    BY <1>2
  <2> QED
    BY <2>1, <2>2 DEF Increasing
<1>3. CASE i <= Len(s) /\ j > Len(s)
  <2>1. i \in 1..Len(s) /\ j - Len(s) \in 1..Len(t)
    BY <1>3
  <2>2. (s \o t)[i] = s[i] /\ (s \o t)[j] = t[j - Len(s)]
    BY <1>3
  <2> QED
    BY <2>1, <2>2 DEF Below
<1> QED
  BY <1>1, <1>2, <1>3

\* Two sequences in a row come before what each comes before.
LEMMA ConcatBelow ==
    ASSUME NEW s \in Seq(Nat), NEW t \in Seq(Nat), NEW u \in Seq(Nat),
           Below(s, u), Below(t, u)
    PROVE  Below(s \o t, u)
<1> SUFFICES ASSUME NEW i \in 1..Len(s \o t), NEW j \in 1..Len(u)
             PROVE  (s \o t)[i] < u[j]
  BY DEF Below
<1>1. CASE i <= Len(s)
  BY <1>1 DEF Below
<1>2. CASE i > Len(s)
  <2>1. i - Len(s) \in 1..Len(t) /\ (s \o t)[i] = t[i - Len(s)]
    BY <1>2
  <2> QED
    BY <2>1 DEF Below
<1> QED
  BY <1>1, <1>2

\* Two sequences of numbers up to m in a row.
LEMMA ConcatUpTo ==
    ASSUME NEW s \in Seq(Nat), NEW t \in Seq(Nat), NEW m \in Nat, UpTo(s, m), UpTo(t, m)
    PROVE  UpTo(s \o t, m)
<1> SUFFICES ASSUME NEW i \in 1..Len(s \o t) PROVE (s \o t)[i] <= m
  BY DEF UpTo
<1>1. CASE i <= Len(s)
  BY <1>1 DEF UpTo
<1>2. CASE i > Len(s)
  <2>1. i - Len(s) \in 1..Len(t) /\ (s \o t)[i] = t[i - Len(s)]
    BY <1>2
  <2> QED
    BY <2>1 DEF UpTo
<1> QED
  BY <1>1, <1>2

\* What a partial write takes is ordered as the whole buffer was.
LEMMA PrefixOrdered ==
    ASSUME NEW s \in Seq(Nat), NEW n \in 0..Len(s), NEW m \in Nat,
           NEW b \in Seq(Nat), NEW a \in Seq(Nat),
           Increasing(s), Below(b, s), Below(s, a), UpTo(s, m)
    PROVE  LET p == SubSeq(s, 1, n)
           IN  /\ p \in Seq(Nat)
               /\ Increasing(p) /\ Below(b, p) /\ Below(p, a) /\ UpTo(p, m)
<1> DEFINE p == SubSeq(s, 1, n)
<1>1. p \in Seq(Nat) /\ Len(p) = n /\ \A i \in 1..n : p[i] = s[i] /\ i \in 1..Len(s)
  OBVIOUS
<1> HIDE DEF p
<1>2. Increasing(p) /\ Below(b, p) /\ Below(p, a) /\ UpTo(p, m)
  BY <1>1 DEF Increasing, Below, UpTo
<1> QED
  BY <1>1, <1>2 DEF p

\* The next message goes behind all others.
LEMMA AppendOrdered ==
    ASSUME NEW s \in Seq(Nat), NEW m \in Nat, NEW b \in Seq(Nat),
           Increasing(s), UpTo(s, m), Below(b, s), UpTo(b, m)
    PROVE  LET t == Append(s, m + 1)
           IN  Increasing(t) /\ Below(b, t) /\ UpTo(t, m + 1) /\ UpTo(b, m + 1)
<1> DEFINE t == Append(s, m + 1)
<1>1. /\ t \in Seq(Nat) /\ Len(t) = Len(s) + 1 /\ t[Len(s) + 1] = m + 1
      /\ \A i \in 1..Len(s) : t[i] = s[i]
      /\ \A i \in 1..Len(t) : i \in 1..Len(s) \/ i = Len(s) + 1
  OBVIOUS
<1>2. \A i \in 1..Len(s) : s[i] < m + 1
  <2> SUFFICES ASSUME NEW i \in 1..Len(s) PROVE s[i] < m + 1
    OBVIOUS
  <2>1. s[i] \in Nat /\ s[i] <= m
    BY DEF UpTo
  <2> QED
    BY <2>1
<1>3. \A i \in 1..Len(b) : b[i] < m + 1 /\ b[i] <= m + 1
  <2> SUFFICES ASSUME NEW i \in 1..Len(b) PROVE b[i] < m + 1 /\ b[i] <= m + 1
    OBVIOUS
  <2>1. b[i] \in Nat /\ b[i] <= m
    BY DEF UpTo
  <2> QED
    BY <2>1
<1> HIDE DEF t
<1>4. UpTo(t, m + 1) /\ UpTo(b, m + 1)
  <2>1. UpTo(b, m + 1)
    BY <1>3 DEF UpTo
  <2>2. ASSUME NEW i \in 1..Len(t) PROVE t[i] <= m + 1
    <3>1. CASE i \in 1..Len(s)
      <4>1. t[i] = s[i] /\ s[i] < m + 1 /\ s[i] \in Nat
        BY <1>1, <1>2, <3>1
      <4> QED
        BY <4>1
    <3>2. CASE i = Len(s) + 1
      BY <1>1, <3>2
    <3> QED
      BY <1>1, <3>1, <3>2
  <2> QED
    BY <2>1, <2>2 DEF UpTo
<1>5. Below(b, t)
  <2> SUFFICES ASSUME NEW i \in 1..Len(b), NEW j \in 1..Len(t) PROVE b[i] < t[j]
    BY DEF Below
  <2>1. CASE j \in 1..Len(s)
    BY <1>1, <2>1 DEF Below
  <2>2. CASE j = Len(s) + 1
    BY <1>1, <1>3, <2>2
  <2> QED
    BY <1>1, <2>1, <2>2
<1>6. Increasing(t)
  <2> SUFFICES ASSUME NEW i \in 1..Len(t), NEW j \in 1..Len(t), i < j PROVE t[i] < t[j]
    BY DEF Increasing
  <2>1. i \in 1..Len(s)
    BY <1>1
  <2>2. CASE j \in 1..Len(s)
    BY <1>1, <2>1, <2>2 DEF Increasing
  <2>3. CASE j = Len(s) + 1
    BY <1>1, <1>2, <2>1, <2>3
  <2> QED
    BY <1>1, <2>2, <2>3
<1> QED
  BY <1>4, <1>5, <1>6 DEF t

\* send numbers its message after all others and puts it last.
LEMMA OrderSend ==
    ASSUME TypeOK, OrderInvariant, NEW st, send(st)
    PROVE  OrderInvariant'
<1> DEFINE out == Append(output, sent + 1)
<1>1. sent' = sent + 1 /\ log' = log /\ internalSend(st, out, sending, operating)
  BY DEF send
<1>2. Increasing(out) /\ Below(log, out) /\ UpTo(out, sent + 1) /\ UpTo(log, sent + 1)
  BY AppendOrdered DEF TypeOK, OrderInvariant
<1>3. Below(sending, out) /\ UpTo(sending, sent + 1)
  BY AppendOrdered DEF TypeOK, OrderInvariant
<1>4. out # <<>>
  <2>1. output \in Seq(Nat) /\ sent + 1 \in Nat
    BY DEF TypeOK
  <2>2. Len(out) = Len(output) + 1 /\ Len(output) \in Nat
    BY <2>1
  <2> QED
    BY <2>2
<1> HIDE DEF out
<1>5. CASE st # "kConnected" \/ operating
  <2>1. output' = out /\ sending' = sending /\ operating' = operating /\ writing' = writing
    BY <1>1, <1>5 DEF internalSend
  <2> QED
    BY <1>1, <1>2, <1>3, <2>1 DEF OrderInvariant
<1>6. CASE ~(st # "kConnected" \/ operating)
  <2>1. sending = <<>>
    BY <1>6 DEF OrderInvariant, TypeOK
  <2>2. output' = <<>> /\ sending' = out /\ operating' = TRUE /\ writing' = TRUE
    BY <1>1, <1>4, <1>6, <2>1 DEF internalSend
  <2> QED
    BY <1>1, <1>2, <2>2, EmptyOrdered DEF OrderInvariant
<1> QED
  BY <1>5, <1>6

\* handWrite consumes from the front of the buffer being sent.
LEMMA OrderWrite ==
    ASSUME TypeOK, OrderInvariant, NEW n \in 0..Len(sending), HandWrite(n)
    PROVE  OrderInvariant'
<1> DEFINE p == SubSeq(sending, 1, n)
<1>1. log' = log \o p /\ sent' = sent
  BY DEF HandWrite
<1>2. /\ p \in Seq(Nat) /\ Increasing(p) /\ Below(log, p) /\ Below(p, output)
      /\ UpTo(p, sent)
  BY PrefixOrdered DEF TypeOK, OrderInvariant
<1> HIDE DEF p
<1>3. Increasing(log \o p) /\ Below(log \o p, output) /\ UpTo(log \o p, sent)
  BY <1>2, ConcatIncreasing, ConcatBelow, ConcatUpTo DEF TypeOK, OrderInvariant
<1>4. operating = TRUE
  BY DEF HandWrite, OrderInvariant, TypeOK
<1>5. CASE state = "kConnected" /\ output # <<>>
  <2>1. output' = <<>> /\ sending' = output /\ operating' = operating /\ writing' = writing
    BY <1>5 DEF HandWrite
  <2> QED
    BY <1>1, <1>3, <1>4, <2>1, EmptyOrdered DEF OrderInvariant
<1>6. CASE ~(state = "kConnected" /\ output # <<>>)
  <2>1. output' = output /\ sending' = <<>> /\ operating' = FALSE /\ writing' = FALSE
    BY <1>6 DEF HandWrite
  <2> QED
    BY <1>1, <1>3, <2>1, EmptyOrdered DEF OrderInvariant
<1> QED
  BY <1>5, <1>6

\* The other actions leave the buffers alone.
LEMMA BuffersKept ==
    ASSUME Resolved \/ HandleConnectError \/ RetryTimer \/ HandRead \/ HandReadError
           \/ HandLateRead \/ HandLateError \/ ForceClose \/ Shutdown \/ Reconnect \/ Stop
           \/ UNCHANGED vars
    PROVE  UNCHANGED buffers
<1>1. CASE Resolved \/ HandleConnectError \/ RetryTimer
  BY <1>1 DEF Resolved, HandleConnectError, RetryTimer
<1>2. CASE HandRead \/ HandLateRead \/ Shutdown \/ Stop
  BY <1>2 DEF HandRead, HandLateRead, Shutdown, Stop
<1>3. CASE HandReadError \/ HandLateError
  BY <1>3 DEF HandReadError, HandLateError, handClose
<1>4. CASE ForceClose \/ Reconnect
  BY <1>4 DEF ForceClose, Reconnect, handClose
<1>5. CASE UNCHANGED vars
  BY <1>5 DEF vars
<1> QED
  BY <1>1, <1>2, <1>3, <1>4, <1>5

\* Every step keeps the messages in order.
LEMMA OrderStep == TypeOK /\ OrderInvariant /\ [Next]_vars => OrderInvariant'
<1> SUFFICES ASSUME TypeOK, OrderInvariant, [Next]_vars PROVE OrderInvariant'
  OBVIOUS
<1>1. CASE UNCHANGED buffers
  BY <1>1 DEF OrderInvariant, buffers
<1>2. CASE Send
  BY <1>2, OrderSend DEF Send
<1>3. CASE \E n \in 0..Len(sending) : HandWrite(n)
  BY <1>3, OrderWrite
<1>4. CASE HandWriteError
  <2>1. writing' = FALSE /\ UNCHANGED <<output, sending, operating, log, sent>>
    BY <1>4 DEF HandWriteError
  <2> QED
    BY <2>1 DEF OrderInvariant
<1>5. CASE HandleConnect
  <2>1. CASE greets
    BY <1>5, <2>1, OrderSend DEF HandleConnect, connectEstablished
  <2>2. CASE ~greets
    BY <1>1, <1>5, <2>2 DEF HandleConnect, connectEstablished
  <2> QED
    BY <2>1, <2>2
<1> QED
  BY <1>1, <1>2, <1>3, <1>4, <1>5, BuffersKept DEF Next

\* The invariant is what MessagesStayInOrder says.
LEMMA OrderMeaning == TypeOK /\ OrderInvariant => MessagesStayInOrder
<1> SUFFICES ASSUME TypeOK, OrderInvariant PROVE MessagesStayInOrder
  OBVIOUS
<1>1. Increasing(log \o sending) /\ Below(log \o sending, output)
  BY ConcatIncreasing, ConcatBelow DEF TypeOK, OrderInvariant
<1>2. log \o sending \in Seq(Nat)
  BY DEF TypeOK
<1>3. Increasing(log \o sending \o output)
  BY <1>1, <1>2, ConcatIncreasing DEF TypeOK, OrderInvariant
<1> QED
  BY <1>3 DEF MessagesStayInOrder, Increasing

\* The network is handed the messages in the order of the sends, none twice,
\* whatever is called and whatever fails: lost connections, two connections at
\* once, failed and partial writes.
THEOREM MessagesInOrder == Spec => []MessagesStayInOrder
<1>1. Init => OrderInvariant
  BY EmptyOrdered DEF Init, OrderInvariant
<1> QED
  BY <1>1, OrderStep, OrderMeaning, SessionTypeCorrect, PTL DEF Spec

-----------------------------------------------------------------------------
(***************************************************************************)
(* The output moves.  Without failed writes the buffer is marked as        *)
(* operating exactly while it is being written, and a session that sends a *)
(* message when it is connected sends with it what has waited.             *)
(***************************************************************************)
MoveInvariant ==
    /\ greets = TRUE
    /\ operating = writing
    /\ state = "kConnected" /\ output # <<>> => writing = TRUE

\* send starts a write when none is under way.
LEMMA MoveSend ==
    ASSUME TypeOK, OrderInvariant, operating = writing, NEW st, send(st)
    PROVE  /\ operating' = writing'
           /\ st = "kConnected" /\ output' # <<>> => writing' = TRUE
<1> DEFINE out == Append(output, sent')
<1>1. internalSend(st, out, sending, operating)
  BY DEF send
<1> HIDE DEF out
<1>2. CASE st # "kConnected" \/ operating \/ out = <<>>
  <2>1. output' = out /\ operating' = operating /\ writing' = writing
    BY <1>1, <1>2 DEF internalSend
  <2> QED
    BY <1>2, <2>1 DEF TypeOK
<1>3. CASE ~(st # "kConnected" \/ operating \/ out = <<>>)
  BY <1>1, <1>3 DEF internalSend
<1> QED
  BY <1>2, <1>3

\* No step leaves bytes behind without a write, while no write fails.
LEMMA MoveStep ==
    ASSUME "write" \notin Faults,
           TypeOK, OrderInvariant, MoveInvariant, [Next]_vars
    PROVE  MoveInvariant'
<1>1. ASSUME greets' = greets, UNCHANGED buffers, state' = state \/ state' # "kConnected"
      PROVE  MoveInvariant'
  BY <1>1 DEF MoveInvariant, buffers
<1>2. CASE Send
  <2>1. send(state) /\ greets' = greets /\ state' = state
    BY <1>2 DEF Send, kind
  <2> QED
    BY <2>1, MoveSend DEF MoveInvariant
<1>3. ASSUME NEW n \in 0..Len(sending), HandWrite(n) PROVE MoveInvariant'
  <2>1. greets' = greets /\ state' = state /\ writing = TRUE
    BY <1>3 DEF HandWrite, kind, TypeOK
  <2>2. CASE state = "kConnected" /\ output # <<>>
    <3>1. operating' = operating /\ writing' = writing
      BY <1>3, <2>2 DEF HandWrite
    <3> QED
      BY <2>1, <3>1 DEF MoveInvariant
  <2>3. CASE ~(state = "kConnected" /\ output # <<>>)
    <3>1. operating' = FALSE /\ writing' = FALSE /\ output' = output
      BY <1>3, <2>3 DEF HandWrite
    <3> QED
      BY <2>1, <2>3, <3>1 DEF MoveInvariant
  <2> QED
    BY <2>2, <2>3
<1>4. CASE HandWriteError
  BY <1>4 DEF HandWriteError
<1>5. CASE HandleConnect
  <2>1. send("kConnected") /\ greets' = greets
    BY <1>5 DEF HandleConnect, connectEstablished, kind, MoveInvariant
  <2> QED
    BY <2>1, MoveSend DEF MoveInvariant
<1>6. CASE Resolved \/ HandleConnectError \/ RetryTimer \/ HandRead \/ HandLateRead \/ Stop
  <2>1. greets' = greets /\ state' = state
    BY <1>6 DEF Resolved, HandleConnectError, RetryTimer, HandRead, HandLateRead, Stop, kind
  <2> QED
    BY <1>1, <1>6, <2>1, BuffersKept
<1>7. CASE HandReadError \/ HandLateError
  <2>1. greets' = greets /\ (state' = state \/ state' = "kDisconnected")
    BY <1>7 DEF HandReadError, HandLateError, handClose, kind
  <2> QED
    BY <1>1, <1>7, <2>1, BuffersKept
<1>8. CASE ForceClose \/ Reconnect
  <2>1. greets' = greets /\ (state' = state \/ state' = "kDisconnected")
    BY <1>8 DEF ForceClose, Reconnect, handClose, kind
  <2> QED
    BY <1>1, <1>8, <2>1, BuffersKept
<1>9. CASE Shutdown
  <2>1. greets' = greets /\ state' = "kDisconnecting"
    BY <1>9 DEF Shutdown, kind
  <2> QED
    BY <1>1, <1>9, <2>1, BuffersKept
<1>10. CASE UNCHANGED vars
  BY <1>1, <1>10, BuffersKept DEF vars, kind
<1> QED
  BY <1>2, <1>3, <1>4, <1>5, <1>6, <1>7, <1>8, <1>9, <1>10 DEF Next

\* Where no write fails, a connected session of a kind that sends a message
\* when it is connected has nothing waiting, unless a write is under way whose
\* handler sends it, whatever else is called and fails.
THEOREM OutputAlwaysMoves ==
    ASSUME "write" \notin Faults, Greetings \subseteq {TRUE}
    PROVE  Spec => []OutputMoves
<1>1. Init => MoveInvariant /\ OrderInvariant
  <2> SUFFICES ASSUME Init PROVE MoveInvariant /\ OrderInvariant
    OBVIOUS
  <2>1. greets = TRUE /\ operating = FALSE /\ writing = FALSE /\ output = <<>>
    BY DEF Init
  <2>2. OrderInvariant
    BY EmptyOrdered DEF Init, OrderInvariant
  <2> QED
    BY <2>1, <2>2 DEF MoveInvariant
<1>2. TypeOK /\ OrderInvariant /\ MoveInvariant /\ [Next]_vars => MoveInvariant'
  BY MoveStep
<1>3. MoveInvariant => OutputMoves
  BY DEF MoveInvariant, OutputMoves
<1> QED
  BY <1>1, <1>2, <1>3, OrderStep, SessionTypeCorrect, PTL DEF Spec

-----------------------------------------------------------------------------
(***************************************************************************)
(* The session implements MessageQueue: its steps accept a message,        *)
(* deliver the buffer that was being written, or change nothing the queue  *)
(* has.                                                                    *)
(***************************************************************************)

\* send accepts a message: also the swap of the buffers keeps their sequence.
LEMMA QueueSend ==
    ASSUME TypeOK, OrderInvariant, ~removed, removed' = removed, NEW st, send(st)
    PROVE  Queue!Accept
<1> DEFINE out == Append(output, sent + 1)
<1>1. sent' = sent + 1 /\ log' = log /\ internalSend(st, out, sending, operating)
  BY DEF send
<1>2. output \in Seq(Nat) /\ sending \in Seq(Nat) /\ sent + 1 \in Nat
  BY DEF TypeOK
<1>3. out \in Seq(Nat) /\ out = output \o <<sent + 1>> /\ <<sent + 1>> \in Seq(Nat)
  <2>1. out \in Seq(Nat) /\ <<sent + 1>> \in Seq(Nat)
    BY <1>2
  <2>2. out = output \o <<sent + 1>>
    BY <1>2, AppendIsConcat
  <2> QED
    BY <2>1, <2>2
<1>4. Append(sending \o output, sent + 1) = (sending \o output) \o <<sent + 1>>
  <2>1. sending \o output \in Seq(Nat)
    BY <1>2
  <2> QED
    BY <1>2, <2>1, AppendIsConcat
<1>5. Append(sending \o output, sent + 1) = sending \o out
  <2>1. \A u \in Seq(Nat) : (sending \o output) \o u = sending \o (output \o u)
    BY <1>2, ConcatAssociative, SMTT(30)
  <2>2. (sending \o output) \o <<sent + 1>> = sending \o (output \o <<sent + 1>>)
    BY <1>3, <2>1
  <2> QED
    BY <1>3, <1>4, <2>2
<1> HIDE DEF out
<1>6. sending' \o output' = sending \o out
  <2>1. CASE st # "kConnected" \/ operating \/ out = <<>>
    BY <1>1, <2>1 DEF internalSend
  <2>2. CASE ~(st # "kConnected" \/ operating \/ out = <<>>)
    <3>1. sending = <<>>
      BY <2>2 DEF OrderInvariant, TypeOK
    <3>2. output' = <<>> /\ sending' = out
      BY <1>1, <2>2, <3>1 DEF internalSend
    <3>3. out \o <<>> = out /\ <<>> \o out = out
      BY <1>3, ConcatEmptySeq
    <3> QED
      BY <3>1, <3>2, <3>3
  <2> QED
    BY <2>1, <2>2
<1> QED
  BY <1>1, <1>5, <1>6 DEF Queue!Accept

\* The end of a whole write delivers the buffer.
LEMMA QueueWrite ==
    ASSUME "partial" \notin Faults, TypeOK, NEW n \in 0..Len(sending), HandWrite(n)
    PROVE  Queue!Deliver \/ UNCHANGED Queue!vars
<1>0. ~removed /\ removed' = removed
  BY DEF HandWrite
<1> DEFINE pending == sending \o output
<1>1. output \in Seq(Nat) /\ sending \in Seq(Nat) /\ log \in Seq(Nat)
  BY DEF TypeOK
<1>2. n = Len(sending) /\ log' = log \o SubSeq(sending, 1, n) /\ sent' = sent
  BY DEF HandWrite
<1>3. SubSeq(sending, 1, n) = sending
  BY <1>1, <1>2, SubSeqFull
<1>4. sending' \o output' = output
  <2>1. output \o <<>> = output /\ <<>> \o output = output
    BY <1>1, ConcatEmptySeq
  <2>2. CASE state = "kConnected" /\ output # <<>>
    BY <2>1, <2>2 DEF HandWrite
  <2>3. CASE ~(state = "kConnected" /\ output # <<>>)
    BY <2>1, <2>3 DEF HandWrite
  <2> QED
    BY <2>2, <2>3
<1>5. CASE sending = <<>>
  <2>1. log' = log /\ pending = output
    BY <1>1, <1>2, <1>3, <1>5, ConcatEmptySeq
  <2> QED
    BY <1>0, <1>2, <1>4, <2>1 DEF Queue!vars
<1>6. CASE sending # <<>>
  <2>1. Len(pending) = Len(sending) + Len(output) /\ Len(sending) \in Nat /\ Len(output) \in Nat
    BY <1>1
  <2>2. n \in 1..Len(pending) /\ n \in 1..Len(sending) /\ 1 \in 1..Len(sending)
    BY <1>1, <1>2, <1>6, <2>1
  <2>3. SubSeq(pending, 1, n) = sending
    <3>1. SubSeq(pending, 1, n) = SubSeq(sending, 1, n)
      BY <1>1, <2>2, SubSeqOfConcat1
    <3> QED
      BY <1>3, <3>1
  <2>4. SubSeq(pending, n + 1, Len(pending)) = output
    <3>1. CASE output = <<>>
      <4>1. Len(pending) < n + 1 /\ Len(pending) \in Int /\ n + 1 \in Int
        BY <1>2, <2>1, <3>1
      <4> QED
        BY <3>1, <4>1, SubSeqEmpty
    <3>2. CASE output # <<>>
      <4>1. Len(output) > 0
        BY <1>1, <3>2
      <4>2. /\ n + 1 \in Len(sending) + 1 .. Len(sending) + Len(output)
            /\ Len(pending) \in Len(sending) + 1 .. Len(sending) + Len(output)
            /\ n + 1 - Len(sending) = 1
            /\ Len(pending) - Len(sending) = Len(output)
        BY <1>2, <2>1, <4>1
      <4>3. \A a, b \in Len(sending) + 1 .. Len(sending) + Len(output) :
                SubSeq(sending \o output, a, b)
                    = SubSeq(output, a - Len(sending), b - Len(sending))
        BY <1>1, SubSeqOfConcat2
      <4>4. SubSeq(pending, n + 1, Len(pending)) = SubSeq(output, 1, Len(output))
        <5> DEFINE a == n + 1
                   b == Len(pending)
        <5>1. /\ a \in Len(sending) + 1 .. Len(sending) + Len(output)
              /\ b \in Len(sending) + 1 .. Len(sending) + Len(output)
              /\ a - Len(sending) = 1 /\ b - Len(sending) = Len(output)
          BY <4>2
        <5> HIDE DEF a, b
        <5>2. SubSeq(sending \o output, a, b)
                  = SubSeq(output, a - Len(sending), b - Len(sending))
          BY <4>3, <5>1
        <5>3. SubSeq(pending, a, b) = SubSeq(output, 1, Len(output))
          BY <5>1, <5>2
        <5> QED
          BY <5>3 DEF a, b
      <4> QED
        BY <1>1, <4>4, SubSeqFull
    <3> QED
      BY <3>1, <3>2
  <2> HIDE DEF pending
  <2>5. /\ log' = log \o SubSeq(pending, 1, n)
        /\ sending' \o output' = SubSeq(pending, n + 1, Len(pending))
        /\ sent' = sent
    BY <1>2, <1>3, <1>4, <2>3, <2>4
  <2> QED
    BY <1>0, <2>2, <2>5 DEF Queue!Deliver, pending
<1> QED
  BY <1>5, <1>6

\* An action that leaves the buffers alone leaves the queue alone or removes it.
LEMMA QueueOther ==
    ASSUME TypeOK, UNCHANGED <<output, sending, log, sent>>,
           removed' = removed \/ (~removed /\ removed' \in BOOLEAN)
    PROVE  [Queue!Next]_(Queue!vars)
<1>1. CASE removed' = removed
  BY <1>1 DEF Queue!vars
<1>2. CASE ~removed /\ removed' = TRUE
  BY <1>2 DEF Queue!Next, Queue!Remove
<1> QED
  BY <1>1, <1>2 DEF TypeOK

\* Every step of a session is a step of the abstract queue, or none.
LEMMA QueueStep ==
    ASSUME "partial" \notin Faults, TypeOK, OrderInvariant, [Next]_vars
    PROVE  [Queue!Next]_(Queue!vars)
<1>1. CASE Send
  <2>1. ~removed /\ removed' = removed /\ send(state)
    BY <1>1 DEF Send
  <2> QED
    BY <2>1, QueueSend DEF Queue!Next
<1>2. CASE \E n \in 0..Len(sending) : HandWrite(n)
  BY <1>2, QueueWrite DEF Queue!Next
<1>3. CASE HandWriteError
  BY <1>3, QueueOther DEF HandWriteError
<1>4. CASE HandleConnect
  <2>1. CASE greets
    <3>1. ~removed /\ removed' = removed /\ send("kConnected")
      BY <1>4, <2>1 DEF HandleConnect, connectEstablished
    <3> QED
      BY <3>1, QueueSend DEF Queue!Next
  <2>2. CASE ~greets
    BY <1>4, <2>2, QueueOther DEF HandleConnect, connectEstablished, buffers
  <2> QED
    BY <2>1, <2>2
<1>5. ASSUME UNCHANGED buffers, removed' = removed \/ (~removed /\ removed' \in BOOLEAN)
      PROVE  [Queue!Next]_(Queue!vars)
  BY <1>5, QueueOther DEF buffers
<1>6. CASE Resolved \/ HandleConnectError \/ RetryTimer \/ HandRead \/ HandLateRead
           \/ Shutdown \/ Stop
  <2>1. removed' = removed
    BY <1>6 DEF Resolved, HandleConnectError, RetryTimer, HandRead, HandLateRead,
                Shutdown, Stop
  <2> QED
    BY <1>5, <1>6, <2>1, BuffersKept
<1>7. CASE HandReadError \/ HandLateError \/ ForceClose \/ Reconnect
  <2>1. ~removed
    BY <1>7 DEF HandReadError, HandLateError, ForceClose, Reconnect, Closing
  <2>2. removed' = removed \/ removed' \in BOOLEAN
    BY <1>7 DEF HandReadError, HandLateError, ForceClose, Reconnect, handClose
  <2> QED
    BY <1>5, <1>7, <2>1, <2>2, BuffersKept
<1>8. CASE UNCHANGED vars
  BY <1>5, <1>8, BuffersKept DEF vars
<1> QED
  BY <1>1, <1>2, <1>3, <1>4, <1>6, <1>7, <1>8 DEF Next

\* The safety part of the queue a session promises, for every session whose
\* writes are not partial: every message is accepted at the end of the queue
\* and handed over from its front, once; a lost connection, a second one or a
\* failed write loses and reorders nothing.
THEOREM SessionIsQueue ==
    ASSUME "partial" \notin Faults
    PROVE  Spec => Queue!Init /\ [][Queue!Next]_(Queue!vars)
<1>1. Init => Queue!Init
  <2> SUFFICES ASSUME Init PROVE Queue!Init
    OBVIOUS
  <2>1. sending = <<>> /\ output = <<>> /\ log = <<>> /\ sent = 0 /\ removed = FALSE
    BY DEF Init
  <2>2. sending \o output = <<>>
    BY <2>1
  <2> QED
    BY <2>1, <2>2 DEF Queue!Init
<1>2. Init => OrderInvariant
  BY EmptyOrdered DEF Init, OrderInvariant
<1>3. TypeOK /\ OrderInvariant /\ [Next]_vars => [Queue!Next]_(Queue!vars)
  BY QueueStep
<1> QED
  BY <1>1, <1>2, <1>3, OrderStep, SessionTypeCorrect, PTL DEF Spec
=============================================================================
