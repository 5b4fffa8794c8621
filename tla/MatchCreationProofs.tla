------------------------- MODULE MatchCreationProofs -------------------------
(***************************************************************************)
(* Proofs about MatchCreation, for every set of profiles, every table the  *)
(* CS starts with, every choice of failing queries and any number of       *)
(* requests.                                                               *)
(***************************************************************************)
EXTENDS MatchCreation, SequenceTheorems, TLAPS

\* newmatch is that of a request once there was one, and each row that was
\* added stands for a request that has left the queue of the DB thread.
FrameTyped ==
    /\ frame \in [id : 0..Len(requests), mid : Mids]
    /\ step # "idle" \/ mainQueue # <<>> => frame.id # 0

RowsCounted ==
    /\ events \in Seq(1..Len(requests))
    /\ Len(rows) + Len(events) <= Len(Stored) + Len(requests)

TypeIInv == TypeOK /\ FrameTyped /\ RowsCounted

\* An answer has a mid or an error, and no two different ones are equal.
LEMMA ResultShape ==
    /\ \A mid : "mid" \in DOMAIN Mid(mid) /\ Mid(mid).mid = mid
    /\ \A e : "mid" \notin DOMAIN Error(e) /\ Error(e).error = e
    /\ \A mid, e : Mid(mid) # Error(e)
    /\ \A e : Error(e) = Error(nothing) <=> e = nothing
<1>1. \A mid : "mid" \in DOMAIN Mid(mid) /\ Mid(mid).mid = mid
  BY DEF Mid
<1>2. \A e : "mid" \notin DOMAIN Error(e) /\ Error(e).error = e
  BY DEF Error
<1>3. \A mid, e : Mid(mid) # Error(e)
  BY <1>1, <1>2
<1> QED
  BY <1>1, <1>2, <1>3

\* What the DB thread's step does to the table and to newmatch.
LEMMA StoreEffect ==
    ASSUME TypeIInv, StoreAndDispatch
    PROVE  \E id \in 1..Len(requests), mid \in Mids :
             /\ id = Head(events)
             /\ events' = Tail(events)
             /\ frame' = [id |-> id, mid |-> mid]
             /\ mainQueue' = Append(mainQueue, id)
             /\ rows' \in Seq(Profiles)
             /\ Len(rows') \in Len(rows)..(Len(rows) + 1)
             /\ \A i \in 1..Len(rows) : rows'[i] = rows[i]
             /\ \/ mid \in 1..Len(rows') /\ rows'[mid].slot = requests[id].slot
                \/ mid = INVALID_MID /\ Faults # {}
<1> DEFINE id == Head(events)
<1>1. events # <<>> /\ events' = Tail(events)
  BY DEF StoreAndDispatch
<1>2. id \in 1..Len(requests) /\ requests[id] \in Profiles /\ Len(events) \in Nat \ {0}
      /\ Len(requests) \in Nat /\ Len(rows) \in Nat
  BY <1>1 DEF TypeIInv, TypeOK, RowsCounted
<1>3. PICK failed \in SUBSET Faults :
        createAndStoreMatch(id, failed) /\ mainQueue' = Append(mainQueue, id)
  BY DEF StoreAndDispatch
<1> HIDE DEF id
<1>4. PICK mid \in queryMatchMid(requests[id], rows', "select" \in failed) :
        frame' = [id |-> id, mid |-> mid]
  BY <1>3 DEF createAndStoreMatch
<1>5. rows' = IF "insert" \in failed THEN rows ELSE Append(rows, requests[id])
  BY <1>3 DEF createAndStoreMatch
<1>6. /\ rows' \in Seq(Profiles)
      /\ Len(rows') \in Len(rows)..(Len(rows) + 1)
      /\ \A i \in 1..Len(rows) : rows'[i] = rows[i]
      /\ DOMAIN rows' = 1..Len(rows')
  BY <1>2, <1>5 DEF TypeIInv, TypeOK
<1>7. "insert" \notin failed => /\ Len(rows) + 1 \in DOMAIN rows'
                               /\ rows'[Len(rows) + 1].slot = requests[id].slot
  BY <1>2, <1>5 DEF TypeIInv, TypeOK
<1>8. \/ mid \in 1..Len(rows') /\ rows'[mid].slot = requests[id].slot
      \/ mid = INVALID_MID /\ Faults # {}
  BY <1>4, <1>6, <1>7 DEF queryMatchMid
<1>9. Len(rows') <= Len(Stored) + MaxRequests
  BY <1>2, <1>6, CreationAssumption DEF TypeIInv, TypeOK, RowsCounted
<1>10. mid \in Mids
  BY <1>2, <1>6, <1>8, <1>9, CreationAssumption DEF Mids
<1> QED
  BY <1>1, <1>2, <1>3, <1>4, <1>6, <1>8, <1>10 DEF id

\* Every step keeps the types.
LEMMA TypeInvariant == Spec => []TypeIInv
<1>1. Init => TypeIInv
  <2> SUFFICES ASSUME Init PROVE TypeIInv
    OBVIOUS
  <2>1. Len(Stored) \in Nat /\ MaxRequests \in Nat /\ rows \in Seq(Profiles)
    BY CreationAssumption DEF Init
  <2>2. Error(nothing) \in Results /\ INVALID_MID \in Mids
    BY DEF Results, Mids
  <2>3. answers \in [1..MaxRequests -> Results] /\ promises \in [1..MaxRequests -> Results]
    BY <2>2 DEF Init
  <2>4. DOMAIN matches = {} /\ Len(requests) = 0
    BY DEF Init
  <2>5. /\ <<>> \in Seq(Profiles) /\ <<>> \in Seq(1..MaxRequests)
        /\ frame.id \in 0..MaxRequests /\ frame.mid \in Mids
    BY <2>1, <2>2 DEF Init
  <2>6. TypeOK
    <3>1. DOMAIN matches \subseteq Mids /\ \A mid \in DOMAIN matches : matches[mid] \in Profiles \cup {Gone}
      BY <2>4
    <3>2. requests \in Seq(Profiles) /\ Len(requests) <= MaxRequests /\ waiting \in 0..Len(requests)
      BY <2>1, <2>4, <2>5 DEF Init
    <3>3. events \in Seq(1..MaxRequests) /\ mainQueue \in Seq(1..MaxRequests)
      BY <2>5 DEF Init
    <3>4. undist \subseteq Mids /\ step \in {"idle", "dispatched", "kept"}
          /\ initialized \in BOOLEAN /\ dangled \in BOOLEAN /\ crashed \in BOOLEAN
      BY DEF Init
    <3> QED
      BY <2>1, <2>3, <2>5, <3>1, <3>2, <3>3, <3>4 DEF TypeOK
  <2> QED
    BY <2>1, <2>2, <2>4, <2>6 DEF Init, TypeIInv, FrameTyped, RowsCounted
<1>2. TypeIInv /\ [Next]_vars => TypeIInv'
  <2> SUFFICES ASSUME TypeIInv, [Next]_vars PROVE TypeIInv'
    OBVIOUS
  <2>0. Len(requests) \in Nat /\ MaxRequests \in Nat /\ Len(Stored) \in Nat
        /\ Len(rows) \in Nat /\ Len(events) \in Nat
    BY CreationAssumption DEF TypeIInv, TypeOK
  <2>1. ASSUME NEW profile \in Profiles, NEW soon \in BOOLEAN, Request(profile, soon)
        PROVE  TypeIInv'
    <3> DEFINE id == Len(requests) + 1
    <3>0. PICK code \in createMatchValid(profile, soon) :
            /\ answers' = [answers EXCEPT ![id] = code]
            /\ \/ code = Error(nothing) /\ waiting' = id /\ events' = Append(events, id)
               \/ code # Error(nothing) /\ UNCHANGED <<waiting, events>>
      BY <2>1 DEF Request
    <3>1. id \in 1..MaxRequests /\ Len(requests') = id /\ requests' \in Seq(Profiles)
      BY <2>0, <2>1 DEF Request, TypeIInv, TypeOK
    <3>2. code \in Results
      BY <3>0 DEF createMatchValid, Results, Errors
    <3>3. answers' \in [1..MaxRequests -> Results]
      BY <3>0, <3>1, <3>2 DEF TypeIInv, TypeOK
    <3>4. waiting' \in 0..Len(requests')
      BY <2>0, <3>0, <3>1 DEF TypeIInv, TypeOK
    <3>5. /\ events' \in Seq(1..Len(requests')) /\ events' \in Seq(1..MaxRequests)
          /\ Len(events') <= Len(events) + 1
      <4>1. events \in Seq(1..Len(requests')) /\ events \in Seq(1..MaxRequests)
        <5>1. events \in Seq(1..Len(requests)) /\ 1..Len(requests) \subseteq 1..Len(requests')
          BY <2>0, <3>1 DEF TypeIInv, RowsCounted
        <5> QED
          BY <5>1, SeqMonotonic DEF TypeIInv, TypeOK
      <4>2. events' = events \/ events' = Append(events, id)
        BY <3>0
      <4>3. id \in 1..Len(requests')
        BY <2>0, <3>1
      <4> DEFINE S == 1..Len(requests')
                 T == 1..MaxRequests
      <4> HIDE DEF id, S, T
      <4>4. events \in Seq(S) /\ events \in Seq(T) /\ id \in S /\ id \in T
        BY <3>1, <4>1, <4>3 DEF S, T
      <4>5. events' \in Seq(S) /\ events' \in Seq(T) /\ Len(events') <= Len(events) + 1
        BY <2>0, <4>2, <4>4
      <4> QED
        BY <4>5 DEF S, T
    <3>6. UNCHANGED <<rows, promises, frame, step, matches, undist, initialized, dangled,
                      crashed, mainQueue>>
      BY <2>1 DEF Request, main
    <3>7. TypeOK'
      BY <3>1, <3>3, <3>4, <3>5, <3>6 DEF TypeIInv, TypeOK
    <3>8. FrameTyped'
      BY <2>0, <3>1, <3>6 DEF TypeIInv, FrameTyped
    <3>9. Len(events') \in Nat
      BY <3>5
    <3>10. RowsCounted'
      BY <2>0, <3>1, <3>5, <3>6, <3>9 DEF TypeIInv, RowsCounted
    <3> QED
      BY <3>7, <3>8, <3>10 DEF TypeIInv
  <2>2. CASE Answer
    <3>1. waiting \in 1..MaxRequests
      BY <2>0, <2>2 DEF Answer, TypeIInv, TypeOK
    <3>2. answers' \in [1..MaxRequests -> Results]
      BY <2>2, <3>1 DEF Answer, TypeIInv, TypeOK
    <3>3. waiting' \in 0..Len(requests)
      BY <2>0, <2>2 DEF Answer
    <3> QED
      BY <2>2, <3>2, <3>3 DEF Answer, db, main, TypeIInv, TypeOK, FrameTyped, RowsCounted
  <2>3. CASE StoreAndDispatch
    <3>1. PICK id \in 1..Len(requests), mid \in Mids :
             /\ events' = Tail(events)
             /\ frame' = [id |-> id, mid |-> mid]
             /\ mainQueue' = Append(mainQueue, id)
             /\ rows' \in Seq(Profiles)
             /\ Len(rows') \in Len(rows)..(Len(rows) + 1)
      BY <2>3, StoreEffect
    <3>2. /\ UNCHANGED <<requests, waiting, answers, promises, matches, undist, initialized,
                         dangled, crashed>>
          /\ step' = "dispatched" /\ events # <<>>
      BY <2>3 DEF StoreAndDispatch, web, main
    <3>3. id \in 1..MaxRequests
      BY <2>0 DEF TypeIInv, TypeOK
    <3>4. mainQueue' \in Seq(1..MaxRequests)
      BY <3>1, <3>3 DEF TypeIInv, TypeOK
    <3>5. /\ events' \in Seq(1..Len(requests)) /\ events' \in Seq(1..MaxRequests)
          /\ Len(events') = Len(events) - 1
      BY <3>1, <3>2 DEF TypeIInv, TypeOK, RowsCounted
    <3>6. /\ frame' \in [id : 0..Len(requests), mid : Mids] /\ frame'.id # 0
          /\ frame'.id \in 0..MaxRequests /\ frame'.mid \in Mids
      BY <2>0, <3>1, <3>3
    <3>7. RowsCounted'
      BY <2>0, <3>1, <3>2, <3>5 DEF TypeIInv, RowsCounted
    <3>8. TypeOK'
      BY <3>1, <3>2, <3>4, <3>5, <3>6 DEF TypeIInv, TypeOK
    <3> QED
      BY <3>2, <3>6, <3>7, <3>8 DEF TypeIInv, FrameTyped
  <2>4. CASE setData
    <3>1. frame.id \in 1..MaxRequests /\ frame.mid \in Mids
      BY <2>0, <2>4 DEF setData, TypeIInv, FrameTyped, TypeOK
    <3>2. Mid(frame.mid) \in Results
      BY <3>1 DEF Results
    <3>3. promises' \in [1..MaxRequests -> Results]
      BY <2>4, <3>1, <3>2 DEF setData, TypeIInv, TypeOK
    <3> QED
      BY <2>4, <3>3 DEF setData, web, main, TypeIInv, TypeOK, FrameTyped, RowsCounted
  <2>5. CASE Return
    BY <2>5 DEF Return, web, main, TypeIInv, TypeOK, FrameTyped, RowsCounted
  <2>6. CASE initialize
    <3>1. DOMAIN rows \subseteq Mids /\ \A mid \in DOMAIN rows : rows[mid] \in Profiles
      BY <2>0 DEF TypeIInv, TypeOK, RowsCounted, Mids
    <3> QED
      BY <2>6, <3>1 DEF initialize, web, db, TypeIInv, TypeOK, FrameTyped, RowsCounted
  <2>7. CASE RunQueued
    <3>1. frame.id \in 1..Len(requests) /\ frame.mid \in Mids
          /\ requests[frame.id] \in Profiles
      BY <2>0, <2>7 DEF RunQueued, TypeIInv, FrameTyped, TypeOK
    <3>2. /\ UNCHANGED <<requests, waiting, answers, rows, promises, events, frame, step, initialized>>
          /\ mainQueue' \in Seq(1..MaxRequests) /\ dangled' \in BOOLEAN /\ mainQueue # <<>>
      BY <2>7 DEF RunQueued, TypeIInv, TypeOK, web, db
    <3>3. /\ DOMAIN matches' \subseteq Mids /\ undist' \subseteq Mids /\ crashed' \in BOOLEAN
          /\ \A mid \in DOMAIN matches' : matches'[mid] \in Profiles \cup {Gone}
      <4>3. CASE (\E mid \in StrayMids : createdMatches(mid, Gone)) /\ UNCHANGED crashed
        BY <4>3, CreationAssumption DEF createdMatches, TypeIInv, TypeOK
      <4>1. CASE createdMatches(frame.mid, requests[frame.id]) /\ UNCHANGED crashed
        BY <3>1, <4>1 DEF createdMatches, TypeIInv, TypeOK
      <4>2. CASE crashed' = TRUE /\ UNCHANGED <<matches, undist>>
        BY <4>2 DEF TypeIInv, TypeOK
      <4> QED
        BY <2>7, <4>1, <4>2, <4>3 DEF RunQueued
    <3> QED
      BY <3>2, <3>3 DEF TypeIInv, TypeOK, FrameTyped, RowsCounted
  <2>9. CASE CrashOnGone
    BY <2>9 DEF CrashOnGone, web, db, TypeIInv, TypeOK, FrameTyped, RowsCounted
  <2>8. CASE UNCHANGED vars
    BY <2>8 DEF vars, web, db, main, TypeIInv, TypeOK, FrameTyped, RowsCounted
  <2> QED
    BY <2>1, <2>2, <2>3, <2>4, <2>5, <2>6, <2>7, <2>8, <2>9
       DEF Next, webThread, dbThread, mainThread
<1>3. QED
  BY <1>1, <1>2, PTL DEF Spec

(***************************************************************************)
(* Every reachable state is well typed: no promise, queue or answer refers *)
(* to a request that was not made, the mids are those of the table, and    *)
(* the work queued for the main thread always finds a newmatch.            *)
(***************************************************************************)
THEOREM CreationTypeCorrect == Spec => []TypeOK
<1>1. TypeIInv => TypeOK
  BY DEF TypeIInv
<1> QED
  BY <1>1, TypeInvariant, PTL
-----------------------------------------------------------------------------
(***************************************************************************)
(* The three threads hand one request on at a time: while the web thread   *)
(* waits, its request is queued for the DB thread, or is the one that is   *)
(* being stored, or its promise is kept.  Work queued for the main thread  *)
(* may lag behind; before matches_ is loaded there is none.                *)
(***************************************************************************)
HasMid(result) == "mid" \in DOMAIN result

Turns ==
    /\ ~initialized => /\ frame.id = 0 /\ step = "idle"
                      /\ \A id \in 1..Len(requests) : ~HasMid(promises[id])
    /\ \A id \in (Len(requests) + 1)..MaxRequests : promises[id] = Error(nothing)
    /\ waiting = 0 => events = <<>> /\ step # "dispatched"
    /\ waiting # 0 =>
          \/ /\ events = <<waiting>> /\ step # "dispatched" /\ frame.id # waiting
             /\ promises[waiting] = Error(nothing)
          \/ /\ events = <<>> /\ step = "dispatched" /\ frame.id = waiting
             /\ promises[waiting] = Error(nothing)
          \/ events = <<>> /\ step # "dispatched" /\ HasMid(promises[waiting])

\* A mid that was stored for request id.
Own(id, mid) ==
    \/ mid \in DOMAIN rows /\ rows[mid].slot = requests[id].slot
    \/ mid = INVALID_MID /\ Faults # {}

\* Promises get their mid from newmatch, answers from their promise.
MidsAreOwn ==
    /\ frame.id # 0 => Own(frame.id, frame.mid)
    /\ \A id \in 1..Len(requests) : HasMid(promises[id]) => Own(id, promises[id].mid)
    /\ \A id \in 1..Len(requests) : HasMid(answers[id]) => answers[id] = promises[id]
    /\ frame.id # 0 /\ HasMid(promises[frame.id]) => promises[frame.id].mid = frame.mid

\* The match of a request is open, or the work that opens it is queued.
Opens(id, mid) ==
    mid \in DOMAIN matches \cap undist \/ id \in {mainQueue[i] : i \in DOMAIN mainQueue}

PromisesOpen ==
    ~dangled => /\ frame.id # 0 => Opens(frame.id, frame.mid)
                /\ \A id \in 1..Len(requests) :
                      HasMid(promises[id]) => Opens(id, promises[id].mid)

CreationIInv == Turns /\ MidsAreOwn /\ PromisesOpen /\ OpenMatchesAreStored

\* At first no request is under way.
LEMMA CreationInit == Init => CreationIInv
<1> SUFFICES ASSUME Init PROVE CreationIInv
  OBVIOUS
<1>1. frame.id = 0 /\ Len(requests) = 0 /\ DOMAIN matches = {}
  BY DEF Init
<1>2. Turns
  BY <1>1 DEF Init, Turns
<1>3. MidsAreOwn /\ PromisesOpen
  BY <1>1 DEF MidsAreOwn, PromisesOpen
<1>4. OpenMatchesAreStored
  BY <1>1 DEF Init, OpenMatchesAreStored
<1> QED
  BY <1>2, <1>3, <1>4 DEF CreationIInv

\* A request comes in on the web thread.
LEMMA RequestKeeps ==
    ASSUME TypeIInv, CreationIInv,
           NEW profile \in Profiles, NEW soon \in BOOLEAN, Request(profile, soon)
    PROVE  CreationIInv'
<1> DEFINE new == Len(requests) + 1
<1>0. PICK code \in createMatchValid(profile, soon) :
        /\ answers' = [answers EXCEPT ![new] = code]
        /\ \/ code = Error(nothing) /\ waiting' = new /\ events' = Append(events, new)
           \/ code # Error(nothing) /\ UNCHANGED <<waiting, events>>
  BY DEF Request
<1>1. /\ waiting = 0 /\ new \in 1..MaxRequests /\ Len(requests') = new
      /\ Len(requests) \in Nat /\ MaxRequests \in Nat
      /\ \A id \in 1..Len(requests) : requests'[id] = requests[id]
  BY CreationAssumption DEF Request, TypeIInv, TypeOK
<1>2. /\ UNCHANGED <<rows, promises, frame, step, matches, undist, initialized, dangled,
                    crashed, mainQueue>>
      /\ \A id \in 1..Len(requests) : answers'[id] = answers[id]
      /\ answers'[new] = code
  BY <1>0, <1>1 DEF Request, main, TypeIInv, TypeOK
<1>3. ~HasMid(code)
  BY <1>0, ResultShape DEF createMatchValid, HasMid
<1>4. \/ events' = <<new>> /\ waiting' = new
      \/ events' = <<>> /\ waiting' = 0
  <2>1. events = <<>> /\ Append(<<>>, new) = <<new>>
    BY <1>1 DEF CreationIInv, Turns
  <2> QED
    BY <1>0, <1>1, <2>1
<1> HIDE DEF new
<1>5. /\ promises[new] = Error(nothing) /\ frame.id # new
      /\ \A id \in (new + 1)..MaxRequests : promises[id] = Error(nothing)
      /\ frame.id \in 0..Len(requests)
  BY <1>1 DEF CreationIInv, Turns, TypeIInv, FrameTyped, new
<1>6. \A id \in 1..Len(requests') : id \in 1..Len(requests) \/ id = new
  BY <1>1 DEF new
<1>7. ~HasMid(promises[new])
  BY <1>5, ResultShape DEF HasMid
<1>8. Turns'
  BY <1>1, <1>2, <1>4, <1>5, <1>6, <1>7 DEF CreationIInv, Turns, new
<1>9. MidsAreOwn'
  BY <1>1, <1>2, <1>3, <1>5, <1>6, <1>7 DEF CreationIInv, MidsAreOwn, Own
<1>10. PromisesOpen'
  BY <1>2, <1>6, <1>7 DEF CreationIInv, PromisesOpen, Opens
<1>11. OpenMatchesAreStored'
  BY <1>2 DEF CreationIInv, OpenMatchesAreStored
<1> QED
  BY <1>8, <1>9, <1>10, <1>11 DEF CreationIInv

\* The web thread answers with what the DB thread left for it.
LEMMA AnswerKeeps ==
    ASSUME TypeIInv, CreationIInv, Answer
    PROVE  CreationIInv'
<1>1. /\ waiting \in 1..Len(requests) /\ waiting \in 1..MaxRequests
      /\ Len(requests) \in Nat /\ MaxRequests \in Nat /\ waiting' = 0
      /\ UNCHANGED <<requests, rows, promises, events, frame, step, matches, undist, initialized,
                    dangled, crashed, mainQueue>>
  BY CreationAssumption DEF Answer, db, main, TypeIInv, TypeOK
<1>2. /\ \A id \in 1..MaxRequests : id # waiting => answers'[id] = answers[id]
      /\ answers'[waiting] = promises[waiting]
  BY <1>1 DEF Answer, TypeIInv, TypeOK
<1>3. events = <<>> /\ step # "dispatched" /\ HasMid(promises[waiting])
  BY <1>1 DEF Answer, CreationIInv, Turns
<1>4. Turns'
  BY <1>1, <1>3 DEF CreationIInv, Turns
<1>5. \A id \in 1..Len(requests) : id \in 1..MaxRequests
  BY <1>1 DEF TypeIInv, TypeOK
<1>6. MidsAreOwn'
  BY <1>1, <1>2, <1>5 DEF CreationIInv, MidsAreOwn, Own
<1>7. PromisesOpen' /\ OpenMatchesAreStored'
  BY <1>1 DEF CreationIInv, PromisesOpen, Opens, OpenMatchesAreStored
<1> QED
  BY <1>4, <1>6, <1>7 DEF CreationIInv

\* The DB thread stores the match and sends it to the main thread.
LEMMA StoreKeeps ==
    ASSUME TypeIInv, CreationIInv, StoreAndDispatch
    PROVE  CreationIInv'
<1>1. PICK new \in 1..Len(requests), mid \in Mids :
         /\ new = Head(events)
         /\ events' = Tail(events)
         /\ frame' = [id |-> new, mid |-> mid]
         /\ mainQueue' = Append(mainQueue, new)
         /\ rows' \in Seq(Profiles)
         /\ Len(rows') \in Len(rows)..(Len(rows) + 1)
         /\ \A i \in 1..Len(rows) : rows'[i] = rows[i]
         /\ \/ mid \in 1..Len(rows') /\ rows'[mid].slot = requests[new].slot
            \/ mid = INVALID_MID /\ Faults # {}
  BY StoreEffect
<1>2. /\ UNCHANGED <<requests, waiting, answers, promises, matches, undist, initialized,
                    dangled, crashed>>
      /\ step' = "dispatched" /\ events # <<>> /\ initialized
  BY DEF StoreAndDispatch, web, main
<1>3. /\ waiting # 0 /\ events = <<waiting>> /\ promises[waiting] = Error(nothing)
  BY <1>2 DEF CreationIInv, Turns
<1>4. new = waiting /\ events' = <<>> /\ frame'.id = new /\ frame'.mid = mid /\ new # 0
  BY <1>1, <1>3
<1>5. /\ DOMAIN rows = 1..Len(rows) /\ DOMAIN rows' = 1..Len(rows')
      /\ DOMAIN rows \subseteq DOMAIN rows'
  BY <1>1 DEF TypeIInv, TypeOK
<1>6. \A m, i : Own(i, m) => Own(i, m)'
  BY <1>1, <1>2, <1>5 DEF Own
<1>7. /\ new \in {mainQueue'[i] : i \in DOMAIN mainQueue'}
      /\ {mainQueue[i] : i \in DOMAIN mainQueue} \subseteq {mainQueue'[i] : i \in DOMAIN mainQueue'}
  <2>1. /\ mainQueue \in Seq(1..MaxRequests) /\ Len(mainQueue) \in Nat
        /\ mainQueue' = Append(mainQueue, new)
    BY <1>1 DEF TypeIInv, TypeOK
  <2>2. /\ DOMAIN mainQueue = 1..Len(mainQueue) /\ DOMAIN mainQueue' = 1..(Len(mainQueue) + 1)
        /\ \A i \in 1..Len(mainQueue) : mainQueue'[i] = mainQueue[i]
        /\ mainQueue'[Len(mainQueue) + 1] = new
    BY <2>1
  <2>3. Len(mainQueue) + 1 \in DOMAIN mainQueue' /\ DOMAIN mainQueue \subseteq DOMAIN mainQueue'
    BY <2>1, <2>2
  <2> QED
    BY <2>2, <2>3
<1>8. \A m, i : Opens(i, m) => Opens(i, m)'
  BY <1>2, <1>7 DEF Opens
<1>9. Turns'
  BY <1>2, <1>3, <1>4 DEF CreationIInv, Turns
<1>10. ~HasMid(promises[new])
  BY <1>3, <1>4, ResultShape DEF HasMid
<1>11. MidsAreOwn'
  <2>1. Own(frame.id, frame.mid)'
    BY <1>1, <1>2, <1>4, <1>5 DEF Own
  <2> QED
    BY <1>2, <1>4, <1>6, <1>10, <2>1 DEF CreationIInv, MidsAreOwn
<1>12. PromisesOpen'
  <2>1. Opens(frame.id, frame.mid)'
    BY <1>4, <1>7 DEF Opens
  <2> QED
    BY <1>2, <1>8, <2>1 DEF CreationIInv, PromisesOpen
<1>13. OpenMatchesAreStored'
  BY <1>1, <1>2, <1>5 DEF CreationIInv, OpenMatchesAreStored
<1> QED
  BY <1>9, <1>11, <1>12, <1>13 DEF CreationIInv

\* The DB thread leaves its answer.
LEMMA SetDataKeeps ==
    ASSUME TypeIInv, CreationIInv, setData
    PROVE  CreationIInv'
<1>1. /\ UNCHANGED <<requests, waiting, answers, rows, events, frame, matches, undist,
                    initialized, dangled, crashed, mainQueue>>
      /\ step = "dispatched" /\ step' = "kept"
  BY DEF setData, web, main
<1>2. /\ waiting # 0 /\ events = <<>> /\ frame.id = waiting /\ frame.id # 0
      /\ promises[frame.id] = Error(nothing)
  BY <1>1 DEF CreationIInv, Turns
<1>3. /\ frame.id \in 1..Len(requests) /\ frame.id \in 1..MaxRequests
      /\ Len(requests) \in Nat /\ Len(requests) <= MaxRequests /\ MaxRequests \in Nat
  BY <1>2, CreationAssumption DEF TypeIInv, FrameTyped, TypeOK
<1>4. /\ promises'[frame.id] = Mid(frame.mid)
      /\ \A id \in 1..MaxRequests : id # frame.id => promises'[id] = promises[id]
  BY <1>3 DEF setData, TypeIInv, TypeOK
<1>5. /\ HasMid(promises'[frame.id]) /\ promises'[frame.id].mid = frame.mid
      /\ ~HasMid(promises[frame.id])
  BY <1>2, <1>4, ResultShape DEF HasMid
<1>6. \A id \in (Len(requests) + 1)..MaxRequests : id \in 1..MaxRequests /\ id # frame.id
  BY <1>3
<1>7. \A id \in 1..Len(requests) : id \in 1..MaxRequests
  BY <1>3
<1>8. Turns'
  BY <1>1, <1>2, <1>4, <1>5, <1>6 DEF CreationIInv, Turns
<1>9. MidsAreOwn'
  BY <1>1, <1>2, <1>4, <1>5, <1>7 DEF CreationIInv, MidsAreOwn, Own
<1>10. PromisesOpen'
  BY <1>1, <1>2, <1>4, <1>5, <1>7 DEF CreationIInv, PromisesOpen, Opens
<1>11. OpenMatchesAreStored'
  BY <1>1 DEF CreationIInv, OpenMatchesAreStored
<1> QED
  BY <1>8, <1>9, <1>10, <1>11 DEF CreationIInv

\* The DB thread ends its work on a request.
LEMMA ReturnKeeps ==
    ASSUME CreationIInv, Return
    PROVE  CreationIInv'
BY DEF Return, web, main, CreationIInv, Turns, MidsAreOwn, Own, PromisesOpen, Opens,
       OpenMatchesAreStored

\* Work that is queued before matches_ is loaded waits for that.
LEMMA InitializeKeeps ==
    ASSUME TypeIInv, CreationIInv, initialize
    PROVE  CreationIInv'
<1>1. /\ UNCHANGED <<requests, waiting, answers, rows, promises, events, frame, step,
                    dangled, crashed, mainQueue>>
      /\ matches' = rows /\ undist' = DOMAIN rows /\ ~initialized /\ initialized' = TRUE
  BY DEF initialize, web, db
<1>2. frame.id = 0 /\ \A id \in 1..Len(requests) : ~HasMid(promises[id])
  BY <1>1 DEF CreationIInv, Turns
<1>3. OpenMatchesAreStored'
  BY <1>1 DEF OpenMatchesAreStored
<1>4. Turns' /\ MidsAreOwn'
  BY <1>1 DEF CreationIInv, Turns, MidsAreOwn, Own
<1>5. PromisesOpen'
  BY <1>1, <1>2 DEF PromisesOpen
<1> QED
  BY <1>3, <1>4, <1>5 DEF CreationIInv

\* The main thread runs what was dispatched to it.
LEMMA RunQueuedKeeps ==
    ASSUME TypeIInv, CreationIInv, RunQueued
    PROVE  CreationIInv'
<1>1. /\ UNCHANGED <<requests, waiting, answers, rows, promises, events, frame, step, initialized>>
      /\ mainQueue # <<>> /\ mainQueue' = Tail(mainQueue)
      /\ ~dangled' => ~dangled /\ step # "idle" /\ frame.id = Head(mainQueue)
  BY DEF RunQueued, web, db
<1>2. frame.id # 0 /\ frame.id \in 1..Len(requests)
  BY <1>1 DEF TypeIInv, FrameTyped, TypeOK
<1>3. Turns' /\ MidsAreOwn'
  BY <1>1 DEF CreationIInv, Turns, MidsAreOwn, Own
<1>4. ASSUME NEW id \in {mainQueue[i] : i \in DOMAIN mainQueue}, id # Head(mainQueue)
      PROVE  id \in {mainQueue'[i] : i \in DOMAIN mainQueue'}
  <2> DEFINE S == 1..MaxRequests
  <2>1. mainQueue \in Seq(S)
    BY DEF TypeIInv, TypeOK
  <2> HIDE DEF S
  <2>2. /\ Len(mainQueue) \in Nat /\ DOMAIN mainQueue = 1..Len(mainQueue)
        /\ DOMAIN mainQueue' = 1..(Len(mainQueue) - 1) /\ mainQueue[1] = Head(mainQueue)
        /\ \A i \in 1..(Len(mainQueue) - 1) : mainQueue'[i] = mainQueue[i + 1]
    BY <1>1, <2>1
  <2>3. PICK i \in 2..Len(mainQueue) : id = mainQueue[i]
    BY <1>4, <2>2
  <2>4. i - 1 \in DOMAIN mainQueue' /\ mainQueue'[i - 1] = id
    BY <2>2, <2>3
  <2> QED
    BY <2>4
<1>5. CASE step # "idle" /\ createdMatches(frame.mid, requests[frame.id])
  <2>1. /\ DOMAIN matches' = DOMAIN matches \cup {frame.mid}
        /\ undist' = undist \cup {frame.mid}
        /\ matches'[frame.mid] = requests[frame.id]
        /\ \A m \in DOMAIN matches : m # frame.mid => matches'[m] = matches[m]
    BY <1>5 DEF createdMatches
  <2>2. OpenMatchesAreStored'
    BY <1>1, <1>2, <2>1 DEF CreationIInv, OpenMatchesAreStored, MidsAreOwn, Own
  <2>3. PromisesOpen'
    <3> SUFFICES ASSUME ~dangled' PROVE /\ Opens(frame.id, frame.mid)'
                                       /\ \A id \in 1..Len(requests) :
                                             HasMid(promises[id]) => Opens(id, promises[id].mid)'
      BY <1>1 DEF PromisesOpen
    <3>1. Opens(frame.id, frame.mid)'
      <4>1. frame'.mid \in DOMAIN matches' \cap undist'
        BY <1>1, <2>1 DEF CreationIInv, OpenMatchesAreStored
      <4> QED
        BY <4>1 DEF Opens
    <3>2. ASSUME NEW id \in 1..Len(requests), HasMid(promises[id])
          PROVE  Opens(id, promises[id].mid)'
      <4>1. CASE id = frame.id
        BY <1>1, <1>2, <3>1, <3>2, <4>1 DEF CreationIInv, MidsAreOwn
      <4>2. CASE id # frame.id
        BY <1>1, <1>4, <2>1, <3>2, <4>2 DEF CreationIInv, PromisesOpen, Opens
      <4> QED
        BY <4>1, <4>2
    <3> QED
      BY <3>1, <3>2
  <2> QED
    BY <1>3, <2>2, <2>3 DEF CreationIInv
<1>6. CASE step = "idle" /\ UNCHANGED <<matches, undist>>
  <2>1. dangled' /\ dangled \in BOOLEAN
    BY <1>6 DEF RunQueued, TypeIInv, TypeOK
  <2> QED
    BY <1>1, <1>3, <1>6, <2>1 DEF CreationIInv, PromisesOpen, OpenMatchesAreStored
<1>7. ASSUME step = "idle", NEW mid \in StrayMids, createdMatches(mid, Gone)
      PROVE  CreationIInv'
  <2>1. dangled'
    BY <1>7 DEF RunQueued
  <2>2. /\ DOMAIN matches' = DOMAIN matches \cup {mid}
        /\ undist' = undist \cup {mid}
        /\ matches'[mid] = Gone
        /\ \A m \in DOMAIN matches : m # mid => matches'[m] = matches[m]
    BY <1>7 DEF createdMatches
  <2>3. OpenMatchesAreStored'
    BY <1>1, <2>1, <2>2 DEF CreationIInv, OpenMatchesAreStored
  <2> QED
    BY <1>3, <2>1, <2>3 DEF CreationIInv, PromisesOpen
<1> QED
  BY <1>5, <1>6, <1>7 DEF RunQueued

\* Every step of the three threads keeps the invariant.
LEMMA CreationNext == TypeIInv /\ CreationIInv /\ [Next]_vars => CreationIInv'
<1> SUFFICES ASSUME TypeIInv, CreationIInv, [Next]_vars PROVE CreationIInv'
  OBVIOUS
<1>1. CASE UNCHANGED vars
  BY <1>1 DEF vars, web, db, main, CreationIInv, Turns, MidsAreOwn, Own, PromisesOpen, Opens,
              OpenMatchesAreStored
<1>2. CASE CrashOnGone
  BY <1>2 DEF CrashOnGone, web, db, CreationIInv, Turns, MidsAreOwn, Own, PromisesOpen, Opens,
              OpenMatchesAreStored
<1> QED
  BY <1>1, <1>2, RequestKeeps, AnswerKeeps, StoreKeeps, SetDataKeeps, ReturnKeeps, InitializeKeeps,
     RunQueuedKeeps DEF Next, webThread, dbThread, mainThread

\* So it holds in every state.
LEMMA CreationInvariant == Spec => []CreationIInv
BY TypeInvariant, CreationInit, CreationNext, PTL DEF Spec

(***************************************************************************)
(* However the threads interleave and whichever queries fail, a request is *)
(* answered with a mid stored for its own start time and type, and with    *)
(* INVALID_MID only if a query can fail.                                   *)
(***************************************************************************)
THEOREM AnswersOwn == Spec => []AnswersAreOwn
<1>1. TypeIInv /\ CreationIInv => AnswersAreOwn
  <2> SUFFICES ASSUME TypeIInv, CreationIInv, NEW id \in Created
               PROVE  Own(id, answers[id].mid)
    BY DEF AnswersAreOwn, Own
  <2>1. id \in 1..Len(requests) /\ HasMid(answers[id])
    BY DEF Created, HasMid, TypeIInv, TypeOK
  <2> QED
    BY <2>1 DEF CreationIInv, MidsAreOwn
<1> QED
  BY <1>1, TypeInvariant, CreationInvariant, PTL

(***************************************************************************)
(* Until queued work runs on a newmatch that is no longer its own, no      *)
(* answer overtakes the opening of its match: it is open, or its opening   *)
(* is queued.                                                              *)
(***************************************************************************)
THEOREM CreatedOpen == Spec => []CreatedMatchesOpen
<1>1. TypeIInv /\ CreationIInv => CreatedMatchesOpen
  <2> SUFFICES ASSUME TypeIInv, CreationIInv, ~dangled, NEW id \in Created
               PROVE  Opens(id, answers[id].mid)
    BY DEF CreatedMatchesOpen, Opens
  <2>1. id \in 1..Len(requests) /\ HasMid(answers[id])
    BY DEF Created, HasMid, TypeIInv, TypeOK
  <2>2. answers[id] = promises[id]
    BY <2>1 DEF CreationIInv, MidsAreOwn
  <2> QED
    BY <2>1, <2>2 DEF CreationIInv, PromisesOpen
<1> QED
  BY <1>1, TypeInvariant, CreationInvariant, PTL

(***************************************************************************)
(* matches_ and the distribution hold the same mids, each with the start   *)
(* time and type of its row, also after queued work has run on the         *)
(* newmatch of another request; only matches that were entered from freed  *)
(* memory, whatever mids were found there, have no row.                    *)
(***************************************************************************)
THEOREM OpenStored == Spec => []OpenMatchesAreStored
<1>1. CreationIInv => OpenMatchesAreStored
  BY DEF CreationIInv
<1> QED
  BY <1>1, CreationInvariant, PTL
=============================================================================
