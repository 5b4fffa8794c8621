------------------------------ MODULE GateProofs ------------------------------
(***************************************************************************)
(* Proofs about ObjectIndexPool, for every number of sessions and indexes, *)
(* and about Gate, for every number of players, indexes and requests and   *)
(* every length of the periods.  The invariants of the pool carry over to  *)
(* the gate; what is new there is a check that closes several players in   *)
(* one go.                                                                 *)
(***************************************************************************)
EXTENDS Gate, FiniteSetTheorems, FunctionTheorems, TLAPS

(***************************************************************************)
(* The pool.                                                               *)
(***************************************************************************)

\* The open sessions that have an index.
Indexed == {s \in Open : uuid[s] # INVALID_UUID}

\* size_ counts the open sessions with an index, also those that share one.
SizeCounts == size = Cardinality(Indexed)

TypeIInv == TypeOK /\ SizeCounts

\* The parts of a step that both invariants build on.
LEMMA AddChangesIndexed ==
    ASSUME TypeOK, NEW s \in Sessions, NEW index \in 0..MaxNum, phase[s] = "new",
           phase' = [phase EXCEPT ![s] = "open"], Placed(s, index)
    PROVE  Indexed' = Indexed \cup {s} /\ s \notin Indexed
BY DEF TypeOK, Placed, Indexed, Open, INVALID_UUID

\* A session that is refused gets no index.
LEMMA RefuseKeepsIndexed ==
    ASSUME TypeOK, NEW s \in Sessions, phase[s] = "new",
           phase' = [phase EXCEPT ![s] = "open"], AddRefused(s)
    PROVE  Indexed' = Indexed
BY DEF TypeOK, AddRefused, Indexed, Open

\* A session that closes has no index any longer.
LEMMA RemoveChangesIndexed ==
    ASSUME TypeOK, NEW s \in Sessions, phase[s] = "open",
           phase' = [phase EXCEPT ![s] = "closed"], uuid' = uuid
    PROVE  Indexed' = Indexed \ {s} /\ (s \in Indexed <=> uuid[s] # INVALID_UUID)
BY DEF TypeOK, Indexed, Open

\* The oldest index to hand out again is an index.
LEMMA HeadIsIndex ==
    ASSUME TypeOK, invalidIndexs # <<>>
    PROVE  Head(invalidIndexs) \in 0..MaxNum /\ Tail(invalidIndexs) \in Seq(0..MaxNum)
<1> DEFINE S == 0..MaxNum
<1>1. invalidIndexs \in Seq(S)
  BY DEF TypeOK
<1> HIDE DEF S
<1>2. Head(invalidIndexs) \in S /\ Tail(invalidIndexs) \in Seq(S)
  BY <1>1
<1> QED
  BY <1>2 DEF S

\* An empty pool is well typed.
LEMMA TypeInit == Init => TypeIInv
<1> SUFFICES ASSUME Init PROVE TypeIInv
  OBVIOUS
<1>1. Indexed = {}
  BY DEF Init, Indexed, Open
<1>2. SizeCounts
  BY <1>1, FS_EmptySet DEF Init, SizeCounts
<1>3. invalidIndexs \in Seq(0..MaxNum)
  BY PoolAssumption DEF Init
<1> QED
  BY <1>2, <1>3, PoolAssumption DEF Init, TypeIInv, TypeOK

\* Neither an arrival nor a departure takes size_ or an index out of range.
LEMMA TypeStep == TypeIInv /\ [Next]_vars => TypeIInv'
<1> SUFFICES ASSUME TypeIInv, [Next]_vars PROVE TypeIInv'
  OBVIOUS
<1> USE DEF TypeIInv
<1>0. IsFiniteSet(Indexed)
  BY PoolAssumption, FS_Subset DEF Indexed, Open
<1>1. ASSUME NEW s \in Sessions, addSession(s) PROVE TypeIInv'
  <2>1. phase[s] = "new" /\ phase' = [phase EXCEPT ![s] = "open"] /\ type' = type
    BY <1>1 DEF addSession
  <2>2. phase' \in [Sessions -> {"new", "open", "closed"}]
    BY <2>1 DEF TypeOK
  <2>3. ASSUME NEW index \in 0..MaxNum, Placed(s, index)
        PROVE  /\ SizeCounts' /\ size' \in Nat
               /\ objectArray' \in [0..MaxNum -> Sessions \cup {nullptr}]
               /\ objects' \subseteq Sessions
               /\ uuid' \in [Sessions -> 0..MaxNum \cup {INVALID_UUID}]
    <3>1. Indexed' = Indexed \cup {s} /\ s \notin Indexed
      BY <2>1, <2>3, AddChangesIndexed
    <3>2. Cardinality(Indexed') = Cardinality(Indexed) + 1
      BY <1>0, <3>1, FS_AddElement
    <3> QED
      BY <2>3, <3>2 DEF Placed, SizeCounts, TypeOK
  <2>4. CASE AddFresh(s)
    <3>1. maxIndex \in 0..MaxNum /\ Placed(s, maxIndex)
      BY <2>4 DEF AddFresh, TypeOK
    <3>2. maxIndex' \in 0..(MaxNum + 1) /\ invalidIndexs' = invalidIndexs
      BY <2>4, <3>1, PoolAssumption DEF AddFresh
    <3> QED
      BY <2>1, <2>2, <2>3, <3>1, <3>2 DEF TypeOK
  <2>5. CASE AddReused(s)
    <3>1. /\ Placed(s, Head(invalidIndexs)) /\ maxIndex' = maxIndex
          /\ invalidIndexs' = Tail(invalidIndexs) /\ invalidIndexs # <<>>
      BY <2>5 DEF AddReused
    <3> QED
      BY <2>1, <2>2, <2>3, <3>1, HeadIsIndex DEF TypeOK
  <2>6. CASE AddRefused(s)
    <3>1. SizeCounts'
      BY <2>1, <2>6, RefuseKeepsIndexed DEF AddRefused, SizeCounts
    <3>2. uuid' \in [Sessions -> 0..MaxNum \cup {INVALID_UUID}]
      BY <2>6 DEF AddRefused, TypeOK
    <3> QED
      BY <2>1, <2>2, <2>6, <3>1, <3>2 DEF AddRefused, TypeOK
  <2> QED
    BY <1>1, <2>4, <2>5, <2>6 DEF addSession
<1>2. ASSUME NEW s \in Sessions, removeSessionPtr(s) PROVE TypeIInv'
  <2>1. /\ phase[s] = "open" /\ phase' = [phase EXCEPT ![s] = "closed"]
        /\ UNCHANGED <<maxIndex, uuid, type>>
    BY <1>2 DEF removeSessionPtr
  <2>2. phase' \in [Sessions -> {"new", "open", "closed"}]
    BY <2>1 DEF TypeOK
  <2>3. Indexed' = Indexed \ {s} /\ (s \in Indexed <=> uuid[s] # INVALID_UUID)
    BY <2>1, RemoveChangesIndexed
  <2>4. CASE uuid[s] # INVALID_UUID /\ removeObject(uuid[s])
    <3>1. uuid[s] \in 0..MaxNum
      BY <2>4 DEF TypeOK
    <3>2. Cardinality(Indexed') = Cardinality(Indexed) - 1 /\ Cardinality(Indexed') \in Nat
      <4>1. IsFiniteSet(Indexed')
        BY <1>0, <2>3, FS_RemoveElement
      <4> QED
        BY <1>0, <2>3, <2>4, <4>1, FS_RemoveElement, FS_CardinalityType
    <3>3. /\ objectArray' \in [0..MaxNum -> Sessions \cup {nullptr}]
          /\ invalidIndexs' \in Seq(0..MaxNum)
      BY <2>4, <3>1 DEF removeObject, TypeOK
    <3> QED
      BY <2>1, <2>2, <2>4, <3>2, <3>3 DEF removeObject, SizeCounts, TypeOK
  <2>5. CASE uuid[s] = INVALID_UUID /\ UNCHANGED <<size, objects, objectArray, invalidIndexs>>
    <3>1. Indexed' = Indexed
      BY <2>3, <2>5
    <3> QED
      BY <2>1, <2>2, <2>5, <3>1 DEF SizeCounts, TypeOK
  <2> QED
    BY <1>2, <2>4, <2>5 DEF removeSessionPtr
<1>3. CASE UNCHANGED vars
  BY <1>3 DEF vars, TypeOK, SizeCounts, Indexed, Open
<1> QED
  BY <1>1, <1>2, <1>3 DEF Next

(***************************************************************************)
(* Every reachable pool is well typed: all indexes stay within the array,  *)
(* and size_, an unsigned int, is never taken below zero.                  *)
(***************************************************************************)
THEOREM PoolTypeCorrect == Spec => []TypeOK
BY TypeInit, TypeStep, PTL DEF Spec, TypeIInv
-----------------------------------------------------------------------------
(***************************************************************************)
(* Why uuids below MAX_NUM are exclusive.  A slot holds a session that has *)
(* its index as uuid; an open session below MAX_NUM is in its slot; and an *)
(* index below MAX_NUM that waits to be reused waits once, was handed out  *)
(* before, and belongs to no open session.                                 *)
(***************************************************************************)
SlotsAgree ==
    \A i \in 0..MaxNum : objectArray[i] # nullptr =>
        uuid[objectArray[i]] = i /\ phase[objectArray[i]] # "new"

ProperInPlace == \A s \in Proper : objectArray[uuid[s]] = s /\ s \in objects

HandedOut ==
    /\ \A s \in Open : uuid[s] < maxIndex
    /\ \A i \in 1..Len(invalidIndexs) :
          invalidIndexs[i] < maxIndex \/ invalidIndexs[i] = MaxNum

FreeOnce ==
    /\ \A i, j \in 1..Len(invalidIndexs) :
          invalidIndexs[i] = invalidIndexs[j] /\ invalidIndexs[i] # MaxNum => i = j
    /\ \A i \in 1..Len(invalidIndexs), s \in Proper : uuid[s] # invalidIndexs[i]

PoolIInv ==
    /\ SlotsAgree
    /\ ProperInPlace
    /\ HandedOut
    /\ FreeOnce
    /\ IndexesAccounted

\* Placing a session where no open session below MAX_NUM is.
LEMMA PlaceKeepsSlots ==
    ASSUME TypeOK, PoolIInv, NEW s \in Sessions, NEW index \in 0..MaxNum,
           phase[s] = "new", phase' = [phase EXCEPT ![s] = "open"], Placed(s, index),
           \A t \in Proper : uuid[t] # index
    PROVE  /\ SlotsAgree' /\ ProperInPlace'
           /\ Open' = Open \cup {s} /\ Proper' \subseteq Proper \cup {s}
           /\ uuid'[s] = index /\ \A t \in Sessions : t # s => uuid'[t] = uuid[t]
<1>1. /\ uuid'[s] = index /\ \A t \in Sessions : t # s => uuid'[t] = uuid[t]
      /\ phase'[s] = "open" /\ \A t \in Sessions : t # s => phase'[t] = phase[t]
      /\ objectArray'[index] = s
      /\ \A i \in 0..MaxNum : i # index => objectArray'[i] = objectArray[i]
      /\ objects' = objects \cup {s}
  BY DEF Placed, TypeOK
<1>2. Open' = Open \cup {s} /\ Proper' \subseteq Proper \cup {s}
  BY <1>1 DEF Open, Proper
<1>3. SlotsAgree'
  <2> SUFFICES ASSUME NEW i \in 0..MaxNum, objectArray'[i] # nullptr
               PROVE  uuid'[objectArray'[i]] = i /\ phase'[objectArray'[i]] # "new"
    BY DEF SlotsAgree
  <2>1. CASE i = index
    BY <1>1, <2>1
  <2>2. CASE i # index
    <3>1. objectArray'[i] = objectArray[i] /\ objectArray[i] \in Sessions
      BY <1>1, <2>2 DEF TypeOK
    <3>2. uuid[objectArray[i]] = i /\ phase[objectArray[i]] # "new"
      BY <3>1, PoolAssumption DEF PoolIInv, SlotsAgree
    <3> QED
      BY <1>1, <3>1, <3>2
  <2> QED
    BY <2>1, <2>2
<1>4. ProperInPlace'
  <2> SUFFICES ASSUME NEW t \in Proper' PROVE objectArray'[uuid'[t]] = t /\ t \in objects'
    BY DEF ProperInPlace
  <2>1. CASE t = s
    BY <1>1, <2>1
  <2>2. CASE t # s
    <3>1. t \in Proper /\ uuid'[t] = uuid[t] /\ uuid[t] # index /\ uuid[t] \in 0..MaxNum
      BY <1>1, <1>2, <2>2, PoolAssumption DEF Proper, Open
    <3> QED
      BY <1>1, <3>1 DEF PoolIInv, ProperInPlace
  <2> QED
    BY <2>1, <2>2
<1> QED
  BY <1>1, <1>2, <1>3, <1>4

\* In an empty pool every slot is free and only MAX_NUM waits to be reused.
LEMMA PoolInit == Init => PoolIInv
<1> SUFFICES ASSUME Init PROVE PoolIInv
  OBVIOUS
<1>1. Open = {} /\ Proper = {}
  BY DEF Init, Open, Proper
<1>2. Len(invalidIndexs) = 1 /\ invalidIndexs[1] = MaxNum
  BY DEF Init
<1>3. SlotsAgree
  BY DEF Init, SlotsAgree
<1>4. ProperInPlace /\ HandedOut /\ FreeOnce
  BY <1>1, <1>2 DEF ProperInPlace, HandedOut, FreeOnce
<1>5. IndexesAccounted
  BY <1>2 DEF Init, IndexesAccounted
<1> QED
  BY <1>3, <1>4, <1>5 DEF PoolIInv

\* Arrivals and departures keep the slots and the free indexes in order.
LEMMA PoolStep == TypeOK /\ TypeOK' /\ PoolIInv /\ [Next]_vars => PoolIInv'
<1> SUFFICES ASSUME TypeOK, TypeOK', PoolIInv, [Next]_vars PROVE PoolIInv'
  OBVIOUS
<1>1. ASSUME NEW s \in Sessions, addSession(s) PROVE PoolIInv'
  <2>1. phase[s] = "new" /\ phase' = [phase EXCEPT ![s] = "open"] /\ type' = type
    BY <1>1 DEF addSession
  <2>2. CASE AddFresh(s)
    <3>1. /\ maxIndex \in 0..MaxNum /\ Placed(s, maxIndex) /\ maxIndex' = maxIndex + 1
          /\ invalidIndexs' = invalidIndexs /\ size' = size + 1
      BY <2>2 DEF AddFresh, TypeOK, Placed
    <3>2. \A t \in Proper : uuid[t] # maxIndex
      BY <3>1 DEF PoolIInv, HandedOut, Proper, Open
    <3>3. /\ SlotsAgree' /\ ProperInPlace'
          /\ Open' = Open \cup {s} /\ Proper' \subseteq Proper \cup {s}
          /\ uuid'[s] = maxIndex /\ \A t \in Sessions : t # s => uuid'[t] = uuid[t]
      BY <2>1, <3>1, <3>2, PlaceKeepsSlots
    <3>4. HandedOut'
      <4>1. \A t \in Open' : uuid'[t] < maxIndex'
        BY <3>1, <3>3 DEF PoolIInv, HandedOut, TypeOK, Open, INVALID_UUID
      <4>2. \A i \in 1..Len(invalidIndexs') :
               invalidIndexs'[i] < maxIndex' \/ invalidIndexs'[i] = MaxNum
        BY <3>1, PoolAssumption DEF PoolIInv, HandedOut, TypeOK
      <4> QED
        BY <4>1, <4>2 DEF HandedOut
    <3>5. FreeOnce'
      <4>1. \A i \in 1..Len(invalidIndexs) : s \in Proper' => maxIndex # invalidIndexs[i]
        BY <3>1, <3>3, PoolAssumption DEF PoolIInv, HandedOut, Proper
      <4>2. \A i \in 1..Len(invalidIndexs), t \in Proper' : uuid'[t] # invalidIndexs[i]
        BY <3>3, <4>1 DEF PoolIInv, FreeOnce, Proper, Open
      <4> QED
        BY <3>1, <4>2 DEF PoolIInv, FreeOnce
    <3>6. IndexesAccounted'
      BY <3>1 DEF PoolIInv, IndexesAccounted, TypeOK
    <3> QED
      BY <3>3, <3>4, <3>5, <3>6 DEF PoolIInv
  <2>3. CASE AddReused(s)
    <3> DEFINE index == Head(invalidIndexs)
    <3>1. /\ Placed(s, index) /\ maxIndex' = maxIndex /\ maxIndex > MaxNum
          /\ invalidIndexs' = Tail(invalidIndexs) /\ invalidIndexs # <<>>
          /\ size' = size + 1
      BY <2>3 DEF AddReused, Placed
    <3>2. /\ index \in 0..MaxNum /\ index = invalidIndexs[1]
          /\ Len(invalidIndexs) \in Nat \ {0}
          /\ Len(invalidIndexs') = Len(invalidIndexs) - 1
          /\ \A i \in 1..Len(invalidIndexs') : invalidIndexs'[i] = invalidIndexs[i + 1]
      BY <3>1, HeadIsIndex DEF TypeOK
    <3> HIDE DEF index
    <3>3. \A t \in Proper : uuid[t] # index
      BY <3>2 DEF PoolIInv, FreeOnce
    <3>4. /\ SlotsAgree' /\ ProperInPlace'
          /\ Open' = Open \cup {s} /\ Proper' \subseteq Proper \cup {s}
          /\ uuid'[s] = index /\ \A t \in Sessions : t # s => uuid'[t] = uuid[t]
      BY <2>1, <3>1, <3>2, <3>3, PlaceKeepsSlots, ZenonT(30)
    <3>5. \A i \in 1..Len(invalidIndexs') : i + 1 \in 1..Len(invalidIndexs) /\ i + 1 # 1
      BY <3>2
    <3>6. HandedOut'
      <4>1. \A t \in Open' : uuid'[t] < maxIndex'
        BY <3>1, <3>2, <3>4, PoolAssumption DEF PoolIInv, HandedOut, TypeOK, Open
      <4>2. \A i \in 1..Len(invalidIndexs') :
               invalidIndexs'[i] < maxIndex' \/ invalidIndexs'[i] = MaxNum
        BY <3>1, <3>2, <3>5 DEF PoolIInv, HandedOut
      <4> QED
        BY <4>1, <4>2 DEF HandedOut
    <3>7. FreeOnce'
      <4>1. ASSUME NEW i \in 1..Len(invalidIndexs'), NEW j \in 1..Len(invalidIndexs'),
                   invalidIndexs'[i] = invalidIndexs'[j], invalidIndexs'[i] # MaxNum
            PROVE  i = j
        <5>1. i + 1 = j + 1
          BY <3>2, <3>5, <4>1 DEF PoolIInv, FreeOnce
        <5> QED
          BY <5>1, <3>2
      <4>2. ASSUME NEW i \in 1..Len(invalidIndexs'), NEW t \in Proper'
            PROVE  uuid'[t] # invalidIndexs'[i]
        <5>1. CASE t = s
          <6>1. index # MaxNum
            BY <3>4, <5>1, PoolAssumption DEF Proper
          <6>2. 1 \in 1..Len(invalidIndexs)
            BY <3>2
          <6>3. invalidIndexs[i + 1] # index
            BY <3>2, <3>5, <6>1, <6>2 DEF PoolIInv, FreeOnce
          <6> QED
            BY <3>2, <3>4, <5>1, <6>3
        <5>2. CASE t # s
          <6>1. t \in Proper /\ uuid'[t] = uuid[t]
            BY <3>4, <5>2 DEF Proper, Open
          <6> QED
            BY <3>2, <3>5, <6>1 DEF PoolIInv, FreeOnce
        <5> QED
          BY <5>1, <5>2
      <4> QED
        BY <4>1, <4>2 DEF FreeOnce
    <3>8. IndexesAccounted'
      BY <3>1, <3>2 DEF PoolIInv, IndexesAccounted, TypeOK
    <3> QED
      BY <3>4, <3>6, <3>7, <3>8 DEF PoolIInv
  <2>4. CASE AddRefused(s)
    <3>1. /\ UNCHANGED <<objectArray, objects, maxIndex, size, invalidIndexs>>
          /\ maxIndex > MaxNum
          /\ uuid'[s] = INVALID_UUID /\ \A t \in Sessions : t # s => uuid'[t] = uuid[t]
          /\ phase'[s] = "open" /\ \A t \in Sessions : t # s => phase'[t] = phase[t]
      BY <2>1, <2>4 DEF AddRefused, TypeOK
    <3>2. Open' = Open \cup {s} /\ Proper' \subseteq Proper
      BY <3>1, PoolAssumption DEF Open, Proper, INVALID_UUID
    <3>3. \A i \in 0..MaxNum : objectArray[i] # nullptr => objectArray[i] \in Sessions \ {s}
      BY <2>1 DEF PoolIInv, SlotsAgree, TypeOK
    <3>4. SlotsAgree'
      BY <3>1, <3>3 DEF PoolIInv, SlotsAgree
    <3>5. \A t \in Proper : t # s /\ t \in Sessions
      BY <2>1 DEF Proper, Open
    <3>6. ProperInPlace' /\ FreeOnce' /\ IndexesAccounted'
      BY <3>1, <3>2, <3>5 DEF PoolIInv, ProperInPlace, FreeOnce, IndexesAccounted
    <3>7. HandedOut'
      <4>1. \A t \in Open' : uuid'[t] < maxIndex'
        BY <3>1, <3>2, PoolAssumption DEF PoolIInv, HandedOut, TypeOK, Open, INVALID_UUID
      <4> QED
        BY <3>1, <4>1 DEF PoolIInv, HandedOut
    <3> QED
      BY <3>4, <3>6, <3>7 DEF PoolIInv
  <2> QED
    BY <1>1, <2>2, <2>3, <2>4 DEF addSession
<1>2. ASSUME NEW s \in Sessions, removeSessionPtr(s) PROVE PoolIInv'
  <2>1. /\ phase[s] = "open" /\ phase' = [phase EXCEPT ![s] = "closed"]
        /\ UNCHANGED <<maxIndex, uuid, type>>
    BY <1>2 DEF removeSessionPtr
  <2>2. Open' = Open \ {s} /\ Proper' = Proper \ {s} /\ s \in Open
    BY <2>1 DEF Open, Proper, TypeOK
  <2>3. \A t \in Sessions : phase[t] # "new" => phase'[t] # "new"
    BY <2>1 DEF TypeOK
  <2>4. CASE uuid[s] # INVALID_UUID /\ removeObject(uuid[s])
    <3> DEFINE index == uuid[s]
    <3>1. /\ index \in 0..MaxNum /\ size' = size - 1
          /\ objects' = objects \ {objectArray[index]}
          /\ objectArray'[index] = nullptr
          /\ \A i \in 0..MaxNum : i # index => objectArray'[i] = objectArray[i]
          /\ invalidIndexs' = Append(invalidIndexs, index)
      BY <2>4 DEF removeObject, TypeOK
    <3>2. /\ Len(invalidIndexs) \in Nat /\ Len(invalidIndexs') = Len(invalidIndexs) + 1
          /\ \A i \in 1..Len(invalidIndexs) : invalidIndexs'[i] = invalidIndexs[i]
          /\ invalidIndexs'[Len(invalidIndexs) + 1] = index
      BY <3>1 DEF TypeOK
    <3>3. index < maxIndex
      BY <2>2 DEF PoolIInv, HandedOut
    <3>4. index # MaxNum => s \in Proper
      BY <2>2, <3>1, PoolAssumption DEF Proper
    <3>5. ASSUME NEW t \in Proper, t # s PROVE uuid[t] # index /\ uuid[t] \in 0..MaxNum
      <4>1. uuid[t] \in 0..(MaxNum - 1) /\ objectArray[uuid[t]] = t
        BY DEF PoolIInv, ProperInPlace, Proper
      <4>2. CASE index = MaxNum
        BY <4>1, <4>2, PoolAssumption
      <4>3. CASE index # MaxNum
        <5>1. objectArray[index] = s
          BY <3>4, <4>3 DEF PoolIInv, ProperInPlace
        <5> QED
          BY <3>5, <4>1, <5>1, PoolAssumption
      <4> QED
        BY <4>2, <4>3
    <3> HIDE DEF index
    <3>6. SlotsAgree'
      <4> SUFFICES ASSUME NEW i \in 0..MaxNum, objectArray'[i] # nullptr
                   PROVE  uuid'[objectArray'[i]] = i /\ phase'[objectArray'[i]] # "new"
        BY DEF SlotsAgree
      <4>1. i # index /\ objectArray'[i] = objectArray[i] /\ objectArray[i] \in Sessions
        BY <3>1 DEF TypeOK
      <4> QED
        BY <2>1, <2>3, <4>1 DEF PoolIInv, SlotsAgree
    <3>7. ProperInPlace'
      <4> SUFFICES ASSUME NEW t \in Proper' PROVE objectArray'[uuid'[t]] = t /\ t \in objects'
        BY DEF ProperInPlace
      <4>1. t \in Proper /\ t # s /\ uuid'[t] = uuid[t]
        BY <2>1, <2>2
      <4>2. objectArray[uuid[t]] = t /\ t \in objects /\ t \in Sessions
        BY <4>1 DEF PoolIInv, ProperInPlace, Proper, Open
      <4>3. objectArray[index] # t
        BY <3>1, <3>5, <4>1, <4>2, PoolAssumption DEF PoolIInv, SlotsAgree
      <4> QED
        BY <3>1, <3>5, <4>1, <4>2, <4>3
    <3>8. HandedOut'
      <4>1. \A t \in Open' : uuid'[t] < maxIndex'
        BY <2>1, <2>2 DEF PoolIInv, HandedOut
      <4>2. ASSUME NEW i \in 1..Len(invalidIndexs')
            PROVE  invalidIndexs'[i] < maxIndex' \/ invalidIndexs'[i] = MaxNum
        <5>1. i \in 1..Len(invalidIndexs) \/ i = Len(invalidIndexs) + 1
          BY <3>2
        <5> QED
          BY <2>1, <3>2, <3>3, <5>1 DEF PoolIInv, HandedOut
      <4> QED
        BY <4>1, <4>2 DEF HandedOut
    <3>9. FreeOnce'
      <4>1. index # MaxNum => \A i \in 1..Len(invalidIndexs) : invalidIndexs[i] # index
        BY <3>4 DEF PoolIInv, FreeOnce, index
      <4>2. \A i \in 1..Len(invalidIndexs') :
               i \in 1..Len(invalidIndexs) \/ i = Len(invalidIndexs) + 1
        BY <3>2
      <4>3. ASSUME NEW i \in 1..Len(invalidIndexs'), NEW j \in 1..Len(invalidIndexs'),
                   invalidIndexs'[i] = invalidIndexs'[j], invalidIndexs'[i] # MaxNum
            PROVE  i = j
        BY <3>2, <4>1, <4>2, <4>3 DEF PoolIInv, FreeOnce
      <4>4. ASSUME NEW i \in 1..Len(invalidIndexs'), NEW t \in Proper'
            PROVE  uuid'[t] # invalidIndexs'[i]
        BY <2>1, <2>2, <3>2, <3>5, <4>2 DEF PoolIInv, FreeOnce
      <4> QED
        BY <4>3, <4>4 DEF FreeOnce
    <3>10. IndexesAccounted'
      <4>1. size \in Nat /\ maxIndex \in Nat
        BY DEF TypeOK
      <4>2. size + Len(invalidIndexs) = maxIndex + 1
        BY DEF PoolIInv, IndexesAccounted
      <4>3. size' + Len(invalidIndexs') = maxIndex' + 1
        BY <2>1, <3>1, <3>2, <4>1, <4>2
      <4> QED
        BY <4>3 DEF IndexesAccounted
    <3> QED
      BY <3>6, <3>7, <3>8, <3>9, <3>10 DEF PoolIInv
  <2>5. CASE uuid[s] = INVALID_UUID /\ UNCHANGED <<size, objects, objectArray, invalidIndexs>>
    <3>1. SlotsAgree'
      <4> SUFFICES ASSUME NEW i \in 0..MaxNum, objectArray[i] # nullptr
                   PROVE  uuid[objectArray[i]] = i /\ phase'[objectArray[i]] # "new"
        BY <2>1, <2>5 DEF SlotsAgree
      <4> QED
        BY <2>3 DEF PoolIInv, SlotsAgree, TypeOK
    <3> QED
      BY <2>1, <2>2, <2>5, <3>1
         DEF PoolIInv, ProperInPlace, HandedOut, FreeOnce, IndexesAccounted
  <2> QED
    BY <1>2, <2>4, <2>5 DEF removeSessionPtr
<1>3. CASE UNCHANGED vars
  BY <1>3 DEF vars, PoolIInv, SlotsAgree, ProperInPlace, HandedOut, FreeOnce,
              IndexesAccounted, Proper, Open
<1> QED
  BY <1>1, <1>2, <1>3 DEF Next

\* What the invariant is for.
LEMMA PoolPromises ==
    TypeOK /\ PoolIInv => UuidsAreExclusive /\ SendsReachTheirSessions /\ IndexesAccounted
<1> SUFFICES ASSUME TypeOK, PoolIInv
             PROVE  UuidsAreExclusive /\ SendsReachTheirSessions /\ IndexesAccounted
  OBVIOUS
<1>1. UuidsAreExclusive
  <2> SUFFICES ASSUME NEW s \in Proper, NEW t \in Open, s # t, uuid[s] = uuid[t]
               PROVE  FALSE
    BY DEF UuidsAreExclusive
  <2>1. t \in Proper
    BY DEF Proper
  <2> QED
    BY <2>1 DEF PoolIInv, ProperInPlace
<1>2. SendsReachTheirSessions
  <2> SUFFICES ASSUME NEW s \in Proper
               PROVE  /\ \A stype \in Types : Receivers(uuid[s], stype) = {s}
                      /\ s \in Receivers(INVALID_UUID, type[s])
    BY DEF SendsReachTheirSessions
  <2>1. objectArray[uuid[s]] = s /\ s \in objects /\ s \in Sessions /\ uuid[s] >= 0
    BY DEF PoolIInv, ProperInPlace, Proper, Open
  <2>2. s # nullptr
    BY <2>1, PoolAssumption
  <2> QED
    BY <2>1, <2>2 DEF Receivers, INVALID_UUID
<1> QED
  BY <1>1, <1>2 DEF PoolIInv

(***************************************************************************)
(* No two open sessions share an index below MAX_NUM, a message to such a  *)
(* session reaches it alone, a message to its type reaches it too, and no  *)
(* index is lost: for every history of connections and disconnections.     *)
(***************************************************************************)
THEOREM PoolCorrect ==
    Spec => [](UuidsAreExclusive /\ SendsReachTheirSessions /\ IndexesAccounted)
BY PoolInit, PoolStep, PoolPromises, PoolTypeCorrect, PTL DEF Spec

-----------------------------------------------------------------------------
(***************************************************************************)
(* The gate.                                                               *)
(***************************************************************************)

\* A sequence with n more elements at its end.
LEMMA Appended ==
    ASSUME NEW S, NEW s \in Seq(S), NEW n \in Nat, NEW t \in [1..n -> S]
    PROVE  /\ s \o t \in Seq(S)
           /\ Len(s \o t) = Len(s) + n
           /\ \A i \in 1..Len(s) : (s \o t)[i] = s[i]
           /\ \A i \in 1..n : (s \o t)[Len(s) + i] = t[i]
<1>1. t \in Seq(S) /\ Len(t) = n
  OBVIOUS
<1>2. s \o t \in Seq(S) /\ Len(s \o t) = Len(s) + n
  BY <1>1
<1>3. \A i \in 1..(Len(s) + n) : (s \o t)[i] = IF i <= Len(s) THEN s[i] ELSE t[i - Len(s)]
  BY <1>1
<1>4. Len(s) \in Nat
  OBVIOUS
<1>5. ASSUME NEW i \in 1..n PROVE (s \o t)[Len(s) + i] = t[i]
  <2>1. /\ Len(s) + i \in 1..(Len(s) + n) /\ ~(Len(s) + i <= Len(s))
        /\ Len(s) + i - Len(s) = i
    BY <1>4
  <2> QED
    BY <1>3, <2>1
<1> QED
  BY <1>2, <1>3, <1>4, <1>5

\* The effect of a check on the pool: the n sessions of closing that have an
\* index hand it back, in some order.
HandBack(closing, n, order) ==
    /\ n = Cardinality(closing \cap Indexed)
    /\ order \in [1..n -> closing \cap Indexed]
    /\ \A i, j \in 1..n : order[i] = order[j] => i = j
    /\ \A s \in closing \cap Indexed : uuid[s] \in 0..MaxNum
    /\ size' = size - n
    /\ Open' = Open \ closing
    /\ \A s \in Sessions : phase[s] # "new" <=> phase'[s] # "new"
    /\ Len(invalidIndexs') = Len(invalidIndexs) + n
    /\ \A i \in 1..Len(invalidIndexs) : invalidIndexs'[i] = invalidIndexs[i]
    /\ \A i \in 1..n : invalidIndexs'[Len(invalidIndexs) + i] = uuid[order[i]]
    /\ invalidIndexs' \in Seq(0..MaxNum)

\* Closing sessions hands their indexes back in some order, and does nothing else.
LEMMA CloseAllEffect ==
    ASSUME TypeOK, NEW closing \in SUBSET Open, CloseAll(closing)
    PROVE  \E n \in Nat : \E order : HandBack(closing, n, order)
<1> DEFINE pooled == {s \in closing : uuid[s] # INVALID_UUID}
<1>1. closing \subseteq Open /\ Open \subseteq Sessions /\ IsFiniteSet(Sessions)
  BY PoolAssumption DEF Open
<1>2. /\ IsFiniteSet(pooled) /\ Cardinality(pooled) \in Nat
      /\ pooled \subseteq closing /\ pooled = closing \cap Indexed
  <2>1. pooled \in SUBSET Sessions
    BY <1>1
  <2> QED
    BY <1>1, <2>1, FS_Subset, FS_CardinalityType DEF Indexed
<1>3. \A s \in pooled : uuid[s] \in 0..MaxNum
  BY <1>1 DEF TypeOK
<1>4. PICK order \in SetToSeqs(pooled) :
        invalidIndexs' = invalidIndexs \o [i \in DOMAIN order |-> uuid[order[i]]]
  BY DEF CloseAll
<1>5. /\ size' = size - Cardinality(pooled)
      /\ phase' = [s \in Sessions |-> IF s \in closing THEN "closed" ELSE phase[s]]
  BY DEF CloseAll
<1> HIDE DEF pooled
<1> PICK n \in Nat : n = Cardinality(pooled)
  BY <1>2
<1>6. order \in [1..n -> pooled] /\ \A i, j \in 1..n : order[i] = order[j] => i = j
  BY <1>4 DEF SetToSeqs
<1> DEFINE ids == [i \in 1..n |-> uuid[order[i]]]
<1>8. ids \in [1..n -> 0..MaxNum] /\ invalidIndexs' = invalidIndexs \o ids
  BY <1>3, <1>4, <1>6
<1>9. invalidIndexs \in Seq(0..MaxNum) /\ \A i \in 1..n : ids[i] = uuid[order[i]]
  BY DEF TypeOK
<1> HIDE DEF ids
<1>10. /\ Len(invalidIndexs') = Len(invalidIndexs) + n
       /\ \A i \in 1..Len(invalidIndexs) : invalidIndexs'[i] = invalidIndexs[i]
       /\ \A i \in 1..n : invalidIndexs'[Len(invalidIndexs) + i] = uuid[order[i]]
       /\ invalidIndexs' \in Seq(0..MaxNum)
  <2> DEFINE S == 0..MaxNum
  <2> PICK old, new : old = invalidIndexs /\ new = ids
    OBVIOUS
  <2>1. old \in Seq(S) /\ new \in [1..n -> S]
    BY <1>8, <1>9
  <2> HIDE DEF S
  <2>2. /\ old \o new \in Seq(S)
        /\ Len(old \o new) = Len(old) + n
        /\ \A i \in 1..Len(old) : (old \o new)[i] = old[i]
        /\ \A i \in 1..n : (old \o new)[Len(old) + i] = new[i]
    BY <2>1, Appended
  <2> QED
    BY <1>8, <1>9, <2>2, Zenon DEF S
<1>11. Open' = Open \ closing /\ \A s \in Sessions : phase[s] # "new" <=> phase'[s] # "new"
  BY <1>1, <1>5 DEF Open, TypeOK
<1>12. /\ n = Cardinality(closing \cap Indexed)
       /\ order \in [1..n -> closing \cap Indexed]
       /\ \A s \in closing \cap Indexed : uuid[s] \in 0..MaxNum
       /\ size' = size - n
  BY <1>2, <1>3, <1>5, <1>6
<1>13. HandBack(closing, n, order)
  BY <1>6, <1>10, <1>11, <1>12 DEF HandBack
<1> QED
  BY <1>13

\* Closing several sessions in one go keeps the pool in order.
LEMMA CloseAllKeepsPool ==
    ASSUME TypeIInv, PoolIInv, NEW closing \in SUBSET Open, CloseAll(closing)
    PROVE  TypeIInv' /\ PoolIInv'
<1>0. TypeOK /\ SizeCounts
  BY DEF TypeIInv
<1>1. PICK n \in Nat : \E order : HandBack(closing, n, order)
  BY <1>0, CloseAllEffect
<1>2. PICK order : HandBack(closing, n, order)
  BY <1>1
<1>15. /\ \A i \in 1..Len(invalidIndexs) : invalidIndexs'[i] = invalidIndexs[i]
       /\ \A i \in 1..n : invalidIndexs'[Len(invalidIndexs) + i] = uuid[order[i]]
  BY <1>2 DEF HandBack
<1> DEFINE indexes == {uuid[s] : s \in closing \cap Indexed}
<1>3. /\ phase' = [s \in Sessions |-> IF s \in closing THEN "closed" ELSE phase[s]]
      /\ objects' = objects \ {objectArray[i] : i \in indexes}
      /\ objectArray' = [i \in 0..MaxNum |-> IF i \in indexes THEN nullptr ELSE objectArray[i]]
      /\ UNCHANGED <<maxIndex, uuid, type>>
  <2>1. {s \in closing : uuid[s] # INVALID_UUID} = closing \cap Indexed
    BY DEF Indexed
  <2> QED
    BY <2>1 DEF CloseAll
<1>4. /\ Len(invalidIndexs) \in Nat
      /\ \A i \in 1..Len(invalidIndexs') :
            i \in 1..Len(invalidIndexs) \/ \E k \in 1..n : i = Len(invalidIndexs) + k
  <2>1. Len(invalidIndexs) \in Nat
    BY <1>0 DEF TypeOK
  <2>2. ASSUME NEW i \in 1..Len(invalidIndexs'), i \notin 1..Len(invalidIndexs)
        PROVE  \E k \in 1..n : i = Len(invalidIndexs) + k
    <3>1. i - Len(invalidIndexs) \in 1..n /\ i = Len(invalidIndexs) + (i - Len(invalidIndexs))
      BY <1>2, <2>1, <2>2 DEF HandBack
    <3> QED
      BY <3>1
  <2> QED
    BY <2>1, <2>2
<1>5. Proper' = Proper \ closing /\ Indexed' = Indexed \ closing
  BY <1>2, <1>3 DEF HandBack, Proper, Indexed
<1>6. TypeIInv'
  <2>1. SizeCounts' /\ size' \in Nat
    <3>1. IsFiniteSet(Indexed) /\ Indexed \ closing = Indexed \ (closing \cap Indexed)
      BY PoolAssumption, FS_Subset DEF Indexed, Open
    <3>2. closing \cap Indexed = Indexed \cap (closing \cap Indexed)
      OBVIOUS
    <3> PICK I, C : I = Indexed /\ C = closing \cap Indexed
      OBVIOUS
    <3>5. IsFiniteSet(I \ C) /\ Cardinality(I \ C) = Cardinality(I) - Cardinality(I \cap C)
      BY <3>1, FS_Difference
    <3>3. IsFiniteSet(Indexed') /\ Cardinality(Indexed') = Cardinality(Indexed) - n
      BY <1>2, <1>5, <3>1, <3>2, <3>5 DEF HandBack
    <3>4. Cardinality(Indexed') \in Nat
      BY <3>3, FS_CardinalityType
    <3> QED
      BY <1>0, <1>2, <3>3, <3>4 DEF HandBack, SizeCounts
  <2>2. phase' \in [Sessions -> {"new", "open", "closed"}]
    BY <1>0, <1>3 DEF TypeOK
  <2>3. /\ objectArray' \in [0..MaxNum -> Sessions \cup {nullptr}]
        /\ objects' \subseteq Sessions
    BY <1>0, <1>3 DEF TypeOK
  <2> QED
    BY <1>0, <1>2, <1>3, <2>1, <2>2, <2>3 DEF HandBack, TypeIInv, TypeOK
\* A session that stays keeps its index below MAX_NUM to itself.
<1>7. ASSUME NEW t \in Proper, t \notin closing PROVE uuid[t] \notin indexes
  <2> SUFFICES ASSUME NEW s \in closing \cap Indexed, uuid[s] = uuid[t] PROVE FALSE
    BY DEF indexes
  <2>1. s \in Proper
    BY DEF Proper
  <2>2. objectArray[uuid[s]] = s /\ objectArray[uuid[t]] = t
    BY <2>1 DEF PoolIInv, ProperInPlace
  <2> QED
    BY <1>7, <2>2
<1>8. SlotsAgree'
  <2> SUFFICES ASSUME NEW i \in 0..MaxNum, objectArray'[i] # nullptr
               PROVE  uuid'[objectArray'[i]] = i /\ phase'[objectArray'[i]] # "new"
    BY DEF SlotsAgree
  <2>1. objectArray'[i] = objectArray[i] /\ objectArray[i] \in Sessions
    BY <1>0, <1>3 DEF TypeOK
  <2> QED
    BY <1>2, <1>3, <2>1 DEF HandBack, PoolIInv, SlotsAgree
<1>9. ProperInPlace'
  <2> SUFFICES ASSUME NEW t \in Proper' PROVE objectArray'[uuid'[t]] = t /\ t \in objects'
    BY DEF ProperInPlace
  <2>1. t \in Proper /\ t \notin closing /\ uuid'[t] = uuid[t] /\ uuid[t] \in 0..MaxNum
    BY <1>3, <1>5, PoolAssumption DEF Proper
  <2>2. objectArray[uuid[t]] = t /\ t \in objects /\ t \in Sessions /\ uuid[t] \notin indexes
    BY <1>7, <2>1 DEF PoolIInv, ProperInPlace, Proper, Open
  <2>3. ASSUME NEW i \in indexes PROVE objectArray[i] # t
    <3>1. i \in 0..MaxNum /\ i # uuid[t]
      BY <1>2, <2>2 DEF HandBack
    <3> QED
      BY <2>2, <3>1, PoolAssumption DEF PoolIInv, SlotsAgree
  <2> HIDE DEF indexes
  <2> QED
    BY <1>3, <2>1, <2>2, <2>3
<1> HIDE DEF indexes
<1>10. \A i \in 1..n : order[i] \in closing /\ order[i] \in Indexed /\ order[i] \in Open
                       /\ uuid[order[i]] \in 0..MaxNum
  BY <1>2 DEF HandBack
<1>11. \A i \in 1..n : uuid[order[i]] # MaxNum => order[i] \in Proper
  BY <1>10, PoolAssumption DEF Proper
<1>12. HandedOut'
  <2>1. \A t \in Open' : uuid'[t] < maxIndex'
    BY <1>2, <1>3 DEF HandBack, PoolIInv, HandedOut
  <2>2. ASSUME NEW i \in 1..Len(invalidIndexs')
        PROVE  invalidIndexs'[i] < maxIndex' \/ invalidIndexs'[i] = MaxNum
    <3>1. CASE i \in 1..Len(invalidIndexs)
      BY <1>3, <1>15, <3>1 DEF PoolIInv, HandedOut
    <3>2. CASE \E k \in 1..n : i = Len(invalidIndexs) + k
      <4>1. PICK k \in 1..n : i = Len(invalidIndexs) + k
        BY <3>2
      <4>2. invalidIndexs'[i] = uuid[order[k]] /\ order[k] \in Open
        BY <1>15, <1>10, <4>1
      <4> QED
        BY <1>3, <4>2 DEF PoolIInv, HandedOut
    <3> QED
      BY <1>4, <3>1, <3>2
  <2> QED
    BY <2>1, <2>2 DEF HandedOut
<1>13. FreeOnce'
  <2>1. ASSUME NEW i \in 1..Len(invalidIndexs), NEW k \in 1..n, uuid[order[k]] # MaxNum
        PROVE  invalidIndexs[i] # uuid[order[k]]
    BY <1>11, <2>1 DEF PoolIInv, FreeOnce
  <2>2. ASSUME NEW j \in 1..n, NEW k \in 1..n, uuid[order[k]] # MaxNum,
               uuid[order[j]] = uuid[order[k]]
        PROVE  j = k
    <3>1. order[j] = order[k]
      BY <1>11, <2>2 DEF PoolIInv, ProperInPlace
    <3> QED
      BY <1>2, <3>1 DEF HandBack
  <2>3. ASSUME NEW i \in 1..Len(invalidIndexs'), NEW j \in 1..Len(invalidIndexs'),
               invalidIndexs'[i] = invalidIndexs'[j], invalidIndexs'[i] # MaxNum
        PROVE  i = j
    <3>1. CASE i \in 1..Len(invalidIndexs) /\ j \in 1..Len(invalidIndexs)
      BY <1>15, <2>3, <3>1 DEF PoolIInv, FreeOnce
    <3>2. CASE \E k \in 1..n : i = Len(invalidIndexs) + k /\ j \in 1..Len(invalidIndexs)
      <4>1. PICK k \in 1..n : i = Len(invalidIndexs) + k /\ j \in 1..Len(invalidIndexs)
        BY <3>2
      <4>2. invalidIndexs'[i] = uuid[order[k]] /\ invalidIndexs'[j] = invalidIndexs[j]
        BY <1>15, <4>1
      <4> QED
        BY <2>1, <2>3, <4>1, <4>2
    <3>3. CASE \E k \in 1..n : j = Len(invalidIndexs) + k /\ i \in 1..Len(invalidIndexs)
      <4>1. PICK k \in 1..n : j = Len(invalidIndexs) + k /\ i \in 1..Len(invalidIndexs)
        BY <3>3
      <4>2. invalidIndexs'[j] = uuid[order[k]] /\ invalidIndexs'[i] = invalidIndexs[i]
        BY <1>15, <4>1
      <4> QED
        BY <2>1, <2>3, <4>1, <4>2
    <3>4. CASE \E k, l \in 1..n : i = Len(invalidIndexs) + k /\ j = Len(invalidIndexs) + l
      <4>1. PICK k, l \in 1..n : i = Len(invalidIndexs) + k /\ j = Len(invalidIndexs) + l
        BY <3>4
      <4>2. invalidIndexs'[i] = uuid[order[k]] /\ invalidIndexs'[j] = uuid[order[l]]
        BY <1>15, <4>1
      <4>3. l = k
        BY <2>2, <2>3, <4>2
      <4> QED
        BY <4>1, <4>3
    <3> QED
      BY <1>4, <3>1, <3>2, <3>3, <3>4
  <2>4. ASSUME NEW i \in 1..Len(invalidIndexs'), NEW t \in Proper'
        PROVE  uuid'[t] # invalidIndexs'[i]
    <3>1. t \in Proper /\ t \notin closing /\ uuid'[t] = uuid[t]
      BY <1>3, <1>5
    <3>2. CASE i \in 1..Len(invalidIndexs)
      BY <1>15, <3>1, <3>2 DEF PoolIInv, FreeOnce
    <3>3. CASE \E k \in 1..n : i = Len(invalidIndexs) + k
      <4>1. PICK k \in 1..n : i = Len(invalidIndexs) + k
        BY <3>3
      <4>2. invalidIndexs'[i] = uuid[order[k]] /\ uuid[order[k]] \in indexes
        BY <1>15, <1>10, <4>1 DEF indexes
      <4> QED
        BY <1>7, <3>1, <4>2
    <3> QED
      BY <1>4, <3>2, <3>3
  <2> QED
    BY <2>3, <2>4 DEF FreeOnce
<1>14. IndexesAccounted'
  <2>1. size \in Nat /\ maxIndex \in Nat /\ size + Len(invalidIndexs) = maxIndex + 1
    BY <1>0 DEF TypeOK, PoolIInv, IndexesAccounted
  <2>2. size' + Len(invalidIndexs') = maxIndex' + 1
    BY <1>2, <1>3, <1>4, <2>1 DEF HandBack
  <2> QED
    BY <2>2 DEF IndexesAccounted
<1> QED
  BY <1>6, <1>8, <1>9, <1>12, <1>13, <1>14 DEF PoolIInv

-----------------------------------------------------------------------------
(***************************************************************************)
(* The requests and the heartbeats.  Requests come from sessions that have *)
(* been added, so an index that becomes proper never belongs to one who    *)
(* asked before; nobody has the reply to a request that is still pending;  *)
(* and a player who is still to come has missed no check.                  *)
(***************************************************************************)
RequestsTyped ==
    /\ asked \in Seq(Sessions)
    /\ pending \subseteq DOMAIN asked
    /\ got \in [Sessions -> SUBSET (DOMAIN asked \ pending)]
    /\ \A request \in DOMAIN asked : phase[asked[request]] # "new"

MissedTyped ==
    /\ missed \in [Sessions -> Nat]
    /\ \A s \in Sessions : phase[s] = "new" => missed[s] = 0

GateIInv ==
    /\ TypeIInv
    /\ PoolIInv
    /\ RequestsTyped
    /\ MissedTyped
    /\ RepliesReachTheirAskers
    /\ SilentPlayersLeave

\* Players come, leave and are closed without a request moving.
LEMMA PlayersUntouched ==
    ASSUME RequestsTyped, RepliesReachTheirAskers, UNCHANGED players,
           \A s \in Sessions : phase[s] # "new" => phase'[s] # "new",
           \A s \in Proper' : s \in Proper \/ phase[s] = "new"
    PROVE  RequestsTyped' /\ RepliesReachTheirAskers'
<1>1. asked' = asked /\ pending' = pending /\ got' = got
  BY DEF players
<1>2. \A request \in DOMAIN asked : asked[request] \in Sessions
  BY DEF RequestsTyped
<1>3. RequestsTyped'
  BY <1>1, <1>2 DEF RequestsTyped
<1>4. \A request \in DOMAIN asked : asked[request] \in Proper' => asked[request] \in Proper
  BY DEF RequestsTyped
<1> QED
  BY <1>1, <1>3, <1>4 DEF RepliesReachTheirAskers

\* What a session that does not come or go keeps.
LEMMA PoolUntouched ==
    ASSUME TypeIInv, PoolIInv, UNCHANGED vars
    PROVE  /\ TypeIInv' /\ PoolIInv' /\ Proper' = Proper
           /\ UNCHANGED <<objectArray, objects, uuid, type, phase>>
<1>1. TypeIInv'
  BY TypeStep
<1>2. PoolIInv'
  BY <1>1, PoolStep DEF TypeIInv
<1> QED
  BY <1>1, <1>2 DEF vars, Proper, Open

\* An arrival: the new session has missed nothing and asked nothing.
LEMMA ConnectKeeps ==
    ASSUME GateIInv, NEW s \in Sessions, Connect(s)
    PROVE  GateIInv'
<1>1. addSession(s) /\ UNCHANGED players /\ missed' = missed
  BY DEF Connect
<1>2. TypeIInv'
  BY <1>1, TypeStep DEF GateIInv, Next
<1>3. PoolIInv'
  BY <1>1, <1>2, PoolStep DEF GateIInv, TypeIInv, Next
<1>4. /\ phase[s] = "new" /\ phase'[s] = "open" /\ type' = type
      /\ \A t \in Sessions : t # s => phase'[t] = phase[t] /\ uuid'[t] = uuid[t]
  BY <1>1 DEF addSession, AddFresh, AddReused, AddRefused, Placed, GateIInv, TypeIInv, TypeOK
<1>5. \A t \in Proper' : t \in Sessions /\ (t = s \/ t \in Proper)
  BY <1>4 DEF Proper, Open
<1>6. RequestsTyped' /\ RepliesReachTheirAskers'
  BY <1>1, <1>4, <1>5, PlayersUntouched DEF GateIInv
<1>7. MissedTyped'
  BY <1>1, <1>4 DEF GateIInv, MissedTyped
<1>8. SilentPlayersLeave'
  <2>1. missed[s] = 0
    BY <1>4 DEF GateIInv, MissedTyped
  <2>2. (0 - 1) * Duration <= Overtime
    BY GateAssumption
  <2> QED
    BY <1>1, <1>4, <1>5, <2>1, <2>2 DEF GateIInv, SilentPlayersLeave
<1> QED
  BY <1>2, <1>3, <1>6, <1>7, <1>8 DEF GateIInv

\* A departure.
LEMMA LeaveKeeps ==
    ASSUME GateIInv, NEW s \in Sessions, Leave(s)
    PROVE  GateIInv'
<1>1. removeSessionPtr(s) /\ UNCHANGED players /\ missed' = [missed EXCEPT ![s] = 0]
  BY DEF Leave
<1>2. TypeIInv'
  BY <1>1, TypeStep DEF GateIInv, Next
<1>3. PoolIInv'
  BY <1>1, <1>2, PoolStep DEF GateIInv, TypeIInv, Next
<1>4. /\ phase'[s] = "closed" /\ type' = type /\ uuid' = uuid
      /\ \A t \in Sessions : t # s => phase'[t] = phase[t]
  BY <1>1 DEF removeSessionPtr, GateIInv, TypeIInv, TypeOK
<1>5. \A t \in Proper' : t \in Sessions /\ t # s /\ t \in Proper
  BY <1>4 DEF Proper, Open
<1>6. RequestsTyped' /\ RepliesReachTheirAskers'
  BY <1>1, <1>4, <1>5, PlayersUntouched DEF GateIInv
<1>7. missed' \in [Sessions -> Nat] /\ \A t \in Sessions : t # s => missed'[t] = missed[t]
  BY <1>1 DEF GateIInv, MissedTyped
<1>8. MissedTyped'
  BY <1>4, <1>7 DEF GateIInv, MissedTyped
<1>9. SilentPlayersLeave'
  BY <1>4, <1>5, <1>7 DEF GateIInv, SilentPlayersLeave
<1> QED
  BY <1>2, <1>3, <1>6, <1>8, <1>9 DEF GateIInv

\* A request: it is pending, and nobody has its reply.
LEMMA RequestKeeps ==
    ASSUME GateIInv, NEW s \in Sessions, handlerMsg(s)
    PROVE  GateIInv'
<1>1. /\ phase[s] = "open" /\ asked' = Append(asked, s)
      /\ pending' = pending \cup {Len(asked')}
      /\ UNCHANGED vars /\ got' = got /\ missed' = missed
  BY DEF handlerMsg
<1>2. /\ TypeIInv' /\ PoolIInv' /\ Proper' = Proper
      /\ UNCHANGED <<objectArray, objects, uuid, type, phase>>
  BY <1>1, PoolUntouched DEF GateIInv
<1>3. PICK n \in Nat : n = Len(asked)
  BY DEF GateIInv, RequestsTyped
<1>4. /\ asked' \in Seq(Sessions) /\ Len(asked') = n + 1
      /\ DOMAIN asked = 1..n /\ DOMAIN asked' = 1..(n + 1)
      /\ asked'[n + 1] = s /\ \A i \in 1..n : asked'[i] = asked[i]
  BY <1>1, <1>3 DEF GateIInv, RequestsTyped
<1>5. /\ pending' = pending \cup {n + 1} /\ pending \subseteq 1..n
      /\ (1..(n + 1)) \ pending' = (1..n) \ pending
  BY <1>1, <1>3, <1>4 DEF GateIInv, RequestsTyped
<1>6. RequestsTyped'
  <2>1. pending' \subseteq DOMAIN asked'
    BY <1>4, <1>5
  <2>2. got' \in [Sessions -> SUBSET (DOMAIN asked' \ pending')]
    BY <1>1, <1>4, <1>5 DEF GateIInv, RequestsTyped
  <2>3. \A i \in DOMAIN asked' : phase'[asked'[i]] # "new"
    <3>1. \A i \in 1..(n + 1) : i \in 1..n \/ i = n + 1
      OBVIOUS
    <3> QED
      BY <1>1, <1>2, <1>4, <3>1 DEF GateIInv, RequestsTyped
  <2> QED
    BY <1>4, <2>1, <2>2, <2>3 DEF RequestsTyped
<1>7. RepliesReachTheirAskers'
  BY <1>1, <1>2, <1>4, <1>5 DEF GateIInv, RepliesReachTheirAskers
<1>8. MissedTyped' /\ SilentPlayersLeave'
  BY <1>1, <1>2 DEF GateIInv, MissedTyped, SilentPlayersLeave
<1> QED
  BY <1>2, <1>6, <1>7, <1>8 DEF GateIInv

\* A reply: while the player who asked is there, its uuid names it alone.
LEMMA ReplyKeeps ==
    ASSUME GateIInv, NEW request \in pending, transToClient(request)
    PROVE  GateIInv'
<1>1. /\ UNCHANGED vars /\ asked' = asked /\ missed' = missed
      /\ pending' = pending \ {request}
      /\ got' = [s \in Sessions |->
                    IF s \in Receivers(uuid[asked[request]], Client)
                    THEN got[s] \cup {request} ELSE got[s]]
  BY DEF transToClient, extraID
<1>2. /\ TypeIInv' /\ PoolIInv' /\ Proper' = Proper
      /\ UNCHANGED <<objectArray, objects, uuid, type, phase>>
  BY <1>1, PoolUntouched DEF GateIInv
<1>3. /\ request \in DOMAIN asked /\ pending \subseteq DOMAIN asked
      /\ \A s \in Sessions : got[s] \subseteq DOMAIN asked \ pending
  BY DEF GateIInv, RequestsTyped
<1>4. RequestsTyped'
  <2>1. \A s \in Sessions : got'[s] \subseteq DOMAIN asked \ pending'
    BY <1>1, <1>3
  <2>2. got' \in [Sessions -> SUBSET (DOMAIN asked \ pending')]
    BY <1>1, <2>1
  <2> QED
    BY <1>1, <1>2, <1>3, <2>2 DEF GateIInv, RequestsTyped
<1>5. asked[request] \in Proper =>
         Receivers(uuid[asked[request]], Client) = {asked[request]}
  BY PoolPromises, GateAssumption DEF GateIInv, TypeIInv, SendsReachTheirSessions
<1>6. RepliesReachTheirAskers'
  <2> SUFFICES ASSUME NEW r \in DOMAIN asked \ pending', asked[r] \in Proper
               PROVE  {s \in Sessions : r \in got'[s]} = {asked[r]}
    BY <1>1, <1>2 DEF RepliesReachTheirAskers
  <2>1. asked[r] \in Sessions
    BY DEF Proper, Open
  <2>2. CASE r = request
    <3>1. \A s \in Sessions : request \notin got[s]
      BY <1>3
    <3> QED
      BY <1>1, <1>5, <2>1, <2>2, <3>1
  <2>3. CASE r # request
    <3>1. r \in DOMAIN asked \ pending
      BY <1>1, <2>3
    <3>2. \A s \in Sessions : r \in got'[s] <=> r \in got[s]
      BY <1>1, <2>3
    <3> QED
      BY <3>1, <3>2 DEF GateIInv, RepliesReachTheirAskers
  <2> QED
    BY <2>2, <2>3
<1>7. MissedTyped' /\ SilentPlayersLeave'
  BY <1>1, <1>2 DEF GateIInv, MissedTyped, SilentPlayersLeave
<1> QED
  BY <1>2, <1>4, <1>6, <1>7 DEF GateIInv

\* A heartbeat.
LEMMA HeartbeatKeeps ==
    ASSUME GateIInv, NEW s \in Sessions, heartBeatRQ(s)
    PROVE  GateIInv'
<1>1. UNCHANGED vars /\ UNCHANGED players /\ missed' = [missed EXCEPT ![s] = 0]
  BY DEF heartBeatRQ
<1>2. /\ TypeIInv' /\ PoolIInv' /\ Proper' = Proper
      /\ UNCHANGED <<objectArray, objects, uuid, type, phase>>
  BY <1>1, PoolUntouched DEF GateIInv
<1>3. RequestsTyped' /\ RepliesReachTheirAskers'
  BY <1>1, <1>2, PlayersUntouched DEF GateIInv
<1>4. /\ missed' \in [Sessions -> Nat] /\ missed'[s] = 0
      /\ \A t \in Sessions : t # s => missed'[t] = missed[t]
  BY <1>1 DEF GateIInv, MissedTyped
<1>5. MissedTyped'
  BY <1>2, <1>4 DEF GateIInv, MissedTyped
<1>6. (0 - 1) * Duration <= Overtime
  BY GateAssumption
<1>7. SilentPlayersLeave'
  BY <1>2, <1>4, <1>6 DEF GateIInv, SilentPlayersLeave, Proper, Open
<1> QED
  BY <1>2, <1>3, <1>5, <1>7 DEF GateIInv

\* A check: whoever is left open below MAX_NUM was seen and not overtime.
LEMMA CheckKeeps ==
    ASSUME GateIInv, clientCheckOvertime
    PROVE  GateIInv'
<1>1. PICK closing \in SUBSET objects :
        /\ missed' = [s \in Sessions |->
                          IF phase[s] = "open" /\ s \in SeenPlayers \ closing
                          THEN missed[s] + 1 ELSE 0]
        /\ Overdue(closing)
        /\ CloseAll(closing)
  BY DEF clientCheckOvertime
<1>2. UNCHANGED players
  BY DEF clientCheckOvertime
<1>3. closing \in SUBSET Open
  BY <1>1 DEF Overdue, MayBeOvertime, SeenPlayers, Open, GateIInv, TypeIInv, TypeOK
<1>4. TypeIInv' /\ PoolIInv'
  BY <1>1, <1>3, CloseAllKeepsPool DEF GateIInv
<1>5. /\ phase' = [s \in Sessions |-> IF s \in closing THEN "closed" ELSE phase[s]]
      /\ uuid' = uuid /\ type' = type
  BY <1>1 DEF CloseAll
<1>6. \A t \in Proper' : t \in Sessions /\ t \in Proper /\ t \notin closing
  BY <1>5 DEF Proper, Open
<1>7. \A t \in Sessions : phase[t] # "new" => phase'[t] # "new"
  BY <1>5
<1>8. RequestsTyped' /\ RepliesReachTheirAskers'
  BY <1>2, <1>6, <1>7, PlayersUntouched DEF GateIInv
<1>9. MissedTyped'
  <2>1. missed \in [Sessions -> Nat]
    BY DEF GateIInv, MissedTyped
  <2>2. missed' \in [Sessions -> Nat]
    BY <1>1, <2>1
  <2>3. \A t \in Sessions : phase'[t] = "new" => missed'[t] = 0
    BY <1>1, <1>5
  <2> QED
    BY <2>2, <2>3 DEF MissedTyped
<1>10. SilentPlayersLeave'
  <2> SUFFICES ASSUME NEW t \in Proper', type[t] = Client
               PROVE  (missed'[t] - 1) * Duration <= Overtime
    BY <1>5 DEF SilentPlayersLeave
  <2>1. t \in Proper /\ t \in Sessions /\ t \notin closing /\ phase[t] = "open"
    BY <1>6 DEF Proper, Open
  <2>2. t \in SeenPlayers
    BY <2>1 DEF GateIInv, PoolIInv, ProperInPlace, SeenPlayers
  <2>3. missed'[t] = missed[t] + 1 /\ missed[t] \in Nat
    BY <1>1, <2>1, <2>2 DEF GateIInv, MissedTyped
  <2>4. ~IsOvertime(t)
    BY <1>1, <2>1 DEF Overdue
  <2> PICK m \in Nat : m = missed[t]
    BY <2>3
  <2>5. m * Duration <= Overtime \/ ~((m + 1) * Duration > Overtime)
    BY <2>1, <2>2, <2>4, GateAssumption DEF IsOvertime, MayBeOvertime
  <2>6. (m + 1) * Duration = m * Duration + Duration /\ m * Duration \in Nat
    BY GateAssumption
  <2>7. m * Duration <= Overtime
    BY <2>5, <2>6, GateAssumption
  <2>8. missed'[t] - 1 = m
    BY <2>3
  <2> QED
    BY <2>7, <2>8
<1> QED
  BY <1>4, <1>8, <1>9, <1>10 DEF GateIInv

\* Every step of the GateWay keeps the invariant.
LEMMA GateInvariant == GateSpec => []GateIInv
<1>1. GateInit => GateIInv
  <2> SUFFICES ASSUME GateInit PROVE GateIInv
    OBVIOUS
  <2>1. TypeIInv /\ PoolIInv
    BY TypeInit, PoolInit DEF GateInit
  <2>2. RequestsTyped /\ RepliesReachTheirAskers
    BY DEF GateInit, RequestsTyped, RepliesReachTheirAskers
  <2>3. Proper = {}
    BY DEF GateInit, Init, Proper, Open
  <2>4. MissedTyped /\ SilentPlayersLeave
    BY <2>3 DEF GateInit, MissedTyped, SilentPlayersLeave
  <2> QED
    BY <2>1, <2>2, <2>4 DEF GateIInv
<1>2. GateIInv /\ [GateNext]_gateVars => GateIInv'
  <2> SUFFICES ASSUME GateIInv, [GateNext]_gateVars PROVE GateIInv'
    OBVIOUS
  <2>1. CASE UNCHANGED gateVars
    <3>1. UNCHANGED vars /\ UNCHANGED players /\ missed' = missed
      BY <2>1 DEF gateVars
    <3>2. /\ TypeIInv' /\ PoolIInv' /\ Proper' = Proper
          /\ UNCHANGED <<objectArray, objects, uuid, type, phase>>
      BY <3>1, PoolUntouched DEF GateIInv
    <3>3. RequestsTyped' /\ RepliesReachTheirAskers'
      BY <3>1, <3>2, PlayersUntouched DEF GateIInv
    <3> QED
      BY <3>1, <3>2, <3>3 DEF GateIInv, MissedTyped, SilentPlayersLeave
  <2> QED
    BY <2>1, ConnectKeeps, LeaveKeeps, RequestKeeps, ReplyKeeps, HeartbeatKeeps, CheckKeeps
       DEF GateNext
<1> QED
  BY <1>1, <1>2, PTL DEF GateSpec

(***************************************************************************)
(* The pool of a gateway keeps its promises although a check may close any *)
(* number of players in one go: no index leaves its range or is lost, and  *)
(* a message reaches the session it is sent to and no other.               *)
(***************************************************************************)
THEOREM GatePoolCorrect ==
    GateSpec => [](TypeOK /\ UuidsAreExclusive /\ SendsReachTheirSessions /\ IndexesAccounted)
<1>1. GateIInv => TypeOK /\ UuidsAreExclusive /\ SendsReachTheirSessions /\ IndexesAccounted
  BY PoolPromises DEF GateIInv, TypeIInv
<1> QED
  BY <1>1, GateInvariant, PTL

(***************************************************************************)
(* A reply reaches the player who asked for it, and no other, as long as   *)
(* that player is there: for every number of players who come, leave and   *)
(* are timed out between the request and its reply.                        *)
(***************************************************************************)
THEOREM RepliesReach == GateSpec => []RepliesReachTheirAskers
<1>1. GateIInv => RepliesReachTheirAskers
  BY DEF GateIInv
<1> QED
  BY <1>1, GateInvariant, PTL

(***************************************************************************)
(* A silent player is closed within a period after Overtime, whatever the  *)
(* two periods are and whatever the other sessions do to the pool.         *)
(***************************************************************************)
THEOREM SilentLeave == GateSpec => []SilentPlayersLeave
<1>1. GateIInv => SilentPlayersLeave
  BY DEF GateIInv
<1> QED
  BY <1>1, GateInvariant, PTL
=============================================================================
