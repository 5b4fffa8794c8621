-------------------------- MODULE AsyncLoggingProofs --------------------------
(***************************************************************************)
(* Proofs about AsyncLogging, for every size and number of buffers and     *)
(* every number of lines.  They take memory to be unlimited, as the code   *)
(* does, which never asks whether new Buffer succeeds: there is no finite  *)
(* set of buffers that new has to choose from.                             *)
(***************************************************************************)
EXTENDS AsyncLogging, FiniteSetTheorems, FunctionTheorems, TLAPS

LogTypes ==
    /\ content \in [Buffers -> Seq(Nat)]
    /\ currentBuffer \in Buffers
    /\ nextBuffer \in Buffers \cup {nullptr}
    /\ newBuffer1 \in Buffers \cup {nullptr}
    /\ newBuffer2 \in Buffers \cup {nullptr}
    /\ buffers \in Seq(Buffers)
    /\ buffersToWrite \in Seq(Buffers)
    /\ written \in Nat
    /\ pc \in {"unborn", "loop", "waiting", "taken", "write", "refill"}
    /\ file \in Seq(Nat)
    /\ appended \in Nat

(***************************************************************************)
(* A round of the worker.  Its second spare is given away only when the    *)
(* threads have used up nextBuffer, and then a full buffer waits besides   *)
(* the one begun, so that two buffers come back at the end of the round.   *)
(***************************************************************************)
Rounds ==
    /\ pc \in {"unborn", "loop", "waiting"} => buffersToWrite = <<>> /\ written = 0
    /\ pc \in {"taken", "write", "refill"} =>
          newBuffer1 = nullptr /\ (newBuffer2 = nullptr => Len(buffersToWrite) >= 2)
    /\ pc \in {"taken", "write"} => written < Len(buffersToWrite)
    /\ pc = "taken" => written = 0
    /\ pc = "refill" => written = Len(buffersToWrite) /\ written >= 1
    /\ pc \in {"loop", "waiting"} => nullptr \notin {newBuffer1, newBuffer2}
    /\ nextBuffer = nullptr => buffers # <<>>

\* BuffersAreExclusive, pointer by pointer.
PointersApart ==
    /\ currentBuffer \notin {nextBuffer, newBuffer1, newBuffer2}
    /\ nextBuffer # nullptr => nextBuffer \notin {newBuffer1, newBuffer2}
    /\ newBuffer1 # nullptr => newBuffer1 # newBuffer2

\* The buffers that one pointer each points to.
Pointed == {currentBuffer, nextBuffer, newBuffer1, newBuffer2}

ListsApart ==
    /\ IsInjective(buffers)
    /\ IsInjective(buffersToWrite)
    /\ \A i \in DOMAIN buffers : buffers[i] \notin Pointed
    /\ \A i \in DOMAIN buffersToWrite : buffersToWrite[i] \notin Pointed
    /\ \A i \in DOMAIN buffers, j \in DOMAIN buffersToWrite : buffers[i] # buffersToWrite[j]

SparesEmpty ==
    \A b \in {nextBuffer, newBuffer1, newBuffer2} : b # nullptr => content[b] = <<>>

ExclusiveIInv == LogTypes /\ Rounds /\ PointersApart /\ ListsApart /\ SparesEmpty

\* The invariant is what BuffersAreExclusive says.
LEMMA ExclusiveSpelled == ExclusiveIInv => BuffersAreExclusive
<1> SUFFICES ASSUME ExclusiveIInv PROVE BuffersAreExclusive
  OBVIOUS
<1> DEFINE single == <<currentBuffer, nextBuffer, newBuffer1, newBuffer2>>
<1>0. /\ single[1] = currentBuffer /\ single[2] = nextBuffer
      /\ single[3] = newBuffer1 /\ single[4] = newBuffer2
  OBVIOUS
<1>1. \A i \in 1..4 : i = 1 \/ i = 2 \/ i = 3 \/ i = 4
  OBVIOUS
<1>2. \A i \in 2..4 : i = 2 \/ i = 3 \/ i = 4
  OBVIOUS
<1> HIDE DEF single
<1>3. \A i, j \in 1..4 : single[i] = single[j] /\ single[i] # nullptr => i = j
  BY <1>0, <1>1 DEF ExclusiveIInv, PointersApart
<1>4. \A i \in 1..4 : single[i] \in Pointed
  BY <1>0, <1>1 DEF Pointed
<1>5. \A i \in 1..4 : single[i] \notin ToSet(buffers) \cup ToSet(buffersToWrite)
  BY <1>4 DEF ExclusiveIInv, ListsApart, ToSet
<1>6. \A i \in 2..4 : single[i] # nullptr => content[single[i]] = <<>>
  BY <1>0, <1>2 DEF ExclusiveIInv, SparesEmpty
<1>7. ToSet(buffers) \cap ToSet(buffersToWrite) = {}
  BY DEF ExclusiveIInv, ListsApart, ToSet
<1> QED
  BY <1>3, <1>5, <1>6, <1>7 DEF ExclusiveIInv, ListsApart, Rounds, BuffersAreExclusive, single

\* new Buffer finds memory that nothing points to.
LEMMA NewIsFresh ==
    ASSUME ~IsFiniteSet(Buffers), NEW used, IsFiniteSet(used)
    PROVE  NewBuffer(used) \in Buffers /\ NewBuffer(used) \notin used
<1>1. \E b \in Buffers : b \notin used
  <2> SUFFICES ASSUME Buffers \subseteq used PROVE FALSE
    OBVIOUS
  <2> QED
    BY FS_Subset
<1> QED
  BY <1>1 DEF NewBuffer

\* Only finitely many buffers are in use.
LEMMA InUseFinite ==
    ASSUME LogTypes
    PROVE  /\ IsFiniteSet(InUse)
           /\ \A b \in Buffers : b \notin InUse =>
                 /\ b \notin Pointed
                 /\ \A i \in DOMAIN buffers : buffers[i] # b
                 /\ \A i \in DOMAIN buffersToWrite : buffersToWrite[i] # b
<1>1. ASSUME NEW s \in Seq(Buffers) PROVE IsFiniteSet(ToSet(s))
  <2>1. DOMAIN s = 1..Len(s) /\ Len(s) \in Nat
    OBVIOUS
  <2> DEFINE D == 1..Len(s)
  <2>2. IsFiniteSet(D)
    BY <2>1, FS_Interval
  <2>3. s \in [D -> ToSet(s)] /\ \A x \in ToSet(s) : \E i \in D : s[i] = x
    BY <2>1 DEF ToSet
  <2> HIDE DEF D
  <2>4. s \in Surjection(D, ToSet(s))
    BY <2>3, Fun_IsSurj
  <2> QED
    BY <2>2, <2>4, FS_Surjection
<1>2. IsFiniteSet({currentBuffer, nextBuffer, newBuffer1, newBuffer2} \ {nullptr})
  <2>1. IsFiniteSet({currentBuffer, nextBuffer, newBuffer1, newBuffer2})
    <3>1. IsFiniteSet({}) /\ IsFiniteSet({} \cup {currentBuffer})
      BY FS_EmptySet, FS_AddElement
    <3>2. IsFiniteSet({} \cup {currentBuffer} \cup {nextBuffer})
      BY <3>1, FS_AddElement
    <3>3. IsFiniteSet({} \cup {currentBuffer} \cup {nextBuffer} \cup {newBuffer1})
      BY <3>2, FS_AddElement
    <3>4. IsFiniteSet({} \cup {currentBuffer} \cup {nextBuffer} \cup {newBuffer1} \cup {newBuffer2})
      BY <3>3, FS_AddElement
    <3>5. {} \cup {currentBuffer} \cup {nextBuffer} \cup {newBuffer1} \cup {newBuffer2}
            = {currentBuffer, nextBuffer, newBuffer1, newBuffer2}
      OBVIOUS
    <3> QED
      BY <3>4, <3>5
  <2> QED
    BY <2>1, FS_Subset
<1>3. IsFiniteSet(ToSet(buffers)) /\ IsFiniteSet(ToSet(buffersToWrite))
  BY <1>1 DEF LogTypes
<1>4. IsFiniteSet(InUse)
  BY <1>2, <1>3, FS_Union DEF InUse
<1>5. \A b \in Buffers : b \notin InUse =>
         /\ b \notin Pointed
         /\ \A i \in DOMAIN buffers : buffers[i] # b
         /\ \A i \in DOMAIN buffersToWrite : buffersToWrite[i] # b
  BY LoggingAssumption DEF InUse, Pointed, ToSet
<1> QED
  BY <1>4, <1>5

\* A list with a new element at its end.
LEMMA AppendApart ==
    ASSUME NEW S, NEW s \in Seq(S), NEW x \in S
    PROVE  /\ Append(s, x) \in Seq(S) /\ Append(s, x) # <<>>
           /\ Len(s) \in Nat /\ DOMAIN s = 1..Len(s)
           /\ Len(Append(s, x)) = Len(s) + 1 /\ DOMAIN Append(s, x) = 1..(Len(s) + 1)
           /\ Append(s, x)[Len(s) + 1] = x
           /\ \A i \in DOMAIN s : Append(s, x)[i] = s[i]
           /\ \A i \in DOMAIN Append(s, x) : i \in DOMAIN s \/ i = Len(s) + 1
           /\ \A i \in DOMAIN Append(s, x) : Append(s, x)[i] = x \/ \E j \in DOMAIN s : Append(s, x)[i] = s[j]
           /\ IsInjective(s) /\ (\A i \in DOMAIN s : s[i] # x) => IsInjective(Append(s, x))
<1>1. /\ Append(s, x) \in Seq(S)
      /\ Len(s) \in Nat /\ DOMAIN s = 1..Len(s)
      /\ Len(Append(s, x)) = Len(s) + 1 /\ DOMAIN Append(s, x) = 1..(Len(s) + 1)
      /\ Append(s, x)[Len(s) + 1] = x
      /\ \A i \in DOMAIN s : Append(s, x)[i] = s[i]
  OBVIOUS
<1>2. Append(s, x) # <<>>
  BY <1>1
<1> PICK n, t : n = Len(s) /\ t = Append(s, x)
  OBVIOUS
<1>3. \A i \in 1..(n + 1) : i \in 1..n \/ i = n + 1
  BY <1>1
<1>4. \A i \in DOMAIN t : i \in DOMAIN s \/ i = n + 1
  BY <1>1, <1>3
<1>5. ASSUME IsInjective(s), \A i \in DOMAIN s : s[i] # x PROVE IsInjective(t)
  BY <1>1, <1>4, <1>5 DEF IsInjective
<1> QED
  BY <1>1, <1>2, <1>4, <1>5

\* Writing lines to a buffer that is no spare one, or emptying buffers, leaves
\* the spare ones empty.
LEMMA AppendHereKeeps ==
    ASSUME ExclusiveIInv, AppendHere, UNCHANGED <<worker, file>>
    PROVE  ExclusiveIInv'
<1>1. /\ UNCHANGED <<currentBuffer, nextBuffer, buffers, newBuffer1, newBuffer2,
                     buffersToWrite, written, pc, file>>
      /\ appended' = appended + 1
      /\ content' = [content EXCEPT ![currentBuffer] = Append(@, appended')]
  BY DEF AppendHere, shared, worker
<1>2. LogTypes'
  <2>1. appended' \in Nat /\ content[currentBuffer] \in Seq(Nat)
    BY <1>1 DEF ExclusiveIInv, LogTypes
  <2>2. content' \in [Buffers -> Seq(Nat)]
    BY <1>1, <2>1 DEF ExclusiveIInv, LogTypes
  <2> QED
    BY <1>1, <2>1, <2>2 DEF ExclusiveIInv, LogTypes
<1>3. SparesEmpty'
  <2> SUFFICES ASSUME NEW b \in {nextBuffer, newBuffer1, newBuffer2}, b # nullptr
               PROVE  content'[b] = <<>>
    BY <1>1 DEF SparesEmpty
  <2>1. b \in Buffers /\ b # currentBuffer
    BY DEF ExclusiveIInv, LogTypes, PointersApart
  <2> QED
    BY <1>1, <2>1 DEF ExclusiveIInv, LogTypes, SparesEmpty
<1>4. Rounds' /\ PointersApart' /\ ListsApart'
  BY <1>1 DEF ExclusiveIInv, Rounds, PointersApart, ListsApart, Pointed
<1> QED
  BY <1>2, <1>3, <1>4 DEF ExclusiveIInv

\* The full buffer joins the list, and another one takes its place.
LEMMA AppendToNextKeeps ==
    ASSUME ~IsFiniteSet(Buffers), ExclusiveIInv, AppendToNext, UNCHANGED <<worker, file>>
    PROVE  /\ ExclusiveIInv'
           /\ currentBuffer' \in Buffers /\ currentBuffer' # currentBuffer
           /\ \A i \in DOMAIN buffers : buffers[i] # currentBuffer'
           /\ \A i \in DOMAIN buffersToWrite : buffersToWrite[i] # currentBuffer'
           /\ content' = [content EXCEPT ![currentBuffer'] = <<appended'>>]
<1>1. /\ UNCHANGED <<newBuffer1, newBuffer2, buffersToWrite, written, pc, file>>
      /\ appended' = appended + 1
      /\ buffers' = Append(buffers, currentBuffer)
      /\ currentBuffer' = IF nextBuffer # nullptr THEN nextBuffer ELSE NewBuffer(InUse)
      /\ nextBuffer' = nullptr
      /\ content' = [content EXCEPT ![currentBuffer'] =
                         (IF nextBuffer # nullptr THEN @ ELSE <<>>) \o <<appended'>>]
  BY DEF AppendToNext, worker
<1>2. /\ currentBuffer' \in Buffers
      /\ currentBuffer' \notin {currentBuffer, newBuffer1, newBuffer2}
      /\ \A i \in DOMAIN buffers : buffers[i] # currentBuffer'
      /\ \A i \in DOMAIN buffersToWrite : buffersToWrite[i] # currentBuffer'
  <2>1. CASE nextBuffer # nullptr
    BY <1>1, <2>1 DEF ExclusiveIInv, LogTypes, PointersApart, ListsApart, Pointed
  <2>2. CASE nextBuffer = nullptr
    <3>1. NewBuffer(InUse) \in Buffers /\ NewBuffer(InUse) \notin InUse
      BY InUseFinite, NewIsFresh DEF ExclusiveIInv
    <3> QED
      BY <1>1, <2>2, <3>1, InUseFinite DEF ExclusiveIInv, Pointed
  <2> QED
    BY <2>1, <2>2
<1>3. appended' \in Nat /\ content' = [content EXCEPT ![currentBuffer'] = <<appended'>>]
  <2>1. appended' \in Nat /\ <<>> \o <<appended'>> = <<appended'>>
    BY <1>1 DEF ExclusiveIInv, LogTypes
  <2>2. nextBuffer # nullptr => content[nextBuffer] = <<>>
    BY DEF ExclusiveIInv, SparesEmpty
  <2> QED
    BY <1>1, <1>2, <2>1, <2>2
<1> HIDE DEF Pointed
<1>4. LogTypes'
  <2>1. content' \in [Buffers -> Seq(Nat)]
    BY <1>2, <1>3 DEF ExclusiveIInv, LogTypes
  <2>2. buffers' \in Seq(Buffers)
    BY <1>1 DEF ExclusiveIInv, LogTypes
  <2> QED
    BY <1>1, <1>2, <1>3, <2>1, <2>2 DEF ExclusiveIInv, LogTypes
<1> PICK old, full : old = buffers /\ full = currentBuffer
  OBVIOUS
<1>5. /\ old \in Seq(Buffers) /\ full \in Buffers /\ buffers' = Append(old, full)
      /\ \A i \in DOMAIN old : old[i] # full
  BY <1>1 DEF ExclusiveIInv, LogTypes, ListsApart, Pointed
<1>6. /\ IsInjective(buffers') /\ buffers' # <<>>
      /\ \A i \in DOMAIN buffers' : buffers'[i] = full \/ \E j \in DOMAIN old : buffers'[i] = old[j]
  BY <1>5, AppendApart DEF ExclusiveIInv, ListsApart
<1>7. full \in Buffers /\ full # nullptr
  BY <1>5, LoggingAssumption
<1>8. Rounds'
  BY <1>1, <1>6 DEF ExclusiveIInv, Rounds
<1>9. PointersApart'
  BY <1>1, <1>2, LoggingAssumption DEF ExclusiveIInv, PointersApart
<1>10. ListsApart'
  <2>1. \A i \in DOMAIN buffers' : buffers'[i] \in Buffers
    BY <1>4 DEF LogTypes
  <2>2. \A i \in DOMAIN buffers' : buffers'[i] \notin Pointed'
    BY <1>1, <1>2, <1>6, <2>1, LoggingAssumption
       DEF ExclusiveIInv, ListsApart, PointersApart, Pointed
  <2>3. \A i \in DOMAIN buffersToWrite :
           buffersToWrite[i] \notin Pointed' /\ buffersToWrite[i] # full
    BY <1>1, <1>2, LoggingAssumption DEF ExclusiveIInv, LogTypes, ListsApart, Pointed
  <2>4. \A i \in DOMAIN buffers', j \in DOMAIN buffersToWrite : buffers'[i] # buffersToWrite[j]
    BY <1>6, <2>3 DEF ExclusiveIInv, ListsApart
  <2> QED
    BY <1>1, <1>6, <2>2, <2>3, <2>4 DEF ExclusiveIInv, ListsApart
<1>11. SparesEmpty'
  BY <1>1, <1>2, <1>3 DEF ExclusiveIInv, LogTypes, SparesEmpty
<1> QED
  BY <1>2, <1>3, <1>4, <1>8, <1>9, <1>10, <1>11 DEF ExclusiveIInv

\* The worker gets its first two spare buffers.
LEMMA StartKeeps ==
    ASSUME ~IsFiniteSet(Buffers), ExclusiveIInv, start
    PROVE  /\ ExclusiveIInv'
           /\ newBuffer1' \notin InUse /\ newBuffer2' \notin InUse
<1>1. /\ pc = "unborn" /\ pc' = "loop"
      /\ newBuffer1' = NewBuffer(InUse)
      /\ newBuffer2' = NewBuffer(InUse \cup {newBuffer1'})
      /\ content' = [content EXCEPT ![newBuffer1'] = <<>>, ![newBuffer2'] = <<>>]
      /\ UNCHANGED <<currentBuffer, nextBuffer, buffers, buffersToWrite, written, file, appended>>
  BY DEF start, shared
<1> PICK one, two : one = newBuffer1' /\ two = newBuffer2'
  OBVIOUS
<1>2. one \in Buffers /\ one \notin InUse
  BY <1>1, InUseFinite, NewIsFresh DEF ExclusiveIInv
<1>3. two \in Buffers /\ two \notin InUse /\ two # one
  <2>1. IsFiniteSet(InUse \cup {one})
    BY InUseFinite, FS_AddElement DEF ExclusiveIInv
  <2>2. NewBuffer(InUse \cup {one}) \in Buffers /\ NewBuffer(InUse \cup {one}) \notin InUse \cup {one}
    BY <2>1, NewIsFresh
  <2> QED
    BY <1>1, <2>2
<1>4. \A b \in {one, two} : /\ b \notin Pointed
                            /\ \A i \in DOMAIN buffers : buffers[i] # b
                            /\ \A i \in DOMAIN buffersToWrite : buffersToWrite[i] # b
  BY <1>2, <1>3, InUseFinite DEF ExclusiveIInv
<1>5. one # nullptr /\ two # nullptr
  BY <1>2, <1>3, LoggingAssumption
<1>6. LogTypes'
  <2>1. <<>> \in Seq(Nat) /\ content \in [Buffers -> Seq(Nat)]
    BY DEF ExclusiveIInv, LogTypes
  <2>2. content' = [content EXCEPT ![one] = <<>>, ![two] = <<>>]
    BY <1>1
  <2>3. content' \in [Buffers -> Seq(Nat)]
    BY <2>1, <2>2
  <2> QED
    BY <1>1, <1>2, <1>3, <2>3 DEF ExclusiveIInv, LogTypes
<1>7. Rounds'
  BY <1>1, <1>5 DEF ExclusiveIInv, Rounds
<1>8. PointersApart'
  BY <1>1, <1>3, <1>4, <1>5 DEF ExclusiveIInv, PointersApart, Pointed
<1>9. ListsApart'
  BY <1>1, <1>4 DEF ExclusiveIInv, ListsApart, Pointed
<1>10. SparesEmpty'
  <2>1. content'[one] = <<>> /\ content'[two] = <<>>
    BY <1>1, <1>2, <1>3 DEF ExclusiveIInv, LogTypes
  <2>2. nextBuffer # nullptr => content'[nextBuffer] = content[nextBuffer]
    BY <1>1, <1>4 DEF ExclusiveIInv, LogTypes, Pointed
  <2> QED
    BY <1>1, <2>1, <2>2 DEF ExclusiveIInv, SparesEmpty
<1> QED
  BY <1>2, <1>3, <1>6, <1>7, <1>8, <1>9, <1>10 DEF ExclusiveIInv

\* The worker takes the threads' buffers and leaves its spares.
LEMMA TakeKeeps ==
    ASSUME ExclusiveIInv, pc \in {"loop", "waiting"}, TakeBuffers
    PROVE  /\ ExclusiveIInv'
           /\ buffersToWrite = <<>> /\ written = 0 /\ written' = 0
           /\ buffersToWrite' = Append(buffers, currentBuffer) /\ buffers' = <<>>
           /\ currentBuffer' = newBuffer1 /\ newBuffer1 \in Buffers
           /\ content[newBuffer1] = <<>>
           /\ UNCHANGED <<content, file, appended>>
<1>1. /\ pc' = "taken"
      /\ buffersToWrite' = Append(buffers, currentBuffer)
      /\ buffers' = <<>>
      /\ currentBuffer' = newBuffer1
      /\ newBuffer1' = nullptr
      /\ nextBuffer' = IF nextBuffer = nullptr THEN newBuffer2 ELSE nextBuffer
      /\ newBuffer2' = IF nextBuffer = nullptr THEN nullptr ELSE newBuffer2
      /\ UNCHANGED <<content, written, file, appended>>
  BY DEF TakeBuffers
<1>2. /\ buffersToWrite = <<>> /\ written = 0
      /\ newBuffer1 # nullptr /\ newBuffer2 # nullptr
      /\ newBuffer1 \in Buffers /\ newBuffer2 \in Buffers
  BY DEF ExclusiveIInv, LogTypes, Rounds
<1> PICK old, full : old = buffers /\ full = currentBuffer
  OBVIOUS
<1>3. /\ old \in Seq(Buffers) /\ full \in Buffers /\ buffersToWrite' = Append(old, full)
      /\ \A i \in DOMAIN old : old[i] # full
  BY <1>1 DEF ExclusiveIInv, LogTypes, ListsApart, Pointed
<1>4. /\ Len(old) \in Nat /\ Len(buffersToWrite') = Len(old) + 1
      /\ buffersToWrite' \in Seq(Buffers) /\ IsInjective(buffersToWrite')
      /\ \A i \in DOMAIN buffersToWrite' :
            buffersToWrite'[i] = full \/ \E j \in DOMAIN old : buffersToWrite'[i] = old[j]
  BY <1>3, AppendApart DEF ExclusiveIInv, ListsApart
<1>5. LogTypes'
  BY <1>1, <1>2, <1>4 DEF ExclusiveIInv, LogTypes
<1>6. Rounds'
  <2>1. old # <<>> => Len(old) >= 1
    BY <1>3
  <2>2. newBuffer2' = nullptr => Len(buffersToWrite') >= 2
    BY <1>1, <1>2, <1>4, <2>1 DEF ExclusiveIInv, Rounds
  <2>3. written' < Len(buffersToWrite') /\ written' = 0
    BY <1>1, <1>2, <1>4
  <2>4. nextBuffer' # nullptr
    BY <1>1, <1>2
  <2> QED
    BY <1>1, <2>2, <2>3, <2>4 DEF Rounds
<1>7. PointersApart'
  BY <1>1, <1>2, LoggingAssumption DEF ExclusiveIInv, PointersApart, LogTypes
<1>8. ListsApart'
  <2>1. \A i \in DOMAIN buffersToWrite' : buffersToWrite'[i] \in Buffers
    BY <1>5 DEF LogTypes
  <2>2. Pointed' \subseteq {nextBuffer, newBuffer1, newBuffer2, nullptr}
    BY <1>1 DEF Pointed
  <2>3. full \notin {nextBuffer, newBuffer1, newBuffer2, nullptr}
    BY <1>3, LoggingAssumption DEF ExclusiveIInv, PointersApart
  <2>4. \A j \in DOMAIN old : old[j] \notin {nextBuffer, newBuffer1, newBuffer2, nullptr}
    BY <1>3, LoggingAssumption DEF ExclusiveIInv, ListsApart, Pointed
  <2>5. \A i \in DOMAIN buffersToWrite' : buffersToWrite'[i] \notin Pointed'
    BY <1>4, <2>2, <2>3, <2>4
  <2>6. DOMAIN buffers' = {} /\ IsInjective(buffers')
    BY <1>1 DEF IsInjective
  <2> QED
    BY <1>4, <2>5, <2>6 DEF ListsApart
<1>9. SparesEmpty'
  BY <1>1, <1>2 DEF ExclusiveIInv, SparesEmpty
<1>10. content[newBuffer1] = <<>>
  BY <1>2 DEF ExclusiveIInv, SparesEmpty
<1> QED
  BY <1>1, <1>2, <1>5, <1>6, <1>7, <1>8, <1>9, <1>10 DEF ExclusiveIInv

\* The worker drops what is too much, or nothing.
LEMMA TrimKeeps ==
    ASSUME ExclusiveIInv, Trim
    PROVE  /\ ExclusiveIInv'
           /\ written = 0 /\ written' = 0
           /\ \/ UNCHANGED <<buffersToWrite, file>>
              \/ /\ Len(buffersToWrite') = 2 /\ Len(buffersToWrite) > 2
                 /\ \A i \in 1..2 : buffersToWrite'[i] = buffersToWrite[i]
                 /\ file' = Append(file, 0)
           /\ UNCHANGED <<content, currentBuffer, buffers, appended>>
<1>1. /\ pc = "taken" /\ pc' = "write"
      /\ UNCHANGED <<content, currentBuffer, nextBuffer, buffers, newBuffer1, newBuffer2,
                     written, appended>>
  BY DEF Trim, shared
<1>2. CASE UNCHANGED <<buffersToWrite, file>>
  BY <1>1, <1>2 DEF ExclusiveIInv, LogTypes, Rounds, PointersApart, ListsApart, SparesEmpty, Pointed
<1>3. CASE /\ Len(buffersToWrite) > MaxBuffers
           /\ buffersToWrite' = SubSeq(buffersToWrite, 1, 2)
           /\ file' = Append(file, 0)
  <2>1. /\ buffersToWrite \in Seq(Buffers) /\ Len(buffersToWrite) \in Nat
        /\ Len(buffersToWrite) > 2
    BY <1>3, LoggingAssumption DEF ExclusiveIInv, LogTypes
  <2>2. /\ buffersToWrite' \in Seq(Buffers) /\ Len(buffersToWrite') = 2
        /\ \A i \in 1..2 : buffersToWrite'[i] = buffersToWrite[i]
        /\ DOMAIN buffersToWrite' = 1..2 /\ 1..2 \subseteq DOMAIN buffersToWrite
    BY <1>3, <2>1
  <2>3. LogTypes'
    <3>1. file' \in Seq(Nat)
      BY <1>3 DEF ExclusiveIInv, LogTypes
    <3> QED
      BY <1>1, <2>2, <3>1 DEF ExclusiveIInv, LogTypes
  <2>4. Rounds'
    BY <1>1, <2>2 DEF ExclusiveIInv, Rounds
  <2>5. ListsApart'
    BY <1>1, <2>2 DEF ExclusiveIInv, ListsApart, IsInjective, Pointed
  <2>6. PointersApart' /\ SparesEmpty'
    BY <1>1 DEF ExclusiveIInv, PointersApart, SparesEmpty
  <2>7. written = 0 /\ written' = 0
    BY <1>1 DEF ExclusiveIInv, Rounds
  <2> QED
    BY <1>1, <1>3, <2>1, <2>2, <2>3, <2>4, <2>5, <2>6, <2>7 DEF ExclusiveIInv
<1> QED
  BY <1>2, <1>3 DEF Trim

\* The worker writes a buffer that no thread touches.
LEMMA WriteKeeps ==
    ASSUME ExclusiveIInv, Write
    PROVE  /\ ExclusiveIInv'
           /\ written' = written + 1 /\ written < Len(buffersToWrite)
           /\ file' = file \o content[buffersToWrite[written + 1]]
           /\ UNCHANGED <<content, currentBuffer, buffers, buffersToWrite, appended>>
<1>1. /\ pc = "write" /\ written' = written + 1
      /\ file' = file \o content[buffersToWrite[written + 1]]
      /\ pc' = IF written' = Len(buffersToWrite) THEN "refill" ELSE "write"
      /\ UNCHANGED <<content, currentBuffer, nextBuffer, buffers, newBuffer1, newBuffer2,
                     buffersToWrite, appended>>
  BY DEF Write, shared
<1>2. /\ written < Len(buffersToWrite) /\ written \in Nat /\ Len(buffersToWrite) \in Nat
      /\ written + 1 \in DOMAIN buffersToWrite
  BY <1>1 DEF ExclusiveIInv, LogTypes, Rounds
<1>3. LogTypes'
  <2>1. content[buffersToWrite[written + 1]] \in Seq(Nat)
    BY <1>2 DEF ExclusiveIInv, LogTypes
  <2>2. file' \in Seq(Nat)
    BY <1>1, <2>1 DEF ExclusiveIInv, LogTypes
  <2> QED
    BY <1>1, <1>2, <2>2 DEF ExclusiveIInv, LogTypes
<1>4. Rounds'
  BY <1>1, <1>2 DEF ExclusiveIInv, Rounds
<1>5. ListsApart' /\ PointersApart' /\ SparesEmpty'
  BY <1>1 DEF ExclusiveIInv, ListsApart, PointersApart, SparesEmpty, Pointed
<1> QED
  BY <1>1, <1>2, <1>3, <1>4, <1>5 DEF ExclusiveIInv

\* The spares come back: the second of the buffers written, or the only one,
\* becomes newBuffer1, and the first becomes newBuffer2 if that was given away.
LEMMA RefillKeeps ==
    ASSUME ExclusiveIInv, Refill
    PROVE  /\ ExclusiveIInv'
           /\ written = Len(buffersToWrite) /\ written' = 0 /\ buffersToWrite' = <<>>
           /\ \A b \in Buffers :
                 \/ content'[b] = content[b]
                 \/ content'[b] = <<>> /\ \E i \in DOMAIN buffersToWrite : b = buffersToWrite[i]
           /\ UNCHANGED <<currentBuffer, buffers, file, appended>>
<1> DEFINE w    == IF written > 2 THEN 2 ELSE written
           kept == SubSeq(buffersToWrite, 1, w)
           left == IF newBuffer1 = nullptr THEN Front(kept) ELSE kept
           one  == IF newBuffer1 = nullptr THEN Last(kept) ELSE newBuffer1
           two  == IF newBuffer2 = nullptr
                   THEN IF left = <<>> THEN nullptr ELSE Last(left)
                   ELSE newBuffer2
<1>1. /\ pc = "refill" /\ pc' = "loop"
      /\ newBuffer1' = one /\ newBuffer2' = two
      /\ content' = [b \in Buffers |->
                        IF b \in {one, two} \ {newBuffer1, newBuffer2} THEN <<>> ELSE content[b]]
      /\ buffersToWrite' = <<>> /\ written' = 0
      /\ UNCHANGED <<currentBuffer, nextBuffer, buffers, file, appended>>
  BY DEF Refill, shared
<1>2. /\ written = Len(buffersToWrite) /\ written >= 1 /\ newBuffer1 = nullptr
      /\ newBuffer2 = nullptr => written >= 2
      /\ buffersToWrite \in Seq(Buffers) /\ written \in Nat
      /\ DOMAIN buffersToWrite = 1..written
  BY <1>1 DEF ExclusiveIInv, LogTypes, Rounds
<1>3. w \in 1..2 /\ w <= written /\ (written >= 2 => w = 2)
  BY <1>2
<1> HIDE DEF w
<1>4. /\ kept \in Seq(Buffers) /\ Len(kept) = w
      /\ \A i \in 1..w : kept[i] = buffersToWrite[i]
  BY <1>2, <1>3
<1> HIDE DEF kept
<1>5. one = buffersToWrite[w]
  BY <1>2, <1>3, <1>4 DEF Last
<1>6. left = SubSeq(kept, 1, w - 1)
  BY <1>2, <1>4 DEF Front
<1>7. two = IF newBuffer2 = nullptr THEN buffersToWrite[1] ELSE newBuffer2
  <2>1. CASE newBuffer2 = nullptr
    <3>1. w = 2
      BY <1>2, <1>3, <2>1
    <3>2. left \in Seq(Buffers) /\ Len(left) = 1 /\ left[1] = kept[1]
      <4>1. left = SubSeq(kept, 1, 1)
        BY <1>6, <3>1
      <4> HIDE DEF left
      <4>2. Len(kept) = 2
        BY <1>4, <3>1
      <4> QED
        BY <1>4, <4>1, <4>2
    <3> HIDE DEF left
    <3>3. left # <<>> /\ Last(left) = kept[1]
      BY <3>2, SMTT(30) DEF Last
    <3> QED
      BY <1>4, <2>1, <3>1, <3>3
  <2> QED
    BY <2>1
<1> HIDE DEF one, two
<1>8. /\ 1 \in DOMAIN buffersToWrite /\ w \in DOMAIN buffersToWrite
      /\ newBuffer2 = nullptr => w # 1
  BY <1>2, <1>3
<1>9. /\ one \in Buffers /\ two \in Buffers /\ one # two
      /\ one \notin Pointed /\ two \notin Pointed \ {newBuffer2}
  <2>1. one \in Buffers /\ one \notin Pointed
    BY <1>2, <1>5, <1>8 DEF ExclusiveIInv, ListsApart
  <2>2. CASE newBuffer2 = nullptr
    <3>1. two = buffersToWrite[1] /\ w # 1
      BY <1>7, <1>8, <2>2
    <3>2. one # two
      BY <1>5, <1>8, <3>1 DEF ExclusiveIInv, ListsApart, IsInjective
    <3>3. two \in Buffers /\ two \notin Pointed
      BY <1>2, <1>8, <3>1 DEF ExclusiveIInv, ListsApart
    <3> QED
      BY <2>1, <3>2, <3>3
  <2>3. CASE newBuffer2 # nullptr
    <3>1. two = newBuffer2 /\ two \in Buffers
      BY <1>7, <2>3 DEF ExclusiveIInv, LogTypes
    <3>2. one # two
      BY <2>1, <3>1 DEF Pointed
    <3> QED
      BY <2>1, <3>1, <3>2 DEF ExclusiveIInv, PointersApart, Pointed
  <2> QED
    BY <2>2, <2>3
<1>10. one # nullptr /\ two # nullptr
  BY <1>9, LoggingAssumption
<1>11. \A i \in DOMAIN buffers : buffers[i] # one /\ buffers[i] # two
  BY <1>5, <1>7, <1>8 DEF ExclusiveIInv, ListsApart, Pointed
<1>12. ASSUME NEW b \in Buffers
       PROVE  \/ content'[b] = content[b]
              \/ content'[b] = <<>> /\ \E i \in DOMAIN buffersToWrite : b = buffersToWrite[i]
  BY <1>1, <1>5, <1>7, <1>8
<1>13. LogTypes'
  <2>1. content' \in [Buffers -> Seq(Nat)]
    <3>1. <<>> \in Seq(Nat) /\ content \in [Buffers -> Seq(Nat)]
      BY DEF ExclusiveIInv, LogTypes
    <3>2. \A b \in Buffers : content'[b] \in Seq(Nat)
      BY <1>12, <3>1
    <3> QED
      BY <1>1, <3>2
  <2> QED
    BY <1>1, <1>9, <2>1 DEF ExclusiveIInv, LogTypes
<1>14. Rounds'
  BY <1>1, <1>10 DEF ExclusiveIInv, Rounds
<1>15. PointersApart'
  BY <1>1, <1>9, <1>10 DEF ExclusiveIInv, PointersApart, Pointed
<1>16. ListsApart'
  <2>1. DOMAIN buffersToWrite' = {} /\ IsInjective(buffersToWrite')
    BY <1>1 DEF IsInjective
  <2> QED
    BY <1>1, <1>11, <2>1 DEF ExclusiveIInv, ListsApart, Pointed
<1>17. SparesEmpty'
  <2>1. content'[one] = <<>>
    BY <1>1, <1>9 DEF Pointed
  <2>2. content'[two] = <<>>
    <3>1. CASE newBuffer2 = nullptr
      BY <1>1, <1>2, <1>9, <1>10, <3>1
    <3>2. CASE newBuffer2 # nullptr
      BY <1>7, <1>9, <1>12, <3>2 DEF ExclusiveIInv, SparesEmpty
    <3> QED
      BY <3>1, <3>2
  <2>3. nextBuffer # nullptr => content'[nextBuffer] = <<>>
    BY <1>12 DEF ExclusiveIInv, LogTypes, SparesEmpty
  <2> QED
    BY <1>1, <2>1, <2>2, <2>3 DEF SparesEmpty
<1> QED
  BY <1>1, <1>2, <1>12, <1>13, <1>14, <1>15, <1>16, <1>17 DEF ExclusiveIInv

\* The worker waits, or nothing happens.
LEMMA WaitKeeps ==
    ASSUME ExclusiveIInv,
           UNCHANGED <<content, shared, newBuffer1, newBuffer2, buffersToWrite, written, file,
                       appended>>,
           pc' = pc \/ (pc = "loop" /\ pc' = "waiting")
    PROVE  ExclusiveIInv'
BY DEF shared, ExclusiveIInv, LogTypes, Rounds, PointersApart, ListsApart, SparesEmpty, Pointed

\* The program starts with two empty buffers.
LEMMA InitExclusive ==
    ASSUME ~IsFiniteSet(Buffers), Init
    PROVE  ExclusiveIInv
<1>1. NewBuffer({}) \in Buffers
  BY FS_EmptySet, NewIsFresh
<1>2. /\ NewBuffer({NewBuffer({})}) \in Buffers
      /\ NewBuffer({NewBuffer({})}) # NewBuffer({})
  <2> PICK b : b = NewBuffer({})
    OBVIOUS
  <2>1. IsFiniteSet({b})
    BY FS_Singleton
  <2>2. NewBuffer({b}) \in Buffers /\ NewBuffer({b}) \notin {b}
    BY <2>1, NewIsFresh
  <2> QED
    BY <2>2
<1>3. /\ currentBuffer \in Buffers /\ nextBuffer \in Buffers /\ currentBuffer # nextBuffer
      /\ buffers = <<>> /\ buffersToWrite = <<>> /\ file = <<>>
      /\ newBuffer1 = nullptr /\ newBuffer2 = nullptr
      /\ written = 0 /\ appended = 0 /\ pc = "unborn"
      /\ content = [b \in Buffers |-> <<>>]
  BY <1>1, <1>2 DEF Init
<1>4. LogTypes
  <2>1. content \in [Buffers -> Seq(Nat)]
    BY <1>3
  <2> QED
    BY <1>3, <2>1 DEF LogTypes
<1>5. DOMAIN buffers = {} /\ DOMAIN buffersToWrite = {}
  BY <1>3
<1>6. ListsApart
  BY <1>5 DEF ListsApart, IsInjective
<1> QED
  BY <1>3, <1>4, <1>6, LoggingAssumption
     DEF ExclusiveIInv, Rounds, PointersApart, SparesEmpty

\* Every step of the threads and of the worker keeps the buffers apart.
LEMMA ExclusiveInvariant ==
    ASSUME ~IsFiniteSet(Buffers)
    PROVE  Spec => []ExclusiveIInv
<1>1. ExclusiveIInv /\ [Next]_vars => ExclusiveIInv'
  <2> SUFFICES ASSUME ExclusiveIInv, [Next]_vars PROVE ExclusiveIInv'
    OBVIOUS
  <2>1. CASE append
    BY <2>1, AppendHereKeeps, AppendToNextKeeps DEF append
  <2>2. CASE start
    BY <2>2, StartKeeps
  <2>3. CASE Lock
    BY <2>3, WaitKeeps, TakeKeeps DEF Lock
  <2>4. CASE Wake
    BY <2>4, TakeKeeps DEF Wake
  <2>5. CASE Trim \/ Write \/ Refill
    BY <2>5, TrimKeeps, WriteKeeps, RefillKeeps
  <2>6. CASE UNCHANGED vars
    BY <2>6, WaitKeeps DEF vars, worker
  <2> QED
    BY <2>1, <2>2, <2>3, <2>4, <2>5, <2>6 DEF Next, threadFunc
<1>2. Init => ExclusiveIInv
  BY InitExclusive
<1> QED
  BY <1>1, <1>2, PTL DEF Spec

(***************************************************************************)
(* No buffer is ever at two places, so the worker writes and empties only  *)
(* buffers that no thread appends to, and it begins every round with two   *)
(* empty spare buffers, as the asserts of threadFunc say.                  *)
(***************************************************************************)
THEOREM BuffersExclusive ==
    ASSUME ~IsFiniteSet(Buffers)
    PROVE  Spec => []BuffersAreExclusive
BY ExclusiveInvariant, ExclusiveSpelled, PTL

-----------------------------------------------------------------------------
(***************************************************************************)
(* NoSilentLoss speaks of the file and of the texts still to be written to *)
(* it.  What the steps do to these is stated without the buffers first.    *)
(***************************************************************************)
Texts == [i \in DOMAIN Pending |-> content[Pending[i]]]

\* The lines are the first n ones.
Numbered(f, texts, n) ==
    /\ \A i \in DOMAIN f : f[i] <= n
    /\ \A i \in DOMAIN texts : \A k \in DOMAIN texts[i] : texts[i][k] \in 1..n

InOrder(f, texts) ==
    /\ Increasing(f)
    /\ \A i \in DOMAIN texts :
          /\ Increasing(texts[i])
          /\ Before(f, texts[i])
          /\ \A j \in DOMAIN texts : i < j => Before(texts[i], texts[j])

\* The file tells of a loss before any line that follows this one.
LossTold(f, line) ==
    \E k \in DOMAIN f : f[k] = 0 /\ \A i \in DOMAIN f : f[i] > line => k < i

Accounted(f, texts, line) ==
    \/ \E i \in DOMAIN f : f[i] = line
    \/ \E i \in DOMAIN texts : \E k \in DOMAIN texts[i] : texts[i][k] = line
    \/ LossTold(f, line)

Kept(f, texts, n) ==
    /\ f \in Seq(Nat) /\ n \in Nat
    /\ \E m \in Nat : texts \in [1..m -> Seq(Nat)]
    /\ Numbered(f, texts, n)
    /\ InOrder(f, texts)
    /\ \A line \in 1..n : Accounted(f, texts, line)

\* A new line goes to the end of the last text.
LEMMA AppendedToLast ==
    ASSUME NEW f, NEW n, NEW m \in Nat, NEW texts \in [1..m -> Seq(Nat)], m >= 1,
           NEW after, after = [texts EXCEPT ![m] = Append(@, n + 1)],
           Kept(f, texts, n)
    PROVE  Kept(f, after, n + 1)
<1> DEFINE last == texts[m]
           size == Len(last)
<1>1. /\ f \in Seq(Nat) /\ n \in Nat /\ last \in Seq(Nat) /\ size \in Nat
      /\ DOMAIN last = 1..size
  BY DEF Kept
<1>2. /\ after \in [1..m -> Seq(Nat)]
      /\ \A i \in 1..m : i # m => after[i] = texts[i]
      /\ DOMAIN after[m] = 1..(size + 1)
      /\ \A k \in 1..size : after[m][k] = last[k]
      /\ after[m][size + 1] = n + 1
  BY <1>1
<1> HIDE DEF last, size
<1>3. \A k \in 1..(size + 1) : k \in 1..size \/ k = size + 1
  BY <1>1
<1>4. \A i \in DOMAIN f : f[i] <= n /\ f[i] \in Nat
  BY <1>1 DEF Kept, Numbered
<1>5. \A i \in 1..m : /\ DOMAIN texts[i] \subseteq Nat
                      /\ \A k \in DOMAIN texts[i] : texts[i][k] \in 1..n
  BY SMTT(30) DEF Kept, Numbered
<1>6. \A i \in 1..m : \A k \in DOMAIN after[i] :
         \/ k \in DOMAIN texts[i] /\ after[i][k] = texts[i][k]
         \/ i = m /\ k = size + 1 /\ after[i][k] = n + 1
  BY <1>1, <1>2, <1>3 DEF last
<1>7. Numbered(f, after, n + 1)
  BY <1>1, <1>2, <1>4, <1>5, <1>6, SMTT(30) DEF Numbered
<1>8. \A i \in 1..m : Increasing(after[i])
  <2>1. Increasing(last)
    BY DEF Kept, InOrder, last
  <2>2. \A k \in 1..size : last[k] \in 1..n
    BY <1>1, <1>5 DEF last
  <2>3. Increasing(after[m])
    BY <1>1, <1>2, <1>3, <2>1, <2>2, SMTT(30) DEF Increasing
  <2> QED
    BY <1>2, <2>3 DEF Kept, InOrder
<1>9. \A i \in 1..m : Before(f, after[i])
  <2> SUFFICES ASSUME NEW i \in 1..m, NEW k \in DOMAIN f, NEW l \in DOMAIN after[i]
               PROVE  f[k] < after[i][l]
    BY DEF Before
  <2>1. Before(f, texts[i]) /\ f[k] \in Nat /\ f[k] <= n
    BY <1>4 DEF Kept, InOrder
  <2>2. CASE l \in DOMAIN texts[i] /\ after[i][l] = texts[i][l]
    BY <2>1, <2>2 DEF Before
  <2>3. CASE after[i][l] = n + 1
    <3>1. \A x \in Nat : x <= n => x < n + 1
      BY <1>1
    <3> QED
      BY <2>1, <2>3, <3>1
  <2> QED
    BY <1>6, <2>2, <2>3
<1>10. \A i, j \in 1..m : i < j => Before(after[i], after[j])
  <2> SUFFICES ASSUME NEW i \in 1..m, NEW j \in 1..m, i < j,
                      NEW k \in DOMAIN after[i], NEW l \in DOMAIN after[j]
               PROVE  after[i][k] < after[j][l]
    BY DEF Before
  <2>1. Before(texts[i], texts[j]) /\ i # m
    BY DEF Kept, InOrder
  <2>2. k \in DOMAIN texts[i] /\ after[i][k] = texts[i][k] /\ texts[i][k] \in 1..n
    BY <1>5, <1>6, <2>1
  <2>3. CASE l \in DOMAIN texts[j] /\ after[j][l] = texts[j][l]
    BY <2>1, <2>2, <2>3 DEF Before
  <2>4. CASE after[j][l] = n + 1
    <3>1. \A x \in 1..n : x < n + 1
      BY <1>1
    <3> QED
      BY <2>2, <2>4, <3>1
  <2> QED
    BY <1>6, <2>3, <2>4
<1>11. InOrder(f, after)
  BY <1>2, <1>8, <1>9, <1>10 DEF Kept, InOrder
<1>12. ASSUME NEW line \in 1..(n + 1) PROVE Accounted(f, after, line)
  <2>1. CASE line = n + 1
    BY <1>1, <1>2, <2>1 DEF Accounted
  <2>2. CASE line \in 1..n
    <3>1. Accounted(f, texts, line)
      BY <2>2 DEF Kept
    <3>2. \A i \in 1..m : \A k \in DOMAIN texts[i] :
             k \in DOMAIN after[i] /\ after[i][k] = texts[i][k]
      BY <1>1, <1>2 DEF last
    <3>3. DOMAIN after = 1..m /\ DOMAIN texts = 1..m
      BY <1>2
    <3> QED
      BY <3>1, <3>2, <3>3 DEF Accounted
  <2> QED
    BY <1>1, <2>1, <2>2
<1>13. n + 1 \in Nat
  BY <1>1
<1> QED
  BY <1>1, <1>2, <1>7, <1>11, <1>12, <1>13 DEF Kept

\* A text is begun: an empty one, or one with a new line.
LEMMA TextBegun ==
    ASSUME NEW f, NEW n, NEW m \in Nat, NEW texts \in [1..m -> Seq(Nat)],
           NEW after \in [1..(m + 1) -> Seq(Nat)], \A i \in 1..m : after[i] = texts[i],
           NEW now \in Nat,
           \/ now = n /\ after[m + 1] = <<>>
           \/ now = n + 1 /\ after[m + 1] = <<n + 1>>,
           Kept(f, texts, n)
    PROVE  Kept(f, after, now)
<1>1. /\ f \in Seq(Nat) /\ n \in Nat /\ n <= now /\ m + 1 \in Nat
      /\ DOMAIN texts = 1..m /\ DOMAIN after = 1..(m + 1)
      /\ \A i \in 1..(m + 1) : i \in 1..m \/ i = m + 1
      /\ 1..m \subseteq 1..(m + 1) /\ m + 1 \in 1..(m + 1)
  BY DEF Kept
<1>2. \A k \in DOMAIN after[m + 1] : k = 1 /\ now = n + 1 /\ after[m + 1][k] = now
  OBVIOUS
<1>3. /\ \A x \in 1..n : x \in 1..now /\ x <= now
      /\ now = n + 1 => \A x \in Nat : x <= n => x < now
  BY <1>1
<1>4. \A i \in DOMAIN f : f[i] \in Nat /\ f[i] <= n
  BY <1>1, SMTT(30) DEF Kept, Numbered
<1>5. \A i \in 1..m : \A k \in DOMAIN texts[i] : texts[i][k] \in 1..n
  BY DEF Kept, Numbered
<1>6. Numbered(f, after, now)
  <2>1. \A i \in DOMAIN f : f[i] <= now
    BY <1>1, <1>4
  <2>2. \A i \in 1..m : \A k \in DOMAIN after[i] : after[i][k] \in 1..now
    BY <1>3, <1>5
  <2>3. \A k \in DOMAIN after[m + 1] : after[m + 1][k] \in 1..now
    BY <1>1, <1>2
  <2> QED
    BY <1>1, <2>1, <2>2, <2>3 DEF Numbered
<1>7. \A i \in 1..(m + 1) : Increasing(after[i])
  <2>1. Increasing(after[m + 1])
    BY <1>2 DEF Increasing
  <2>2. \A i \in 1..m : Increasing(after[i])
    BY <1>1 DEF Kept, InOrder
  <2> QED
    BY <1>1, <2>1, <2>2
<1>8. \A i \in 1..(m + 1) : Before(f, after[i])
  <2>1. Before(f, after[m + 1])
    BY <1>2, <1>3, <1>4 DEF Before
  <2>2. \A i \in 1..m : Before(f, after[i])
    BY <1>1 DEF Kept, InOrder
  <2> QED
    BY <1>1, <2>1, <2>2
<1>9. \A i, j \in 1..(m + 1) : i < j => Before(after[i], after[j])
  <2>1. \A i \in 1..m : Before(after[i], after[m + 1])
    <3> SUFFICES ASSUME NEW i \in 1..m, NEW k \in DOMAIN after[i], NEW l \in DOMAIN after[m + 1]
                 PROVE  after[i][k] < after[m + 1][l]
      BY DEF Before
    <3>1. after[i][k] \in 1..n
      BY <1>5
    <3>2. now = n + 1 /\ after[m + 1][l] = n + 1
      BY <1>2
    <3>3. \A x \in 1..n : x < n + 1
      BY <1>1
    <3> QED
      BY <3>1, <3>2, <3>3
  <2>2. \A i, j \in 1..m : i < j => Before(after[i], after[j])
    BY <1>1 DEF Kept, InOrder
  <2> SUFFICES ASSUME NEW i \in 1..(m + 1), NEW j \in 1..(m + 1), i < j
               PROVE  Before(after[i], after[j])
    OBVIOUS
  <2>3. i \in 1..m
    OBVIOUS
  <2>4. j \in 1..m \/ j = m + 1
    OBVIOUS
  <2> QED
    BY <2>1, <2>2, <2>3, <2>4
<1>10. InOrder(f, after)
  BY <1>1, <1>7, <1>8, <1>9 DEF Kept, InOrder
<1>11. ASSUME NEW line \in 1..now PROVE Accounted(f, after, line)
  <2>1. CASE line \notin 1..n
    <3>1. now = n + 1 /\ line = n + 1
      BY <1>1, <2>1
    <3>2. 1 \in DOMAIN after[m + 1] /\ after[m + 1][1] = line
      BY <1>1, <3>1
    <3> QED
      BY <1>1, <3>2 DEF Accounted
  <2>2. CASE line \in 1..n
    <3>1. Accounted(f, texts, line)
      BY <2>2 DEF Kept
    <3> QED
      BY <1>1, <3>1 DEF Accounted
  <2> QED
    BY <2>1, <2>2
<1> QED
  BY <1>1, <1>6, <1>10, <1>11 DEF Kept

\* Those that wait are among those before, in the same order.
Trimmed(after, before, m, r) ==
    \E from \in [1..r -> 1..m] :
       /\ \A i, j \in 1..r : i < j => from[i] < from[j]
       /\ \A i \in 1..r : after[i] = before[from[i]]

\* Texts are left out, and the file tells so.
LEMMA TextsDropped ==
    ASSUME NEW f, NEW n, NEW m \in Nat, NEW texts \in [1..m -> Seq(Nat)],
           NEW r \in Nat, NEW after \in [1..r -> Seq(Nat)],
           Trimmed(after, texts, m, r),
           NEW told, told = Append(f, 0),
           Kept(f, texts, n)
    PROVE  Kept(told, after, n)
<1> PICK from \in [1..r -> 1..m] : /\ \A i, j \in 1..r : i < j => from[i] < from[j]
                                   /\ \A i \in 1..r : after[i] = texts[from[i]]
  BY DEF Trimmed
<1> PICK size : size = Len(f)
  OBVIOUS
<1>1. /\ f \in Seq(Nat) /\ n \in Nat /\ size \in Nat /\ told \in Seq(Nat)
      /\ DOMAIN f = 1..size /\ DOMAIN told = 1..(size + 1)
      /\ \A i \in 1..size : told[i] = f[i] /\ f[i] \in Nat
      /\ told[size + 1] = 0
      /\ \A i \in 1..(size + 1) : i \in 1..size \/ i = size + 1
      /\ 1..size \subseteq 1..(size + 1) /\ size + 1 \in 1..(size + 1)
  <2>1. f \in Seq(Nat) /\ n \in Nat /\ size \in Nat /\ 0 \in Nat
    BY DEF Kept
  <2>2. /\ told \in Seq(Nat) /\ DOMAIN f = 1..size /\ DOMAIN told = 1..(size + 1)
        /\ \A i \in 1..size : told[i] = f[i]
        /\ told[size + 1] = 0
    BY <2>1, AppendApart
  <2> QED
    BY <2>1, <2>2
<1>2. /\ DOMAIN texts = 1..m /\ DOMAIN after = 1..r
      /\ \A i \in 1..r : from[i] \in 1..m
  OBVIOUS
<1>3. \A i \in 1..m : \A k \in DOMAIN texts[i] : texts[i][k] \in 1..n
  BY DEF Kept, Numbered
<1>4. \A x \in 1..n : 0 < x
  BY <1>1
<1>5. Numbered(told, after, n)
  <2>1. \A i \in 1..size : told[i] <= n
    BY <1>1 DEF Kept, Numbered
  <2>2. \A i \in DOMAIN told : told[i] <= n
    BY <1>1, <2>1
  <2>3. \A i \in 1..r : \A k \in DOMAIN after[i] : after[i][k] \in 1..n
    BY <1>2, <1>3
  <2> QED
    BY <1>2, <2>2, <2>3 DEF Numbered
<1>6. Increasing(told)
  <2> SUFFICES ASSUME NEW i \in 1..(size + 1), NEW j \in 1..(size + 1), i < j, told[j] # 0
               PROVE  told[i] < told[j]
    BY <1>1 DEF Increasing
  <2>1. i \in 1..size /\ j \in 1..size
    BY <1>1
  <2> QED
    BY <1>1, <2>1 DEF Kept, InOrder, Increasing
<1>7. \A i \in 1..m : Before(told, texts[i])
  <2> SUFFICES ASSUME NEW i \in 1..m, NEW k \in 1..(size + 1), NEW l \in DOMAIN texts[i]
               PROVE  told[k] < texts[i][l]
    BY <1>1 DEF Before
  <2>1. CASE k \in 1..size
    BY <1>1, <1>2, <2>1 DEF Kept, InOrder, Before
  <2>2. CASE k = size + 1
    BY <1>1, <1>3, <1>4, <2>2
  <2> QED
    BY <1>1, <2>1, <2>2
<1>8. InOrder(told, after)
  <2>1. \A i \in 1..r : Increasing(after[i]) /\ Before(told, after[i])
    BY <1>2, <1>7 DEF Kept, InOrder
  <2>2. \A i, j \in 1..r : i < j => Before(after[i], after[j])
    BY <1>2 DEF Kept, InOrder
  <2> QED
    BY <1>2, <1>6, <2>1, <2>2 DEF InOrder
<1>9. ASSUME NEW line \in 1..n PROVE Accounted(told, after, line)
  <2>1. Accounted(f, texts, line) /\ 0 < line /\ line \in Nat
    BY <1>1 DEF Kept
  <2>2. CASE \E i \in DOMAIN f : f[i] = line
    BY <1>1, <2>2 DEF Accounted
  <2>3. CASE \E i \in DOMAIN texts : \E k \in DOMAIN texts[i] : texts[i][k] = line
    <3> PICK i \in 1..m : \E k \in DOMAIN texts[i] : texts[i][k] = line
      BY <1>2, <2>3
    <3> PICK k \in DOMAIN texts[i] : texts[i][k] = line
      OBVIOUS
    <3>1. \A l \in 1..(size + 1) : told[l] < line /\ told[l] \in Nat
      <4>1. Before(told, texts[i]) /\ DOMAIN told = 1..(size + 1)
        BY <1>1, <1>7
      <4>2. \A l \in 1..(size + 1) : told[l] < line
        BY <4>1 DEF Before
      <4>3. \A l \in 1..(size + 1) : told[l] \in Nat
        BY <1>1
      <4> QED
        BY <4>2, <4>3
    <3>2. \A l \in DOMAIN told : ~(told[l] > line)
      <4>1. \A x \in Nat : x < line => ~(x > line)
        BY <2>1
      <4>2. DOMAIN told = 1..(size + 1)
        BY <1>1
      <4> QED
        BY <3>1, <4>1, <4>2
    <3>3. LossTold(told, line)
      BY <1>1, <3>2 DEF LossTold
    <3> QED
      BY <3>3 DEF Accounted
  <2>4. CASE LossTold(f, line)
    <3> PICK k \in 1..size : f[k] = 0 /\ \A i \in 1..size : f[i] > line => k < i
      BY <1>1, <2>4 DEF LossTold
    <3>1. \A i \in 1..(size + 1) : told[i] > line => k < i
      BY <1>1, <2>1
    <3>2. LossTold(told, line)
      BY <1>1, <3>1 DEF LossTold
    <3> QED
      BY <3>2 DEF Accounted
  <2> QED
    BY <2>1, <2>2, <2>3, <2>4 DEF Accounted
<1> QED
  BY <1>1, <1>5, <1>8, <1>9 DEF Kept

\* The first of those that waited waits no longer.
Shorter(after, before, m, r, first) ==
    /\ r + 1 = m /\ before[1] = first
    /\ \A i \in 1..r : after[i] = before[i + 1]

\* The first of m texts is written to the file.
Writes(f, m, texts, longer, r, after) ==
    /\ m \in Nat /\ m >= 1 /\ texts \in [1..m -> Seq(Nat)]
    /\ r \in Nat /\ after \in [1..r -> Seq(Nat)]
    /\ Shorter(after, texts, m, r, texts[1])
    /\ longer = f \o texts[1]

\* It is accounted for there.
LEMMA TextWritten ==
    ASSUME NEW f, NEW n, NEW m, NEW texts, NEW longer, NEW r, NEW after,
           Writes(f, m, texts, longer, r, after), Kept(f, texts, n)
    PROVE  Kept(longer, after, n)
<1> PICK first : first = texts[1]
  OBVIOUS
<1>0. /\ m \in Nat /\ m >= 1 /\ texts \in [1..m -> Seq(Nat)]
      /\ r \in Nat /\ after \in [1..r -> Seq(Nat)]
      /\ r + 1 = m /\ \A i \in 1..r : after[i] = texts[i + 1]
      /\ longer = f \o first
  BY DEF Writes, Shorter
<1> USE <1>0
<1> PICK size, more : size = Len(f) /\ more = Len(first)
  OBVIOUS
<1>1. /\ f \in Seq(Nat) /\ n \in Nat /\ size \in Nat /\ more \in Nat
      /\ first \in Seq(Nat) /\ longer \in Seq(Nat)
      /\ DOMAIN f = 1..size /\ DOMAIN first = 1..more /\ DOMAIN longer = 1..(size + more)
      /\ \A i \in 1..size : longer[i] = f[i]
      /\ \A i \in 1..more : longer[size + i] = first[i]
  BY DEF Kept
<1>2. \A i \in 1..(size + more) : i \in 1..size \/ i - size \in 1..more
  BY <1>1
<1>3. \A i \in 1..(size + more) :
         \/ i \in 1..size /\ longer[i] = f[i]
         \/ i - size \in 1..more /\ longer[i] = first[i - size] /\ size < i
  <2> SUFFICES ASSUME NEW i \in 1..(size + more), i \notin 1..size
               PROVE  i - size \in 1..more /\ longer[i] = first[i - size] /\ size < i
    BY <1>1
  <2>1. i - size \in 1..more /\ size + (i - size) = i /\ size < i
    BY <1>1, SMTT(30)
  <2> QED
    BY <1>1, <2>1
<1>4. /\ DOMAIN texts = 1..m /\ DOMAIN after = 1..r
      /\ 1 \in 1..m /\ \A i \in 1..r : i + 1 \in 1..m /\ 1 < i + 1
  OBVIOUS
<1>5. /\ \A i \in 1..m : \A k \in DOMAIN texts[i] : texts[i][k] \in 1..n
      /\ \A i \in 1..size : f[i] <= n
  BY <1>1 DEF Kept, Numbered
<1>6. \A k \in 1..more : first[k] \in 1..n /\ first[k] <= n
  BY <1>1, <1>4, <1>5
<1>7. Numbered(longer, after, n)
  <2>1. \A i \in 1..(size + more) : longer[i] <= n
    BY <1>3, <1>5, <1>6
  <2>2. \A i \in 1..r : \A k \in DOMAIN after[i] : after[i][k] \in 1..n
    BY <1>4, <1>5
  <2> QED
    BY <1>1, <1>4, <2>1, <2>2 DEF Numbered
<1>8. Increasing(f) /\ Increasing(first) /\ Before(f, first)
  BY <1>4 DEF Kept, InOrder
<1>9. Increasing(longer)
  <2> SUFFICES ASSUME NEW i \in 1..(size + more), NEW j \in 1..(size + more), i < j,
                      longer[j] # 0
               PROVE  longer[i] < longer[j]
    <3>1. DOMAIN longer = 1..(size + more)
      BY <1>1
    <3> QED
      BY <3>1 DEF Increasing
  <2>1. CASE j \in 1..size /\ longer[j] = f[j]
    <3>1. i \in 1..size /\ longer[i] = f[i]
      BY <1>1, <2>1
    <3> QED
      BY <1>1, <1>8, <2>1, <3>1 DEF Increasing
  <2>2. CASE j - size \in 1..more /\ longer[j] = first[j - size]
    <3>1. CASE i \in 1..size /\ longer[i] = f[i]
      BY <1>1, <1>8, <2>2, <3>1 DEF Before
    <3>2. CASE i - size \in 1..more /\ longer[i] = first[i - size]
      <4> PICK a, b : a = i - size /\ b = j - size
        OBVIOUS
      <4>1. a < b
        BY <1>1
      <4>2. a \in DOMAIN first /\ b \in DOMAIN first /\ first[b] # 0
        BY <1>1, <2>2, <3>2
      <4>3. first[a] < first[b]
        BY <1>8, <4>1, <4>2 DEF Increasing
      <4> QED
        BY <2>2, <3>2, <4>3
    <3> QED
      BY <1>3, <3>1, <3>2
  <2> QED
    BY <1>3, <2>1, <2>2
<1>10. \A i \in 1..r : Before(longer, after[i])
  <2> SUFFICES ASSUME NEW i \in 1..r, NEW k \in 1..(size + more), NEW l \in DOMAIN after[i]
               PROVE  longer[k] < after[i][l]
    BY <1>1 DEF Before
  <2>1. Before(f, after[i]) /\ Before(first, after[i])
    BY <1>4 DEF Kept, InOrder
  <2>2. CASE k \in 1..size /\ longer[k] = f[k]
    BY <1>1, <2>1, <2>2 DEF Before
  <2>3. CASE k - size \in 1..more /\ longer[k] = first[k - size]
    BY <1>1, <2>1, <2>3 DEF Before
  <2> QED
    BY <1>3, <2>2, <2>3
<1>11. InOrder(longer, after)
  <2>1. \A i \in 1..r : Increasing(after[i])
    BY <1>4 DEF Kept, InOrder
  <2>2. \A i, j \in 1..r : i < j => Before(after[i], after[j])
    <3> SUFFICES ASSUME NEW i \in 1..r, NEW j \in 1..r, i < j PROVE Before(after[i], after[j])
      OBVIOUS
    <3>1. i + 1 < j + 1 /\ i + 1 \in 1..m /\ j + 1 \in 1..m
      BY <1>4
    <3> QED
      BY <1>4, <3>1 DEF Kept, InOrder
  <2> QED
    BY <1>4, <1>9, <1>10, <2>1, <2>2 DEF InOrder
<1>12. ASSUME NEW line \in 1..n PROVE Accounted(longer, after, line)
  <2>1. Accounted(f, texts, line)
    BY DEF Kept
  <2>2. /\ 1..size \subseteq 1..(size + more)
        /\ \A k \in 1..more : size + k \in 1..(size + more)
    BY <1>1
  <2>3. CASE \E i \in DOMAIN f : f[i] = line
    BY <1>1, <2>2, <2>3 DEF Accounted
  <2>4. CASE \E i \in DOMAIN texts : \E k \in DOMAIN texts[i] : texts[i][k] = line
    <3> PICK i \in 1..m : \E k \in DOMAIN texts[i] : texts[i][k] = line
      BY <1>4, <2>4
    <3>1. CASE i = 1
      <4> PICK k \in 1..more : first[k] = line
        BY <1>1, <3>1
      <4>1. size + k \in DOMAIN longer /\ longer[size + k] = line
        BY <1>1, <2>2
      <4> QED
        BY <4>1 DEF Accounted
    <3>2. CASE i # 1
      <4>1. i - 1 \in 1..r /\ (i - 1) + 1 = i
        BY <3>2
      <4>2. after[i - 1] = texts[i]
        BY <4>1
      <4> QED
        BY <1>4, <4>1, <4>2 DEF Accounted
    <3> QED
      BY <3>1, <3>2
  <2>5. CASE LossTold(f, line)
    <3> PICK k \in 1..size : f[k] = 0 /\ \A i \in 1..size : f[i] > line => k < i
      BY <1>1, <2>5 DEF LossTold
    <3>1. \A i \in 1..(size + more) : longer[i] > line => k < i
      <4> SUFFICES ASSUME NEW i \in 1..(size + more), longer[i] > line PROVE k < i
        OBVIOUS
      <4>1. CASE i \in 1..size /\ longer[i] = f[i]
        BY <4>1
      <4>2. CASE size < i
        BY <1>1, <4>2
      <4> QED
        BY <1>3, <4>1, <4>2
    <3>2. LossTold(longer, line)
      BY <1>1, <2>2, <3>1, ZenonT(30) DEF LossTold
    <3> QED
      BY <3>2 DEF Accounted
  <2> QED
    BY <2>1, <2>3, <2>4, <2>5 DEF Accounted
<1> QED
  BY <1>1, <1>7, <1>11, <1>12 DEF Kept

\* The buffers that wait to be written, one by one.
Row(pending, toWrite, done, full, current) ==
    LET q == Len(toWrite) - done
        n == Len(full)
    IN /\ Len(toWrite) \in Nat /\ done \in Nat /\ done <= Len(toWrite) /\ n \in Nat
       /\ pending \in [1..(q + n + 1) -> Buffers]
       /\ \A i \in 1..q : pending[i] = toWrite[done + i]
       /\ \A i \in 1..n : pending[q + i] = full[i]
       /\ pending[q + n + 1] = current

\* Two sequences in a row.
LEMMA ConcatIs ==
    ASSUME NEW S, NEW s \in Seq(S), NEW t \in Seq(S), NEW c, c = s \o t
    PROVE  /\ c \in Seq(S) /\ Len(c) = Len(s) + Len(t)
           /\ \A i \in 1..Len(s) : c[i] = s[i]
           /\ \A i \in 1..Len(t) : c[Len(s) + i] = t[i]
OBVIOUS

\* Two sequences of buffers and one buffer more.
Joins(pending, rest, full, current) == pending = rest \o full \o <<current>>

\* Where the buffers stand in it, with q of the first and n of the second.
Places(pending, rest, full, current, q, n) ==
    /\ pending \in [1..(q + n + 1) -> Buffers]
    /\ \A i \in 1..q : pending[i] = rest[i]
    /\ \A i \in 1..n : pending[q + i] = full[i]
    /\ pending[q + n + 1] = current

\* Joined sequences have their buffers at these places.
LEMMA Joined ==
    ASSUME NEW rest \in Seq(Buffers), NEW full \in Seq(Buffers), NEW current \in Buffers,
           NEW q \in Nat, q = Len(rest), NEW n \in Nat, n = Len(full),
           NEW pending, Joins(pending, rest, full, current)
    PROVE  Places(pending, rest, full, current, q, n)
<1> PICK both : both = rest \o full
  OBVIOUS
<1>1. /\ both \in Seq(Buffers) /\ Len(both) = q + n /\ q \in Nat /\ n \in Nat
      /\ \A i \in 1..q : both[i] = rest[i]
      /\ \A i \in 1..n : both[q + i] = full[i]
  BY ConcatIs
<1> PICK last : last = <<current>>
  OBVIOUS
<1>2. last \in Seq(Buffers) /\ Len(last) = 1 /\ last[1] = current /\ 1 \in 1..1
  OBVIOUS
<1>0. pending = both \o last
  BY DEF Joins
<1>3. /\ pending \in Seq(Buffers) /\ Len(pending) = q + n + 1
      /\ \A i \in 1..(q + n) : pending[i] = both[i]
      /\ \A i \in 1..1 : pending[q + n + i] = last[i]
  BY <1>0, <1>1, <1>2, ConcatIs
<1>4. 1..q \subseteq 1..(q + n) /\ \A i \in 1..n : q + i \in 1..(q + n)
  BY <1>1
<1>5. \A s \in Seq(Buffers) : s \in [1..Len(s) -> Buffers]
  OBVIOUS
<1>6. pending \in [1..(q + n + 1) -> Buffers]
  BY <1>3, <1>5
<1>7. pending[q + n + 1] = current
  BY <1>2, <1>3
<1>8. ASSUME NEW i \in 1..q PROVE pending[i] = rest[i]
  BY <1>1, <1>3, <1>4
<1>9. ASSUME NEW i \in 1..n PROVE pending[q + i] = full[i]
  BY <1>1, <1>3, <1>4
<1> QED
  BY <1>6, <1>7, <1>8, <1>9 DEF Places

\* They are those not written yet, the full ones, and the one begun.
LEMMA RowOf ==
    ASSUME NEW toWrite \in Seq(Buffers), NEW done \in Nat, done <= Len(toWrite),
           NEW full \in Seq(Buffers), NEW current \in Buffers
    PROVE  Row(SubSeq(toWrite, done + 1, Len(toWrite)) \o full \o <<current>>,
               toWrite, done, full, current)
<1> PICK q, n : q = Len(toWrite) - done /\ n = Len(full)
  OBVIOUS
<1>1. q \in Nat /\ n \in Nat /\ Len(toWrite) \in Nat
  OBVIOUS
<1> DEFINE rest    == SubSeq(toWrite, done + 1, Len(toWrite))
           pending == rest \o full \o <<current>>
<1>2. rest \in Seq(Buffers) /\ Len(rest) = q /\ \A i \in 1..q : rest[i] = toWrite[done + i]
  <2>1. done + 1 \in 1..(Len(toWrite) + 1)
    OBVIOUS
  <2> QED
    BY <1>1, <2>1
<1> HIDE DEF rest
<1>3. /\ pending \in [1..(q + n + 1) -> Buffers]
      /\ \A i \in 1..q : pending[i] = rest[i]
      /\ \A i \in 1..n : pending[q + i] = full[i]
      /\ pending[q + n + 1] = current
  <2> HIDE DEF pending
  <2>1. Joins(pending, rest, full, current)
    BY DEF Joins, pending
  <2> PICK p, s : p = pending /\ s = rest
    OBVIOUS
  <2>2. s \in Seq(Buffers) /\ q = Len(s) /\ Joins(p, s, full, current)
    BY <1>2, <2>1
  <2>3. Places(p, s, full, current, q, n)
    BY <1>1, <2>2, Joined
  <2> QED
    BY <2>3 DEF Places
<1> HIDE DEF pending
<1>4. Row(pending, toWrite, done, full, current)
  BY <1>1, <1>2, <1>3 DEF Row
<1> QED
  BY <1>4 DEF pending, rest

\* So it is in every state.
LEMMA PendingRow ==
    ExclusiveIInv => Row(Pending, buffersToWrite, written, buffers, currentBuffer)
<1> SUFFICES ASSUME ExclusiveIInv
             PROVE  Row(Pending, buffersToWrite, written, buffers, currentBuffer)
  OBVIOUS
<1>1. /\ buffersToWrite \in Seq(Buffers) /\ written \in Nat /\ written <= Len(buffersToWrite)
      /\ buffers \in Seq(Buffers) /\ currentBuffer \in Buffers
  BY DEF ExclusiveIInv, LogTypes, Rounds
<1> QED
  BY <1>1, RowOf DEF Pending

\* m buffers wait, and these are their texts.
Waiting(m) ==
    /\ m \in Nat /\ m = Len(buffersToWrite) - written + Len(buffers) + 1 /\ m >= 1
    /\ Pending \in [1..m -> Buffers]
    /\ Texts \in [1..m -> Seq(Nat)]
    /\ \A i \in 1..m : Texts[i] = content[Pending[i]]

\* So they are typed.
LEMMA TextsTyped == ExclusiveIInv => \E m : Waiting(m)
<1> SUFFICES ASSUME ExclusiveIInv PROVE \E m : Waiting(m)
  OBVIOUS
<1> PICK m : m = Len(buffersToWrite) - written + Len(buffers) + 1
  OBVIOUS
<1>1. m \in Nat /\ m >= 1 /\ Pending \in [1..m -> Buffers]
  BY PendingRow DEF Row
<1>2. content \in [Buffers -> Seq(Nat)]
  BY DEF ExclusiveIInv, LogTypes
<1>3. Texts \in [1..m -> Seq(Nat)] /\ \A i \in 1..m : Texts[i] = content[Pending[i]]
  BY <1>1, <1>2 DEF Texts
<1>4. Waiting(m)
  BY <1>1, <1>3 DEF Waiting
<1> QED
  BY <1>4

\* A buffer that waits is the one begun, which is the last, or in a list.
LEMMA PendingAmong ==
    ASSUME ExclusiveIInv, NEW m \in Nat, Waiting(m), NEW i \in 1..m
    PROVE  \/ i = m /\ Pending[i] = currentBuffer
           \/ i # m /\ \E j \in DOMAIN buffers : Pending[i] = buffers[j]
           \/ /\ i # m /\ written < Len(buffersToWrite)
              /\ \E j \in DOMAIN buffersToWrite : Pending[i] = buffersToWrite[j]
<1>1. Row(Pending, buffersToWrite, written, buffers, currentBuffer)
  BY PendingRow
<1> PICK q, n : q = Len(buffersToWrite) - written /\ n = Len(buffers)
  OBVIOUS
<1>2. q \in Nat /\ n \in Nat /\ m = q + n + 1
  BY <1>1 DEF Row, Waiting
<1>3. CASE i \in 1..q
  <2>1. /\ written + i \in DOMAIN buffersToWrite /\ i # m /\ written < Len(buffersToWrite)
    BY <1>1, <1>2, <1>3, SMTT(30) DEF Row, ExclusiveIInv, LogTypes
  <2> QED
    BY <1>1, <1>3, <2>1 DEF Row
<1>4. CASE i \notin 1..q /\ i # m
  <2> PICK j : j = i - q
    OBVIOUS
  <2>1. j \in 1..n /\ i = q + j
    BY <1>2, <1>4, SMTT(30)
  <2>2. j \in DOMAIN buffers
    BY <2>1 DEF ExclusiveIInv, LogTypes
  <2>3. Pending[q + j] = buffers[j]
    BY <1>1, <2>1 DEF Row
  <2> QED
    BY <1>4, <2>1, <2>2, <2>3
<1>5. CASE i = m
  BY <1>1, <1>2, <1>5 DEF Row
<1> QED
  BY <1>3, <1>4, <1>5

\* The buffer begun stands there only.
LEMMA BegunIsLast ==
    ASSUME ExclusiveIInv, NEW m \in Nat, Waiting(m), NEW i \in 1..m
    PROVE  IF i = m THEN Pending[i] = currentBuffer ELSE Pending[i] # currentBuffer
BY PendingAmong DEF ExclusiveIInv, ListsApart, Pointed

\* A line goes to the buffer begun, which is the last text.
LEMMA AppendHereAccounts ==
    ASSUME ExclusiveIInv, AppendHere, UNCHANGED <<worker, file>>,
           Kept(file, Texts, appended)
    PROVE  Kept(file', Texts', appended')
<1>1. /\ UNCHANGED <<currentBuffer, buffers, buffersToWrite, written, file>>
      /\ appended' = appended + 1
      /\ content' = [content EXCEPT ![currentBuffer] = Append(@, appended')]
  BY DEF AppendHere, shared, worker
<1> PICK m : Waiting(m)
  BY TextsTyped
<1>0. /\ m \in Nat /\ m >= 1 /\ Pending \in [1..m -> Buffers] /\ Texts \in [1..m -> Seq(Nat)]
      /\ \A i \in 1..m : Texts[i] = content[Pending[i]]
  BY DEF Waiting
<1>2. Pending' = Pending
  BY <1>1 DEF Pending
<1> PICK f, old, new, n : f = file /\ old = Texts /\ new = Texts' /\ n = appended
  OBVIOUS
<1>3. new = [old EXCEPT ![m] = Append(@, n + 1)]
  <2>1. new = [i \in 1..m |-> content'[Pending[i]]]
    BY <1>0, <1>2 DEF Texts
  <2>2. \A i \in 1..m : content'[Pending[i]] = IF i = m THEN Append(old[m], n + 1) ELSE old[i]
    BY <1>0, <1>1, BegunIsLast DEF ExclusiveIInv, LogTypes
  <2> QED
    BY <1>0, <2>1, <2>2
<1>4. Kept(f, new, n + 1)
  BY <1>0, <1>3, AppendedToLast
<1> QED
  BY <1>1, <1>4

\* The buffer begun joins the full ones and another one is begun, or all are
\* taken and another one is begun.
NextBegun(pending, toWrite, done, full, current, next) ==
    \/ Row(pending, toWrite, done, Append(full, current), next)
    \/ /\ toWrite = <<>> /\ done = 0
       /\ Row(pending, Append(full, current), 0, <<>>, next)

\* One more buffer waits, at the end.
Longer(after, before, m, next) ==
    /\ after \in [1..(m + 1) -> Buffers]
    /\ \A i \in 1..m : after[i] = before[i]
    /\ after[m + 1] = next

\* So it is then.
LEMMA RowGrows ==
    ASSUME NEW toWrite \in Seq(Buffers), NEW done \in Nat, NEW full \in Seq(Buffers),
           NEW current \in Buffers, NEW next \in Buffers, NEW before, NEW after,
           Row(before, toWrite, done, full, current),
           NextBegun(after, toWrite, done, full, current, next),
           NEW m \in Nat, m = Len(toWrite) - done + Len(full) + 1
    PROVE  Longer(after, before, m, next)
<1> PICK q, n, more : q = Len(toWrite) - done /\ n = Len(full) /\ more = Append(full, current)
  OBVIOUS
<1>1. q \in Nat /\ n \in Nat /\ m = q + n + 1
  BY DEF Row
<1>2. /\ Len(more) = n + 1 /\ more[n + 1] = current
      /\ \A i \in 1..n : more[i] = full[i]
  BY AppendApart
<1>3. /\ \A i \in 1..q : before[i] = toWrite[done + i]
      /\ \A i \in 1..n : before[q + i] = full[i]
      /\ before[q + n + 1] = current
  BY DEF Row
<1>4. ASSUME NEW i \in 1..m
      PROVE  i \in 1..q \/ (\E j \in 1..n : i = q + j) \/ i = q + n + 1
  <2>1. CASE i \notin 1..q /\ i # q + n + 1
    <3>1. i - q \in 1..n /\ i = q + (i - q)
      BY <1>1, <2>1, SMTT(30)
    <3> QED
      BY <3>1
  <2> QED
    BY <2>1
<1>5. CASE Row(after, toWrite, done, more, next)
  <2>1. /\ after \in [1..(q + (n + 1) + 1) -> Buffers]
        /\ \A i \in 1..q : after[i] = toWrite[done + i]
        /\ \A i \in 1..(n + 1) : after[q + i] = more[i]
        /\ after[q + (n + 1) + 1] = next
    BY <1>2, <1>5 DEF Row
  <2>2. q + (n + 1) + 1 = m + 1 /\ q + (n + 1) = q + n + 1
    BY <1>1
  <2>3. 1..n \subseteq 1..(n + 1) /\ n + 1 \in 1..(n + 1)
    BY <1>1
  <2>4. after[q + n + 1] = current /\ \A j \in 1..n : after[q + j] = full[j]
    BY <1>2, <2>1, <2>2, <2>3
  <2>5. ASSUME NEW i \in 1..m PROVE after[i] = before[i]
    <3>1. CASE i \in 1..q
      BY <1>3, <2>1, <3>1
    <3>2. ASSUME NEW j \in 1..n, i = q + j PROVE after[i] = before[i]
      BY <1>3, <2>4, <3>2
    <3>3. CASE i = q + n + 1
      BY <1>3, <2>4, <3>3
    <3> QED
      BY <1>4, <3>1, <3>2, <3>3
  <2> QED
    BY <2>1, <2>2, <2>5 DEF Longer
<1>6. CASE toWrite = <<>> /\ done = 0 /\ Row(after, more, 0, <<>>, next)
  <2>1. Len(toWrite) = 0 /\ q = 0 /\ m = n + 1
    BY <1>1, <1>6
  <2>2. /\ after \in [1..((n + 1) - 0 + 0 + 1) -> Buffers]
        /\ \A i \in 1..((n + 1) - 0) : after[i] = more[0 + i]
        /\ after[(n + 1) - 0 + 0 + 1] = next
    BY <1>2, <1>6 DEF Row
  <2>3. /\ (n + 1) - 0 + 0 + 1 = m + 1 /\ (n + 1) - 0 = m /\ \A i \in 1..m : 0 + i = i
        /\ \A i \in 1..m : i \in 1..n \/ i = n + 1
    BY <1>1, <2>1
  <2>4. \A i \in 1..m : after[i] = more[i]
    BY <2>2, <2>3
  <2>5. (\A i \in 1..n : before[i] = full[i]) /\ before[n + 1] = current
    <3>1. (\A i \in 1..n : q + i = i) /\ q + n + 1 = n + 1
      BY <1>1, <2>1
    <3> QED
      BY <1>3, <3>1
  <2> QED
    BY <1>2, <2>2, <2>3, <2>4, <2>5 DEF Longer
<1> QED
  BY <1>5, <1>6 DEF NextBegun

\* So it is when only two of the buffers taken remain.
LEMMA RowTrimmed ==
    ASSUME NEW toWrite \in Seq(Buffers), NEW fewer \in Seq(Buffers), NEW full \in Seq(Buffers),
           NEW current \in Buffers, NEW before, NEW after,
           Row(before, toWrite, 0, full, current), Row(after, fewer, 0, full, current),
           Len(fewer) = 2, Len(toWrite) > 2, \A i \in 1..2 : fewer[i] = toWrite[i],
           NEW m \in Nat, m = Len(toWrite) - 0 + Len(full) + 1,
           NEW r \in Nat, r = Len(fewer) - 0 + Len(full) + 1
    PROVE  Trimmed(after, before, m, r)
<1> PICK q, n : q = Len(toWrite) /\ n = Len(full)
  OBVIOUS
<1>1. q \in Nat /\ n \in Nat /\ m = q + n + 1 /\ r = 2 + n + 1 /\ q > 2
  OBVIOUS
<1>2. /\ \A i \in 1..q : before[i] = toWrite[i]
      /\ \A i \in 1..n : before[q + i] = full[i]
      /\ before[q + n + 1] = current
  <2>1. q - 0 = q /\ \A i \in 1..q : 0 + i = i
    BY <1>1
  <2> QED
    BY <2>1 DEF Row
<1>3. /\ \A i \in 1..2 : after[i] = fewer[i]
      /\ \A i \in 1..n : after[2 + i] = full[i]
      /\ after[2 + n + 1] = current
  <2>1. 2 - 0 = 2 /\ \A i \in 1..2 : 0 + i = i
    OBVIOUS
  <2> QED
    BY <2>1 DEF Row
<1> DEFINE from == [i \in 1..r |-> IF i <= 2 THEN i ELSE i + (q - 2)]
<1>4. from \in [1..r -> 1..m]
  BY <1>1
<1>5. \A i, j \in 1..r : i < j => from[i] < from[j]
  BY <1>1
<1>6. \A i \in 1..r : after[i] = before[from[i]]
  <2> SUFFICES ASSUME NEW i \in 1..r PROVE after[i] = before[from[i]]
    OBVIOUS
  <2>1. CASE i <= 2
    <3>1. from[i] = i /\ i \in 1..2 /\ i \in 1..q
      BY <1>1, <2>1
    <3> QED
      BY <1>2, <1>3, <3>1
  <2>2. CASE i > 2 /\ i < r
    <3> PICK j : j = i - 2
      OBVIOUS
    <3>1. from[i] = q + j /\ j \in 1..n /\ i = 2 + j
      BY <1>1, <2>2
    <3>2. before[q + j] = full[j] /\ after[2 + j] = full[j]
      BY <1>2, <1>3, <3>1
    <3> QED
      BY <3>1, <3>2
  <2>3. CASE i = r
    <3>1. from[i] = q + n + 1 /\ i = 2 + n + 1
      BY <1>1, <2>3
    <3> QED
      BY <1>2, <1>3, <3>1
  <2> QED
    BY <1>1, <2>1, <2>2, <2>3
<1> QED
  BY <1>4, <1>5, <1>6 DEF Trimmed

\* So it is when one more of the buffers is written.
LEMMA RowShrinks ==
    ASSUME NEW toWrite \in Seq(Buffers), NEW done \in Nat, done < Len(toWrite),
           NEW full \in Seq(Buffers), NEW current \in Buffers, NEW before, NEW after,
           Row(before, toWrite, done, full, current), Row(after, toWrite, done + 1, full, current),
           NEW m \in Nat, m = Len(toWrite) - done + Len(full) + 1,
           NEW r \in Nat, r = Len(toWrite) - (done + 1) + Len(full) + 1
    PROVE  Shorter(after, before, m, r, toWrite[done + 1])
<1> PICK q, n : q = Len(toWrite) - (done + 1) /\ n = Len(full)
  OBVIOUS
<1>1. /\ q \in Nat /\ n \in Nat /\ Len(toWrite) - done = q + 1 /\ m = q + 1 + n + 1
      /\ r = q + n + 1
  OBVIOUS
<1>2. /\ \A i \in 1..(q + 1) : before[i] = toWrite[done + i]
      /\ \A i \in 1..n : before[q + 1 + i] = full[i]
      /\ before[q + 1 + n + 1] = current
  BY <1>1 DEF Row
<1>3. /\ \A i \in 1..q : after[i] = toWrite[(done + 1) + i]
      /\ \A i \in 1..n : after[q + i] = full[i]
      /\ after[q + n + 1] = current
  BY <1>1 DEF Row
<1>4. ASSUME NEW i \in 1..r PROVE after[i] = before[i + 1]
  <2>1. CASE i \in 1..q
    <3>1. i + 1 \in 1..(q + 1) /\ (done + 1) + i = done + (i + 1)
      BY <1>1, <2>1
    <3> QED
      BY <1>2, <1>3, <2>1, <3>1
  <2>2. CASE i \notin 1..q /\ i # r
    <3> PICK j : j = i - q
      OBVIOUS
    <3>1. j \in 1..n /\ i = q + j /\ i + 1 = q + 1 + j
      BY <1>1, <2>2
    <3>2. before[q + 1 + j] = full[j] /\ after[q + j] = full[j]
      BY <1>2, <1>3, <3>1
    <3> QED
      BY <3>1, <3>2
  <2>3. CASE i = r
    <3>1. i = q + n + 1 /\ i + 1 = q + 1 + n + 1
      BY <1>1, <2>3
    <3> QED
      BY <1>2, <1>3, <3>1
  <2> QED
    BY <2>1, <2>2, <2>3
<1>5. 1 \in 1..(q + 1) /\ r + 1 = m
  BY <1>1
<1>6. before[1] = toWrite[done + 1]
  BY <1>2, <1>5
<1> QED
  BY <1>4, <1>5, <1>6 DEF Shorter


\* The same in the next state.
LEMMA NextRow ==
    ExclusiveIInv' => /\ Row(Pending', buffersToWrite', written', buffers', currentBuffer')
                      /\ \E m : Waiting(m)'
<1>1. ExclusiveIInv' => Row(Pending, buffersToWrite, written, buffers, currentBuffer)'
  BY PendingRow, PTL
<1>2. ExclusiveIInv' => (\E m : Waiting(m))'
  BY TextsTyped, PTL
<1> QED
  BY <1>1, <1>2

\* The texts of the next state, when they are those of before and one more.
LEMMA TextsGrow ==
    ASSUME ExclusiveIInv, ExclusiveIInv', Kept(file, Texts, appended), file' = file,
           NEW next \in Buffers,
           NextBegun(Pending', buffersToWrite, written, buffers, currentBuffer, next),
           \A m \in Nat : Waiting(m) => \A i \in 1..m : content'[Pending[i]] = content[Pending[i]],
           \/ appended' = appended /\ content'[next] = <<>>
           \/ appended' = appended + 1 /\ content'[next] = <<appended + 1>>
    PROVE  Kept(file', Texts', appended')
<1> PICK m : Waiting(m)
  BY TextsTyped
<1>1. /\ m \in Nat /\ Pending \in [1..m -> Buffers] /\ Texts \in [1..m -> Seq(Nat)]
      /\ \A i \in 1..m : Texts[i] = content[Pending[i]]
      /\ m = Len(buffersToWrite) - written + Len(buffers) + 1
  BY DEF Waiting
<1>2. /\ buffersToWrite \in Seq(Buffers) /\ written \in Nat /\ buffers \in Seq(Buffers)
      /\ currentBuffer \in Buffers /\ appended' \in Nat /\ content' \in [Buffers -> Seq(Nat)]
  BY DEF ExclusiveIInv, LogTypes
<1>3. Row(Pending, buffersToWrite, written, buffers, currentBuffer)
  BY PendingRow
<1>4. /\ Pending' \in [1..(m + 1) -> Buffers]
      /\ \A i \in 1..m : Pending'[i] = Pending[i]
      /\ Pending'[m + 1] = next
  <2> PICK toWrite, done, full, current, before, after :
         /\ toWrite = buffersToWrite /\ done = written /\ full = buffers
         /\ current = currentBuffer /\ before = Pending /\ after = Pending'
    OBVIOUS
  <2>1. /\ toWrite \in Seq(Buffers) /\ done \in Nat /\ full \in Seq(Buffers)
        /\ current \in Buffers /\ Row(before, toWrite, done, full, current)
        /\ NextBegun(after, toWrite, done, full, current, next)
        /\ m \in Nat /\ m = Len(toWrite) - done + Len(full) + 1
    BY <1>1, <1>2, <1>3
  <2>2. Longer(after, before, m, next)
    BY <2>1, RowGrows
  <2> QED
    BY <2>2 DEF Longer
<1>5. Texts' = [i \in 1..(m + 1) |-> content'[Pending'[i]]]
  BY <1>4 DEF Texts
<1> PICK f, old, new, n, now :
       f = file /\ old = Texts /\ new = Texts' /\ n = appended /\ now = appended'
  OBVIOUS
<1>6. new \in [1..(m + 1) -> Seq(Nat)]
  BY <1>2, <1>4, <1>5
<1>7. \A i \in 1..m : new[i] = old[i]
  <2>1. \A i \in 1..m : content'[Pending[i]] = content[Pending[i]] /\ i \in 1..(m + 1)
    BY <1>1
  <2>2. \A i \in 1..m : new[i] = content'[Pending[i]]
    BY <1>4, <1>5, <2>1
  <2> QED
    BY <1>1, <2>1, <2>2
<1>8. new[m + 1] = content'[next]
  BY <1>1, <1>4, <1>5
<1>9. Kept(f, new, now)
  <2>1. /\ now \in Nat
        /\ \/ now = n /\ new[m + 1] = <<>>
           \/ now = n + 1 /\ new[m + 1] = <<n + 1>>
    BY <1>2, <1>8
  <2>2. Kept(f, old, n) /\ m \in Nat /\ old \in [1..m -> Seq(Nat)]
    BY <1>1
  <2> QED
    BY <1>6, <1>7, <2>1, <2>2, TextBegun
<1> QED
  BY <1>9

\* A line begins a new buffer.
LEMMA AppendToNextAccounts ==
    ASSUME ~IsFiniteSet(Buffers), ExclusiveIInv, AppendToNext, UNCHANGED <<worker, file>>,
           Kept(file, Texts, appended)
    PROVE  Kept(file', Texts', appended')
<1>1. /\ UNCHANGED <<buffersToWrite, written, file>>
      /\ appended' = appended + 1
      /\ buffers' = Append(buffers, currentBuffer)
  BY DEF AppendToNext, worker
<1>2. /\ ExclusiveIInv'
      /\ currentBuffer' \in Buffers /\ currentBuffer' # currentBuffer
      /\ \A i \in DOMAIN buffers : buffers[i] # currentBuffer'
      /\ \A i \in DOMAIN buffersToWrite : buffersToWrite[i] # currentBuffer'
      /\ content' = [content EXCEPT ![currentBuffer'] = <<appended'>>]
  BY AppendToNextKeeps
<1> PICK next : next = currentBuffer'
  OBVIOUS
<1>3. NextBegun(Pending', buffersToWrite, written, buffers, currentBuffer, next)
  BY <1>1, <1>2, NextRow DEF NextBegun
<1>4. ASSUME NEW m \in Nat, Waiting(m), NEW i \in 1..m
      PROVE  content'[Pending[i]] = content[Pending[i]]
  <2>1. Pending[i] \in Buffers
    BY <1>4 DEF Waiting
  <2>2. Pending[i] # next
    BY <1>2, <1>4, PendingAmong
  <2> QED
    BY <1>2, <2>1, <2>2 DEF ExclusiveIInv, LogTypes
<1>5. content'[next] = <<appended + 1>>
  BY <1>1, <1>2 DEF ExclusiveIInv, LogTypes
<1> QED
  BY <1>1, <1>2, <1>3, <1>4, <1>5, TextsGrow

\* The worker takes the buffers, and an empty one is begun.
LEMMA TakeAccounts ==
    ASSUME ExclusiveIInv, pc \in {"loop", "waiting"}, TakeBuffers,
           Kept(file, Texts, appended)
    PROVE  Kept(file', Texts', appended')
<1>1. /\ ExclusiveIInv'
      /\ buffersToWrite = <<>> /\ written = 0 /\ written' = 0
      /\ buffersToWrite' = Append(buffers, currentBuffer) /\ buffers' = <<>>
      /\ currentBuffer' = newBuffer1 /\ newBuffer1 \in Buffers
      /\ content[newBuffer1] = <<>>
      /\ UNCHANGED <<content, file, appended>>
  BY TakeKeeps
<1> PICK next : next = newBuffer1
  OBVIOUS
<1>2. NextBegun(Pending', buffersToWrite, written, buffers, currentBuffer, next)
  BY <1>1, NextRow DEF NextBegun
<1> QED
  BY <1>1, <1>2, TextsGrow

\* The worker drops buffers, and says so, or does not.
LEMMA TrimAccounts ==
    ASSUME ExclusiveIInv, Trim, Kept(file, Texts, appended)
    PROVE  Kept(file', Texts', appended')
<1>1. /\ ExclusiveIInv'
      /\ written = 0 /\ written' = 0
      /\ \/ UNCHANGED <<buffersToWrite, file>>
         \/ /\ Len(buffersToWrite') = 2 /\ Len(buffersToWrite) > 2
            /\ \A i \in 1..2 : buffersToWrite'[i] = buffersToWrite[i]
            /\ file' = Append(file, 0)
      /\ UNCHANGED <<content, currentBuffer, buffers, appended>>
  BY TrimKeeps
<1>2. CASE UNCHANGED <<buffersToWrite, file>>
  BY <1>1, <1>2 DEF Texts, Pending
<1>3. CASE /\ Len(buffersToWrite') = 2 /\ Len(buffersToWrite) > 2
           /\ \A i \in 1..2 : buffersToWrite'[i] = buffersToWrite[i]
           /\ file' = Append(file, 0)
  <2> PICK m : Waiting(m)
    BY TextsTyped
  <2> PICK r : Waiting(r)'
    BY <1>1, NextRow
  <2>1. /\ m \in Nat /\ m = Len(buffersToWrite) - 0 + Len(buffers) + 1
        /\ Texts \in [1..m -> Seq(Nat)] /\ \A i \in 1..m : Texts[i] = content[Pending[i]]
    BY <1>1 DEF Waiting
  <2>2. /\ r \in Nat /\ r = Len(buffersToWrite') - 0 + Len(buffers) + 1
        /\ Texts' \in [1..r -> Seq(Nat)] /\ \A i \in 1..r : Texts'[i] = content[Pending'[i]]
    BY <1>1 DEF Waiting
  <2>3. /\ Row(Pending, buffersToWrite, 0, buffers, currentBuffer)
        /\ Row(Pending', buffersToWrite', 0, buffers, currentBuffer)
    BY <1>1, PendingRow, NextRow
  <2>4. /\ buffersToWrite \in Seq(Buffers) /\ buffersToWrite' \in Seq(Buffers)
        /\ buffers \in Seq(Buffers) /\ currentBuffer \in Buffers
    BY <1>1 DEF ExclusiveIInv, LogTypes
  <2> PICK toWrite, fewer, full, current, before, after :
         /\ toWrite = buffersToWrite /\ fewer = buffersToWrite' /\ full = buffers
         /\ current = currentBuffer /\ before = Pending /\ after = Pending'
    OBVIOUS
  <2>5. Trimmed(after, before, m, r)
    BY <1>3, <2>1, <2>2, <2>3, <2>4, RowTrimmed
  <2> PICK from \in [1..r -> 1..m] :
         /\ \A i, j \in 1..r : i < j => from[i] < from[j]
         /\ \A i \in 1..r : after[i] = before[from[i]]
    BY <2>5 DEF Trimmed
  <2> PICK f, old, new, n, told :
         f = file /\ old = Texts /\ new = Texts' /\ n = appended /\ told = file'
    OBVIOUS
  <2>6. Trimmed(new, old, m, r)
    <3>1. \A i \in 1..r : from[i] \in 1..m /\ new[i] = old[from[i]]
      BY <2>1, <2>2
    <3> QED
      BY <3>1 DEF Trimmed
  <2>7. /\ old \in [1..m -> Seq(Nat)] /\ new \in [1..r -> Seq(Nat)] /\ told = Append(f, 0)
        /\ Kept(f, old, n) /\ m \in Nat /\ r \in Nat
    BY <1>3, <2>1, <2>2
  <2>8. Kept(told, new, n)
    BY <2>6, <2>7, TextsDropped
  <2> QED
    BY <1>1, <2>8
<1> QED
  BY <1>1, <1>2, <1>3

\* The worker writes the first text that waits.
LEMMA WriteAccounts ==
    ASSUME ExclusiveIInv, Write, Kept(file, Texts, appended)
    PROVE  Kept(file', Texts', appended')
<1>1. /\ ExclusiveIInv'
      /\ written' = written + 1 /\ written < Len(buffersToWrite)
      /\ file' = file \o content[buffersToWrite[written + 1]]
      /\ UNCHANGED <<content, currentBuffer, buffers, buffersToWrite, appended>>
  BY WriteKeeps
<1> PICK m : Waiting(m)
  BY TextsTyped
<1> PICK r : Waiting(r)'
  BY <1>1, NextRow
<1>2. /\ m \in Nat /\ m = Len(buffersToWrite) - written + Len(buffers) + 1 /\ m >= 1
      /\ Texts \in [1..m -> Seq(Nat)] /\ \A i \in 1..m : Texts[i] = content[Pending[i]]
  BY DEF Waiting
<1>3. /\ r \in Nat /\ r = Len(buffersToWrite) - (written + 1) + Len(buffers) + 1
      /\ Texts' \in [1..r -> Seq(Nat)] /\ \A i \in 1..r : Texts'[i] = content[Pending'[i]]
  BY <1>1 DEF Waiting
<1>4. /\ Row(Pending, buffersToWrite, written, buffers, currentBuffer)
      /\ Row(Pending', buffersToWrite, written + 1, buffers, currentBuffer)
  BY <1>1, PendingRow, NextRow
<1>5. /\ buffersToWrite \in Seq(Buffers) /\ written \in Nat
      /\ buffers \in Seq(Buffers) /\ currentBuffer \in Buffers
  BY DEF ExclusiveIInv, LogTypes
<1> PICK toWrite, done, full, current, before, after :
       /\ toWrite = buffersToWrite /\ done = written /\ full = buffers
       /\ current = currentBuffer /\ before = Pending /\ after = Pending'
  OBVIOUS
<1>6. Shorter(after, before, m, r, toWrite[done + 1])
  BY <1>1, <1>2, <1>3, <1>4, <1>5, RowShrinks
<1> PICK f, old, new, n, longer :
       f = file /\ old = Texts /\ new = Texts' /\ n = appended /\ longer = file'
  OBVIOUS
<1> PICK first : first = content[toWrite[done + 1]]
  OBVIOUS
<1>7. Shorter(new, old, m, r, first)
  <2>1. /\ r + 1 = m /\ before[1] = toWrite[done + 1]
        /\ \A i \in 1..r : after[i] = before[i + 1]
    BY <1>6 DEF Shorter
  <2>2. 1 \in 1..m /\ \A i \in 1..r : i + 1 \in 1..m
    BY <1>2, <1>3, <2>1
  <2>3. old[1] = first
    BY <1>2, <2>1, <2>2
  <2>4. ASSUME NEW i \in 1..r PROVE new[i] = old[i + 1]
    <3>1. new[i] = content[after[i]] /\ after[i] = before[i + 1] /\ i + 1 \in 1..m
      BY <1>3, <2>1, <2>2
    <3> QED
      BY <1>2, <3>1
  <2> QED
    BY <2>1, <2>3, <2>4 DEF Shorter
<1>8. longer = f \o first /\ old[1] = first
  BY <1>1, <1>7 DEF Shorter
<1>9. Writes(f, m, old, longer, r, new)
  BY <1>2, <1>3, <1>7, <1>8 DEF Writes
<1>10. Kept(longer, new, n)
  BY <1>9, TextWritten
<1> QED
  BY <1>1, <1>10

\* The texts that wait are as before when their buffers are.
LEMMA SameAccounts ==
    ASSUME ExclusiveIInv, Kept(file, Texts, appended), Pending' = Pending,
           UNCHANGED <<file, appended>>,
           \A m \in Nat : Waiting(m) => \A i \in 1..m : content'[Pending[i]] = content[Pending[i]]
    PROVE  Kept(file', Texts', appended')
<1> PICK m : Waiting(m)
  BY TextsTyped
<1>1. m \in Nat /\ DOMAIN Pending = 1..m
  BY DEF Waiting
<1>2. Texts' = Texts
  BY <1>1 DEF Texts
<1> QED
  BY <1>2

\* All were written when the worker empties two of them.
LEMMA RefillAccounts ==
    ASSUME ExclusiveIInv, Refill, Kept(file, Texts, appended)
    PROVE  Kept(file', Texts', appended')
<1>1. /\ ExclusiveIInv'
      /\ written = Len(buffersToWrite) /\ written' = 0 /\ buffersToWrite' = <<>>
      /\ \A b \in Buffers :
            \/ content'[b] = content[b]
            \/ content'[b] = <<>> /\ \E i \in DOMAIN buffersToWrite : b = buffersToWrite[i]
      /\ UNCHANGED <<currentBuffer, buffers, file, appended>>
  BY RefillKeeps
<1>2. Pending' = Pending
  <2>1. /\ Row(Pending, buffersToWrite, written, buffers, currentBuffer)
        /\ Row(Pending', <<>>, 0, buffers, currentBuffer)
    BY <1>1, PendingRow, NextRow
  <2>2. written \in Nat /\ Len(buffers) \in Nat
    BY <2>1 DEF Row
  <2> PICK n, before, after : n = Len(buffers) /\ before = Pending /\ after = Pending'
    OBVIOUS
  <2>3. /\ before \in [1..(0 + n + 1) -> Buffers]
        /\ \A i \in 1..n : before[0 + i] = buffers[i]
        /\ before[0 + n + 1] = currentBuffer
    BY <1>1, <2>1, <2>2 DEF Row
  <2>4. /\ after \in [1..(0 + n + 1) -> Buffers]
        /\ \A i \in 1..n : after[0 + i] = buffers[i]
        /\ after[0 + n + 1] = currentBuffer
    BY <1>1, <2>1, <2>2 DEF Row
  <2>5. \A i \in 1..(0 + n + 1) : (i \in 1..n /\ 0 + i = i) \/ i = 0 + n + 1
    BY <2>2
  <2>6. \A i \in 1..(0 + n + 1) : before[i] = after[i]
    BY <2>3, <2>4, <2>5
  <2> QED
    BY <2>3, <2>4, <2>6
<1>3. ASSUME NEW m \in Nat, Waiting(m), NEW i \in 1..m
      PROVE  content'[Pending[i]] = content[Pending[i]]
  <2>1. Pending[i] \in Buffers
    BY <1>3 DEF Waiting
  <2>3. ~(written < Len(buffersToWrite))
    BY <1>1 DEF ExclusiveIInv, LogTypes
  <2>2. \A j \in DOMAIN buffersToWrite : Pending[i] # buffersToWrite[j]
    BY <1>3, <2>3, PendingAmong DEF ExclusiveIInv, ListsApart, Pointed
  <2> QED
    BY <1>1, <2>1, <2>2
<1> QED
  BY <1>1, <1>2, <1>3, SameAccounts

\* The first spare buffers of the worker are none that wait.
LEMMA StartAccounts ==
    ASSUME ~IsFiniteSet(Buffers), ExclusiveIInv, start, Kept(file, Texts, appended)
    PROVE  Kept(file', Texts', appended')
<1>1. newBuffer1' \notin InUse /\ newBuffer2' \notin InUse
  BY StartKeeps
<1>2. /\ content' = [content EXCEPT ![newBuffer1'] = <<>>, ![newBuffer2'] = <<>>]
      /\ UNCHANGED <<currentBuffer, buffers, buffersToWrite, written, file, appended>>
  BY DEF start, shared
<1>3. Pending' = Pending
  BY <1>2 DEF Pending
<1>4. ASSUME NEW m \in Nat, Waiting(m), NEW i \in 1..m
      PROVE  content'[Pending[i]] = content[Pending[i]]
  <2>1. Pending[i] \in InUse /\ Pending[i] \in Buffers
    BY <1>4, PendingAmong, LoggingAssumption DEF Waiting, InUse, ToSet, ExclusiveIInv, LogTypes
  <2> QED
    BY <1>1, <1>2, <2>1 DEF ExclusiveIInv, LogTypes
<1> QED
  BY <1>2, <1>3, <1>4, SameAccounts

\* What is kept is what NoSilentLoss asks for.
LEMMA KeptIsNoLoss == Kept(file, Texts, appended) => NoSilentLoss
<1> SUFFICES ASSUME Kept(file, Texts, appended) PROVE NoSilentLoss
  OBVIOUS
<1>1. DOMAIN Texts = DOMAIN Pending /\ \A i \in DOMAIN Pending : Texts[i] = content[Pending[i]]
  BY DEF Texts
<1>2. Increasing(file)
  BY DEF Kept, InOrder
<1>3. ASSUME NEW i \in DOMAIN Pending
      PROVE  /\ Increasing(content[Pending[i]])
             /\ Before(file, content[Pending[i]])
             /\ \A j \in DOMAIN Pending :
                   i < j => Before(content[Pending[i]], content[Pending[j]])
  BY <1>1 DEF Kept, InOrder
<1>4. ASSUME NEW line \in 1..appended
      PROVE  \/ line \in ToSet(file)
             \/ \E i \in DOMAIN Pending : line \in ToSet(content[Pending[i]])
             \/ \E k \in DOMAIN file :
                   file[k] = 0 /\ \A i \in DOMAIN file : file[i] > line => k < i
  <2>1. Accounted(file, Texts, line)
    BY DEF Kept
  <2>2. CASE \E i \in DOMAIN file : file[i] = line
    BY <2>2 DEF ToSet
  <2>3. CASE \E i \in DOMAIN Texts : \E k \in DOMAIN Texts[i] : Texts[i][k] = line
    BY <1>1, <2>3 DEF ToSet
  <2>4. CASE LossTold(file, line)
    BY <2>4 DEF LossTold
  <2> QED
    BY <2>1, <2>2, <2>3, <2>4 DEF Accounted
<1> QED
  BY <1>2, <1>3, <1>4 DEF NoSilentLoss

\* At first there is no line.
LEMMA InitKept ==
    ASSUME ~IsFiniteSet(Buffers), Init
    PROVE  Kept(file, Texts, appended)
<1>1. ExclusiveIInv
  BY InitExclusive
<1>2. /\ file = <<>> /\ appended = 0
      /\ content = [b \in Buffers |-> <<>>]
  BY DEF Init
<1> PICK m : Waiting(m)
  BY <1>1, TextsTyped
<1>3. /\ m \in Nat /\ Texts \in [1..m -> Seq(Nat)] /\ Pending \in [1..m -> Buffers]
      /\ \A i \in 1..m : Texts[i] = content[Pending[i]]
  BY DEF Waiting
<1>4. DOMAIN file = {} /\ file \in Seq(Nat) /\ appended \in Nat /\ 1..appended = {}
  BY <1>2
<1>5. \A i \in DOMAIN Texts : DOMAIN Texts[i] = {}
  <2>1. \A i \in 1..m : Texts[i] = <<>>
    BY <1>2, <1>3
  <2>2. DOMAIN <<>> = {}
    OBVIOUS
  <2> QED
    BY <1>3, <2>1, <2>2
<1>6. Numbered(file, Texts, appended)
  BY <1>4, <1>5 DEF Numbered
<1>7. InOrder(file, Texts)
  BY <1>4, <1>5 DEF InOrder, Increasing, Before
<1> QED
  BY <1>3, <1>4, <1>6, <1>7 DEF Kept

\* Each step keeps every line, or tells of its loss.
LEMMA KeptInvariant ==
    ASSUME ~IsFiniteSet(Buffers)
    PROVE  Spec => []Kept(file, Texts, appended)
<1>1. ExclusiveIInv /\ Kept(file, Texts, appended) /\ [Next]_vars => Kept(file, Texts, appended)'
  <2> SUFFICES ASSUME ExclusiveIInv, Kept(file, Texts, appended), [Next]_vars
               PROVE  Kept(file', Texts', appended')
    OBVIOUS
  <2>1. CASE append
    BY <2>1, AppendHereAccounts, AppendToNextAccounts DEF append
  <2>2. CASE start
    BY <2>2, StartAccounts
  <2>3. CASE /\ UNCHANGED <<content, currentBuffer, buffers, buffersToWrite, written, file, appended>>
    BY <2>3 DEF Texts, Pending
  <2>4. CASE Lock
    BY <2>3, <2>4, TakeAccounts DEF Lock, shared
  <2>5. CASE Wake
    BY <2>5, TakeAccounts DEF Wake
  <2>6. CASE Trim \/ Write \/ Refill
    BY <2>6, TrimAccounts, WriteAccounts, RefillAccounts
  <2>7. CASE UNCHANGED vars
    BY <2>3, <2>7 DEF vars, shared, worker
  <2> QED
    BY <2>1, <2>2, <2>4, <2>5, <2>6, <2>7 DEF Next, threadFunc
<1>2. Init => Kept(file, Texts, appended)
  BY InitKept
<1> QED
  BY <1>1, <1>2, ExclusiveInvariant, PTL DEF Spec

(***************************************************************************)
(* Whatever the threads append while the worker writes, every line is in   *)
(* the file or in a buffer that will be written, once and in the order of  *)
(* the appends, unless the file tells of a loss at the place where the     *)
(* line would stand.                                                       *)
(***************************************************************************)
THEOREM LossesAreTold ==
    ASSUME ~IsFiniteSet(Buffers)
    PROVE  Spec => []NoSilentLoss
BY KeptInvariant, KeptIsNoLoss, PTL
=============================================================================
