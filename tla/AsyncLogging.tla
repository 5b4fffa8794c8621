---------------------------- MODULE AsyncLogging ----------------------------
(***************************************************************************)
(* AsyncLogging: the threads of a program append lines to a buffer under a *)
(* mutex, and one worker takes the full buffers, and the one begun, writes *)
(* them to the log file and gives two of them back to be filled again.     *)
(*                                                                         *)
(* What a thread does while it holds the mutex is one step.  The worker's  *)
(* other steps touch its own buffers only, which is what has to be shown.  *)
(* stop() sets running_ to true, so the worker's loop has no end.          *)
(***************************************************************************)
EXTENDS Integers, FiniteSets, SequencesExt

CONSTANTS
    Buffers,      \* the addresses of buffers
    BufferSize,   \* the size of a buffer (kLargeBuffer), in lines
    MaxBuffers,   \* more than these in one round are dropped (25 in the code)
    MaxLines      \* bound: lines appended

nullptr == 0

ASSUME LoggingAssumption ==
    /\ nullptr \notin Buffers
    /\ BufferSize \in Nat /\ BufferSize > 1
    /\ MaxBuffers \in Nat /\ MaxBuffers > 1
    /\ MaxLines \in Nat

VARIABLES
    content,          \* the lines in each buffer
    currentBuffer,    \* the buffer being filled
    nextBuffer,       \* the one to be filled next, if any
    buffers,          \* buffers_, those that are full
    newBuffer1,       \* the worker's spare buffers
    newBuffer2,
    buffersToWrite,   \* what the worker took in this round
    written,          \* how many of them it has written
    pc,               \* where the worker is
    file,             \* the log file; 0 is the report of a loss
    appended          \* how many lines append() was called with; they are numbered

shared == <<currentBuffer, nextBuffer, buffers>>
worker == <<newBuffer1, newBuffer2, buffersToWrite, written, pc>>
vars   == <<content, shared, worker, file, appended>>

\* The buffers something still points to.
InUse ==
    ({currentBuffer, nextBuffer, newBuffer1, newBuffer2} \ {nullptr})
        \cup ToSet(buffers) \cup ToSet(buffersToWrite)

\* new Buffer: memory nothing points to.
NewBuffer(used) == CHOOSE b \in Buffers : b \notin used

Init ==
    /\ content = [b \in Buffers |-> <<>>]
    /\ currentBuffer = NewBuffer({})
    /\ nextBuffer = NewBuffer({currentBuffer})
    /\ buffers = <<>>
    /\ newBuffer1 = nullptr
    /\ newBuffer2 = nullptr
    /\ buffersToWrite = <<>>
    /\ written = 0
    /\ pc = "unborn"
    /\ file = <<>>
    /\ appended = 0
-----------------------------------------------------------------------------
\* writable() > len, for a line of length 1.
HasRoom(b) == BufferSize - Len(content[b]) > 1

\* append, into the buffer begun.
AppendHere ==
    /\ HasRoom(currentBuffer)
    /\ appended' = appended + 1
    /\ content' = [content EXCEPT ![currentBuffer] = Append(@, appended')]
    /\ UNCHANGED shared

\* append, when the buffer begun is full.
AppendToNext ==
    /\ ~HasRoom(currentBuffer)
    /\ appended' = appended + 1
    /\ buffers' = Append(buffers, currentBuffer)
    /\ currentBuffer' = IF nextBuffer # nullptr THEN nextBuffer ELSE NewBuffer(InUse)
    /\ nextBuffer' = nullptr
    /\ content' = [content EXCEPT ![currentBuffer'] =
                       (IF nextBuffer # nullptr THEN @ ELSE <<>>) \o <<appended'>>]

append ==
    /\ appended < MaxLines
    /\ AppendHere \/ AppendToNext
    /\ UNCHANGED <<worker, file>>

\* start, and the beginning of threadFunc.
start ==
    /\ pc = "unborn"
    /\ pc' = "loop"
    /\ newBuffer1' = NewBuffer(InUse)
    /\ newBuffer2' = NewBuffer(InUse \cup {newBuffer1'})
    /\ content' = [content EXCEPT ![newBuffer1'] = <<>>, ![newBuffer2'] = <<>>]
    /\ UNCHANGED <<shared, buffersToWrite, written, file, appended>>

\* Mutation of TakeBuffers: the worker goes on pointing to its second spare.
TakeBuffersByCopy ==
    /\ pc' = "taken"
    /\ buffersToWrite' = Append(buffers, currentBuffer)
    /\ buffers' = <<>>
    /\ currentBuffer' = newBuffer1
    /\ newBuffer1' = nullptr
    /\ nextBuffer' = IF nextBuffer = nullptr THEN newBuffer2 ELSE nextBuffer
    /\ UNCHANGED <<newBuffer2, content, written, file, appended>>

\* The worker holds the mutex: it takes every buffer that has something, or
\* may have, and leaves its spares in their place.
TakeBuffers ==
    /\ pc' = "taken"
    /\ buffersToWrite' = Append(buffers, currentBuffer)
    /\ buffers' = <<>>
    /\ currentBuffer' = newBuffer1
    /\ newBuffer1' = nullptr
    /\ nextBuffer' = IF nextBuffer = nullptr THEN newBuffer2 ELSE nextBuffer
    /\ newBuffer2' = IF nextBuffer = nullptr THEN nullptr ELSE newBuffer2
    /\ UNCHANGED <<content, written, file, appended>>

\* Mutation of Lock: the worker looks again instead of waiting for the time-out.
LockAndLookAgain ==
    /\ pc = "loop"
    /\ (buffers = <<>> /\ UNCHANGED vars) \/ (buffers # <<>> /\ TakeBuffers)

Lock ==
    /\ pc = "loop"
    /\ \/ buffers = <<>> /\ pc' = "waiting"
          /\ UNCHANGED <<content, shared, newBuffer1, newBuffer2, buffersToWrite, written,
                         file, appended>>
       \/ buffers # <<>> /\ TakeBuffers

\* condition_ was notified, or flushInterval_ has passed.
Wake == pc = "waiting" /\ TakeBuffers

\* Mutation of Trim: the loss is not reported.
TrimSilently ==
    /\ pc = "taken"
    /\ pc' = "write"
    /\ buffersToWrite' = IF Len(buffersToWrite) > MaxBuffers
                         THEN SubSeq(buffersToWrite, 1, 2) ELSE buffersToWrite
    /\ UNCHANGED <<content, shared, newBuffer1, newBuffer2, written, file, appended>>

\* Too many buffers: all but two are dropped, which the file tells first.
Trim ==
    /\ pc = "taken"
    /\ pc' = "write"
    /\ \/ /\ Len(buffersToWrite) > MaxBuffers
          /\ buffersToWrite' = SubSeq(buffersToWrite, 1, 2)
          /\ file' = Append(file, 0)
       \/ /\ Len(buffersToWrite) <= MaxBuffers
          /\ UNCHANGED <<buffersToWrite, file>>
    /\ UNCHANGED <<content, shared, newBuffer1, newBuffer2, written, appended>>

\* The worker writes one buffer to the file.
Write ==
    /\ pc = "write"
    /\ written' = written + 1
    /\ file' = file \o content[buffersToWrite[written']]
    /\ pc' = IF written' = Len(buffersToWrite) THEN "refill" ELSE "write"
    /\ UNCHANGED <<content, shared, newBuffer1, newBuffer2, buffersToWrite, appended>>

\* The spares given away are replaced by two of the buffers written, emptied,
\* the last one first; "back" of an empty vector is undefined.
Refill ==
    LET kept == SubSeq(buffersToWrite, 1, IF written > 2 THEN 2 ELSE written)
        left == IF newBuffer1 = nullptr THEN Front(kept) ELSE kept
        one  == IF newBuffer1 = nullptr THEN Last(kept) ELSE newBuffer1
        two  == IF newBuffer2 = nullptr
                THEN IF left = <<>> THEN nullptr ELSE Last(left)
                ELSE newBuffer2
    IN /\ pc = "refill"
       /\ pc' = "loop"
       /\ newBuffer1' = one
       /\ newBuffer2' = two
       /\ content' = [b \in Buffers |->
                          IF b \in {one, two} \ {newBuffer1, newBuffer2} THEN <<>> ELSE content[b]]
       /\ buffersToWrite' = <<>>
       /\ written' = 0
       /\ UNCHANGED <<shared, file, appended>>

threadFunc == Lock \/ Wake \/ Trim \/ Write \/ Refill

Next == append \/ start \/ threadFunc

Spec == Init /\ [][Next]_vars

\* The worker runs, and a wait ends when its time is up.
FairSpec == Spec /\ WF_vars(threadFunc)
-----------------------------------------------------------------------------
\* The buffers whose lines will still be written to the file, in that order.
Pending ==
    SubSeq(buffersToWrite, written + 1, Len(buffersToWrite)) \o buffers \o <<currentBuffer>>

\* The lines were appended in this order; 0 is no line.
Increasing(lines) ==
    \A i, j \in DOMAIN lines : i < j /\ lines[j] # 0 => lines[i] < lines[j]

\* Every line of one text was appended before every line of another.
Before(lines, later) ==
    \A i \in DOMAIN lines, j \in DOMAIN later : lines[i] < later[j]

(***************************************************************************)
(* Whatever the threads append between the worker's steps, the lines kept  *)
(* are in the order of their appends, none twice, and none is missing      *)
(* unless the file reports a loss before any line that follows it.         *)
(***************************************************************************)
NoSilentLoss ==
    /\ Increasing(file)
    /\ \A i \in DOMAIN Pending :
          /\ Increasing(content[Pending[i]])
          /\ Before(file, content[Pending[i]])
          /\ \A j \in DOMAIN Pending :
                i < j => Before(content[Pending[i]], content[Pending[j]])
    /\ \A line \in 1..appended :
          \/ line \in ToSet(file)
          \/ \E i \in DOMAIN Pending : line \in ToSet(content[Pending[i]])
          \/ \E k \in DOMAIN file :
                file[k] = 0 /\ \A i \in DOMAIN file : file[i] > line => k < i

(***************************************************************************)
(* The worker and the appending threads never have a buffer in common, and *)
(* none stands at two places: what one writes, another does not read.  At  *)
(* the beginning of each round the worker has its two spare buffers, as    *)
(* the asserts of threadFunc say, and spare buffers are empty.             *)
(***************************************************************************)
BuffersAreExclusive ==
    LET single == <<currentBuffer, nextBuffer, newBuffer1, newBuffer2>>
    IN /\ \A i, j \in 1..4 : single[i] = single[j] /\ single[i] # nullptr => i = j
       /\ IsInjective(buffers) /\ IsInjective(buffersToWrite)
       /\ ToSet(buffers) \cap ToSet(buffersToWrite) = {}
       /\ \A i \in 1..4 : single[i] \notin ToSet(buffers) \cup ToSet(buffersToWrite)
       /\ \A i \in 2..4 : single[i] # nullptr => content[single[i]] = <<>>
       /\ pc \in {"loop", "waiting"} => nullptr \notin {newBuffer1, newBuffer2}

(***************************************************************************)
(* Each line reaches the file, without another append or a stop having to  *)
(* push it there, unless lines were dropped.                               *)
(***************************************************************************)
LinesGetWritten ==
    \A line \in 1..MaxLines :
        appended >= line ~> (pc = "unborn" \/ line \in ToSet(file) \/ 0 \in ToSet(file))
=============================================================================
