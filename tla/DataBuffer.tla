------------------------------ MODULE DataBuffer ------------------------------
(***************************************************************************)
(* DataBuffer: the growing buffer under every read and write of a session. *)
(* A buffer is its memory and two indexes into it; kCheapPrepend is 0.     *)
(* Memory that was read already keeps its bytes until it is overwritten.   *)
(***************************************************************************)
EXTENDS Integers, Sequences

\* A byte of memory that a vector has just added.
zero == <<0, 0>>

newBuffer(size) == [memory |-> [i \in 1..size |-> zero], reader |-> 0, writer |-> 0]

readableBytes(b) == b.writer - b.reader
writableBytes(b) == Len(b.memory) - b.writer

\* The bytes to be read, as peek() shows them.
Readable(b) == SubSeq(b.memory, b.reader + 1, b.writer)

retrieveAll(b) == [b EXCEPT !.reader = 0, !.writer = 0]

\* Mutation of retrieve: what follows the packet is dropped with it.
RetrieveEverything(b, len) == retrieveAll(b)

retrieve(b, len) ==
    IF len < readableBytes(b) THEN [b EXCEPT !.reader = @ + len] ELSE retrieveAll(b)

resize(b, size) ==
    [b EXCEPT !.memory = @ \o [i \in 1..(size - Len(@)) |-> zero]]

\* Mutation of moveToFront: the reader stays where it was.
MoveWithoutReader(b) ==
    [b EXCEPT !.memory = Readable(b) \o SubSeq(@, readableBytes(b) + 1, Len(@)),
              !.writer = readableBytes(b)]

\* The readable bytes are copied to the beginning of the memory.
moveToFront(b) ==
    [b EXCEPT !.memory = Readable(b) \o SubSeq(@, readableBytes(b) + 1, Len(@)),
              !.reader = 0,
              !.writer = readableBytes(b)]

\* Mutation of makeSpace: the memory before the reader is never used again.
AlwaysResize(b, len) == resize(b, b.writer + len)

makeSpace(b, len) ==
    IF writableBytes(b) + b.reader < len
    THEN resize(b, b.writer + len)
    ELSE moveToFront(b)

ensureWritableBytes(b, len) ==
    IF writableBytes(b) < len THEN makeSpace(b, len) ELSE b

hasWritten(b, len) == [b EXCEPT !.writer = @ + len]

\* What a read leaves in the memory behind the writer.
Store(b, bytes) ==
    [b EXCEPT !.memory = SubSeq(@, 1, b.writer) \o bytes
                            \o SubSeq(@, b.writer + Len(bytes) + 1, Len(@))]
=============================================================================
