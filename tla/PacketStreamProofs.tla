------------------------- MODULE PacketStreamProofs -------------------------
(***************************************************************************)
(* Theorems about PacketStream, for every header, buffer and read size and *)
(* any number of packets and connections.                                  *)
(***************************************************************************)
EXTENDS PacketStream, FiniteSetTheorems, SequenceTheorems, WellFoundedInduction, TLAPS

(***************************************************************************)
(* Induction over sets of numbers, for what the loop has done by round i.  *)
(***************************************************************************)

\* A set of numbers has a least one.
LEMMA Least ==
    ASSUME NEW T, T \subseteq Nat, T # {}
    PROVE  \E x \in T : \A y \in T : x <= y
<1> DEFINE R == {p \in Nat \X Nat : p[1] < p[2]}
<1>1. R = OpToRel(<, Nat)
  BY DEF OpToRel
<1>2. IsWellFoundedOn(R, Nat)
  BY <1>1, NatLessThanWellFounded
<1> HIDE DEF R
<1>3. PICK x \in T : \A y \in T : ~(<<y, x>> \in R)
  BY <1>2, WFMin
<1>4. \A y \in T : ~(y < x)
  BY <1>3 DEF R
<1> QED
  BY <1>4

\* A set with 0 and the successors of its numbers has them all.
LEMMA Inductive ==
    ASSUME NEW S, 0 \in S, \A n \in Nat : n \in S => n + 1 \in S
    PROVE  Nat \subseteq S
<1> SUFFICES ASSUME NEW k \in Nat, k \notin S PROVE FALSE
  OBVIOUS
<1> DEFINE T == Nat \ S
<1>1. PICK x \in T : \A y \in T : x <= y
  BY Least
<1>2. x \in Nat /\ x # 0 /\ x \notin S
  BY <1>1
<1>3. x - 1 \in Nat /\ ~(x <= x - 1) /\ (x - 1) + 1 = x
  BY <1>2
<1>4. x - 1 \in S
  BY <1>1, <1>3
<1> QED
  BY <1>2, <1>3, <1>4

\* An initial part of 1..n is as long as it has elements.
LEMMA InitialPart ==
    ASSUME NEW n \in Nat, NEW S \in SUBSET (1..n),
           \A i \in S : \A j \in 1..i : j \in S
    PROVE  Cardinality(S) \in 0..n /\ S = 1..Cardinality(S)
<1> DEFINE T == {i \in Nat : i # 0 /\ i \notin S}
<1>1. n + 1 \in T
  OBVIOUS
<1>2. PICK x \in T : \A y \in T : x <= y
  BY <1>1, Least
<1>3. x \in Nat /\ x # 0 /\ x \notin S /\ x <= n + 1
  BY <1>1, <1>2
<1> HIDE DEF T
<1>4. \A i \in S : i < x
  BY <1>3
<1>5. \A i \in 1..(x - 1) : i \in S
  <2> SUFFICES ASSUME NEW i \in 1..(x - 1), i \notin S PROVE FALSE
    OBVIOUS
  <2>1. i \in T /\ i < x
    BY <1>3 DEF T
  <2> QED
    BY <1>2, <1>3, <2>1
<1>6. S = 1..(x - 1)
  <2>1. \A i \in S : i \in 1..(x - 1)
    BY <1>3, <1>4
  <2> QED
    BY <1>5, <2>1
<1>7. Cardinality(1..(x - 1)) = x - 1
  BY <1>3, FS_Interval
<1> QED
  BY <1>3, <1>6, <1>7

\* The numbers of a finite set have a largest one.
LEMMA Largest ==
    ASSUME NEW S, S \subseteq Nat, IsFiniteSet(S), S # {}
    PROVE  \E m \in S : \A s \in S : s <= m
<1>1. PICK b \in Nat : \A s \in S : s <= b
  <2>1. PICK n \in Nat : \E f : f \in Surjection(1..n, S)
    BY FS_NatSurjection DEF ExistsSurjection
  <2>2. PICK f : f \in [1..n -> S] /\ \A s \in S : \E i \in 1..n : f[i] = s
    BY <2>1 DEF Surjection
  <2> DEFINE K == {k \in Nat : k <= n => \E b \in Nat : \A i \in 1..k : f[i] <= b}
  <2>3. 0 \in K
    <3>1. 0 \in Nat /\ \A i \in 1..0 : f[i] <= 0
      OBVIOUS
    <3> QED
      BY <3>1
  <2>4. ASSUME NEW k \in Nat, k \in K PROVE k + 1 \in K
    <3> SUFFICES ASSUME k + 1 <= n PROVE \E b \in Nat : \A i \in 1..(k + 1) : f[i] <= b
      OBVIOUS
    <3>1. PICK b \in Nat : \A i \in 1..k : f[i] <= b
      BY <2>4
    <3>5. ASSUME NEW i \in 1..(k + 1) PROVE f[i] \in Nat
      <4>1. i \in 1..n
        OBVIOUS
      <4>2. f[i] \in S
        BY <2>2, <4>1
      <4> QED
        BY <4>2
    <3>2. f[k + 1] \in Nat
      BY <3>5
    <3>3. b + f[k + 1] \in Nat /\ b <= b + f[k + 1] /\ f[k + 1] <= b + f[k + 1]
      BY <3>2
    <3>4. ASSUME NEW i \in 1..(k + 1) PROVE f[i] <= b + f[k + 1]
      <4>1. CASE i \in 1..k
        <5>1. f[i] \in Nat /\ f[i] <= b
          BY <3>1, <3>5, <4>1
        <5> QED
          BY <3>2, <5>1
      <4>2. CASE i = k + 1
        BY <3>3, <4>2
      <4> QED
        BY <4>1, <4>2
    <3> QED
      BY <3>3, <3>4
  <2>5. n \in K
    <3> HIDE DEF K
    <3> QED
      BY <2>3, <2>4, Inductive
  <2>6. PICK b \in Nat : \A i \in 1..n : f[i] <= b
    BY <2>5
  <2> QED
    BY <2>2, <2>6
<1> DEFINE T == {d \in Nat : \E s \in S : s + d = b}
<1>2. T # {}
  <2>1. PICK s \in S : TRUE
    OBVIOUS
  <2>2. b - s \in T
    BY <1>1, <2>1
  <2> QED
    BY <2>2
<1>3. PICK d \in T : \A e \in T : d <= e
  BY <1>2, Least
<1>4. PICK m \in S : m + d = b
  BY <1>3
<1>5. ASSUME NEW s \in S PROVE s <= m
  <2>1. b - s \in T
    BY <1>1
  <2>2. d <= b - s /\ d \in Nat
    BY <1>3, <2>1
  <2> HIDE DEF T
  <2> QED
    BY <1>4, <2>2
<1> QED
  BY <1>5

-----------------------------------------------------------------------------
(***************************************************************************)
(* The buffer.  B are the bytes it may hold.                               *)
(***************************************************************************)
Buffer(B) == [memory : Seq(B), reader : Nat, writer : Nat]

Proper(b, B) == b \in Buffer(B) /\ b.reader <= b.writer /\ b.writer <= Len(b.memory)

\* p is the part of s behind its m-th element and up to its n-th.
Part(p, s, m, n) == p = SubSeq(s, m + 1, n)

\* p are the r elements of s behind its m-th one.
IsPart(p, s, m, r, B) ==
    p \in Seq(B) /\ Len(p) = r /\ \A i \in 1..r : p[i] = s[m + i]

\* A part of a sequence, one by one.
LEMMA PartIs ==
    ASSUME NEW B, NEW s \in Seq(B), NEW m \in Nat, NEW n \in Nat, NEW r \in Nat, n = m + r,
           n <= Len(s), NEW p, Part(p, s, m, n)
    PROVE  IsPart(p, s, m, r, B)
<1>1. m + 1 \in 1..(Len(s) + 1) /\ n \in m..Len(s) /\ n - m = r
  OBVIOUS
<1>2. \A i \in (m + 1)..n : s[i] \in B
  OBVIOUS
<1> QED
  BY <1>1, <1>2 DEF Part, IsPart

\* Sequences with the same elements are the same.
LEMMA SameSeq ==
    ASSUME NEW B, NEW s \in Seq(B), NEW t \in Seq(B), Len(s) = Len(t),
           \A i \in 1..Len(s) : s[i] = t[i]
    PROVE  s = t
<1>1. s = [i \in 1..Len(s) |-> s[i]] /\ t = [i \in 1..Len(t) |-> t[i]]
  OBVIOUS
<1> QED
  BY <1>1

\* p is s with t behind it.
Row(p, s, t) == p = s \o t

IsRow(p, s, t, B) ==
    /\ p \in Seq(B) /\ Len(p) = Len(s) + Len(t)
    /\ \A i \in 1..Len(s) : p[i] = s[i]
    /\ \A i \in 1..Len(t) : p[Len(s) + i] = t[i]

\* Two sequences in a row, one by one.
LEMMA RowIs ==
    ASSUME NEW B, NEW s \in Seq(B), NEW t \in Seq(B), NEW p, Row(p, s, t)
    PROVE  IsRow(p, s, t, B)
<1>1. Len(s) \in Nat /\ Len(t) \in Nat
  OBVIOUS
<1>2. \A i \in 1..Len(t) : Len(s) + i \in 1..(Len(s) + Len(t)) /\ ~(Len(s) + i <= Len(s))
                           /\ (Len(s) + i) - Len(s) = i
  BY <1>1
<1>3. \A i \in 1..Len(s) : i \in 1..(Len(s) + Len(t)) /\ i <= Len(s)
  BY <1>1
<1> QED
  BY <1>1, <1>2, <1>3 DEF Row, IsRow

\* A sequence with these elements is that row.
LEMMA RowFrom ==
    ASSUME NEW B, NEW s \in Seq(B), NEW t \in Seq(B), NEW p, IsRow(p, s, t, B)
    PROVE  p = s \o t
<1>1. PICK q : Row(q, s, t)
  BY DEF Row
<1>2. IsRow(q, s, t, B)
  BY <1>1, RowIs
<1>3. Len(s) \in Nat /\ Len(t) \in Nat
  OBVIOUS
<1>4. p \in Seq(B) /\ q \in Seq(B) /\ Len(p) = Len(q)
  BY <1>2 DEF IsRow
<1>5. ASSUME NEW i \in 1..Len(p) PROVE p[i] = q[i]
  <2>1. CASE i \in 1..Len(s)
    BY <1>2, <2>1 DEF IsRow
  <2>2. CASE i \notin 1..Len(s)
    <3>1. Len(p) = Len(s) + Len(t)
      BY DEF IsRow
    <3>2. i - Len(s) \in 1..Len(t) /\ Len(s) + (i - Len(s)) = i
      BY <1>3, <2>2, <3>1
    <3> QED
      BY <1>2, <3>2 DEF IsRow
  <2> QED
    BY <2>1, <2>2
<1>6. p = q
  BY <1>4, <1>5, SameSeq
<1> QED
  BY <1>1, <1>6 DEF Row

\* What can be read, one by one.
LEMMA RestIs ==
    ASSUME NEW B, NEW b, Proper(b, B), NEW o \in 0..readableBytes(b)
    PROVE  /\ readableBytes(b) \in Nat
           /\ Rest(b, o) \in Seq(B) /\ Len(Rest(b, o)) = readableBytes(b) - o
           /\ \A i \in 1..(readableBytes(b) - o) : Rest(b, o)[i] = b.memory[b.reader + o + i]
           /\ Readable(b) = Rest(b, 0)
<1>1. /\ b.memory \in Seq(B) /\ b.reader \in Nat /\ b.writer \in Nat
      /\ b.reader <= b.writer /\ b.writer <= Len(b.memory)
  BY DEF Proper, Buffer
<1>2. /\ b.reader + o \in Nat /\ readableBytes(b) - o \in Nat
      /\ b.writer = b.reader + o + (readableBytes(b) - o) /\ readableBytes(b) \in Nat
  BY <1>1 DEF readableBytes
<1>3. PICK s \in Seq(B), m \in Nat, n \in Nat, r \in Nat :
          s = b.memory /\ m = b.reader + o /\ n = b.writer /\ r = readableBytes(b) - o
  BY <1>1, <1>2
<1>4. PICK p : p = Rest(b, o)
  OBVIOUS
<1>6. IsPart(p, s, m, r, B)
  <2>1. n = m + r /\ n <= Len(s) /\ Part(p, s, m, n)
    BY <1>1, <1>2, <1>3, <1>4 DEF Part, Rest
  <2> QED
    BY <2>1, PartIs
<1>5. Readable(b) = Rest(b, 0)
  <2>1. b.reader + 1 = b.reader + 0 + 1
    BY <1>1
  <2> QED
    BY <2>1 DEF Readable, Rest
<1> QED
  BY <1>2, <1>3, <1>4, <1>5, <1>6 DEF IsPart

\* retrieve leaves the rest.
LEMMA RetrieveLeaves ==
    ASSUME NEW B, NEW b, Proper(b, B), NEW o \in 0..readableBytes(b)
    PROVE  /\ Proper(retrieve(b, o), B) /\ retrieve(b, o).memory = b.memory
           /\ readableBytes(retrieve(b, o)) = readableBytes(b) - o
           /\ Readable(retrieve(b, o)) = Rest(b, o)
<1>1. /\ b.memory \in Seq(B) /\ b.reader \in Nat /\ b.writer \in Nat
      /\ b.reader <= b.writer /\ b.writer <= Len(b.memory) /\ readableBytes(b) \in Nat
  BY DEF Proper, Buffer, readableBytes
<1> DEFINE c == retrieve(b, o)
<1>2. CASE o < readableBytes(b)
  <2>1. c = [b EXCEPT !.reader = b.reader + o]
    BY <1>2 DEF retrieve
  <2>2. c.memory = b.memory /\ c.reader = b.reader + o /\ c.writer = b.writer /\ c \in Buffer(B)
    BY <1>1, <2>1 DEF Proper, Buffer
  <2>3. Proper(c, B) /\ readableBytes(c) = readableBytes(b) - o
    BY <1>1, <1>2, <2>2 DEF Proper, readableBytes
  <2>4. Readable(c) = Rest(b, o)
    BY <2>2 DEF Readable, Rest
  <2> QED
    BY <2>2, <2>3, <2>4
<1>3. CASE ~(o < readableBytes(b))
  <2>1. c = [b EXCEPT !.reader = 0, !.writer = 0] /\ o = readableBytes(b)
    BY <1>1, <1>3 DEF retrieve, retrieveAll
  <2>2. c.memory = b.memory /\ c.reader = 0 /\ c.writer = 0 /\ c \in Buffer(B)
    <3>1. b \in Buffer(B)
      BY DEF Proper
    <3> HIDE DEF c
    <3> QED
      BY <2>1, <3>1 DEF Buffer
  <2>3. Proper(c, B) /\ readableBytes(c) = readableBytes(b) - o
    BY <1>1, <2>1, <2>2 DEF Proper, readableBytes
  <2>4. Readable(c) = <<>> /\ Rest(b, o) = <<>>
    <3>1. Len(Rest(b, o)) = 0 /\ Rest(b, o) \in Seq(B)
      BY <1>1, <2>1, RestIs
    <3>2. 0 \in 0..readableBytes(c)
      BY <1>1, <2>1, <2>3
    <3>3. Len(Readable(c)) = 0 /\ Readable(c) \in Seq(B)
      <4> HIDE DEF c
      <4> QED
        BY <1>1, <2>1, <2>3, <3>2, RestIs
    <3> QED
      BY <3>1, <3>3
  <2> QED
    BY <2>2, <2>3, <2>4
<1> QED
  BY <1>2, <1>3

\* What can be read is a part of the memory.
LEMMA ReadablePart ==
    ASSUME NEW B, NEW b, Proper(b, B), NEW r, r = readableBytes(b)
    PROVE  r \in Nat /\ IsPart(Readable(b), b.memory, b.reader, r, B)
<1>1. PICK s \in Seq(B), m \in Nat, n \in Nat : s = b.memory /\ m = b.reader /\ n = b.writer
  BY DEF Proper, Buffer
<1>2. m <= n /\ n <= Len(s)
  BY <1>1 DEF Proper
<1>3. PICK p : Part(p, s, m, n)
  BY DEF Part
<1>4. r \in Nat /\ n = m + r
  BY <1>1, <1>2 DEF readableBytes
<1>5. IsPart(p, s, m, r, B)
  BY <1>2, <1>3, <1>4, PartIs
<1>6. p = Readable(b)
  BY <1>1, <1>3 DEF Part, Readable
<1> QED
  BY <1>1, <1>4, <1>5, <1>6

\* The same r elements behind the k-th of t and the m-th of s.
SameAt(t, k, s, m, r) == \A i \in 1..r : t[k + i] = s[m + i]

\* Two sequences with the same part.
LEMMA SamePart ==
    ASSUME NEW B, NEW r \in Nat, NEW p, NEW s, NEW m, IsPart(p, s, m, r, B),
           NEW q, NEW t, NEW k, IsPart(q, t, k, r, B), SameAt(t, k, s, m, r)
    PROVE  q = p
<1>1. q \in Seq(B) /\ p \in Seq(B) /\ Len(q) = Len(p)
  BY DEF IsPart
<1>2. \A i \in 1..Len(q) : q[i] = p[i]
  BY DEF IsPart, SameAt
<1> QED
  BY <1>1, <1>2, SameSeq

\* Buffers with the same bytes to be read.
LEMMA SameReadable ==
    ASSUME NEW B, NEW b, Proper(b, B), NEW c, Proper(c, B), NEW r,
           r = readableBytes(b), r = readableBytes(c),
           SameAt(c.memory, c.reader, b.memory, b.reader, r)
    PROVE  Readable(c) = Readable(b)
<1>1. /\ r \in Nat /\ IsPart(Readable(b), b.memory, b.reader, r, B)
      /\ IsPart(Readable(c), c.memory, c.reader, r, B)
  BY ReadablePart
<1> QED
  BY <1>1, SamePart

\* resize keeps what was in the memory.
LEMMA ResizeKeeps ==
    ASSUME NEW B, zero \in B, NEW b, Proper(b, B), NEW size \in Nat, Len(b.memory) <= size,
           NEW c, c = resize(b, size)
    PROVE  /\ Proper(c, B) /\ readableBytes(c) = readableBytes(b)
           /\ Len(c.memory) = size /\ Readable(c) = Readable(b)
<1>1. PICK s \in Seq(B), m \in Nat, n \in Nat : s = b.memory /\ m = b.reader /\ n = b.writer
  BY DEF Proper, Buffer
<1>2. m <= n /\ n <= Len(s) /\ Len(s) \in Nat /\ size - Len(s) \in Nat
  BY <1>1 DEF Proper
<1>3. PICK t : t = [i \in 1..(size - Len(s)) |-> zero]
  OBVIOUS
<1>4. t \in Seq(B) /\ Len(t) = size - Len(s)
  BY <1>2, <1>3
<1>5. PICK p : Row(p, s, t)
  BY DEF Row
<1>6. IsRow(p, s, t, B)
  BY <1>4, <1>5, RowIs
<1>7. p \in Seq(B) /\ Len(p) = size /\ \A i \in 1..Len(s) : p[i] = s[i]
  BY <1>2, <1>4, <1>6 DEF IsRow
<1>8. c = [b EXCEPT !.memory = p]
  BY <1>1, <1>3, <1>5 DEF resize, Row
<1>9. c.memory = p /\ c.reader = m /\ c.writer = n /\ c \in Buffer(B)
  BY <1>1, <1>7, <1>8 DEF Proper, Buffer
<1>10. Proper(c, B)
  BY <1>2, <1>7, <1>9 DEF Proper
<1>11. readableBytes(b) = n - m /\ readableBytes(c) = n - m
  BY <1>1, <1>9 DEF readableBytes
<1>12. \A i \in 1..(n - m) : m + i \in 1..Len(s)
  BY <1>2
<1>13. SameAt(c.memory, c.reader, b.memory, b.reader, n - m)
  BY <1>1, <1>7, <1>9, <1>12 DEF SameAt
<1>14. Readable(c) = Readable(b)
  BY <1>10, <1>11, <1>13, SameReadable
<1> QED
  BY <1>7, <1>9, <1>10, <1>11, <1>14

\* moveToFront keeps what can be read.
LEMMA MoveKeeps ==
    ASSUME NEW B, NEW b, Proper(b, B), NEW c, c = moveToFront(b)
    PROVE  /\ Proper(c, B) /\ readableBytes(c) = readableBytes(b)
           /\ Len(c.memory) = Len(b.memory) /\ Readable(c) = Readable(b)
<1>1. PICK s \in Seq(B), m \in Nat, n \in Nat : s = b.memory /\ m = b.reader /\ n = b.writer
  BY DEF Proper, Buffer
<1>2. PICK size \in Nat : size = Len(s)
  OBVIOUS
<1>3. PICK r : r = readableBytes(b)
  OBVIOUS
<1>4. r \in Nat /\ size = r + (size - r) /\ size - r \in Nat
  <2>1. r = n - m
    BY <1>1, <1>3 DEF readableBytes
  <2>2. m <= n /\ n <= size
    BY <1>1, <1>2 DEF Proper
  <2> QED
    BY <2>1, <2>2
<1>5. PICK t : Part(t, s, r, size)
  BY DEF Part
<1>6. IsPart(t, s, r, size - r, B)
  BY <1>2, <1>4, <1>5, PartIs
<1>7. t \in Seq(B) /\ Len(t) = size - r
  BY <1>6 DEF IsPart
<1>8. PICK p : p = Readable(b)
  OBVIOUS
<1>9. IsPart(p, s, m, r, B)
  BY <1>1, <1>3, <1>8, ReadablePart
<1>10. p \in Seq(B) /\ Len(p) = r /\ \A i \in 1..r : p[i] = s[m + i]
  BY <1>9 DEF IsPart
<1>11. PICK q : Row(q, p, t)
  BY DEF Row
<1>12. IsRow(q, p, t, B)
  BY <1>7, <1>10, <1>11, RowIs
<1>13. q \in Seq(B) /\ Len(q) = size /\ \A i \in 1..r : q[i] = s[m + i]
  <2>1. q \in Seq(B) /\ Len(q) = r + (size - r) /\ \A i \in 1..r : q[i] = p[i]
    BY <1>7, <1>10, <1>12 DEF IsRow
  <2> QED
    BY <1>4, <1>10, <2>1
<1>14. c = [b EXCEPT !.memory = q, !.reader = 0, !.writer = r]
  <2>1. c = [b EXCEPT !.memory = Readable(b) \o SubSeq(b.memory, readableBytes(b) + 1,
                                                         Len(b.memory)),
                      !.reader = 0, !.writer = readableBytes(b)]
    BY DEF moveToFront
  <2>2. q = Readable(b) \o SubSeq(b.memory, readableBytes(b) + 1, Len(b.memory))
    BY <1>1, <1>2, <1>3, <1>5, <1>8, <1>11 DEF Part, Row
  <2> QED
    BY <1>3, <2>1, <2>2
<1>15. c.memory = q /\ c.reader = 0 /\ c.writer = r /\ c \in Buffer(B)
  <2>1. b \in Buffer(B) /\ q \in Seq(B) /\ r \in Nat /\ 0 \in Nat
    BY <1>4, <1>13 DEF Proper
  <2> QED
    BY <1>14, <2>1 DEF Buffer
<1>16. Proper(c, B)
  BY <1>4, <1>13, <1>15 DEF Proper
<1>17. readableBytes(c) = r
  BY <1>4, <1>15 DEF readableBytes
<1>18. SameAt(c.memory, c.reader, b.memory, b.reader, r)
  BY <1>1, <1>13, <1>15 DEF SameAt
<1>19. Readable(c) = Readable(b)
  BY <1>3, <1>16, <1>17, <1>18, SameReadable
<1> QED
  BY <1>1, <1>2, <1>3, <1>13, <1>15, <1>16, <1>17, <1>19

\* ensureWritableBytes keeps what can be read.  Memory is added only where the
\* reader is less than a read from its beginning.
LEMMA EnsureKeeps ==
    ASSUME NEW B, zero \in B, NEW b, Proper(b, B), NEW len \in Nat,
           NEW c, c = ensureWritableBytes(b, len)
    PROVE  /\ Proper(c, B) /\ readableBytes(c) = readableBytes(b)
           /\ Readable(c) = Readable(b)
           /\ Len(c.memory) = Len(b.memory) \/ Len(c.memory) < readableBytes(b) + 2 * len
<1>1. /\ b.reader \in Nat /\ b.writer \in Nat /\ Len(b.memory) \in Nat
      /\ b.reader <= b.writer /\ b.writer <= Len(b.memory)
  BY DEF Proper, Buffer
<1>2. CASE ~(writableBytes(b) < len)
  BY <1>2 DEF ensureWritableBytes
<1>3. CASE writableBytes(b) < len /\ writableBytes(b) + b.reader < len
  <2>1. c = resize(b, b.writer + len) /\ b.writer + len \in Nat
    BY <1>1, <1>3 DEF ensureWritableBytes, makeSpace
  <2>2. /\ Len(b.memory) <= b.writer + len
        /\ b.writer + len < readableBytes(b) + 2 * len
    BY <1>1, <1>3 DEF writableBytes, readableBytes
  <2>3. PICK size \in Nat : size = b.writer + len
    BY <2>1
  <2>4. /\ Proper(c, B) /\ readableBytes(c) = readableBytes(b)
        /\ Len(c.memory) = size /\ Readable(c) = Readable(b)
    <3>1. c = resize(b, size)
      BY <2>1, <2>3
    <3>2. Len(b.memory) <= size
      BY <2>2, <2>3
    <3>3. PICK d : d = resize(b, size)
      OBVIOUS
    <3>4. /\ Proper(d, B) /\ readableBytes(d) = readableBytes(b)
          /\ Len(d.memory) = size /\ Readable(d) = Readable(b)
      BY <3>2, <3>3, ResizeKeeps
    <3> QED
      BY <3>1, <3>3, <3>4, Zenon
  <2> QED
    BY <2>2, <2>3, <2>4
<1>4. CASE writableBytes(b) < len /\ ~(writableBytes(b) + b.reader < len)
  <2>1. c = moveToFront(b)
    BY <1>4 DEF ensureWritableBytes, makeSpace
  <2> QED
    BY <2>1, MoveKeeps
<1> QED
  BY <1>2, <1>3, <1>4

\* Bytes that are read in come behind those to be read.
LEMMA StoreAdds ==
    ASSUME NEW B, NEW b, Proper(b, B), NEW t \in Seq(B), NEW n, n = Len(t),
           n <= writableBytes(b), NEW c, c = hasWritten(Store(b, t), n)
    PROVE  /\ Proper(c, B) /\ readableBytes(c) = readableBytes(b) + n
           /\ Len(c.memory) = Len(b.memory) /\ Row(Readable(c), Readable(b), t)
<1>1. PICK s \in Seq(B), m \in Nat, w \in Nat : s = b.memory /\ m = b.reader /\ w = b.writer
  BY DEF Proper, Buffer
<1>2. PICK size \in Nat : size = Len(s)
  OBVIOUS
<1>3. n \in Nat /\ m <= w /\ w + n <= size /\ w <= size
  BY <1>1, <1>2 DEF Proper, writableBytes
<1>4. PICK p : Part(p, s, 0, w)
  BY DEF Part
<1>5. IsPart(p, s, 0, w, B)
  BY <1>2, <1>3, <1>4, PartIs
<1>7. PICK k \in Nat : k = w + n
  BY <1>3
<1>6. PICK r \in Nat : r = size - k
  <2>1. size - k \in Nat
    BY <1>3, <1>7
  <2> QED
    BY <2>1
<1>8. size = k + r /\ size <= Len(s)
  BY <1>2, <1>3, <1>6, <1>7
<1>9. PICK q : Part(q, s, k, size)
  BY DEF Part
<1>10. IsPart(q, s, k, r, B)
  BY <1>8, <1>9, PartIs
<1>11. PICK pt : Row(pt, p, t)
  BY DEF Row
<1>12. p \in Seq(B) /\ Len(p) = w /\ \A i \in 1..w : p[i] = s[i]
  BY <1>5 DEF IsPart
<1>13. q \in Seq(B) /\ Len(q) = r
  BY <1>10 DEF IsPart
<1>14. IsRow(pt, p, t, B)
  BY <1>11, <1>12, RowIs
<1>15. /\ pt \in Seq(B) /\ Len(pt) = k
       /\ \A i \in 1..w : pt[i] = p[i]
       /\ \A i \in 1..n : pt[w + i] = t[i]
  BY <1>7, <1>12, <1>14 DEF IsRow
<1>16. PICK a : Row(a, pt, q)
  BY DEF Row
<1>17. IsRow(a, pt, q, B)
  BY <1>13, <1>15, <1>16, RowIs
<1>18. a \in Seq(B) /\ Len(a) = size /\ \A i \in 1..k : a[i] = pt[i]
  BY <1>8, <1>13, <1>15, <1>17 DEF IsRow
<1>19. Store(b, t) = [b EXCEPT !.memory = a]
  <2>1. p = SubSeq(b.memory, 1, b.writer)
    BY <1>1, <1>4 DEF Part
  <2>2. q = SubSeq(b.memory, b.writer + Len(t) + 1, Len(b.memory))
    BY <1>1, <1>2, <1>7, <1>9 DEF Part
  <2>3. a = p \o t \o q
    BY <1>11, <1>16 DEF Row
  <2> QED
    BY <2>1, <2>2, <2>3 DEF Store
<1>20. c.memory = a /\ c.reader = m /\ c.writer = k /\ c \in Buffer(B)
  <2>1. b \in Buffer(B) /\ b.writer = w /\ b.reader = m
    BY <1>1 DEF Proper
  <2>2. c = [b EXCEPT !.memory = a, !.writer = k]
    BY <1>7, <1>19, <2>1 DEF hasWritten, Buffer
  <2> QED
    BY <1>18, <2>1, <2>2 DEF Buffer
<1>21. Proper(c, B)
  BY <1>3, <1>7, <1>8, <1>18, <1>20 DEF Proper
<1>22. PICK x : x = readableBytes(b)
  OBVIOUS
<1>23. x \in Nat /\ w = m + x /\ readableBytes(c) = x + n
  <2>1. x = w - m /\ readableBytes(c) = k - m
    BY <1>1, <1>20, <1>22 DEF readableBytes
  <2> QED
    BY <1>3, <1>7, <2>1
<1>24. IsPart(Readable(b), b.memory, b.reader, x, B)
  BY <1>22, ReadablePart
<1>25. PICK u, v : u = Readable(b) /\ v = Readable(c)
  OBVIOUS
<1>26. u \in Seq(B) /\ Len(u) = x /\ \A i \in 1..x : u[i] = s[m + i]
  BY <1>1, <1>24, <1>25 DEF IsPart
<1>27. IsPart(Readable(c), c.memory, c.reader, x + n, B)
  BY <1>21, <1>23, ReadablePart
<1>28. v \in Seq(B) /\ Len(v) = x + n /\ \A i \in 1..(x + n) : v[i] = a[m + i]
  BY <1>20, <1>25, <1>27 DEF IsPart
<1>29. \A i \in 1..x : v[i] = u[i]
  <2> SUFFICES ASSUME NEW i \in 1..x PROVE v[i] = u[i]
    OBVIOUS
  <2>1. i \in 1..(x + n) /\ m + i \in 1..w /\ m + i \in 1..k
    BY <1>3, <1>7, <1>23
  <2>2. v[i] = a[m + i] /\ a[m + i] = pt[m + i] /\ pt[m + i] = p[m + i] /\ p[m + i] = s[m + i]
    BY <1>12, <1>15, <1>18, <1>28, <2>1
  <2> QED
    BY <1>26, <2>2
<1>30. \A i \in 1..n : v[x + i] = t[i]
  <2> SUFFICES ASSUME NEW i \in 1..n PROVE v[x + i] = t[i]
    OBVIOUS
  <2>1. x + i \in 1..(x + n) /\ m + (x + i) = w + i /\ w + i \in 1..k
    BY <1>3, <1>7, <1>23
  <2>2. v[x + i] = a[w + i] /\ a[w + i] = pt[w + i]
    BY <1>18, <1>28, <2>1
  <2> QED
    BY <1>15, <2>2
<1>31. IsRow(v, u, t, B)
  BY <1>26, <1>28, <1>29, <1>30 DEF IsRow
<1>32. v = u \o t
  BY <1>26, <1>31, RowFrom
<1> QED
  BY <1>1, <1>2, <1>18, <1>20, <1>21, <1>22, <1>23, <1>25, <1>32 DEF Row

-----------------------------------------------------------------------------
(***************************************************************************)
(* The loop of defaultMessageCallback.                                     *)
(***************************************************************************)
\* The bytes of the packets that were sent, and those of new memory.
Byte == {zero} \cup ((1..Len(sent)) \X (Nat \ {0}))

\* The sizes of bodies are numbers.
LEMMA BodySizeNat == BodySizes \subseteq Nat /\ HeaderSize \in Nat /\ HeaderSize >= 1
  BY PacketAssumption

\* The size in a header is the size of some packet.
LEMMA SizeIs ==
    ASSUME sent \in Seq(Packet), NEW bytes \in Seq(Byte), Len(bytes) >= HeaderSize,
           NEW g \in BodySizes
    PROVE  SizeField(bytes, g) \in BodySizes
<1>1. PICK num : num = bytes[1][1]
  OBVIOUS
<1>2. CASE \A i \in 1..HeaderSize : bytes[i] = <<num, i>>
  <2>1. SizeField(bytes, g) = sent[num].size
    BY <1>1, <1>2 DEF SizeField
  <2>2. 1 \in 1..HeaderSize /\ 1 \in 1..Len(bytes)
    BY BodySizeNat
  <2>3. bytes[1] = <<num, 1>> /\ bytes[1] \in Byte
    BY <1>2, <2>2
  <2>4. <<num, 1>> \in Byte /\ <<num, 1>> # zero
    BY <2>3 DEF zero
  <2>5. num \in 1..Len(sent)
    BY <2>4 DEF Byte
  <2>6. sent[num] \in Packet
    BY <2>5
  <2> QED
    BY <2>1, <2>6 DEF Packet
<1>3. CASE ~\A i \in 1..HeaderSize : bytes[i] = <<num, i>>
  BY <1>1, <1>3 DEF SizeField
<1> QED
  BY <1>2, <1>3

\* A round retrieves nothing, where there is no packet, or at least a header.
LEMMA AfterIs ==
    ASSUME sent \in Seq(Packet), NEW b, Proper(b, Byte), NEW g \in BodySizes,
           NEW o \in 0..readableBytes(b)
    PROVE  /\ After(b, g, o) \in 0..readableBytes(b)
           /\ hasPacket(Rest(b, o), g)
                => /\ After(b, g, o) >= o + HeaderSize
                   /\ SizeField(Rest(b, o), g) \in BodySizes
                   /\ After(b, g, o) = o + HeaderSize + SizeField(Rest(b, o), g)
           /\ ~hasPacket(Rest(b, o), g) => After(b, g, o) = o
<1>1. PICK rest : rest = Rest(b, o)
  OBVIOUS
<1>2. PICK B : B = Byte
  OBVIOUS
<1>3. readableBytes(b) \in Nat /\ rest \in Seq(B) /\ Len(rest) = readableBytes(b) - o
  BY <1>1, <1>2, RestIs
<1>4. CASE ~hasPacket(rest, g)
  BY <1>1, <1>4 DEF After
<1>5. CASE hasPacket(rest, g)
  <2>1. Len(rest) >= HeaderSize /\ Len(rest) >= SizeField(rest, g) + HeaderSize
    BY <1>5 DEF hasPacket
  <2>2. SizeField(rest, g) \in BodySizes
    BY <1>2, <1>3, <2>1, SizeIs
  <2>3. After(b, g, o) = o + HeaderSize + SizeField(rest, g)
    BY <1>1, <1>5 DEF After
  <2>4. SizeField(rest, g) \in Nat
    BY <2>2, BodySizeNat
  <2> QED
    BY <1>1, <1>3, <1>5, <2>1, <2>2, <2>3, <2>4, BodySizeNat
<1> QED
  BY <1>1, <1>4, <1>5

\* cut is what the rounds up to the k-th have retrieved.
Cutting(cut, b, g, k) ==
    /\ cut \in [0..k -> 0..readableBytes(b)] /\ cut[0] = 0
    /\ \A i \in 1..k : cut[i] = After(b, g, cut[i - 1])

\* The rounds can be counted on, from each to the next.
LEMMA CuttingExists ==
    ASSUME sent \in Seq(Packet), NEW b, Proper(b, Byte), NEW g \in BodySizes, NEW n \in Nat
    PROVE  \E cut : Cutting(cut, b, g, n)
<1>1. PICK total \in Nat : total = readableBytes(b)
  BY DEF Proper, Buffer, readableBytes
<1> DEFINE K == {k \in Nat : \E cut : Cutting(cut, b, g, k)}
<1>2. 0 \in K
  <2>1. PICK cut : cut = [i \in 0..0 |-> 0]
    OBVIOUS
  <2>2. Cutting(cut, b, g, 0)
    BY <1>1, <2>1 DEF Cutting
  <2> QED
    BY <2>2
<1>3. ASSUME NEW k \in Nat, k \in K PROVE k + 1 \in K
  <2>1. PICK old : Cutting(old, b, g, k)
    BY <1>3
  <2>2. old \in [0..k -> 0..total] /\ old[0] = 0 /\ \A i \in 1..k : old[i] = After(b, g, old[i - 1])
    BY <1>1, <2>1 DEF Cutting
  <2>3. old[k] \in 0..readableBytes(b)
    BY <1>1, <2>2
  <2>4. PICK next : next = After(b, g, old[k])
    OBVIOUS
  <2>5. next \in 0..total
    BY <1>1, <2>3, <2>4, AfterIs
  <2>6. PICK cut : cut = [i \in 0..(k + 1) |-> IF i = k + 1 THEN next ELSE old[i]]
    OBVIOUS
  <2>7. cut \in [0..(k + 1) -> 0..total] /\ cut[0] = 0
    BY <2>2, <2>5, <2>6
  <2>8. ASSUME NEW i \in 1..(k + 1) PROVE cut[i] = After(b, g, cut[i - 1])
    <3>1. CASE i = k + 1
      <4>1. i - 1 = k /\ k \in 0..(k + 1) /\ k # k + 1 /\ i \in 0..(k + 1)
        BY <3>1
      <4>2. cut[i] = next /\ cut[i - 1] = old[k]
        BY <2>6, <3>1, <4>1
      <4> QED
        BY <2>4, <4>2
    <3>2. CASE i # k + 1
      <4>1. i \in 1..k /\ i - 1 \in 0..(k + 1) /\ i - 1 # k + 1 /\ i \in 0..(k + 1)
        BY <3>2
      <4>2. cut[i] = old[i] /\ cut[i - 1] = old[i - 1]
        BY <2>6, <3>2, <4>1
      <4> QED
        BY <2>2, <4>1, <4>2
    <3> QED
      BY <3>1, <3>2
  <2>9. Cutting(cut, b, g, k + 1)
    BY <1>1, <2>7, <2>8 DEF Cutting
  <2> QED
    BY <2>9
<1> HIDE DEF K
<1>4. n \in K
  BY <1>2, <1>3, Inductive
<1> QED
  BY <1>4 DEF K

\* How often the loop runs, at most.
Most(b) == readableBytes(b) \div HeaderSize

LEMMA MostIs ==
    ASSUME NEW b, readableBytes(b) \in Nat
    PROVE  Most(b) \in Nat /\ readableBytes(b) < Most(b) * HeaderSize + HeaderSize
<1>1. PICK total \in Nat, h \in Nat : total = readableBytes(b) /\ h = HeaderSize /\ h >= 1
  BY BodySizeNat
<1>2. total \div h \in Nat /\ total < (total \div h) * h + h
  BY <1>1
<1> QED
  BY <1>1, <1>2 DEF Most

\* Cuts counts them.
LEMMA CutsIs ==
    ASSUME sent \in Seq(Packet), NEW b, Proper(b, Byte), NEW g \in BodySizes
    PROVE  Cutting(Cuts(b, g), b, g, Most(b))
<1>1. PICK total \in Nat : total = readableBytes(b)
  BY DEF Proper, Buffer, readableBytes
<1>2. PICK most \in Nat : most = Most(b)
  BY <1>1, MostIs
<1>3. PICK f : Cutting(f, b, g, most)
  BY CuttingExists
<1>4. f \in [0..most -> 0..total] /\ f[0] = 0 /\ \A i \in 1..most : f[i] = After(b, g, f[i - 1])
  BY <1>1, <1>3 DEF Cutting
<1>5. f = [i \in 0..most |-> IF i = 0 THEN 0 ELSE After(b, g, f[i - 1])]
  <2>1. ASSUME NEW i \in 0..most PROVE f[i] = IF i = 0 THEN 0 ELSE After(b, g, f[i - 1])
    <3>1. CASE i = 0
      BY <1>4, <3>1
    <3>2. CASE i # 0
      BY <1>4, <3>2
    <3> QED
      BY <3>1, <3>2
  <2> QED
    BY <1>4, <2>1
<1>6. Cuts(b, g) = CHOOSE c : c = [i \in 0..most |-> IF i = 0 THEN 0 ELSE After(b, g, c[i - 1])]
  BY <1>2 DEF Cuts, Most
<1>7. PICK cut : cut = Cuts(b, g)
  OBVIOUS
<1>8. cut = [i \in 0..most |-> IF i = 0 THEN 0 ELSE After(b, g, cut[i - 1])]
  BY <1>5, <1>6, <1>7
<1>9. cut[0] = 0 /\ DOMAIN cut = 0..most
  BY <1>8
<1>10. ASSUME NEW i \in 1..most PROVE cut[i] = After(b, g, cut[i - 1])
  BY <1>8
<1> DEFINE K == {k \in Nat : k <= most => cut[k] \in 0..total}
<1>11. 0 \in K
  BY <1>9
<1>12. ASSUME NEW k \in Nat, k \in K PROVE k + 1 \in K
  <2> SUFFICES ASSUME k + 1 <= most PROVE cut[k + 1] \in 0..total
    OBVIOUS
  <2>1. cut[k] \in 0..readableBytes(b)
    BY <1>1, <1>12
  <2>2. k + 1 \in 1..most /\ (k + 1) - 1 = k
    OBVIOUS
  <2>3. cut[k + 1] = After(b, g, cut[k])
    BY <1>10, <2>2
  <2> QED
    BY <1>1, <2>1, <2>3, AfterIs
<1>13. Nat \subseteq K
  <2> HIDE DEF K
  <2> QED
    BY <1>11, <1>12, Inductive
<1>14. \A k \in 0..most : cut[k] \in 0..total
  BY <1>13
<1>15. cut \in [0..most -> 0..total]
  <2>1. cut = [i \in 0..most |-> cut[i]]
    BY <1>8
  <2> QED
    BY <1>14, <2>1
<1> QED
  BY <1>1, <1>2, <1>7, <1>9, <1>10, <1>15 DEF Cutting

\* The rounds that retrieve something.
Rounds(cut, most) == {i \in 1..most : cut[i] # cut[i - 1]}

Stays(cut, j, most) ==
    \A i \in j..most : cut[i] = cut[j - 1] /\ i \notin Rounds(cut, most)

\* Once a round has retrieved nothing, none does.
LEMMA CutsStay ==
    ASSUME NEW b, readableBytes(b) \in Nat, NEW g, NEW most \in Nat,
           NEW cut, Cutting(cut, b, g, most), NEW j \in 1..most, cut[j] = cut[j - 1]
    PROVE  Stays(cut, j, most)
<1> DEFINE K == {d \in Nat : j + d <= most => cut[j + d] = cut[j - 1] /\ cut[(j + d) - 1] = cut[j - 1]}
<1>1. 0 \in K
  OBVIOUS
<1>2. ASSUME NEW d \in Nat, d \in K PROVE d + 1 \in K
  <2> SUFFICES ASSUME j + (d + 1) <= most
               PROVE  cut[j + (d + 1)] = cut[j - 1] /\ cut[(j + (d + 1)) - 1] = cut[j - 1]
    OBVIOUS
  <2>1. /\ j + (d + 1) \in 1..most /\ (j + (d + 1)) - 1 = j + d /\ j + d \in 1..most
        /\ j + d <= most
    OBVIOUS
  <2>2. cut[j + d] = cut[j - 1]
    BY <1>2, <2>1
  <2>3. cut[j + (d + 1)] = After(b, g, cut[(j + (d + 1)) - 1])
    BY <2>1 DEF Cutting
  <2>4. cut[j] = After(b, g, cut[j - 1])
    BY DEF Cutting
  <2> QED
    BY <2>1, <2>2, <2>3, <2>4
<1>3. Nat \subseteq K
  <2> HIDE DEF K
  <2> QED
    BY <1>1, <1>2, Inductive
<1>4. ASSUME NEW i \in j..most PROVE cut[i] = cut[j - 1] /\ cut[i - 1] = cut[j - 1]
  <2>1. i - j \in Nat /\ j + (i - j) = i /\ i <= most
    OBVIOUS
  <2>2. i - j \in K
    BY <1>3, <2>1
  <2>3. \A d \in K : j + d <= most => cut[j + d] = cut[j - 1] /\ cut[(j + d) - 1] = cut[j - 1]
    OBVIOUS
  <2> QED
    BY <2>1, <2>2, <2>3
<1> QED
  BY <1>4 DEF Rounds, Stays

\* As many rounds as headers fit: then they retrieve all there could be.
LEMMA CutsGrow ==
    ASSUME NEW b, readableBytes(b) \in Nat, NEW most \in Nat,
           NEW cut \in [0..most -> 0..readableBytes(b)], cut[0] = 0,
           NEW r \in 0..most, \A i \in 1..r : cut[i] >= cut[i - 1] + HeaderSize
    PROVE  cut[r] >= r * HeaderSize
<1>1. PICK h \in Nat : h = HeaderSize
  BY BodySizeNat
<1>2. PICK total \in Nat : total = readableBytes(b)
  OBVIOUS
<1> DEFINE K == {k \in Nat : k <= r => cut[k] >= k * h}
<1>3. 0 \in K
  BY <1>1
<1>4. ASSUME NEW k \in Nat, k \in K PROVE k + 1 \in K
  <2> SUFFICES ASSUME k + 1 <= r PROVE cut[k + 1] >= (k + 1) * h
    OBVIOUS
  <2>1. k + 1 \in 1..r /\ (k + 1) - 1 = k /\ k \in 0..most /\ k + 1 \in 0..most /\ k <= r
    OBVIOUS
  <2>2. cut[k + 1] >= cut[k] + h
    BY <1>1, <2>1
  <2>3. cut[k] >= k * h
    BY <1>4, <2>1
  <2>4. cut[k] \in Nat /\ cut[k + 1] \in Nat
    BY <1>2, <2>1
  <2>5. k * h \in Nat /\ (k + 1) * h = k * h + h
    OBVIOUS
  <2>6. \A x, y, z \in Nat : y >= x + h /\ x >= z => y >= z + h
    OBVIOUS
  <2> QED
    BY <2>2, <2>3, <2>4, <2>5, <2>6
<1>5. r \in K
  <2> HIDE DEF K
  <2>1. Nat \subseteq K
    BY <1>3, <1>4, Inductive
  <2> QED
    BY <2>1
<1> QED
  BY <1>1, <1>5

\* What the loop has done when it ends.
Loop(cut, rounds, b, g) ==
    /\ rounds \in 0..Most(b)
    /\ cut \in [0..Most(b) -> 0..readableBytes(b)] /\ cut[0] = 0
    /\ \A i \in 1..rounds :
          /\ hasPacket(Rest(b, cut[i - 1]), g)
          /\ SizeField(Rest(b, cut[i - 1]), g) \in BodySizes
          /\ cut[i] = cut[i - 1] + HeaderSize + SizeField(Rest(b, cut[i - 1]), g)
    /\ cut[Most(b)] = cut[rounds]
    /\ ~hasPacket(Rest(b, cut[rounds]), g)

\* It handles packet after packet and ends when there is none.
LEMMA LoopIs ==
    ASSUME sent \in Seq(Packet), NEW b, Proper(b, Byte), NEW g \in BodySizes,
           NEW cut, cut = Cuts(b, g),
           NEW rounds, rounds = Cardinality(Rounds(cut, Most(b)))
    PROVE  Loop(cut, rounds, b, g)
<1>1. PICK total \in Nat : total = readableBytes(b)
  BY DEF Proper, Buffer, readableBytes
<1>2. PICK most \in Nat : most = Most(b) /\ total < most * HeaderSize + HeaderSize
  BY <1>1, MostIs
<1>3. Cutting(cut, b, g, most)
  BY <1>2, CutsIs
<1>4. cut \in [0..most -> 0..total] /\ cut[0] = 0 /\ \A i \in 1..most : cut[i] = After(b, g, cut[i - 1])
  BY <1>1, <1>3 DEF Cutting
<1>5. PICK S : S = Rounds(cut, most)
  OBVIOUS
<1>6. S \in SUBSET (1..most)
  BY <1>5 DEF Rounds
<1>7. ASSUME NEW i \in S, NEW j \in 1..i PROVE j \in S
  <2> SUFFICES ASSUME j \notin S PROVE FALSE
    OBVIOUS
  <2>1. j \in 1..most /\ i \in j..most
    BY <1>6
  <2>2. cut[j] = cut[j - 1]
    BY <1>5, <2>1 DEF Rounds
  <2>3. i \notin Rounds(cut, most)
    BY <1>1, <1>3, <2>1, <2>2, CutsStay DEF Stays
  <2> QED
    BY <1>5, <2>3
<1>8. rounds \in 0..most /\ S = 1..rounds
  <2>1. \A i \in S : \A j \in 1..i : j \in S
    BY <1>7
  <2>2. Cardinality(S) \in 0..most /\ S = 1..Cardinality(S)
    BY <1>6, <2>1, InitialPart
  <2> QED
    BY <1>2, <1>5, <2>2
<1>9. ASSUME NEW i \in 1..rounds
      PROVE  /\ hasPacket(Rest(b, cut[i - 1]), g)
             /\ SizeField(Rest(b, cut[i - 1]), g) \in BodySizes
             /\ cut[i] = cut[i - 1] + HeaderSize + SizeField(Rest(b, cut[i - 1]), g)
             /\ cut[i] >= cut[i - 1] + HeaderSize
  <2>1. i \in 1..most /\ i - 1 \in 0..most /\ i \in S
    BY <1>8
  <2>2. cut[i] # cut[i - 1]
    BY <1>5, <2>1 DEF Rounds
  <2>3. PICK o : o = cut[i - 1]
    OBVIOUS
  <2>4. o \in 0..readableBytes(b)
    BY <1>1, <1>4, <2>1, <2>3
  <2>5. cut[i] = After(b, g, o)
    BY <1>4, <2>1, <2>3
  <2> QED
    BY <2>2, <2>3, <2>4, <2>5, AfterIs
<1>10. cut[rounds] \in 0..total
  BY <1>4, <1>8
<1>11. CASE rounds = most
  <2>1. cut[most] >= most * HeaderSize
    <3>1. \A i \in 1..most : cut[i] >= cut[i - 1] + HeaderSize
      BY <1>9, <1>11
    <3>2. most \in 0..most
      OBVIOUS
    <3>3. cut \in [0..most -> 0..readableBytes(b)]
      BY <1>1, <1>4
    <3> QED
      BY <1>1, <1>4, <3>1, <3>2, <3>3, CutsGrow
  <2>2. ~hasPacket(Rest(b, cut[most]), g)
    <3> SUFFICES ASSUME hasPacket(Rest(b, cut[most]), g) PROVE FALSE
      OBVIOUS
    <3>1. PICK o : o = cut[most]
      OBVIOUS
    <3>2. o \in 0..readableBytes(b)
      BY <1>1, <1>10, <1>11, <3>1
    <3>3. After(b, g, o) >= o + HeaderSize /\ After(b, g, o) \in 0..readableBytes(b)
      BY <3>1, <3>2, AfterIs
    <3>4. PICK z \in Nat : z = most * HeaderSize
      BY BodySizeNat
    <3>5. o >= z /\ total < z + HeaderSize
      BY <1>2, <2>1, <3>1, <3>4
    <3> QED
      BY <1>1, <3>2, <3>3, <3>5, BodySizeNat
  <2> QED
    BY <1>1, <1>2, <1>4, <1>8, <1>9, <1>11, <2>2 DEF Loop
<1>12. CASE rounds # most
  <2>1. rounds + 1 \in 1..most /\ rounds + 1 \notin S /\ (rounds + 1) - 1 = rounds
    BY <1>8, <1>12
  <2>2. cut[rounds + 1] = cut[(rounds + 1) - 1]
    BY <1>5, <2>1 DEF Rounds
  <2>3. most \in (rounds + 1)..most
    BY <2>1
  <2>4. cut[most] = cut[rounds]
    <3>1. PICK j \in 1..most : j = rounds + 1
      BY <2>1
    <3>2. cut[j] = cut[j - 1] /\ j - 1 = rounds /\ most \in j..most
      BY <2>1, <2>2, <2>3, <3>1
    <3>3. Stays(cut, j, most)
      <4>1. cut[j] = cut[j - 1] /\ readableBytes(b) \in Nat
        BY <1>1, <3>2
      <4> QED
        BY <1>3, <4>1, CutsStay
    <3> QED
      BY <3>2, <3>3 DEF Stays
  <2>5. ~hasPacket(Rest(b, cut[rounds]), g)
    <3>1. PICK o : o = cut[rounds]
      OBVIOUS
    <3>2. o \in 0..readableBytes(b)
      BY <1>1, <1>10, <3>1
    <3>3. After(b, g, o) = o
      BY <1>4, <2>1, <2>2, <3>1
    <3>4. ~(o >= o + HeaderSize)
      BY <3>2, <1>1, BodySizeNat
    <3> QED
      BY <3>1, <3>2, <3>3, <3>4, AfterIs
  <2> QED
    BY <1>1, <1>2, <1>4, <1>8, <1>9, <2>4, <2>5 DEF Loop
<1> QED
  BY <1>11, <1>12

-----------------------------------------------------------------------------
(***************************************************************************)
(* Types.                                                                  *)
(***************************************************************************)
Types ==
    /\ sent \in Seq(Packet)
    /\ wire \in Seq(Byte)
    /\ handled \in Seq(0..Len(sent))
    /\ Proper(input, Byte)

TypeIInv ==
    /\ connected \in BOOLEAN /\ torn \in BOOLEAN
    /\ connection \in 0..MaxConnections
    /\ Types

\* The type invariant follows.
LEMMA TypeIInvTypes == TypeIInv => TypeOK
<1> SUFFICES ASSUME TypeIInv PROVE TypeOK
  OBVIOUS
<1>1. 0 <= input.reader /\ input.reader <= input.writer /\ input.writer <= Len(input.memory)
  BY DEF TypeIInv, Types, Proper, Buffer
<1>2. \A i \in DOMAIN sent : sent[i] \in Packet
  BY DEF TypeIInv, Types
<1>3. \A i \in DOMAIN handled : handled[i] \in DOMAIN sent \cup {garbage}
  <2>1. sent \in Seq(Packet) /\ handled \in Seq(0..Len(sent))
    BY DEF TypeIInv, Types
  <2>2. DOMAIN sent = 1..Len(sent) /\ \A i \in DOMAIN handled : handled[i] \in 0..Len(sent)
    BY <2>1
  <2> QED
    BY <2>1, <2>2 DEF garbage
<1> QED
  BY <1>1, <1>2, <1>3 DEF TypeIInv, TypeOK

\* What is given to handlerMsg.
LEMMA FirstIs ==
    ASSUME sent \in Seq(Packet), NEW bytes \in Seq(Byte), NEW g \in BodySizes,
           hasPacket(bytes, g)
    PROVE  FirstPacket(bytes, g) \in 0..Len(sent)
<1>1. PICK num, size : num = bytes[1][1] /\ size = SizeField(bytes, g)
  OBVIOUS
<1>2. Len(bytes) >= HeaderSize /\ Len(bytes) >= size + HeaderSize
  BY <1>1 DEF hasPacket
<1>3. size \in Nat
  BY <1>1, <1>2, SizeIs, BodySizeNat
<1>4. CASE SubSeq(bytes, 1, HeaderSize + size) # Bytes(num, size)
  <2>1. FirstPacket(bytes, g) = garbage
    BY <1>1, <1>4 DEF FirstPacket
  <2>2. Len(sent) \in Nat
    OBVIOUS
  <2> QED
    BY <2>1, <2>2 DEF garbage
<1>5. CASE SubSeq(bytes, 1, HeaderSize + size) = Bytes(num, size)
  <2>1. PICK B : B = Byte
    OBVIOUS
  <2>2. PICK n \in Nat : n = HeaderSize + size
    BY <1>3, BodySizeNat
  <2>3. PICK p : Part(p, bytes, 0, n)
    BY DEF Part
  <2>4. bytes \in Seq(B) /\ n = 0 + n /\ n <= Len(bytes) /\ 1 \in 1..n /\ 1 \in 1..Len(bytes)
    BY <1>2, <1>3, <2>1, <2>2, BodySizeNat
  <2>5. IsPart(p, bytes, 0, n, B)
    BY <2>3, <2>4, PartIs
  <2>6. p[1] = bytes[1]
    BY <2>4, <2>5 DEF IsPart
  <2>7. p = [i \in 1..n |-> <<num, i>>]
    BY <1>5, <2>2, <2>3 DEF Part, Bytes
  <2>8. bytes[1] = <<num, 1>>
    BY <2>4, <2>6, <2>7
  <2>9. <<num, 1>> \in Byte /\ <<num, 1>> # zero
    BY <2>1, <2>4, <2>8 DEF zero
  <2>10. num \in 1..Len(sent)
    BY <2>9 DEF Byte
  <2>11. FirstPacket(bytes, g) = num
    BY <1>1, <1>5 DEF FirstPacket
  <2> QED
    BY <2>10, <2>11
<1> QED
  BY <1>4, <1>5

\* A read in terms of the loop's rounds.
Reading(n, g, t, filled, cut, rounds, got) ==
    /\ Part(t, wire, 0, n) /\ t \in Seq(Byte) /\ Len(t) = n
    /\ filled = hasWritten(Store(input, t), n)
    /\ Proper(filled, Byte) /\ Row(Readable(filled), Readable(input), t)
    /\ readableBytes(filled) = readableBytes(input) + n
    /\ Len(filled.memory) = Len(input.memory)
    /\ Loop(cut, rounds, filled, g)
    /\ got = [i \in 1..rounds |-> FirstPacket(Rest(filled, cut[i - 1]), g)]
    /\ Row(handled', handled, got)
    /\ input' = ensureWritableBytes(retrieve(filled, cut[rounds]), ReadSize)

LEMMA ReadIs ==
    ASSUME Types, NEW n \in 1..Len(wire), NEW g \in BodySizes, handRead(n, g)
    PROVE  \E t, filled, cut, rounds, got : Reading(n, g, t, filled, cut, rounds, got)
<1>1. PICK B : B = Byte
  OBVIOUS
<1>2. sent \in Seq(Packet) /\ wire \in Seq(B) /\ Proper(input, B)
  BY <1>1 DEF Types
<1>3. PICK w \in Seq(B) : w = wire
  BY <1>2
<1>4. PICK b : b = input
  OBVIOUS
<1>5. n \in Nat /\ n <= Len(w)
  BY <1>3
<1>6. PICK t : Part(t, w, 0, n)
  BY DEF Part
<1>7. IsPart(t, w, 0, n, B)
  BY <1>5, <1>6, PartIs
<1>8. t \in Seq(B) /\ Len(t) = n
  BY <1>7 DEF IsPart
<1>9. PICK filled : filled = hasWritten(Store(b, t), n)
  OBVIOUS
<1>10. n <= writableBytes(b) /\ Proper(b, B)
  BY <1>2, <1>4 DEF handRead
<1>11. /\ Proper(filled, B) /\ readableBytes(filled) = readableBytes(b) + n
       /\ Len(filled.memory) = Len(b.memory) /\ Row(Readable(filled), Readable(b), t)
  BY <1>8, <1>9, <1>10, StoreAdds
<1>12. PICK cut : cut = Cuts(filled, g)
  OBVIOUS
<1>13. PICK rounds : rounds = Cardinality(Rounds(cut, Most(filled)))
  OBVIOUS
<1>14. Proper(filled, Byte)
  BY <1>1, <1>11
<1>15. Loop(cut, rounds, filled, g)
  BY <1>2, <1>12, <1>13, <1>14, LoopIs
<1>16. PICK got : got = [i \in 1..rounds |-> FirstPacket(Rest(filled, cut[i - 1]), g)]
  OBVIOUS
<1>17. PICK d : d = defaultMessageCallback(filled, handled, g)
  OBVIOUS
<1>18. d.data = retrieve(filled, cut[Most(filled)]) /\ d.done = handled \o got
  BY <1>12, <1>13, <1>16, <1>17 DEF defaultMessageCallback, Most, Rounds
<1>19. cut[Most(filled)] = cut[rounds]
  BY <1>15 DEF Loop
<1>20. filled = hasWritten(Store(input, SubSeq(wire, 1, n)), n)
  BY <1>3, <1>4, <1>6, <1>9 DEF Part
<1>21. handled' = d.done /\ input' = ensureWritableBytes(d.data, ReadSize)
  BY <1>17, <1>20 DEF handRead
<1>22. Reading(n, g, t, filled, cut, rounds, got)
  <2>1. Part(t, wire, 0, n) /\ t \in Seq(Byte) /\ Len(t) = n
    BY <1>1, <1>3, <1>6, <1>8
  <2>2. Row(handled', handled, got)
    BY <1>18, <1>21 DEF Row
  <2>3. input' = ensureWritableBytes(retrieve(filled, cut[rounds]), ReadSize)
    BY <1>18, <1>19, <1>21
  <2> QED
    BY <1>4, <1>9, <1>11, <1>14, <1>15, <1>16, <2>1, <2>2, <2>3 DEF Reading
<1> QED
  BY <1>22

\* Sequences over a larger set.
LEMMA SeqGrows ==
    ASSUME NEW A, NEW B, A \subseteq B, NEW s \in Seq(A)
    PROVE  s \in Seq(B)
<1>1. \A i \in 1..Len(s) : s[i] \in B
  OBVIOUS
<1>2. s = [i \in 1..Len(s) |-> s[i]] /\ Len(s) \in Nat
  OBVIOUS
<1> QED
  BY <1>1, <1>2

\* The packets a read hands over are packets that were sent, or garbage.
LEMMA GotIs ==
    ASSUME Types, NEW n, NEW g \in BodySizes, NEW t, NEW filled, NEW cut, NEW rounds, NEW got,
           Reading(n, g, t, filled, cut, rounds, got)
    PROVE  /\ rounds \in Nat /\ got \in Seq(0..Len(sent)) /\ Len(got) = rounds
           /\ cut[rounds] \in 0..readableBytes(filled)
           /\ \A i \in 1..rounds : cut[i - 1] \in 0..readableBytes(filled)
<1>1. PICK total \in Nat : total = readableBytes(filled)
  BY DEF Reading, Proper, Buffer, readableBytes
<1>2. PICK most \in Nat : most = Most(filled)
  BY <1>1, MostIs
<1>3. rounds \in 0..most /\ cut \in [0..most -> 0..total]
  BY <1>1, <1>2 DEF Reading, Loop
<1>4. ASSUME NEW i \in 1..rounds
      PROVE  cut[i - 1] \in 0..total /\ FirstPacket(Rest(filled, cut[i - 1]), g) \in 0..Len(sent)
  <2>1. i - 1 \in 0..most
    BY <1>3
  <2>2. PICK o : o = cut[i - 1]
    OBVIOUS
  <2>3. o \in 0..readableBytes(filled)
    BY <1>1, <1>3, <2>1, <2>2
  <2>4. PICK B : B = Byte
    OBVIOUS
  <2>5. Proper(filled, B)
    BY <2>4 DEF Reading
  <2>6. Rest(filled, o) \in Seq(B)
    BY <2>3, <2>5, RestIs
  <2>7. hasPacket(Rest(filled, o), g)
    BY <2>2 DEF Reading, Loop
  <2>8. sent \in Seq(Packet) /\ Rest(filled, o) \in Seq(Byte)
    BY <2>4, <2>6 DEF Types
  <2>9. FirstPacket(Rest(filled, o), g) \in 0..Len(sent)
    BY <2>7, <2>8, FirstIs
  <2> QED
    BY <1>1, <2>2, <2>3, <2>9
<1>5. got = [i \in 1..rounds |-> FirstPacket(Rest(filled, cut[i - 1]), g)]
  BY DEF Reading
<1>6. rounds \in Nat
  BY <1>3
<1>7. got \in [1..rounds -> 0..Len(sent)]
  BY <1>4, <1>5
<1>8. got \in Seq(0..Len(sent)) /\ Len(got) = rounds
  BY <1>6, <1>7
<1> QED
  BY <1>1, <1>3, <1>4, <1>6, <1>8

\* The buffer after a read.
LEMMA ReadLeaves ==
    ASSUME Types, NEW n, NEW g \in BodySizes, NEW t, NEW filled, NEW cut, NEW rounds, NEW got,
           Reading(n, g, t, filled, cut, rounds, got), NEW after, after = input'
    PROVE  /\ Proper(after, Byte)
           /\ readableBytes(after) = readableBytes(filled) - cut[rounds]
           /\ Readable(after) = Rest(filled, cut[rounds])
           /\ Len(after.memory) = Len(input.memory)
                \/ Len(after.memory) < readableBytes(after) + 2 * ReadSize
<1>1. PICK B : B = Byte
  OBVIOUS
<1>2. zero \in B /\ Proper(filled, B)
  BY <1>1 DEF Byte, Reading
<1>3. PICK o : o = cut[rounds]
  OBVIOUS
<1>4. o \in 0..readableBytes(filled)
  BY <1>3, GotIs
<1>5. PICK b : b = retrieve(filled, o)
  OBVIOUS
<1>6. /\ Proper(b, B) /\ b.memory = filled.memory
      /\ readableBytes(b) = readableBytes(filled) - o /\ Readable(b) = Rest(filled, o)
  BY <1>2, <1>4, <1>5, RetrieveLeaves
<1>7. after = ensureWritableBytes(b, ReadSize)
  BY <1>3, <1>5 DEF Reading
<1>8. ReadSize \in Nat
  BY PacketAssumption
<1>9. /\ Proper(after, B) /\ readableBytes(after) = readableBytes(b)
      /\ Readable(after) = Readable(b)
      /\ Len(after.memory) = Len(b.memory) \/ Len(after.memory) < readableBytes(b) + 2 * ReadSize
  BY <1>2, <1>6, <1>7, <1>8, EnsureKeeps
<1>10. Len(b.memory) = Len(input.memory)
  BY <1>6 DEF Reading
<1> QED
  BY <1>1, <1>3, <1>6, <1>9, <1>10

\* The buffer after connectEstablished.
LEMMA ConnectLeaves ==
    ASSUME Types, connectEstablished, NEW after, after = input'
    PROVE  /\ Proper(after, Byte)
           /\ readableBytes(after) = readableBytes(input)
           /\ Readable(after) = Readable(input)
           /\ Len(after.memory) = Len(input.memory)
                \/ Len(after.memory) < readableBytes(after) + 2 * ReadSize
<1>1. PICK B : B = Byte
  OBVIOUS
<1>2. PICK b : b = input
  OBVIOUS
<1>3. zero \in B /\ Proper(b, B) /\ ReadSize \in Nat
  BY <1>1, <1>2, PacketAssumption DEF Byte, Types
<1>4. after = ensureWritableBytes(b, ReadSize)
  BY <1>2 DEF connectEstablished
<1>5. /\ Proper(after, B) /\ readableBytes(after) = readableBytes(b)
      /\ Readable(after) = Readable(b)
      /\ Len(after.memory) = Len(b.memory) \/ Len(after.memory) < readableBytes(b) + 2 * ReadSize
  BY <1>3, <1>4, EnsureKeeps
<1> QED
  BY <1>1, <1>2, <1>5

\* The first state.
LEMMA InitIs ==
    ASSUME Init
    PROVE  /\ TypeIInv /\ readableBytes(input) = 0 /\ Len(input.memory) = InitialSize
           /\ Byte = {zero}
<1>1. InitialSize \in Nat /\ MaxConnections \in Nat
  BY PacketAssumption
<1>2. PICK mem : mem = [i \in 1..InitialSize |-> zero]
  OBVIOUS
<1>3. Byte = {zero}
  BY DEF Init, Byte
<1>4. mem \in Seq(Byte) /\ Len(mem) = InitialSize
  BY <1>1, <1>2, <1>3
<1>5. input = [memory |-> mem, reader |-> 0, writer |-> 0]
  BY <1>2 DEF Init, newBuffer
<1>6. input \in Buffer(Byte)
  BY <1>4, <1>5 DEF Buffer
<1>7. input.memory = mem /\ input.reader = 0 /\ input.writer = 0
  BY <1>5
<1>8. Proper(input, Byte)
  BY <1>1, <1>4, <1>6, <1>7 DEF Proper
<1>9. sent \in Seq(Packet) /\ wire \in Seq(Byte) /\ handled \in Seq(0..Len(sent))
  BY DEF Init
<1>10. readableBytes(input) = 0
  BY <1>7 DEF readableBytes
<1>11. Types
  BY <1>8, <1>9 DEF Types
<1>12. connected \in BOOLEAN /\ torn \in BOOLEAN /\ connection \in 0..MaxConnections
  <2>1. connected = FALSE /\ torn = FALSE /\ connection = 0
    BY DEF Init
  <2>2. 0 \in 0..MaxConnections
    BY <1>1
  <2> QED
    BY <2>1, <2>2, Zenon
<1> QED
  BY <1>3, <1>4, <1>7, <1>10, <1>11, <1>12 DEF TypeIInv

\* A buffer of some bytes is a buffer of more.
LEMMA ProperGrows ==
    ASSUME NEW A, NEW B, A \subseteq B, NEW b, Proper(b, A)
    PROVE  Proper(b, B)
<1>1. b.memory \in Seq(A) /\ b \in Buffer(A)
  BY DEF Proper, Buffer
<1>2. b.memory \in Seq(B)
  BY <1>1, SeqGrows
<1>3. b \in Buffer(B)
  BY <1>1, <1>2 DEF Buffer
<1> QED
  BY <1>3 DEF Proper

\* Send, one by one.
LEMMA SendIs ==
    ASSUME Types, NEW size \in BodySizes, Send(size)
    PROVE  \E num, t, p :
              /\ num = Len(sent) + 1 /\ num \in Nat
              /\ p = [connection |-> connection, size |-> size]
              /\ sent' = Append(sent, p) /\ Len(sent') = num /\ sent'[num] = p
              /\ \A i \in 1..Len(sent) : sent'[i] = sent[i]
              /\ t = Bytes(num, size) /\ t \in Seq(Byte') /\ Len(t) = HeaderSize + size
              /\ \A i \in 1..(HeaderSize + size) : t[i] = <<num, i>>
              /\ Row(wire', wire, t)
              /\ Byte \subseteq Byte'
<1>1. PICK num \in Nat : num = Len(sent) + 1
  BY DEF Types
<1>2. PICK p : p = [connection |-> connection, size |-> size]
  OBVIOUS
<1>3. sent' = Append(sent, p)
  BY <1>2 DEF Send
<1>4. /\ Len(sent') = num /\ sent'[num] = p /\ \A i \in 1..Len(sent) : sent'[i] = sent[i]
  BY <1>1, <1>3 DEF Types
<1>5. PICK t : t = Bytes(num, size)
  OBVIOUS
<1>6. PICK n \in Nat : n = HeaderSize + size /\ n >= 1
  BY BodySizeNat
<1>7. t = [i \in 1..n |-> <<num, i>>]
  BY <1>5, <1>6 DEF Bytes
<1>8. \A i \in 1..n : <<num, i>> \in Byte'
  <2>1. \A i \in 1..n : i \in Nat \ {0}
    OBVIOUS
  <2>2. num \in 1..num
    BY <1>1 DEF Types
  <2>3. Byte' = {zero} \cup ((1..num) \X (Nat \ {0}))
    BY <1>4 DEF Byte, zero
  <2> QED
    BY <2>1, <2>2, <2>3
<1>9. t \in Seq(Byte') /\ Len(t) = n /\ \A i \in 1..n : t[i] = <<num, i>>
  BY <1>7, <1>8
<1>10. wire' = wire \o Bytes(num, size)
  BY <1>4 DEF Send
<1>11. Row(wire', wire, t)
  BY <1>5, <1>10 DEF Row
<1>12. Byte \subseteq Byte'
  <2>1. Len(sent) \in Nat /\ Len(sent') = Len(sent) + 1
    BY <1>1, <1>4 DEF Types
  <2>2. 1..Len(sent) \subseteq 1..Len(sent')
    BY <2>1
  <2>3. Byte' = {zero} \cup ((1..Len(sent')) \X (Nat \ {0}))
    BY DEF Byte, zero
  <2> QED
    BY <2>2, <2>3 DEF Byte
<1> QED
  BY <1>1, <1>2, <1>3, <1>4, <1>5, <1>6, <1>9, <1>11, <1>12

\* The steps keep the types.
LEMMA TypeNext == TypeIInv /\ [Next]_vars => TypeIInv'
<1> SUFFICES ASSUME TypeIInv, [Next]_vars PROVE TypeIInv'
  OBVIOUS
<1>0. Types /\ Len(sent) \in Nat
  BY DEF TypeIInv, Types
<1>1. ASSUME NEW size \in BodySizes, Send(size) PROVE TypeIInv'
  <2>1. PICK num, t, p :
              /\ num = Len(sent) + 1 /\ num \in Nat
              /\ p = [connection |-> connection, size |-> size]
              /\ sent' = Append(sent, p) /\ Len(sent') = num /\ sent'[num] = p
              /\ \A i \in 1..Len(sent) : sent'[i] = sent[i]
              /\ t = Bytes(num, size) /\ t \in Seq(Byte') /\ Len(t) = HeaderSize + size
              /\ \A i \in 1..(HeaderSize + size) : t[i] = <<num, i>>
              /\ Row(wire', wire, t)
              /\ Byte \subseteq Byte'
    BY <1>0, <1>1, SendIs
  <2>2. PICK A, B : A = Byte /\ B = Byte'
    OBVIOUS
  <2>3. A \subseteq B
    BY <2>1, <2>2
  <2>4. p \in Packet
    BY <2>1 DEF TypeIInv, Packet
  <2>5. sent' \in Seq(Packet)
    <3>1. sent \in Seq(Packet)
      BY <1>0 DEF Types
    <3> QED
      BY <2>1, <2>4, <3>1
  <2>6. PICK w, v : w = wire /\ v = wire'
    OBVIOUS
  <2>7. w \in Seq(B)
    <3>1. w \in Seq(A)
      BY <1>0, <2>2, <2>6 DEF Types
    <3> QED
      BY <2>3, <3>1, SeqGrows
  <2>8. t \in Seq(B) /\ Row(v, w, t)
    BY <2>1, <2>2, <2>6
  <2>9. v \in Seq(B)
    <3>1. IsRow(v, w, t, B)
      BY <2>7, <2>8, RowIs
    <3> QED
      BY <3>1 DEF IsRow
  <2>10. PICK b : b = input
    OBVIOUS
  <2>11. Proper(b, B)
    <3>1. Proper(b, A)
      BY <1>0, <2>2, <2>10 DEF Types
    <3> QED
      BY <2>3, <3>1, ProperGrows
  <2>12. handled \in Seq(0..num)
    <3>1. PICK C, D, h : C = 0..Len(sent) /\ D = 0..num /\ h = handled
      OBVIOUS
    <3>2. C \subseteq D /\ h \in Seq(C)
      BY <1>0, <2>1, <3>1 DEF Types
    <3>3. h \in Seq(D)
      BY <3>2, SeqGrows
    <3> QED
      BY <3>1, <3>3
  <2>13. wire' \in Seq(Byte') /\ input' = b /\ handled' = handled
    BY <1>1, <2>2, <2>6, <2>9, <2>10 DEF Send
  <2>14. Proper(input, Byte)'
    BY <2>2, <2>11, <2>13 DEF Proper, Buffer
  <2>15. Types'
    BY <2>1, <2>5, <2>12, <2>13, <2>14 DEF Types
  <2>16. UNCHANGED <<connected, connection, torn>>
    BY <1>1 DEF Send
  <2> QED
    BY <2>15, <2>16 DEF TypeIInv
<1>2. ASSUME NEW n \in 1..Len(wire), NEW g \in BodySizes, handRead(n, g) PROVE TypeIInv'
  <2>1. PICK t, filled, cut, rounds, got : Reading(n, g, t, filled, cut, rounds, got)
    BY <1>0, <1>2, ReadIs
  <2>2. PICK after : after = input'
    OBVIOUS
  <2>3. Proper(after, Byte)
    BY <1>0, <2>1, <2>2, ReadLeaves
  <2>4. got \in Seq(0..Len(sent))
    BY <1>0, <2>1, GotIs
  <2>5. sent' = sent
    BY <1>2 DEF handRead
  <2>6. Byte' = Byte
    BY <2>5 DEF Byte, zero
  <2>7. Proper(input, Byte)'
    BY <2>2, <2>3, <2>6 DEF Proper, Buffer
  <2>8. handled' \in Seq(0..Len(sent))
    <3>1. PICK C, h, k : C = 0..Len(sent) /\ h = handled /\ k = handled'
      OBVIOUS
    <3>2. h \in Seq(C) /\ got \in Seq(C) /\ Row(k, h, got)
      BY <1>0, <2>1, <2>4, <3>1 DEF Types, Reading
    <3>3. IsRow(k, h, got, C)
      BY <3>2, RowIs
    <3> QED
      BY <3>1, <3>3 DEF IsRow
  <2>9. wire' \in Seq(Byte)
    <3>1. wire' = SubSeq(wire, n + 1, Len(wire))
      BY <1>2 DEF handRead
    <3>2. PICK B, w, v : B = Byte /\ w = wire /\ v = wire'
      OBVIOUS
    <3>3. w \in Seq(B) /\ Part(v, w, n, Len(w))
      BY <1>0, <3>1, <3>2 DEF Types, Part
    <3>6. PICK l \in Nat : l = Len(w)
      BY <3>3
    <3>7. n \in 1..l
      BY <3>2, <3>6
    <3>4. PICK r \in Nat : l = n + r
      <4>1. l - n \in Nat /\ l = n + (l - n)
        BY <3>7
      <4> QED
        BY <4>1
    <3>5. IsPart(v, w, n, r, B)
      <4>1. l <= Len(w) /\ Part(v, w, n, l)
        BY <3>3, <3>6
      <4> QED
        BY <3>3, <3>4, <3>7, <4>1, PartIs
    <3> QED
      BY <3>2, <3>5 DEF IsPart
  <2>10. UNCHANGED <<connected, connection, torn>>
    BY <1>2 DEF handRead
  <2>11. Types'
    BY <1>0, <2>5, <2>6, <2>7, <2>8, <2>9 DEF Types
  <2> QED
    BY <2>10, <2>11 DEF TypeIInv
<1>3. ASSUME connectEstablished PROVE TypeIInv'
  <2>1. PICK after : after = input'
    OBVIOUS
  <2>2. Proper(after, Byte)
    BY <1>0, <1>3, <2>1, ConnectLeaves
  <2>3. UNCHANGED <<wire, sent, handled, torn>>
    BY <1>3 DEF connectEstablished
  <2>4. Byte' = Byte
    BY <2>3 DEF Byte, zero
  <2>5. Proper(input, Byte)'
    BY <2>1, <2>2, <2>4 DEF Proper, Buffer
  <2>6. Types'
    BY <1>0, <2>3, <2>4, <2>5 DEF Types
  <2>7. connected' \in BOOLEAN /\ connection' \in 0..MaxConnections /\ torn' \in BOOLEAN
    BY <1>3, PacketAssumption DEF connectEstablished, TypeIInv
  <2> QED
    BY <2>6, <2>7 DEF TypeIInv
<1>4. ASSUME handClose PROVE TypeIInv'
  <2>1. UNCHANGED <<connection, input, sent, handled>> /\ wire' = <<>>
    BY <1>4 DEF handClose
  <2>2. Byte' = Byte
    BY <2>1 DEF Byte, zero
  <2>3. Proper(input, Byte)'
    BY <1>0, <2>1, <2>2 DEF Types, Proper, Buffer
  <2>4. Types'
    BY <1>0, <2>1, <2>2, <2>3 DEF Types
  <2>5. connected' \in BOOLEAN /\ torn' \in BOOLEAN
    BY <1>4 DEF handClose, TypeIInv
  <2> QED
    BY <2>1, <2>4, <2>5 DEF TypeIInv
<1>5. ASSUME UNCHANGED vars PROVE TypeIInv'
  <2>1. UNCHANGED <<connected, connection, input, wire, sent, handled, torn>>
    BY <1>5 DEF vars
  <2>2. Byte' = Byte
    BY <2>1 DEF Byte, zero
  <2>3. Proper(input, Byte)'
    BY <1>0, <2>1, <2>2 DEF Types, Proper, Buffer
  <2> QED
    BY <2>1, <2>2, <2>3 DEF TypeIInv, Types
<1> QED
  BY <1>1, <1>2, <1>3, <1>4, <1>5 DEF Next, Read

\* Whatever the network does, the buffer, the bytes and what is handled are of
\* their types (the buffer's indexes are in order and inside its memory).
THEOREM PacketTypeCorrect == Spec => []TypeOK
<1>1. Init => TypeIInv
  BY InitIs
<1>2. TypeIInv /\ [Next]_vars => TypeIInv'
  BY TypeNext
<1>3. TypeIInv => TypeOK
  BY TypeIInvTypes
<1> QED
  BY <1>1, <1>2, <1>3, PTL DEF Spec

-----------------------------------------------------------------------------
(***************************************************************************)
(* The size of the buffer.                                                 *)
(***************************************************************************)
LargestBody == CHOOSE m \in BodySizes : \A s \in BodySizes : s <= m

LEMMA LargestIs == LargestBody \in Nat /\ \A s \in BodySizes : s <= LargestBody
<1>1. \E m \in BodySizes : \A s \in BodySizes : s <= m
  BY PacketAssumption, Largest
<1>2. LargestBody \in BodySizes /\ \A s \in BodySizes : s <= LargestBody
  BY <1>1 DEF LargestBody
<1> QED
  BY <1>2, BodySizeNat

\* Between reads less than the largest packet waits in the buffer, and then the
\* memory is as large as it was or less than that packet and two reads.
Bounded ==
    /\ readableBytes(input) < HeaderSize + LargestBody
    /\ \/ Len(input.memory) = InitialSize
       \/ Len(input.memory) < HeaderSize + LargestBody + 2 * ReadSize

\* A step that leaves the buffer like that keeps the bound.
LEMMA BoundKept ==
    ASSUME Bounded, NEW B, NEW after, Proper(after, B), after = input',
           readableBytes(after) < HeaderSize + LargestBody,
           Len(after.memory) = Len(input.memory)
                \/ Len(after.memory) < readableBytes(after) + 2 * ReadSize
    PROVE  Bounded'
<1>1. PICK r \in Nat, m \in Nat : r = readableBytes(after) /\ m = Len(after.memory)
  BY DEF Proper, Buffer, readableBytes
<1>2. PICK x \in Nat, y \in Nat : x = HeaderSize + LargestBody /\ y = 2 * ReadSize
  BY LargestIs, BodySizeNat, PacketAssumption
<1>3. CASE m = Len(input.memory)
  <2>1. Len(input.memory)' = Len(input.memory)
    BY <1>1, <1>3
  <2>2. readableBytes(input)' < HeaderSize + LargestBody
    BY <1>1 DEF readableBytes
  <2> QED
    BY <2>1, <2>2 DEF Bounded, LargestBody
<1>4. CASE m < r + 2 * ReadSize
  <2>1. m < x + y /\ r < x
    BY <1>1, <1>2, <1>4
  <2>2. readableBytes(input)' = r /\ Len(input.memory)' = m
    BY <1>1 DEF readableBytes
  <2> QED
    BY <1>2, <2>1, <2>2 DEF Bounded, LargestBody
<1> QED
  BY <1>1, <1>3, <1>4

\* The steps keep the bound: the loop leaves less than a packet.
LEMMA BoundNext == TypeIInv /\ Bounded /\ [Next]_vars => Bounded'
<1> SUFFICES ASSUME TypeIInv, Bounded, [Next]_vars PROVE Bounded'
  OBVIOUS
<1>0. Types
  BY DEF TypeIInv
<1>1. ASSUME NEW n \in 1..Len(wire), NEW g \in BodySizes, handRead(n, g) PROVE Bounded'
  <2>1. PICK t, filled, cut, rounds, got : Reading(n, g, t, filled, cut, rounds, got)
    BY <1>0, <1>1, ReadIs
  <2>2. PICK after, B : after = input' /\ B = Byte
    OBVIOUS
  <2>3. /\ Proper(after, B)
        /\ readableBytes(after) = readableBytes(filled) - cut[rounds]
        /\ Readable(after) = Rest(filled, cut[rounds])
        /\ Len(after.memory) = Len(input.memory)
             \/ Len(after.memory) < readableBytes(after) + 2 * ReadSize
    BY <1>0, <2>1, <2>2, ReadLeaves
  <2>4. PICK rest : rest = Rest(filled, cut[rounds])
    OBVIOUS
  <2>5. cut[rounds] \in 0..readableBytes(filled) /\ Proper(filled, B)
    <3>1. cut[rounds] \in 0..readableBytes(filled)
      BY <1>0, <2>1, GotIs
    <3> QED
      BY <2>1, <2>2, <3>1 DEF Reading
  <2>6. rest \in Seq(B) /\ Len(rest) = readableBytes(after)
    BY <2>3, <2>4, <2>5, RestIs
  <2>7. ~hasPacket(rest, g)
    BY <2>1, <2>4 DEF Reading, Loop
  <2>8. PICK l \in Nat, x \in Nat : l = Len(rest) /\ x = LargestBody
    BY <2>6, LargestIs
  <2>9. l < HeaderSize + x
    <3>1. CASE ~(l >= HeaderSize)
      BY <2>8, <3>1, BodySizeNat
    <3>2. CASE l >= HeaderSize
      <4>1. SizeField(rest, g) \in BodySizes
        BY <1>0, <2>2, <2>6, <2>8, <3>2, SizeIs DEF Types
      <4>2. ~(l >= SizeField(rest, g) + HeaderSize)
        BY <2>7, <2>8, <3>2 DEF hasPacket
      <4>3. PICK s \in Nat : s = SizeField(rest, g) /\ s <= x
        BY <2>8, <4>1, LargestIs, BodySizeNat
      <4> QED
        BY <4>2, <4>3, BodySizeNat
    <3> QED
      BY <3>1, <3>2
  <2>10. readableBytes(after) < HeaderSize + LargestBody
    BY <2>6, <2>8, <2>9
  <2> QED
    BY <2>2, <2>3, <2>10, BoundKept
<1>2. ASSUME connectEstablished PROVE Bounded'
  <2>1. PICK after, B : after = input' /\ B = Byte
    OBVIOUS
  <2>2. /\ Proper(after, B)
        /\ readableBytes(after) = readableBytes(input)
        /\ Len(after.memory) = Len(input.memory)
             \/ Len(after.memory) < readableBytes(after) + 2 * ReadSize
    BY <1>0, <1>2, <2>1, ConnectLeaves
  <2>3. readableBytes(after) < HeaderSize + LargestBody
    BY <2>2 DEF Bounded
  <2> QED
    BY <2>1, <2>2, <2>3, BoundKept
<1>3. ASSUME input' = input PROVE Bounded'
  BY <1>3 DEF Bounded, LargestBody, readableBytes
<1>4. ASSUME NEW size \in BodySizes, Send(size) PROVE Bounded'
  BY <1>3, <1>4 DEF Send
<1>5. ASSUME handClose PROVE Bounded'
  BY <1>3, <1>5 DEF handClose
<1>6. ASSUME UNCHANGED vars PROVE Bounded'
  BY <1>3, <1>6 DEF vars
<1> QED
  BY <1>1, <1>2, <1>4, <1>5, <1>6 DEF Next, Read

\* However long the stream and wherever it is cut, the buffer never outgrows
\* its first size or the largest packet and two reads.
THEOREM BufferBounded == Spec => []BufferStaysBounded
<1>1. Init => TypeIInv /\ Bounded
  <2> SUFFICES ASSUME Init PROVE TypeIInv /\ Bounded
    OBVIOUS
  <2>1. TypeIInv /\ readableBytes(input) = 0 /\ Len(input.memory) = InitialSize
    BY InitIs
  <2>2. 0 < HeaderSize + LargestBody
    BY LargestIs, BodySizeNat
  <2> QED
    BY <2>1, <2>2 DEF Bounded
<1>2. TypeIInv /\ Bounded /\ [Next]_vars => (TypeIInv /\ Bounded)'
  BY TypeNext, BoundNext
<1>3. TypeIInv /\ Bounded => BufferStaysBounded
  <2> SUFFICES ASSUME TypeIInv, Bounded PROVE BufferStaysBounded
    OBVIOUS
  <2>1. PICK m \in Nat : m = Len(input.memory)
    BY DEF TypeIInv, Types, Proper, Buffer
  <2>2. PICK l \in Nat, i \in Nat : l = HeaderSize + LargestBody + 2 * ReadSize /\ i = InitialSize
    BY LargestIs, BodySizeNat, PacketAssumption
  <2>3. m = i \/ m < l
    BY <2>1, <2>2 DEF Bounded
  <2>4. m <= IF l < i THEN i ELSE l
    BY <2>3
  <2> QED
    BY <2>1, <2>2, <2>4 DEF BufferStaysBounded, LargestBody
<1> QED
  BY <1>1, <1>2, <1>3, PTL DEF Spec

-----------------------------------------------------------------------------
(***************************************************************************)
(* The packets of a stream that was never torn.                            *)
(***************************************************************************)
\* u are the bytes of the packets from first on; off[n] is where packet n
\* begins, counted from anywhere.
Stream(u, first, off) ==
    /\ first \in 1..(Len(sent) + 1) /\ off \in [Nat -> Nat]
    /\ \A n \in first..Len(sent) :
          /\ off[n + 1] = off[n] + HeaderSize + sent[n].size
          /\ off[n + 1] <= off[Len(sent) + 1]
    /\ off[Len(sent) + 1] = off[first] + Len(u)
    /\ \A n \in first..Len(sent) : \A i \in 1..(HeaderSize + sent[n].size), j \in 1..Len(u) :
          j + off[first] = off[n] + i => u[j] = <<n, i>>

\* rest is what follows the first o bytes of u, or the beginning of that.
Follows(rest, u, o) ==
    o + Len(rest) <= Len(u) /\ \A k \in 1..Len(rest) : rest[k] = u[o + k]

\* Where packet m begins, hasPacket finds that packet and nothing else.
LEMMA RoundIs ==
    ASSUME sent \in Seq(Packet), NEW u \in Seq(Byte), NEW first, NEW off, Stream(u, first, off),
           NEW m \in first..(Len(sent) + 1), NEW o \in Nat, o + off[first] = off[m],
           NEW rest \in Seq(Byte), Follows(rest, u, o), NEW g \in BodySizes, hasPacket(rest, g)
    PROVE  /\ m \in first..Len(sent) /\ SizeField(rest, g) = sent[m].size
           /\ FirstPacket(rest, g) = m
<1>1. /\ first \in Nat /\ Len(sent) \in Nat /\ m \in Nat /\ Len(u) \in Nat /\ Len(rest) \in Nat
      /\ off[first] \in Nat /\ off[m] \in Nat
  <2>1. first \in 1..(Len(sent) + 1) /\ off \in [Nat -> Nat]
    BY DEF Stream
  <2>2. Len(sent) \in Nat /\ Len(u) \in Nat /\ Len(rest) \in Nat
    OBVIOUS
  <2>3. first \in Nat /\ m \in Nat
    BY <2>1, <2>2
  <2> QED
    BY <2>1, <2>2, <2>3
<1>2. PICK s \in Nat : s = off[first]
  BY <1>1
<1>3. Len(rest) >= HeaderSize /\ Len(rest) >= SizeField(rest, g) + HeaderSize
  BY DEF hasPacket
<1>4. m \in first..Len(sent)
  <2> SUFFICES ASSUME m = Len(sent) + 1 PROVE FALSE
    BY <1>1
  <2>1. o + s = s + Len(u)
    BY <1>2 DEF Stream
  <2> QED
    BY <1>1, <1>3, <2>1, BodySizeNat DEF Follows
<1>5. PICK size \in Nat : size = sent[m].size
  <2>1. m \in 1..Len(sent)
    BY <1>4 DEF Stream
  <2>2. sent[m] \in Packet
    BY <2>1
  <2> QED
    BY <2>2, BodySizeNat DEF Packet
<1>6. ASSUME NEW k \in 1..Len(rest), k <= HeaderSize + size PROVE rest[k] = <<m, k>>
  <2>1. rest[k] = u[o + k] /\ o + k \in 1..Len(u)
    BY <1>1 DEF Follows
  <2>2. k \in 1..(HeaderSize + size)
    BY <1>5, <1>6, BodySizeNat
  <2>3. PICK j \in 1..Len(u) : j = o + k
    BY <2>1
  <2>4. j + off[first] = off[m] + k
    <3>1. PICK a \in Nat, d \in Nat : a = off[first] /\ d = off[m] /\ o + a = d
      BY <1>1
    <3>2. (o + k) + a = d + k
      BY <3>1
    <3> QED
      BY <2>3, <3>1, <3>2
  <2>5. u[j] = <<m, k>>
    BY <1>4, <1>5, <2>2, <2>4 DEF Stream
  <2> QED
    BY <2>1, <2>3, <2>5
<1>7. 1 \in 1..Len(rest) /\ 1 <= HeaderSize + size
  BY <1>1, <1>3, BodySizeNat
<1>8. rest[1] = <<m, 1>>
  BY <1>6, <1>7
<1>9. PICK num : num = rest[1][1]
  OBVIOUS
<1>10. num = m
  BY <1>8, <1>9
<1>11. ASSUME NEW i \in 1..HeaderSize PROVE rest[i] = <<m, i>>
  <2>1. i \in 1..Len(rest) /\ i <= HeaderSize + size
    BY <1>1, <1>3, BodySizeNat
  <2> QED
    BY <1>6, <2>1
<1>12. SizeField(rest, g) = size
  BY <1>5, <1>9, <1>10, <1>11 DEF SizeField
<1>13. PICK n \in Nat : n = HeaderSize + size
  BY BodySizeNat
<1>14. SubSeq(rest, 1, n) = Bytes(m, size)
  <2>1. PICK p : Part(p, rest, 0, n)
    BY DEF Part
  <2>2. PICK B : B = Byte
    OBVIOUS
  <2>3. n = 0 + n /\ n <= Len(rest) /\ rest \in Seq(B)
    BY <1>1, <1>3, <1>12, <1>13, <2>2, BodySizeNat
  <2>4. IsPart(p, rest, 0, n, B)
    BY <2>1, <2>3, PartIs
  <2>5. p \in Seq(B) /\ Len(p) = n
    BY <2>4 DEF IsPart
  <2>6. ASSUME NEW i \in 1..n PROVE p[i] = <<m, i>>
    <3>1. i \in 1..Len(rest) /\ i <= HeaderSize + size
      BY <1>1, <1>13, <2>3
    <3>2. p[i] = rest[i]
      BY <2>4 DEF IsPart
    <3> QED
      BY <1>6, <3>1, <3>2
  <2>7. p = [i \in 1..n |-> p[i]]
    BY <2>5
  <2>8. p = [i \in 1..n |-> <<m, i>>]
    BY <2>6, <2>7
  <2> QED
    BY <1>13, <2>1, <2>8 DEF Part, Bytes
<1>15. FirstPacket(rest, g) = m
  BY <1>9, <1>10, <1>12, <1>13, <1>14 DEF FirstPacket
<1> QED
  BY <1>4, <1>5, <1>12, <1>15

\* What a read has in the buffer is the beginning of the stream.
LEMMA FilledFollows ==
    ASSUME Types, NEW n \in 1..Len(wire), NEW g \in BodySizes, NEW t, NEW filled, NEW cut,
           NEW rounds, NEW got, Reading(n, g, t, filled, cut, rounds, got),
           NEW u, Row(u, Readable(input), wire), NEW o \in 0..readableBytes(filled)
    PROVE  /\ Follows(Rest(filled, o), u, o)
           /\ Rest(filled, o) \in Seq(Byte) /\ u \in Seq(Byte)
           /\ Len(u) = readableBytes(input) + Len(wire)
<1>1. PICK B : B = Byte
  OBVIOUS
<1>2. PICK b, w, r, f : b = input /\ w = wire /\ r = Readable(input) /\ f = Readable(filled)
  OBVIOUS
<1>3. Proper(b, B) /\ w \in Seq(B)
  BY <1>1, <1>2 DEF Types
<1>4. PICK x \in Nat : x = readableBytes(b) /\ r \in Seq(B) /\ Len(r) = x
  <2>1. PICK y : y = readableBytes(b)
    OBVIOUS
  <2>2. y \in Nat /\ IsPart(Readable(b), b.memory, b.reader, y, B)
    BY <1>3, <2>1, ReadablePart
  <2> QED
    BY <1>2, <2>1, <2>2 DEF IsPart
<1>5. IsRow(u, r, w, B)
  <2>1. Row(u, r, w)
    BY <1>2
  <2> QED
    BY <1>3, <1>4, <2>1, RowIs
<1>6. /\ t \in Seq(B) /\ Len(t) = n /\ Part(t, w, 0, n) /\ Proper(filled, B) /\ Row(f, r, t)
      /\ readableBytes(filled) = x + n
  BY <1>1, <1>2, <1>4 DEF Reading
<1>7. IsRow(f, r, t, B)
  BY <1>4, <1>6, RowIs
<1>8. n \in Nat /\ Len(w) \in Nat /\ n <= Len(w) /\ n = 0 + n
  BY <1>2, <1>3
<1>9. IsPart(t, w, 0, n, B)
  BY <1>3, <1>6, <1>8, PartIs
<1>10. ASSUME NEW i \in 1..(x + n) PROVE f[i] = u[i]
  <2>1. CASE i \in 1..x
    BY <1>4, <1>5, <1>7, <2>1 DEF IsRow
  <2>2. CASE i \notin 1..x
    <3>1. PICK k \in 1..n : i = x + k
      <4>1. i - x \in 1..n /\ i = x + (i - x)
        BY <1>8, <2>2
      <4> QED
        BY <4>1
    <3>2. k \in 1..Len(t) /\ k \in 1..Len(w)
      BY <1>6, <1>8, <3>1
    <3>3. f[x + k] = t[k]
      BY <1>4, <1>7, <3>2 DEF IsRow
    <3>4. u[x + k] = w[k]
      BY <1>4, <1>5, <3>2 DEF IsRow
    <3>5. t[k] = w[k]
      BY <1>9, <3>1 DEF IsPart
    <3> QED
      BY <3>1, <3>3, <3>4, <3>5
  <2> QED
    BY <2>1, <2>2
<1>11. PICK rest, total : rest = Rest(filled, o) /\ total = x + n
  OBVIOUS
<1>12. /\ total \in Nat /\ o \in 0..total /\ rest \in Seq(B) /\ Len(rest) = total - o
       /\ \A k \in 1..(total - o) : rest[k] = filled.memory[filled.reader + o + k]
  <2>1. total = readableBytes(filled) /\ total \in Nat
    BY <1>6, <1>8, <1>11
  <2>2. /\ Rest(filled, o) \in Seq(B) /\ Len(Rest(filled, o)) = readableBytes(filled) - o
        /\ \A k \in 1..(readableBytes(filled) - o) :
              Rest(filled, o)[k] = filled.memory[filled.reader + o + k]
    BY <1>6, RestIs
  <2> QED
    BY <1>11, <2>1, <2>2
<1>13. \A k \in 1..total : f[k] = filled.memory[filled.reader + k]
  <2>1. IsPart(f, filled.memory, filled.reader, total, B)
    BY <1>2, <1>6, <1>11, ReadablePart
  <2> QED
    BY <2>1 DEF IsPart
<1>14. ASSUME NEW k \in 1..Len(rest) PROVE rest[k] = u[o + k]
  <2>1. k \in 1..(total - o) /\ o + k \in 1..total
    BY <1>12
  <2>2. filled.reader \in Nat
    BY <1>6 DEF Proper, Buffer
  <2>3. filled.reader + o + k = filled.reader + (o + k)
    BY <1>12, <2>1, <2>2
  <2>4. rest[k] = filled.memory[filled.reader + (o + k)]
    BY <1>12, <2>1, <2>3
  <2>5. f[o + k] = filled.memory[filled.reader + (o + k)]
    BY <1>13, <2>1
  <2>6. f[o + k] = u[o + k]
    BY <1>10, <1>11, <2>1
  <2> QED
    BY <2>4, <2>5, <2>6
<1>15. u \in Seq(B) /\ Len(u) = x + Len(w)
  BY <1>4, <1>5 DEF IsRow
<1>16. o + Len(rest) <= Len(u)
  <2>1. o + Len(rest) = x + n
    BY <1>11, <1>12
  <2> QED
    BY <1>4, <1>8, <1>15, <2>1
<1>17. Follows(rest, u, o)
  BY <1>14, <1>16 DEF Follows
<1> QED
  BY <1>1, <1>2, <1>4, <1>11, <1>12, <1>15, <1>17

\* The i-th round handles the i-th packet of the stream.
LEMMA LoopFollows ==
    ASSUME Types, NEW n \in 1..Len(wire), NEW g \in BodySizes, NEW t, NEW filled, NEW cut,
           NEW rounds, NEW got, Reading(n, g, t, filled, cut, rounds, got),
           NEW u, Row(u, Readable(input), wire), NEW first, NEW off, Stream(u, first, off)
    PROVE  /\ rounds \in Nat
           /\ first + rounds \in 1..(Len(sent) + 1) /\ cut[rounds] + off[first] = off[first + rounds]
           /\ \A i \in 1..rounds : got[i] = first + (i - 1)
<1>1. sent \in Seq(Packet) /\ Len(sent) \in Nat
  BY DEF Types
<1>2. first \in 1..(Len(sent) + 1) /\ first \in Nat /\ off \in [Nat -> Nat]
  <2>1. first \in 1..(Len(sent) + 1) /\ off \in [Nat -> Nat]
    BY DEF Stream
  <2>2. first \in Nat
    BY <1>1, <2>1
  <2> QED
    BY <2>1, <2>2, Zenon
<1>3. rounds \in Nat /\ \A i \in 1..rounds : cut[i - 1] \in 0..readableBytes(filled)
  BY GotIs
<1>4. PICK total \in Nat : total = readableBytes(filled)
  BY DEF Reading, Proper, Buffer, readableBytes
<1>5. /\ cut[0] = 0
      /\ \A i \in 1..rounds :
            /\ hasPacket(Rest(filled, cut[i - 1]), g)
            /\ cut[i] = cut[i - 1] + HeaderSize + SizeField(Rest(filled, cut[i - 1]), g)
      /\ got = [i \in 1..rounds |-> FirstPacket(Rest(filled, cut[i - 1]), g)]
  BY DEF Reading, Loop
<1> DEFINE P(i) == /\ first + i <= Len(sent) + 1 /\ cut[i] + off[first] = off[first + i]
                   /\ i # 0 => got[i] = first + (i - 1)
           K == {i \in Nat : i <= rounds => P(i)}
<1>6. 0 \in K
  <2>1. first + 0 = first /\ first <= Len(sent) + 1
    BY <1>1, <1>2
  <2>2. off[first] \in Nat
    BY <1>2
  <2>3. cut[0] + off[first] = off[first]
    BY <1>5, <2>2
  <2>4. P(0)
    BY <2>1, <2>3
  <2> QED
    BY <2>4
<1>7. ASSUME NEW k \in Nat, k \in K PROVE k + 1 \in K
  <2> SUFFICES ASSUME k + 1 <= rounds PROVE P(k + 1)
    OBVIOUS
  <2>1. k + 1 \in 1..rounds /\ (k + 1) - 1 = k /\ k <= rounds
    BY <1>3
  <2>2. P(k)
    BY <1>7, <2>1
  <2>3. PICK o \in Nat : o = cut[k] /\ o \in 0..readableBytes(filled)
    <3>1. cut[k] \in 0..readableBytes(filled)
      BY <1>3, <2>1
    <3> QED
      BY <1>4, <3>1
  <2>4. PICK m \in Nat : m = first + k
    BY <1>2
  <2>5. m \in first..(Len(sent) + 1) /\ o + off[first] = off[m]
    BY <1>1, <1>2, <2>2, <2>3, <2>4
  <2>6. PICK rest : rest = Rest(filled, o)
    OBVIOUS
  <2>7. Follows(rest, u, o) /\ rest \in Seq(Byte) /\ u \in Seq(Byte)
    BY <2>3, <2>6, FilledFollows
  <2>8. /\ hasPacket(rest, g) /\ cut[k + 1] = o + HeaderSize + SizeField(rest, g)
        /\ got[k + 1] = FirstPacket(rest, g)
    BY <1>5, <2>1, <2>3, <2>6
  <2>9. m \in first..Len(sent) /\ SizeField(rest, g) = sent[m].size /\ FirstPacket(rest, g) = m
    BY <1>1, <2>5, <2>7, <2>8, RoundIs
  <2>10. off[m + 1] = off[m] + HeaderSize + sent[m].size
    BY <2>9 DEF Stream
  <2>11. PICK size \in Nat : size = sent[m].size
    <3>1. m \in 1..Len(sent)
      BY <1>1, <1>2, <2>9
    <3>2. sent[m] \in Packet
      BY <1>1, <3>1
    <3> QED
      BY <3>2, BodySizeNat DEF Packet
  <2>12. first + (k + 1) = m + 1 /\ first + ((k + 1) - 1) = m
    BY <1>2, <2>4
  <2>13. m + 1 <= Len(sent) + 1
    BY <1>1, <2>9, <1>2
  <2>14. cut[k + 1] + off[first] = off[m + 1]
    <3>1. PICK a \in Nat, c \in Nat, d \in Nat : a = off[first] /\ c = off[m] /\ d = HeaderSize
      BY <1>2, BodySizeNat
    <3>2. cut[k + 1] = o + d + size /\ off[m + 1] = c + d + size /\ o + a = c
      BY <2>5, <2>8, <2>9, <2>10, <2>11, <3>1
    <3>3. (o + d + size) + a = c + d + size
      BY <3>2
    <3> QED
      BY <3>1, <3>2, <3>3
  <2> QED
    BY <2>8, <2>9, <2>12, <2>13, <2>14
<1>8. Nat \subseteq K
  <2> HIDE DEF K
  <2> QED
    BY <1>6, <1>7, Inductive
<1>9. ASSUME NEW i \in 0..rounds PROVE P(i)
  <2>1. i \in K /\ i <= rounds
    BY <1>3, <1>8
  <2> QED
    BY <2>1
<1>10. rounds \in 0..rounds
  BY <1>3
<1>11. first + rounds \in 1..(Len(sent) + 1) /\ cut[rounds] + off[first] = off[first + rounds]
  <2>1. P(rounds)
    BY <1>9, <1>10
  <2> QED
    BY <1>1, <1>2, <1>3, <2>1
<1>12. ASSUME NEW i \in 1..rounds PROVE got[i] = first + (i - 1)
  <2>1. P(i) /\ i # 0
    BY <1>3, <1>9
  <2> QED
    BY <2>1
<1> QED
  BY <1>3, <1>11, <1>12

\* v is what is behind the first c bytes of u.
Behind(v, u, c) == Len(u) = c + Len(v) /\ \A k \in 1..Len(v) : v[k] = u[c + k]

\* The stream from a later packet on.
LEMMA StreamBehind ==
    ASSUME sent \in Seq(Packet), NEW u \in Seq(Byte), NEW v \in Seq(Byte), NEW first, NEW off,
           Stream(u, first, off), NEW c \in Nat, Behind(v, u, c),
           NEW m \in first..(Len(sent) + 1), c + off[first] = off[m]
    PROVE  Stream(v, m, off)
<1>1. first \in 1..(Len(sent) + 1) /\ off \in [Nat -> Nat] /\ Len(sent) \in Nat
  <2>1. Len(sent) \in Nat
    OBVIOUS
  <2> QED
    BY <2>1 DEF Stream
<1>2. first \in Nat /\ m \in Nat /\ m \in 1..(Len(sent) + 1) /\ Len(u) \in Nat /\ Len(v) \in Nat
  <2>1. first \in Nat
    BY <1>1
  <2>2. m \in Nat /\ m \in 1..(Len(sent) + 1)
    BY <1>1, <2>1
  <2> QED
    BY <2>1, <2>2
<1>3. PICK s \in Nat, d \in Nat : s = off[first] /\ d = off[m] /\ c + s = d
  BY <1>1, <1>2
<1>4. ASSUME NEW n \in m..Len(sent)
      PROVE  off[n + 1] = off[n] + HeaderSize + sent[n].size /\ off[n + 1] <= off[Len(sent) + 1]
  <2>1. n \in first..Len(sent)
    BY <1>1, <1>2
  <2> QED
    BY <2>1 DEF Stream
<1>5. off[Len(sent) + 1] = d + Len(v)
  <2>1. off[Len(sent) + 1] = s + Len(u)
    BY <1>3 DEF Stream
  <2>2. PICK z \in Nat, y \in Nat : z = Len(v) /\ y = Len(u)
    BY <1>2
  <2>3. y = c + z
    BY <2>2 DEF Behind
  <2>4. s + y = d + z
    BY <1>3, <2>3
  <2> QED
    BY <2>1, <2>2, <2>4
<1>6. ASSUME NEW n \in m..Len(sent), NEW i \in 1..(HeaderSize + sent[n].size), NEW j \in 1..Len(v),
             j + d = off[n] + i
      PROVE  v[j] = <<n, i>>
  <2>1. n \in first..Len(sent)
    BY <1>1, <1>2
  <2>2. PICK l \in Nat : l = c + j
    BY <1>2
  <2>3. l \in 1..Len(u)
    BY <1>2, <2>2 DEF Behind
  <2>4. l + off[first] = off[n] + i
    <3>1. PICK e \in Nat : e = off[n]
      <4>1. n \in Nat
        BY <1>2
      <4>2. off[n] \in Nat
        BY <1>1, <4>1
      <4> QED
        BY <4>2
    <3>2. j + d = e + i /\ c + s = d /\ l = c + j
      BY <1>3, <1>6, <2>2, <3>1
    <3>3. l + s = e + i
      BY <1>2, <3>2
    <3> QED
      BY <1>3, <3>1, <3>3
  <2>5. u[l] = <<n, i>>
    BY <2>1, <2>3, <2>4 DEF Stream
  <2>6. v[j] = u[c + j]
    BY DEF Behind
  <2> QED
    BY <2>2, <2>5, <2>6
<1> QED
  BY <1>1, <1>2, <1>3, <1>4, <1>5, <1>6 DEF Stream

\* What is left after a read is what is behind the packets that were handled.
LEMMA ReadBehind ==
    ASSUME Types, NEW n \in 1..Len(wire), NEW g \in BodySizes, NEW t, NEW filled, NEW cut,
           NEW rounds, NEW got, Reading(n, g, t, filled, cut, rounds, got), handRead(n, g),
           NEW u, Row(u, Readable(input), wire)
    PROVE  \E v : /\ Row(v, Readable(input'), wire') /\ v \in Seq(Byte) /\ u \in Seq(Byte)
                  /\ cut[rounds] \in Nat /\ Behind(v, u, cut[rounds])
<1>1. PICK B, w, w2, r, after : B = Byte /\ w = wire /\ w2 = wire' /\ r = Readable(input) /\ after = input'
  OBVIOUS
<1>2. PICK c, total : c = cut[rounds] /\ total = readableBytes(filled) /\ total \in Nat
  <2>1. readableBytes(filled) \in Nat
    BY DEF Reading, Proper, Buffer, readableBytes
  <2> QED
    BY <2>1
<1>3. c \in 0..total
  BY <1>2, GotIs
<1>4. PICK rest : rest = Rest(filled, c)
  OBVIOUS
<1>5. /\ Follows(rest, u, c) /\ rest \in Seq(Byte) /\ u \in Seq(Byte)
      /\ Len(u) = readableBytes(input) + Len(wire)
  BY <1>2, <1>3, <1>4, FilledFollows
<1>6. Len(rest) = total - c
  <2>1. Proper(filled, B)
    BY <1>1 DEF Reading
  <2> QED
    BY <1>2, <1>3, <1>4, <2>1, RestIs
<1>7. Readable(after) = rest
  BY <1>1, <1>2, <1>4, ReadLeaves
<1>8. w \in Seq(B) /\ n \in 1..Len(w) /\ w2 = SubSeq(w, n + 1, Len(w))
  BY <1>1 DEF Types, handRead
<1>9. PICK l \in Nat : l = Len(w) /\ n \in 1..l
  BY <1>8
<1>10. PICK k \in Nat : l = n + k
  <2>1. l - n \in Nat /\ l = n + (l - n)
    BY <1>9
  <2> QED
    BY <2>1
<1>11. IsPart(w2, w, n, k, B)
  <2>1. Part(w2, w, n, l) /\ l <= Len(w) /\ n \in Nat
    BY <1>8, <1>9 DEF Part
  <2> QED
    BY <1>8, <1>10, <2>1, PartIs
<1>12. w2 \in Seq(B) /\ Len(w2) = k /\ \A i \in 1..k : w2[i] = w[n + i]
  BY <1>11 DEF IsPart
<1>13. PICK v : Row(v, rest, w2)
  BY DEF Row
<1>14. IsRow(v, rest, w2, B)
  <2>1. rest \in Seq(B)
    BY <1>1, <1>5
  <2> QED
    BY <1>12, <1>13, <2>1, RowIs
<1>15. PICK x \in Nat : x = readableBytes(input)
  BY DEF Types, Proper, Buffer, readableBytes
<1>16. total = x + n
  BY <1>2, <1>15 DEF Reading
<1>17. r \in Seq(B) /\ Len(r) = x
  <2>1. PICK b : b = input
    OBVIOUS
  <2>2. Proper(b, B) /\ x = readableBytes(b)
    BY <1>1, <1>15, <2>1 DEF Types
  <2>3. IsPart(Readable(b), b.memory, b.reader, x, B)
    BY <2>2, ReadablePart
  <2> QED
    BY <1>1, <2>1, <2>3 DEF IsPart
<1>18. IsRow(u, r, w, B)
  <2>1. Row(u, r, w)
    BY <1>1
  <2> QED
    BY <1>8, <1>17, <2>1, RowIs
<1>19. Len(v) = (total - c) + k /\ Len(u) = x + l /\ v \in Seq(B)
  BY <1>1, <1>5, <1>6, <1>9, <1>12, <1>14, <1>15 DEF IsRow
<1>20. Len(u) = c + Len(v)
  BY <1>3, <1>9, <1>10, <1>16, <1>19
<1>21. ASSUME NEW i \in 1..Len(v) PROVE v[i] = u[c + i]
  <2>1. CASE i \in 1..(total - c)
    <3>1. i \in 1..Len(rest)
      BY <1>6, <2>1
    <3>2. v[i] = rest[i]
      BY <1>14, <3>1 DEF IsRow
    <3>3. rest[i] = u[c + i]
      BY <1>5, <3>1 DEF Follows
    <3> QED
      BY <3>2, <3>3
  <2>2. CASE i \notin 1..(total - c)
    <3>1. PICK y \in 1..k : i = (total - c) + y
      <4>1. PICK z \in Nat : z = total - c
        BY <1>2, <1>3
      <4>2. i \in 1..(z + k) /\ i \notin 1..z
        BY <1>19, <2>2, <4>1
      <4>3. i - z \in 1..k /\ i = z + (i - z)
        BY <4>2
      <4> QED
        BY <4>1, <4>3
    <3>2. v[i] = w2[y]
      <4>1. y \in 1..Len(w2) /\ i = Len(rest) + y
        BY <1>6, <1>12, <3>1
      <4> QED
        BY <1>14, <4>1 DEF IsRow
    <3>3. w2[y] = w[n + y]
      BY <1>12
    <3>4. n + y \in 1..Len(w) /\ c + i = x + (n + y)
      BY <1>3, <1>9, <1>10, <1>16, <3>1
    <3>5. u[x + (n + y)] = w[n + y]
      BY <1>17, <1>18, <3>4 DEF IsRow
    <3> QED
      BY <3>2, <3>3, <3>4, <3>5
  <2> QED
    BY <2>1, <2>2
<1>22. Behind(v, u, c)
  BY <1>20, <1>21 DEF Behind
<1>23. Row(v, Readable(input'), wire')
  BY <1>1, <1>7, <1>13
<1> QED
  BY <1>1, <1>2, <1>3, <1>5, <1>19, <1>22, <1>23

\* The stream with another packet behind it.
LEMMA SendStream ==
    ASSUME Types, NEW size \in BodySizes, Send(size), NEW u, Row(u, Readable(input), wire),
           NEW first, NEW off, Stream(u, first, off)
    PROVE  \E v, next : Row(v, Readable(input'), wire') /\ Stream(v, first, next)'
<1>1. PICK num, t, p :
              /\ num = Len(sent) + 1 /\ num \in Nat
              /\ p = [connection |-> connection, size |-> size]
              /\ sent' = Append(sent, p) /\ Len(sent') = num /\ sent'[num] = p
              /\ \A i \in 1..Len(sent) : sent'[i] = sent[i]
              /\ t = Bytes(num, size) /\ t \in Seq(Byte') /\ Len(t) = HeaderSize + size
              /\ \A i \in 1..(HeaderSize + size) : t[i] = <<num, i>>
              /\ Row(wire', wire, t)
              /\ Byte \subseteq Byte'
  BY SendIs
<1>2. PICK A, B, w, w2, r, x : A = Byte /\ B = Byte' /\ w = wire /\ w2 = wire'
                               /\ r = Readable(input) /\ x = readableBytes(input)
  OBVIOUS
<1>3. x \in Nat /\ r \in Seq(A) /\ Len(r) = x /\ w \in Seq(A)
  <2>1. PICK b : b = input
    OBVIOUS
  <2>2. Proper(b, A) /\ x = readableBytes(b)
    BY <1>2, <2>1 DEF Types
  <2>3. x \in Nat /\ IsPart(Readable(b), b.memory, b.reader, x, A)
    BY <2>2, ReadablePart
  <2> QED
    BY <1>2, <2>1, <2>3 DEF IsPart, Types
<1>4. IsRow(u, r, w, A)
  <2>1. Row(u, r, w)
    BY <1>2
  <2> QED
    BY <1>3, <2>1, RowIs
<1>5. A \subseteq B /\ t \in Seq(B) /\ Row(w2, w, t)
  BY <1>1, <1>2
<1>6. r \in Seq(B) /\ w \in Seq(B)
  BY <1>3, <1>5, SeqGrows
<1>7. IsRow(w2, w, t, B)
  BY <1>5, <1>6, RowIs
<1>8. PICK v : Row(v, r, w2)
  BY DEF Row
<1>9. IsRow(v, r, w2, B)
  <2>1. w2 \in Seq(B)
    BY <1>7 DEF IsRow
  <2> QED
    BY <1>6, <1>8, <2>1, RowIs
<1>10. PICK y \in Nat, k \in Nat, h \in Nat : y = Len(w) /\ k = Len(t) /\ h = HeaderSize + size
  <2>1. Len(w) \in Nat /\ Len(t) \in Nat /\ HeaderSize + size \in Nat
    BY <1>3, <1>5, BodySizeNat
  <2> QED
    BY <2>1
<1>11. Len(u) = x + y /\ Len(w2) = y + h /\ Len(v) = x + (y + h) /\ k = h
  BY <1>1, <1>3, <1>4, <1>7, <1>9, <1>10 DEF IsRow
<1>12. ASSUME NEW j \in 1..(x + y) PROVE v[j] = u[j]
  <2>1. CASE j \in 1..x
    BY <1>3, <1>4, <1>9, <2>1 DEF IsRow
  <2>2. CASE j \notin 1..x
    <3>1. PICK z \in 1..y : j = x + z
      <4>1. j - x \in 1..y /\ j = x + (j - x)
        BY <1>3, <2>2
      <4> QED
        BY <4>1
    <3>2. z \in 1..(y + h)
      OBVIOUS
    <3>3. v[x + z] = w2[z]
      BY <1>3, <1>9, <1>11, <3>2 DEF IsRow
    <3>4. w2[z] = w[z]
      BY <1>7, <1>10 DEF IsRow
    <3>5. u[x + z] = w[z]
      BY <1>3, <1>4, <1>10 DEF IsRow
    <3> QED
      BY <3>1, <3>3, <3>4, <3>5
  <2> QED
    BY <2>1, <2>2
<1>13. ASSUME NEW i \in 1..h PROVE v[(x + y) + i] = <<num, i>>
  <2>1. PICK z \in 1..(y + h) : z = y + i
    OBVIOUS
  <2>2. (x + y) + i = x + z
    BY <1>3, <2>1
  <2>3. v[x + z] = w2[z]
    BY <1>3, <1>9, <1>11 DEF IsRow
  <2>4. w2[y + i] = t[i]
    BY <1>7, <1>10, <1>11 DEF IsRow
  <2>5. t[i] = <<num, i>>
    BY <1>1, <1>10
  <2> QED
    BY <2>1, <2>2, <2>3, <2>4, <2>5
<1>14. PICK a : a = num + 1 /\ a \in Nat
  BY <1>1
<1>15. PICK next : next = [off EXCEPT ![a] = off[num] + h]
  OBVIOUS
<1>16. /\ first \in 1..num /\ off \in [Nat -> Nat]
       /\ \A n \in first..Len(sent) :
             off[n + 1] = off[n] + HeaderSize + sent[n].size /\ off[n + 1] <= off[num]
       /\ off[num] = off[first] + Len(u)
       /\ \A n \in first..Len(sent) : \A i \in 1..(HeaderSize + sent[n].size), j \in 1..Len(u) :
             j + off[first] = off[n] + i => u[j] = <<n, i>>
  BY <1>1 DEF Stream
<1>17. PICK l \in Nat : l = Len(sent) /\ num = l + 1
  BY <1>1 DEF Types
<1>18. first \in Nat /\ first <= num /\ first # a
  BY <1>14, <1>16, <1>1
<1>19. PICK s \in Nat, e \in Nat : s = off[first] /\ e = off[num] /\ e = s + (x + y)
  <2>1. off[first] \in Nat /\ off[num] \in Nat
    BY <1>1, <1>16, <1>18
  <2> QED
    BY <1>11, <1>16, <2>1
<1>20. /\ next \in [Nat -> Nat] /\ next[a] = e + h
       /\ \A n \in Nat : n # a => next[n] = off[n]
  <2>1. off[num] + h \in Nat
    BY <1>19
  <2> QED
    BY <1>14, <1>15, <1>16, <1>19, <2>1
<1>21. next[first] = s /\ next[num] = e
  <2>1. num \in Nat /\ num # a
    BY <1>14, <1>17
  <2>2. next[first] = off[first] /\ next[num] = off[num]
    BY <1>18, <1>20, <2>1
  <2> QED
    BY <1>19, <2>2
<1>22. ASSUME NEW n \in first..num
       PROVE  /\ n \in Nat /\ n # a
              /\ n # num => n \in first..l /\ n + 1 # a /\ n + 1 \in Nat
  BY <1>1, <1>14, <1>17, <1>18
<1>23. ASSUME NEW n \in first..num
       PROVE  /\ next[n + 1] = next[n] + HeaderSize + sent'[n].size
              /\ next[n + 1] <= next[num + 1]
  <2>1. CASE n = num
    <3>1. sent'[n].size = size
      BY <1>1, <2>1
    <3>2. next[n + 1] = e + h /\ next[n] = e
      BY <1>14, <1>20, <1>21, <2>1
    <3>3. e + h = e + HeaderSize + size
      BY <1>10, BodySizeNat
    <3> QED
      BY <2>1, <3>1, <3>2, <3>3
  <2>2. CASE n # num
    <3>1. n \in first..l /\ next[n] = off[n] /\ next[n + 1] = off[n + 1]
      BY <1>20, <1>22, <2>2
    <3>2. n \in 1..Len(sent)
      BY <1>16, <1>17, <1>18, <3>1
    <3>3. sent'[n] = sent[n]
      BY <1>1, <3>2
    <3>4. off[n + 1] = off[n] + HeaderSize + sent[n].size /\ off[n + 1] <= e
      BY <1>16, <1>17, <1>19, <3>1
    <3>5. off[n + 1] \in Nat
      <4>1. n + 1 \in Nat
        BY <1>22, <2>2
      <4> QED
        BY <1>16, <4>1
    <3>6. off[n + 1] <= e + h
      BY <3>4, <3>5
    <3> QED
      BY <1>14, <1>20, <3>1, <3>3, <3>4, <3>6
  <2> QED
    BY <2>1, <2>2
<1>24. next[num + 1] = next[first] + Len(v)
  <2>1. e + h = s + (x + (y + h))
    BY <1>3, <1>19
  <2> QED
    BY <1>11, <1>14, <1>20, <1>21, <2>1
<1>25. ASSUME NEW n \in first..num, NEW i \in 1..(HeaderSize + sent'[n].size), NEW j \in 1..Len(v),
              j + next[first] = next[n] + i
       PROVE  v[j] = <<n, i>>
  <2>1. CASE n = num
    <3>1. sent'[n].size = size
      BY <1>1, <2>1
    <3>2. i \in 1..h
      BY <1>10, <3>1
    <3>3. j = (x + y) + i
      <4>1. j + s = e + i /\ e = s + (x + y) /\ j \in Nat
        BY <1>19, <1>21, <1>25, <2>1
      <4> QED
        BY <1>3, <3>2, <4>1
    <3> QED
      BY <1>13, <2>1, <3>2, <3>3
  <2>2. CASE n # num
    <3>1. n \in first..l /\ next[n] = off[n] /\ n \in Nat
      BY <1>20, <1>22, <2>2
    <3>2. n \in 1..Len(sent)
      BY <1>16, <1>17, <1>18, <3>1
    <3>3. sent'[n] = sent[n]
      BY <1>1, <3>2
    <3>4. PICK m \in Nat : m = sent[n].size
      <4>1. sent[n] \in Packet
        BY <3>2 DEF Types
      <4> QED
        BY <4>1, BodySizeNat DEF Packet
    <3>5. off[n + 1] = off[n] + HeaderSize + m /\ off[n + 1] <= e
      BY <1>16, <1>17, <1>19, <3>1, <3>4
    <3>6. PICK o \in Nat : o = off[n]
      BY <1>16, <3>1
    <3>7. i \in 1..(HeaderSize + m) /\ j + s = o + i
      BY <1>21, <1>25, <3>1, <3>3, <3>4, <3>6
    <3>8. o + HeaderSize + m <= e
      BY <3>5, <3>6
    <3>9. j \in 1..(x + y)
      <4>1. PICK c \in Nat : c = HeaderSize + m
        BY BodySizeNat
      <4>2. j \in Nat /\ j # 0 /\ i <= c /\ i \in Nat
        BY <3>7, <4>1
      <4>3. o + c <= e
        BY <3>8, <4>1, BodySizeNat
      <4>4. o + c <= s + (x + y) /\ j + s = o + i
        BY <1>19, <3>7, <4>3
      <4> QED
        BY <1>3, <4>1, <4>2, <4>4
    <3>10. u[j] = <<n, i>>
      <4>1. j \in 1..Len(u) /\ j + off[first] = off[n] + i
        BY <1>11, <1>19, <3>6, <3>7, <3>9
      <4>2. i \in 1..(HeaderSize + sent[n].size) /\ n \in first..Len(sent)
        BY <1>17, <3>1, <3>4, <3>7
      <4> QED
        BY <1>16, <4>1, <4>2
    <3> QED
      BY <1>12, <3>9, <3>10
  <2> QED
    BY <2>1, <2>2
<1>26. Stream(v, first, next)'
  <2>1. first \in 1..(num + 1)
    BY <1>1, <1>16, <1>18
  <2> QED
    BY <1>1, <1>20, <1>23, <1>24, <1>25, <2>1 DEF Stream
<1>27. Row(v, Readable(input'), wire')
  <2>1. input' = input
    BY DEF Send
  <2> QED
    BY <1>2, <1>8, <2>1
<1> QED
  BY <1>26, <1>27

\* The packets before first are done with: those of this connection were
\* handled.  All from first on are of this connection.
Ordered(first) ==
    /\ \A i \in DOMAIN handled : handled[i] \in 1..(first - 1)
    /\ \A n \in first..Len(sent) : sent[n].connection = connection
    /\ connected => \A n \in 1..(first - 1) :
                       sent[n].connection = connection => n \in ToSet(handled)
    /\ ~connected => first = Len(sent) + 1

\* The bytes in the buffer and on the wire are those of whole packets.
Unbroken ==
    \E u, first, off : Row(u, Readable(input), wire) /\ Stream(u, first, off) /\ Ordered(first)

WholeIInv ==
    /\ \A n \in 1..Len(sent) : sent[n].connection \in 0..connection
    /\ PacketsStayWhole
    /\ ~torn => Unbroken

\* Handling the next packets keeps the order.
LEMMA ReadOrder ==
    ASSUME Types, PacketsStayWhole, ~torn, connected,
           UNCHANGED <<sent, connection, connected, torn>>,
           NEW first \in 1..(Len(sent) + 1), Ordered(first),
           NEW rounds \in Nat, first + rounds \in 1..(Len(sent) + 1),
           NEW got \in Seq(0..Len(sent)), Len(got) = rounds,
           \A i \in 1..rounds : got[i] = first + (i - 1), Row(handled', handled, got)
    PROVE  PacketsStayWhole' /\ Ordered(first + rounds)'
<1>1. PICK C, h, k : C = 0..Len(sent) /\ h = handled /\ k = handled'
  OBVIOUS
<1>2. h \in Seq(C) /\ got \in Seq(C) /\ Row(k, h, got)
  BY <1>1 DEF Types
<1>3. IsRow(k, h, got, C)
  BY <1>2, RowIs
<1>4. PICK x \in Nat, s \in Nat : x = Len(h) /\ s = Len(sent)
  <2>1. Len(h) \in Nat /\ Len(sent) \in Nat
    BY <1>2 DEF Types
  <2> QED
    BY <2>1
<1>5. /\ k \in Seq(C) /\ Len(k) = x + rounds
      /\ \A i \in 1..x : k[i] = h[i]
      /\ \A i \in 1..rounds : k[x + i] = first + (i - 1)
  BY <1>3, <1>4 DEF IsRow
<1>6. first \in Nat /\ first >= 1 /\ first + rounds <= s + 1
  BY <1>4
<1>7. DOMAIN h = 1..x /\ DOMAIN k = 1..(x + rounds) /\ DOMAIN sent = 1..s
  BY <1>2, <1>4, <1>5 DEF Types
<1>8. \A i \in 1..x : h[i] \in 1..(first - 1)
  BY <1>1, <1>7 DEF Ordered
<1>9. ASSUME NEW i \in 1..(x + rounds), i \notin 1..x
      PROVE  \E z \in 1..rounds : i = x + z
  <2>1. i - x \in 1..rounds /\ i = x + (i - x)
    BY <1>9
  <2> QED
    BY <2>1
<1>10. \A i, j \in 1..x : i < j => h[i] < h[j]
  BY <1>1, <1>7 DEF PacketsStayWhole
<1>11. \A num \in ToSet(h), earlier \in 1..s :
          earlier < num /\ sent[earlier].connection = sent[num].connection => earlier \in ToSet(h)
  BY <1>1, <1>7 DEF PacketsStayWhole
<1>12. ASSUME NEW n \in ToSet(h) PROVE n \in ToSet(k)
  <2>1. PICK i \in 1..x : n = h[i]
    BY <1>7 DEF ToSet
  <2>2. i \in 1..(x + rounds) /\ n = k[i]
    BY <1>5, <2>1
  <2> QED
    BY <1>7, <2>2 DEF ToSet
<1>13. ASSUME NEW n \in Nat, first <= n, n < first + rounds PROVE n \in ToSet(k)
  <2>1. PICK z \in 1..rounds : n = first + (z - 1)
    <3>1. (n - first) + 1 \in 1..rounds /\ n = first + (((n - first) + 1) - 1)
      BY <1>6, <1>13
    <3> QED
      BY <3>1
  <2>3. x + z \in 1..(x + rounds)
    OBVIOUS
  <2>2. k[x + z] = n
    BY <1>5, <2>1
  <2> QED
    BY <1>7, <2>2, <2>3 DEF ToSet
<1>14. ASSUME NEW i \in 1..(x + rounds) PROVE k[i] \in 1..((first + rounds) - 1)
  <2>1. CASE i \in 1..x
    <3>1. k[i] \in 1..(first - 1)
      BY <1>5, <1>8, <2>1
    <3> QED
      BY <1>6, <3>1
  <2>2. CASE i \notin 1..x
    <3>1. PICK z \in 1..rounds : i = x + z
      BY <1>9, <2>2
    <3>2. k[i] = first + (z - 1)
      BY <1>5, <3>1
    <3> QED
      BY <1>6, <3>2
  <2> QED
    BY <2>1, <2>2
<1>15. ASSUME NEW i \in 1..(x + rounds), NEW j \in 1..(x + rounds), i < j PROVE k[i] < k[j]
  <2>1. CASE j \in 1..x
    <3>1. i \in 1..x
      BY <1>15, <2>1
    <3> QED
      BY <1>5, <1>10, <1>15, <2>1, <3>1
  <2>2. CASE j \notin 1..x
    <3>1. PICK z \in 1..rounds : j = x + z
      BY <1>9, <2>2
    <3>2. k[j] = first + (z - 1)
      BY <1>5, <3>1
    <3>3. CASE i \in 1..x
      <4>1. k[i] \in 1..(first - 1)
        BY <1>5, <1>8, <3>3
      <4> QED
        BY <1>6, <3>2, <4>1
    <3>4. CASE i \notin 1..x
      <4>1. PICK y \in 1..rounds : i = x + y
        BY <1>9, <3>4
      <4>2. k[i] = first + (y - 1)
        BY <1>5, <4>1
      <4>3. y < z
        BY <1>15, <3>1, <4>1
      <4> QED
        BY <1>6, <3>2, <4>2, <4>3
    <3> QED
      BY <3>3, <3>4
  <2> QED
    BY <2>1, <2>2
<1>16. ASSUME NEW n \in 1..((first + rounds) - 1), sent[n].connection = connection
       PROVE  n \in ToSet(k)
  <2>1. CASE n < first
    <3>1. n \in 1..(first - 1)
      BY <1>6, <2>1
    <3>2. n \in ToSet(h)
      BY <1>1, <1>16, <3>1 DEF Ordered
    <3> QED
      BY <1>12, <3>2
  <2>2. CASE ~(n < first)
    BY <1>6, <1>13, <2>2
  <2> QED
    BY <2>1, <2>2
<1>17. ASSUME NEW num \in ToSet(k), NEW earlier \in 1..s, earlier < num,
              sent[earlier].connection = sent[num].connection
       PROVE  earlier \in ToSet(k)
  <2>1. PICK i \in 1..(x + rounds) : num = k[i]
    BY <1>7 DEF ToSet
  <2>2. CASE i \in 1..x
    <3>1. num \in ToSet(h)
      BY <1>5, <1>7, <2>1, <2>2 DEF ToSet
    <3> QED
      BY <1>11, <1>12, <1>17, <3>1
  <2>3. CASE i \notin 1..x
    <3>1. PICK z \in 1..rounds : i = x + z
      BY <1>9, <2>3
    <3>2. num = first + (z - 1)
      BY <1>5, <2>1, <3>1
    <3>3. num \in first..Len(sent) /\ earlier \in 1..((first + rounds) - 1)
      BY <1>4, <1>6, <1>17, <3>2
    <3>4. sent[earlier].connection = connection
      BY <1>17, <3>3 DEF Ordered
    <3> QED
      BY <1>16, <3>3, <3>4
  <2> QED
    BY <2>2, <2>3
<1>18. \A n \in (first + rounds)..Len(sent) : sent[n].connection = connection
  <2>1. \A n \in (first + rounds)..Len(sent) : n \in first..Len(sent)
    BY <1>4, <1>6
  <2> QED
    BY <2>1 DEF Ordered
<1>19. PacketsStayWhole'
  <2>1. \A i \in 1..(x + rounds) : k[i] # garbage
    BY <1>14 DEF garbage
  <2> QED
    BY <1>1, <1>7, <1>15, <1>17, <2>1 DEF PacketsStayWhole, garbage
<1>20. Ordered(first + rounds)'
  BY <1>1, <1>7, <1>14, <1>16, <1>18 DEF Ordered
<1> QED
  BY <1>19, <1>20

\* Nothing unread, in the buffer or on the wire, and no packet begun.
LEMMA NothingUnread ==
    ASSUME sent \in Seq(Packet), Readable(input) = <<>>, wire = <<>>,
           \A i \in DOMAIN handled : handled[i] \in 1..Len(sent), ~connected
    PROVE  Unbroken
<1>1. PICK u, first, off : u = <<>> /\ first = Len(sent) + 1 /\ off = [n \in Nat |-> 0]
  OBVIOUS
<1>2. Len(sent) \in Nat /\ first \in Nat /\ off \in [Nat -> Nat] /\ off[first] = 0 /\ Len(u) = 0
  BY <1>1
<1>3. \A n \in first..Len(sent) : FALSE
  BY <1>1, <1>2
<1>4. Stream(u, first, off)
  <2>1. first \in 1..(Len(sent) + 1)
    BY <1>1, <1>2
  <2>2. off[Len(sent) + 1] = off[first] + Len(u)
    BY <1>1, <1>2
  <2> QED
    BY <1>2, <1>3, <2>1, <2>2 DEF Stream
<1>5. first - 1 = Len(sent)
  BY <1>1, <1>2
<1>6. Ordered(first)
  BY <1>1, <1>3, <1>5 DEF Ordered
<1>7. Row(u, Readable(input), wire)
  BY <1>1 DEF Row
<1> QED
  BY <1>4, <1>6, <1>7 DEF Unbroken

\* The first state is whole.
LEMMA WholeInit == Init => WholeIInv
<1> SUFFICES ASSUME Init PROVE WholeIInv
  OBVIOUS
<1>1. sent = <<>> /\ handled = <<>> /\ wire = <<>> /\ connected = FALSE /\ sent \in Seq(Packet)
  BY DEF Init
<1>2. Readable(input) = <<>>
  <2>1. PICK b, B, r : b = input /\ B = Byte /\ r = readableBytes(input)
    OBVIOUS
  <2>2. Proper(b, B) /\ r = readableBytes(b) /\ r = 0
    BY <2>1, InitIs DEF TypeIInv, Types
  <2>3. IsPart(Readable(b), b.memory, b.reader, r, B)
    BY <2>2, ReadablePart
  <2>4. Readable(b) \in Seq(B) /\ Len(Readable(b)) = 0
    BY <2>2, <2>3 DEF IsPart
  <2> QED
    BY <2>1, <2>4
<1>3. \A i \in DOMAIN handled : handled[i] \in 1..Len(sent)
  BY <1>1
<1>4. Unbroken
  BY <1>1, <1>2, <1>3, NothingUnread
<1>5. PacketsStayWhole
  BY <1>1 DEF PacketsStayWhole, ToSet
<1>6. \A n \in 1..Len(sent) : sent[n].connection \in 0..connection
  BY <1>1
<1> QED
  BY <1>4, <1>5, <1>6 DEF WholeIInv

\* The steps keep the packets whole.
LEMMA WholeNext == TypeIInv /\ WholeIInv /\ [Next]_vars => WholeIInv'
<1> SUFFICES ASSUME TypeIInv, WholeIInv, [Next]_vars PROVE WholeIInv'
  OBVIOUS
<1>0. /\ Types /\ sent \in Seq(Packet) /\ Len(sent) \in Nat /\ DOMAIN sent = 1..Len(sent)
      /\ connection \in Nat
  <2>1. Types /\ connection \in Nat
    BY PacketAssumption DEF TypeIInv
  <2>2. sent \in Seq(Packet)
    BY <2>1 DEF Types
  <2> QED
    BY <2>1, <2>2
<1>1. ASSUME NEW size \in BodySizes, Send(size) PROVE WholeIInv'
  <2>1. PICK num, t, p :
              /\ num = Len(sent) + 1 /\ num \in Nat
              /\ p = [connection |-> connection, size |-> size]
              /\ sent' = Append(sent, p) /\ Len(sent') = num /\ sent'[num] = p
              /\ \A i \in 1..Len(sent) : sent'[i] = sent[i]
              /\ t = Bytes(num, size) /\ t \in Seq(Byte') /\ Len(t) = HeaderSize + size
              /\ \A i \in 1..(HeaderSize + size) : t[i] = <<num, i>>
              /\ Row(wire', wire, t)
              /\ Byte \subseteq Byte'
    BY <1>0, <1>1, SendIs
  <2>2. connected /\ UNCHANGED <<connected, connection, input, handled, torn>>
    BY <1>1 DEF Send
  <2>3. p.connection = connection
    BY <2>1
  <2>4. \A n \in 1..num : n # num => n \in 1..Len(sent)
    BY <1>0, <2>1
  <2>5. \A n \in 1..num : sent'[n].connection \in 0..connection
    <3>1. connection \in 0..connection
      BY <1>0
    <3> QED
      BY <2>1, <2>3, <2>4, <3>1 DEF WholeIInv
  <2>6. ASSUME ~torn PROVE PacketsStayWhole' /\ Unbroken'
    <3>1. PICK u, first, off :
              Row(u, Readable(input), wire) /\ Stream(u, first, off) /\ Ordered(first)
      BY <2>6 DEF WholeIInv, Unbroken
    <3>2. PICK v, next : Row(v, Readable(input'), wire') /\ Stream(v, first, next)'
      BY <1>0, <1>1, <3>1, SendStream
    <3>3. first \in 1..(Len(sent) + 1)
      BY <3>1 DEF Stream
    <3>4. \A n \in 1..(first - 1) : n \in 1..Len(sent) /\ sent'[n] = sent[n]
      <4>1. \A n \in 1..(first - 1) : n \in 1..Len(sent)
        BY <1>0, <3>3
      <4> QED
        BY <2>1, <4>1
    <3>5. \A n \in first..num : sent'[n].connection = connection
      <4>1. \A n \in first..num : n # num => n \in first..Len(sent) /\ n \in 1..Len(sent)
        BY <1>0, <2>1, <3>3
      <4> QED
        BY <2>1, <2>3, <3>1, <4>1 DEF Ordered
    <3>6. Ordered(first)'
      BY <2>1, <2>2, <3>1, <3>4, <3>5 DEF Ordered
    <3>7. Readable(input)' = Readable(input')
      BY DEF Readable
    <3>8. Unbroken'
      BY <3>2, <3>6, <3>7 DEF Unbroken
    <3>9. ASSUME NEW n \in ToSet(handled), NEW earlier \in DOMAIN sent', earlier < n,
                 sent'[earlier].connection = sent'[n].connection
          PROVE  earlier \in ToSet(handled)
      <4>1. n \in 1..(first - 1)
        BY <3>1 DEF Ordered, ToSet
      <4>2. earlier \in 1..num /\ n \in 1..Len(sent) /\ sent'[n] = sent[n]
        <5>1. sent' \in Seq(Packet)
          <6>1. p \in Packet
            BY <2>1 DEF TypeIInv, Packet
          <6> QED
            BY <1>0, <2>1, <6>1
        <5>2. DOMAIN sent' = 1..num
          BY <2>1, <5>1
        <5> QED
          BY <3>4, <4>1, <5>2
      <4>3. earlier \in 1..Len(sent)
        BY <3>9, <4>2
      <4>4. earlier \in DOMAIN sent /\ sent[earlier].connection = sent[n].connection
        BY <1>0, <2>1, <3>9, <4>2, <4>3
      <4> QED
        BY <2>6, <3>9, <4>4 DEF WholeIInv, PacketsStayWhole
    <3>10. PacketsStayWhole'
      <4>1. handled' = handled
        BY <2>2
      <4> QED
        BY <2>6, <3>9, <4>1 DEF WholeIInv, PacketsStayWhole, garbage, ToSet
    <3> QED
      BY <3>8, <3>10
  <2>7. torn => PacketsStayWhole'
    BY <2>2 DEF PacketsStayWhole
  <2> QED
    BY <2>1, <2>2, <2>5, <2>6, <2>7 DEF WholeIInv
<1>2. ASSUME NEW n \in 1..Len(wire), NEW g \in BodySizes, handRead(n, g) PROVE WholeIInv'
  <2>1. connected /\ UNCHANGED <<connected, connection, sent, torn>>
    BY <1>2 DEF handRead
  <2>2. \A i \in 1..Len(sent') : sent'[i].connection \in 0..connection'
    BY <2>1 DEF WholeIInv
  <2>3. ASSUME ~torn PROVE PacketsStayWhole' /\ Unbroken'
    <3>1. PICK u, first, off :
              Row(u, Readable(input), wire) /\ Stream(u, first, off) /\ Ordered(first)
      BY <2>3 DEF WholeIInv, Unbroken
    <3>2. PICK t, filled, cut, rounds, got : Reading(n, g, t, filled, cut, rounds, got)
      BY <1>0, <1>2, ReadIs
    <3>3. /\ rounds \in Nat
          /\ first + rounds \in 1..(Len(sent) + 1) /\ cut[rounds] + off[first] = off[first + rounds]
          /\ \A i \in 1..rounds : got[i] = first + (i - 1)
      BY <1>0, <3>1, <3>2, LoopFollows
    <3>4. PICK v : /\ Row(v, Readable(input'), wire') /\ v \in Seq(Byte) /\ u \in Seq(Byte)
                   /\ cut[rounds] \in Nat /\ Behind(v, u, cut[rounds])
      BY <1>0, <1>2, <3>1, <3>2, ReadBehind
    <3>5. first \in 1..(Len(sent) + 1)
      BY <3>1 DEF Stream
    <3>6. PICK m : m = first + rounds /\ m \in first..(Len(sent) + 1)
      <4>1. first + rounds \in first..(Len(sent) + 1)
        BY <1>0, <3>3, <3>5
      <4> QED
        BY <4>1
    <3>7. Stream(v, m, off)
      <4>1. PICK c : c = cut[rounds]
        OBVIOUS
      <4>2. c \in Nat /\ Behind(v, u, c) /\ c + off[first] = off[m]
        BY <3>3, <3>4, <3>6, <4>1
      <4> QED
        BY <1>0, <3>1, <3>4, <3>6, <4>2, StreamBehind
    <3>8. got \in Seq(0..Len(sent)) /\ Len(got) = rounds /\ Row(handled', handled, got)
      <4>3. Types
        BY <1>0
      <4>1. got \in Seq(0..Len(sent))
        BY <3>2, <4>3, GotIs
      <4>4. Len(got) = rounds
        <5>1. got = [i \in 1..rounds |-> FirstPacket(Rest(filled, cut[i - 1]), g)]
          BY <3>2 DEF Reading
        <5> QED
          BY <3>3, <5>1
      <4>2. Row(handled', handled, got)
        BY <3>2 DEF Reading
      <4> QED
        BY <4>1, <4>2, <4>4
    <3>9. PacketsStayWhole' /\ Ordered(first + rounds)'
      BY <1>0, <2>1, <2>3, <3>1, <3>3, <3>5, <3>8, ReadOrder DEF WholeIInv
    <3>10. Stream(v, m, off)'
      BY <2>1, <3>7 DEF Stream
    <3>11. Ordered(m)'
      BY <3>6, <3>9
    <3>12. Readable(input)' = Readable(input')
      BY DEF Readable
    <3>13. Unbroken'
      BY <3>4, <3>10, <3>11, <3>12 DEF Unbroken
    <3> QED
      BY <3>9, <3>13
  <2>4. torn => PacketsStayWhole'
    BY <2>1 DEF PacketsStayWhole
  <2> QED
    BY <2>1, <2>2, <2>3, <2>4 DEF WholeIInv
<1>3. ASSUME connectEstablished PROVE WholeIInv'
  <2>1. /\ ~connected /\ connection' = connection + 1
        /\ UNCHANGED <<wire, sent, handled, torn>>
    BY <1>3 DEF connectEstablished
  <2>2. \A i \in 1..Len(sent') : sent'[i].connection \in 0..connection'
    BY <1>0, <2>1 DEF WholeIInv
  <2>3. PacketsStayWhole'
    BY <2>1 DEF WholeIInv, PacketsStayWhole, ToSet, garbage
  <2>4. ASSUME ~torn PROVE Unbroken'
    <3>1. PICK u, first, off :
              Row(u, Readable(input), wire) /\ Stream(u, first, off) /\ Ordered(first)
      BY <2>4 DEF WholeIInv, Unbroken
    <3>2. Readable(input') = Readable(input)
      <4>1. PICK after : after = input'
        OBVIOUS
      <4>2. Readable(after) = Readable(input)
        BY <1>0, <1>3, <4>1, ConnectLeaves
      <4> QED
        BY <4>1, <4>2
    <3>3. Row(u, Readable(input), wire)'
      <4>1. Readable(input)' = Readable(input')
        BY DEF Readable
      <4> QED
        BY <2>1, <3>1, <3>2, <4>1
    <3>4. Stream(u, first, off)'
      BY <2>1, <3>1 DEF Stream
    <3>5. first = Len(sent) + 1
      BY <2>1, <3>1 DEF Ordered
    <3>6. \A n \in first..Len(sent) : FALSE
      BY <1>0, <3>5
    <3>7. \A n \in 1..(first - 1) : sent[n].connection # connection + 1
      <4>1. \A n \in 1..(first - 1) : n \in 1..Len(sent)
        BY <1>0, <3>5
      <4>2. \A c \in 0..connection : c # connection + 1
        BY <1>0
      <4> QED
        BY <4>1, <4>2 DEF WholeIInv
    <3>8. Ordered(first)'
      BY <2>1, <3>1, <3>5, <3>6, <3>7 DEF Ordered
    <3> QED
      BY <3>3, <3>4, <3>8 DEF Unbroken
  <2> QED
    BY <2>1, <2>2, <2>3, <2>4 DEF WholeIInv
<1>4. ASSUME handClose PROVE WholeIInv'
  <2>1. /\ connected' = FALSE /\ wire' = <<>> /\ torn' = (torn \/ Readable(input) # <<>>)
        /\ UNCHANGED <<connection, input, sent, handled>>
    BY <1>4 DEF handClose
  <2>2. \A i \in 1..Len(sent') : sent'[i].connection \in 0..connection'
    BY <2>1 DEF WholeIInv
  <2>3. torn => torn'
    BY <2>1
  <2>4. PacketsStayWhole'
    BY <2>1, <2>3 DEF WholeIInv, PacketsStayWhole, ToSet, garbage
  <2>5. ASSUME ~torn' PROVE Unbroken'
    <3>1. ~torn /\ Readable(input) = <<>>
      BY <2>1, <2>5
    <3>2. PICK u, first, off :
              Row(u, Readable(input), wire) /\ Stream(u, first, off) /\ Ordered(first)
      BY <3>1 DEF WholeIInv, Unbroken
    <3>3. first \in 1..(Len(sent) + 1)
      BY <3>2 DEF Stream
    <3>4. \A n \in 1..(first - 1) : n \in 1..Len(sent)
      BY <1>0, <3>3
    <3>5. \A i \in DOMAIN handled : handled[i] \in 1..Len(sent)
      BY <3>2, <3>4 DEF Ordered
    <3>6. /\ (sent \in Seq(Packet))' /\ (wire = <<>>)' /\ (~connected)'
          /\ (\A i \in DOMAIN handled : handled[i] \in 1..Len(sent))'
      BY <1>0, <2>1, <3>5 DEF Packet
    <3>7. (Readable(input) = <<>>)'
      BY <2>1, <3>1 DEF Readable
    <3> QED
      BY <3>6, <3>7, NothingUnread, PTL
  <2> QED
    BY <2>2, <2>4, <2>5 DEF WholeIInv
<1>5. ASSUME UNCHANGED vars PROVE WholeIInv'
  <2>1. UNCHANGED <<connected, connection, input, wire, sent, handled, torn>>
    BY <1>5 DEF vars
  <2>2. PacketsStayWhole'
    BY <2>1 DEF WholeIInv, PacketsStayWhole, ToSet, garbage
  <2>3. ASSUME Unbroken PROVE Unbroken'
    <3>1. PICK u, first, off :
              Row(u, Readable(input), wire) /\ Stream(u, first, off) /\ Ordered(first)
      BY <2>3 DEF Unbroken
    <3>2. Row(u, Readable(input), wire)'
      BY <2>1, <3>1 DEF Row, Readable
    <3>3. Stream(u, first, off)'
      BY <2>1, <3>1 DEF Stream
    <3>4. Ordered(first)'
      BY <2>1, <3>1 DEF Ordered, ToSet
    <3> QED
      BY <3>2, <3>3, <3>4 DEF Unbroken
  <2> QED
    BY <2>1, <2>2, <2>3 DEF WholeIInv
<1> QED
  BY <1>1, <1>2, <1>3, <1>4, <1>5 DEF Next, Read

\* However the network cuts the stream, wherever the buffer wraps and grows and
\* however often the connection is replaced between packets: handlerMsg gets
\* whole packets, in order, each once, and none of a connection is left out.
THEOREM PacketsWhole == Spec => []PacketsStayWhole
<1>1. Init => TypeIInv /\ WholeIInv
  BY InitIs, WholeInit
<1>2. TypeIInv /\ WholeIInv /\ [Next]_vars => (TypeIInv /\ WholeIInv)'
  BY TypeNext, WholeNext
<1>3. WholeIInv => PacketsStayWhole
  BY DEF WholeIInv
<1> QED
  BY <1>1, <1>2, <1>3, PTL DEF Spec
=============================================================================
