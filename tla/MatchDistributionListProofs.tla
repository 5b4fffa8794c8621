-------------------- MODULE MatchDistributionListProofs --------------------
(***************************************************************************)
(* The list algorithm of the distribution implements the set version, and  *)
(* settles: for every set of matches and services, every order of the      *)
(* lists and every load from which a service is too busy.                  *)
(***************************************************************************)
EXTENDS MatchDistributionList, FiniteSetTheorems, FunctionTheorems, WellFoundedInduction, TLAPS

(***************************************************************************)
(* Induction over numbers.                                                 *)
(***************************************************************************)

\* A set of numbers has a least one.
LEMMA Least ==
    ASSUME NEW T, T \subseteq Nat, T # {}
    PROVE  \E x \in T : \A y \in T : x <= y
<1> DEFINE R == {p \in Nat \X Nat : p[1] < p[2]}
<1>1. R = OpToRel(<, Nat)
  BY DEF OpToRel
<1>2. IsWellFoundedOn(R, Nat)
  BY <1>1, NatLessThanWellFounded
<1> HIDE DEF R
<1>3. PICK x \in T : \A y \in T : ~(<<y, x>> \in R)
  BY <1>2, WFMin
<1>4. \A y \in T : ~(y < x)
  BY <1>3 DEF R
<1> QED
  BY <1>4

\* A set with 0 and the successors of its numbers has them all.
LEMMA Inductive ==
    ASSUME NEW S, 0 \in S, \A n \in Nat : n \in S => n + 1 \in S
    PROVE  Nat \subseteq S
<1> SUFFICES ASSUME NEW k \in Nat, k \notin S PROVE FALSE
  OBVIOUS
<1> DEFINE T == Nat \ S
<1>1. PICK x \in T : \A y \in T : x <= y
  BY Least
<1>2. x \in Nat /\ x # 0 /\ x \notin S
  BY <1>1
<1>3. x - 1 \in Nat /\ ~(x <= x - 1) /\ (x - 1) + 1 = x
  BY <1>2
<1>4. x - 1 \in S
  BY <1>1, <1>3
<1> QED
  BY <1>2, <1>3, <1>4

-----------------------------------------------------------------------------
(***************************************************************************)
(* Lists without doubles, and the sets of their elements.                  *)
(***************************************************************************)

\* The elements of a list.
LEMMA Elements ==
    ASSUME NEW M, NEW s \in Seq(M)
    PROVE  /\ ToSet(s) \subseteq M
           /\ \A x : x \in ToSet(s) <=> \E i \in 1..Len(s) : s[i] = x
           /\ ToSet(s) = {} <=> s = <<>>
           /\ Len(s) \in Nat
<1>1. Len(s) \in Nat /\ DOMAIN s = 1..Len(s) /\ \A i \in 1..Len(s) : s[i] \in M
  OBVIOUS
<1>2. \A x : x \in ToSet(s) <=> \E i \in 1..Len(s) : s[i] = x
  BY <1>1 DEF ToSet
<1>3. ToSet(s) = {} <=> Len(s) = 0
  <2>1. ASSUME Len(s) # 0 PROVE s[1] \in ToSet(s)
    BY <1>1, <1>2, <2>1
  <2>2. ASSUME NEW x \in ToSet(s) PROVE Len(s) # 0
    BY <1>1, <1>2, <2>2
  <2> QED
    BY <2>1, <2>2
<1>4. Len(s) = 0 <=> s = <<>>
  OBVIOUS
<1> QED
  BY <1>1, <1>2, <1>3, <1>4

LEMMA NoElements ==
    ASSUME NEW M, NEW s \in Seq(M)
    PROVE  ToSet(s) = {} <=> s = <<>>
BY Elements

\* A list without doubles is as long as it has elements.
LEMMA OnceCounts ==
    ASSUME NEW M, NEW s \in Seq(M), IsInjective(s)
    PROVE  IsFiniteSet(ToSet(s)) /\ Cardinality(ToSet(s)) = Len(s)
<1>1. /\ Len(s) \in Nat /\ DOMAIN s = 1..Len(s)
      /\ \A x : x \in ToSet(s) <=> \E i \in 1..Len(s) : s[i] = x
  BY Elements
<1>2. s \in [1..Len(s) -> ToSet(s)]
  <2>1. s = [i \in 1..Len(s) |-> s[i]]
    BY <1>1
  <2> QED
    BY <1>1, <2>1
<1>3. s \in Bijection(1..Len(s), ToSet(s))
  BY <1>1, <1>2 DEF Bijection, Injection, Surjection, IsInjective
<1>4. ExistsBijection(1..Len(s), ToSet(s))
  BY <1>3 DEF ExistsBijection
<1> QED
  BY <1>1, <1>4, FS_CountingElements, FS_NatBijection

\* p is the first n elements of s, r the others.
Halves(s, n, p, r) == p = SubSeq(s, 1, n) /\ r = SubSeq(s, n + 1, Len(s))

\* A list without doubles in two.
LEMMA Split ==
    ASSUME NEW M, NEW s \in Seq(M), IsInjective(s), NEW n \in 0..Len(s), NEW p, NEW r,
           Halves(s, n, p, r)
    PROVE  /\ p \in Seq(M) /\ IsInjective(p) /\ Len(p) = n
           /\ r \in Seq(M) /\ IsInjective(r) /\ Len(r) = Len(s) - n
           /\ ToSet(p) \cup ToSet(r) = ToSet(s) /\ ToSet(p) \cap ToSet(r) = {}
<1>1. Len(s) \in Nat /\ n \in Nat /\ n <= Len(s) /\ DOMAIN s = 1..Len(s)
  OBVIOUS
<1>2. p \in Seq(M) /\ Len(p) = n /\ DOMAIN p = 1..n /\ \A i \in 1..n : p[i] = s[i]
  BY <1>1 DEF Halves
<1>3. /\ r \in Seq(M) /\ Len(r) = Len(s) - n /\ DOMAIN r = 1..(Len(s) - n)
      /\ \A i \in 1..(Len(s) - n) : r[i] = s[n + i]
  <2>1. PICK l \in Nat, k \in Nat : l = Len(s) /\ l = n + k
    <3>1. Len(s) - n \in Nat /\ Len(s) = n + (Len(s) - n)
      BY <1>1
    <3> QED
      BY <1>1, <3>1
  <2>2. n + 1 \in 1..(Len(s) + 1) /\ l \in n..Len(s) /\ l - n = k
    BY <1>1, <2>1
  <2>3. \A i \in (n + 1)..l : s[i] \in M
    BY <1>1, <2>1
  <2>4. r = SubSeq(s, n + 1, l)
    BY <2>1 DEF Halves
  <2>5. r \in Seq(M) /\ Len(r) = k /\ \A i \in 1..k : r[i] = s[n + i]
    BY <1>1, <2>2, <2>3, <2>4
  <2> QED
    BY <2>1, <2>2, <2>5
<1>4. /\ \A i \in 1..n : i \in 1..Len(s)
      /\ \A i \in 1..(Len(s) - n) : n + i \in 1..Len(s) /\ ~(n + i <= n)
  BY <1>1
<1>5. IsInjective(p)
  BY <1>1, <1>2, <1>4 DEF IsInjective
<1>6. IsInjective(r)
  <2> SUFFICES ASSUME NEW i \in 1..(Len(s) - n), NEW j \in 1..(Len(s) - n), r[i] = r[j]
               PROVE  i = j
    BY <1>3 DEF IsInjective
  <2>1. n + i = n + j
    BY <1>1, <1>3, <1>4 DEF IsInjective
  <2> QED
    BY <1>1, <2>1
<1>7. ASSUME NEW x \in ToSet(s) PROVE x \in ToSet(p) \cup ToSet(r)
  <2>1. PICK i \in 1..Len(s) : s[i] = x
    BY Elements
  <2>2. CASE i <= n
    BY <1>1, <1>2, <2>1, <2>2 DEF ToSet
  <2>3. CASE ~(i <= n)
    <3>1. i - n \in 1..(Len(s) - n) /\ n + (i - n) = i
      BY <1>1, <2>3
    <3>2. r[i - n] = x
      BY <1>3, <2>1, <3>1
    <3> QED
      BY <1>3, <3>1, <3>2 DEF ToSet
  <2> QED
    BY <2>2, <2>3
<1>8. ASSUME NEW x \in ToSet(p) PROVE \E i \in 1..Len(s) : i <= n /\ s[i] = x
  BY <1>2, <1>4 DEF ToSet
<1>9. ASSUME NEW x \in ToSet(r) PROVE \E i \in 1..Len(s) : ~(i <= n) /\ s[i] = x
  BY <1>3, <1>4 DEF ToSet
<1>10. \A x : x \in ToSet(p) \/ x \in ToSet(r) => x \in ToSet(s)
  BY <1>1, <1>8, <1>9 DEF ToSet
<1>11. ToSet(p) \cap ToSet(r) = {}
  BY <1>1, <1>8, <1>9 DEF IsInjective
<1> QED
  BY <1>2, <1>3, <1>5, <1>6, <1>7, <1>10, <1>11

\* q is s with t behind it.
Joined(q, s, t) == q = s \o t

\* Two lists without a common element in a row.
LEMMA Join ==
    ASSUME NEW M, NEW s \in Seq(M), IsInjective(s), NEW t \in Seq(M), IsInjective(t),
           ToSet(s) \cap ToSet(t) = {}, NEW q, Joined(q, s, t)
    PROVE  q \in Seq(M) /\ IsInjective(q) /\ ToSet(q) = ToSet(s) \cup ToSet(t)
<1>1. /\ Len(s) \in Nat /\ Len(t) \in Nat /\ DOMAIN s = 1..Len(s) /\ DOMAIN t = 1..Len(t)
      /\ q \in Seq(M) /\ Len(q) = Len(s) + Len(t) /\ DOMAIN q = 1..(Len(s) + Len(t))
      /\ \A i \in 1..(Len(s) + Len(t)) : q[i] = IF i <= Len(s) THEN s[i] ELSE t[i - Len(s)]
  BY DEF Joined
<1>2. ASSUME NEW i \in DOMAIN q
      PROVE  \/ i \in DOMAIN s /\ q[i] = s[i]
             \/ i - Len(s) \in DOMAIN t /\ q[i] = t[i - Len(s)]
  BY <1>1
<1>3. \A i \in DOMAIN s : i \in DOMAIN q /\ q[i] = s[i]
  BY <1>1
<1>4. ASSUME NEW i \in DOMAIN t PROVE i + Len(s) \in DOMAIN q /\ q[i + Len(s)] = t[i]
  <2>1. /\ i + Len(s) \in 1..(Len(s) + Len(t)) /\ ~(i + Len(s) <= Len(s))
        /\ i + Len(s) - Len(s) = i
    BY <1>1
  <2> QED
    BY <1>1, <2>1
<1>5. ToSet(q) = ToSet(s) \cup ToSet(t)
  BY <1>2, <1>3, <1>4 DEF ToSet
<1>6. ASSUME NEW i \in DOMAIN q, NEW j \in DOMAIN q, q[i] = q[j] PROVE i = j
  <2>1. CASE i \in DOMAIN s /\ q[i] = s[i]
    <3>1. j \in DOMAIN s /\ q[j] = s[j]
      <4> SUFFICES ASSUME j - Len(s) \in DOMAIN t, q[j] = t[j - Len(s)] PROVE FALSE
        BY <1>2
      <4>1. s[i] \in ToSet(s) /\ t[j - Len(s)] \in ToSet(t)
        BY <2>1 DEF ToSet
      <4> QED
        BY <1>6, <2>1, <4>1
    <3> QED
      BY <1>6, <2>1, <3>1 DEF IsInjective
  <2>2. CASE i - Len(s) \in DOMAIN t /\ q[i] = t[i - Len(s)]
    <3>1. j - Len(s) \in DOMAIN t /\ q[j] = t[j - Len(s)]
      <4> SUFFICES ASSUME j \in DOMAIN s, q[j] = s[j] PROVE FALSE
        BY <1>2
      <4>1. s[j] \in ToSet(s) /\ t[i - Len(s)] \in ToSet(t)
        BY <2>2 DEF ToSet
      <4> QED
        BY <1>6, <2>2, <4>1
    <3>2. i - Len(s) = j - Len(s)
      BY <1>6, <2>2, <3>1 DEF IsInjective
    <3>3. i \in Nat /\ j \in Nat
      BY <1>1
    <3> QED
      BY <1>1, <3>2, <3>3
  <2> QED
    BY <1>2, <2>1, <2>2
<1> QED
  BY <1>1, <1>5, <1>6 DEF IsInjective

-----------------------------------------------------------------------------
(***************************************************************************)
(* Orders.                                                                 *)
(***************************************************************************)

\* The elements of a set one after the other.
LEMMA SeqsOfSet ==
    ASSUME NEW S, IsFiniteSet(S), NEW q \in SetToSeqs(S)
    PROVE  q \in Seq(S) /\ IsInjective(q) /\ ToSet(q) = S /\ Len(q) = Cardinality(S)
<1>1. PICK n \in Nat : n = Cardinality(S)
  BY FS_CardinalityType
<1>2. q \in [1..n -> S] /\ \A i, j \in 1..n : i # j => q[i] # q[j]
  BY <1>1 DEF SetToSeqs
<1>3. q \in Seq(S) /\ Len(q) = n /\ DOMAIN q = 1..n
  BY <1>2
<1>4. q \in Injection(1..n, S)
  BY <1>2 DEF Injection, IsInjective
<1>5. Cardinality(1..n) = n
  BY FS_Interval
<1>6. q \in Surjection(1..n, S)
  BY <1>1, <1>4, <1>5, FS_Injection
<1>7. ToSet(q) = S
  BY <1>2, <1>3, <1>6 DEF Surjection, ToSet
<1> QED
  BY <1>1, <1>2, <1>3, <1>7 DEF IsInjective

\* R orders the elements of S, one before the other.
Orders(R, S) ==
    /\ \A s, t \in S : s = t \/ <<s, t>> \in R \/ <<t, s>> \in R
    /\ \A s, t, u \in S : <<s, t>> \in R /\ <<t, u>> \in R => <<s, u>> \in R

\* m is behind all others of T.
IsLast(m, T, R) == m \in T /\ \A s \in T \ {m} : <<s, m>> \in R

LEMMA LastExists ==
    ASSUME NEW S, IsFiniteSet(S), NEW R, Orders(R, S), NEW T \in SUBSET S, T # {}
    PROVE  \E m : IsLast(m, T, R)
<1> DEFINE K == {n \in Nat : \A U \in SUBSET S : Cardinality(U) = n + 1 => \E m : IsLast(m, U, R)}
<1>1. \A U \in SUBSET S : IsFiniteSet(U) /\ Cardinality(U) \in Nat
  BY FS_Subset, FS_CardinalityType
<1>2. 0 \in K
  <2>1. ASSUME NEW U \in SUBSET S, Cardinality(U) = 1 PROVE \E m : IsLast(m, U, R)
    <3>1. PICK m : U = {m}
      BY <1>1, <2>1, FS_Singleton
    <3> QED
      BY <3>1 DEF IsLast
  <2> QED
    BY <2>1
<1>3. ASSUME NEW n \in Nat, n \in K PROVE n + 1 \in K
  <2>1. ASSUME NEW U \in SUBSET S, Cardinality(U) = n + 2 PROVE \E m : IsLast(m, U, R)
    <3>1. PICK x \in U : TRUE
      BY <1>1, <2>1, FS_EmptySet
    <3>2. U \ {x} \in SUBSET S /\ Cardinality(U \ {x}) = n + 1
      BY <1>1, <2>1, <3>1, FS_RemoveElement
    <3>3. PICK m : IsLast(m, U \ {x}, R)
      BY <1>3, <3>2
    <3>4. m \in S /\ x \in S /\ m # x
      BY <3>1, <3>3 DEF IsLast
    <3>5. CASE <<x, m>> \in R
      BY <3>1, <3>3, <3>5 DEF IsLast
    <3>6. CASE <<m, x>> \in R
      <4>1. ASSUME NEW s \in U \ {x} PROVE <<s, x>> \in R
        <5>1. s \in S /\ (s = m \/ <<s, m>> \in R)
          BY <3>3 DEF IsLast
        <5> QED
          BY <3>4, <3>6, <5>1 DEF Orders
      <4> QED
        BY <3>1, <4>1 DEF IsLast
    <3> QED
      BY <3>4, <3>5, <3>6 DEF Orders
  <2>2. (n + 1) + 1 = n + 2
    OBVIOUS
  <2> QED
    BY <2>1, <2>2
<1>4. Nat \subseteq K
  <2> HIDE DEF K
  <2> QED
    BY <1>2, <1>3, Inductive
<1>5. Cardinality(T) \in Nat /\ Cardinality(T) # 0
  BY <1>1, FS_EmptySet
<1>6. Cardinality(T) - 1 \in Nat /\ (Cardinality(T) - 1) + 1 = Cardinality(T)
  BY <1>5
<1>7. Cardinality(T) - 1 \in K
  BY <1>4, <1>6
<1> QED
  BY <1>6, <1>7

\* order lists the elements of T as R orders them.
IsOrder(order, n, T, R) ==
    /\ order \in [1..n -> T]
    /\ \A i, j \in 1..n : i # j => order[i] # order[j]
    /\ \A i, j \in 1..n : i < j => <<order[i], order[j]>> \in R

LEMMA OrderExists ==
    ASSUME NEW S, IsFiniteSet(S), NEW R, Orders(R, S)
    PROVE  \E order \in SetToSeqs(S) :
             \A i, j \in DOMAIN order : i < j => <<order[i], order[j]>> \in R
<1> DEFINE K == {n \in Nat : \A T \in SUBSET S : Cardinality(T) = n => \E order : IsOrder(order, n, T, R)}
<1>1. \A T \in SUBSET S : IsFiniteSet(T) /\ Cardinality(T) \in Nat
  BY FS_Subset, FS_CardinalityType
<1>2. 0 \in K
  <2>1. ASSUME NEW T \in SUBSET S PROVE \E order : IsOrder(order, 0, T, R)
    <3>1. IsOrder([i \in 1..0 |-> 0], 0, T, R)
      BY DEF IsOrder
    <3> QED
      BY <3>1
  <2> QED
    BY <2>1
<1>3. ASSUME NEW n \in Nat, n \in K PROVE n + 1 \in K
  <2>1. ASSUME NEW T \in SUBSET S, Cardinality(T) = n + 1
        PROVE  \E order : IsOrder(order, n + 1, T, R)
    <3>1. T # {}
      BY <2>1, FS_EmptySet
    <3>2. PICK m : IsLast(m, T, R)
      BY <3>1, LastExists
    <3>3. T \ {m} \in SUBSET S /\ Cardinality(T \ {m}) = n /\ m \in T
      <4>1. m \in T /\ IsFiniteSet(T)
        BY <1>1, <3>2 DEF IsLast
      <4>2. Cardinality(T \ {m}) = Cardinality(T) - 1
        BY <4>1, FS_RemoveElement
      <4> QED
        BY <2>1, <4>1, <4>2
    <3>4. PICK old : IsOrder(old, n, T \ {m}, R)
      BY <1>3, <3>3
    <3>5. PICK order : order = [i \in 1..(n + 1) |-> IF i = n + 1 THEN m ELSE old[i]]
      OBVIOUS
    <3>6. \A i \in 1..(n + 1) : i = n + 1 \/ i \in 1..n
      OBVIOUS
    <3>7. \A i \in 1..n : order[i] = old[i] /\ old[i] \in T \ {m} /\ <<old[i], m>> \in R /\ i < n + 1
      BY <3>2, <3>4, <3>5 DEF IsOrder, IsLast
    <3>8. order[n + 1] = m
      BY <3>5
    <3>9. order \in [1..(n + 1) -> T]
      BY <3>3, <3>5, <3>6, <3>7
    <3>10. ASSUME NEW i \in 1..(n + 1), NEW j \in 1..(n + 1), i # j PROVE order[i] # order[j]
      <4>1. CASE i \in 1..n /\ j \in 1..n
        BY <3>4, <3>7, <3>10, <4>1 DEF IsOrder
      <4>2. CASE i = n + 1 \/ j = n + 1
        BY <3>6, <3>7, <3>8, <3>10, <4>2
      <4> QED
        BY <3>6, <4>1, <4>2
    <3>11. ASSUME NEW i \in 1..(n + 1), NEW j \in 1..(n + 1), i < j
           PROVE  <<order[i], order[j]>> \in R
      <4>1. i \in 1..n
        BY <3>11
      <4>2. CASE j \in 1..n
        BY <3>4, <3>7, <3>11, <4>1, <4>2 DEF IsOrder
      <4>3. CASE j = n + 1
        BY <3>7, <3>8, <4>1, <4>3
      <4> QED
        BY <3>6, <4>2, <4>3
    <3>12. IsOrder(order, n + 1, T, R)
      BY <3>9, <3>10, <3>11 DEF IsOrder
    <3> QED
      BY <3>12
  <2> QED
    BY <2>1
<1>4. Nat \subseteq K
  <2> HIDE DEF K
  <2> QED
    BY <1>2, <1>3, Inductive
<1>5. PICK n \in Nat : n = Cardinality(S)
  BY <1>1
<1>6. PICK order : IsOrder(order, n, S, R)
  <2>1. n \in K
    BY <1>4
  <2> QED
    BY <1>5, <2>1
<1>7. order \in SetToSeqs(S) /\ DOMAIN order = 1..n
  BY <1>5, <1>6 DEF IsOrder, SetToSeqs
<1> QED
  BY <1>6, <1>7 DEF IsOrder

\* order lists the services D, and R says which come before which.
Ordered(order, D, R) ==
    /\ order \in Seq(D) /\ IsInjective(order) /\ ToSet(order) = D
    /\ \A i, j \in 1..Len(order) : i < j => <<order[i], order[j]>> \in R

Lightest(loaded, D) == {p \in D \X D : Lighter(loaded, p[1], p[2])}
Heaviest(loaded, D) == {p \in D \X D : Heavier(loaded, p[1], p[2])}

LEMMA AscendingIs ==
    ASSUME NEW D, IsFiniteSet(D), D \subseteq Nat, NEW loaded \in [D -> Nat]
    PROVE  Ordered(Ascending(loaded), D, Lightest(loaded, D))
<1> DEFINE R == Lightest(loaded, D)
<1>1. \A s, t \in D : <<s, t>> \in R <=> Lighter(loaded, s, t)
  BY DEF Lightest
<1>2. \A s \in D : s \in Nat /\ loaded[s] \in Nat
  OBVIOUS
<1> HIDE DEF R
<1>3. Orders(R, D)
  <2>1. ASSUME NEW s \in D, NEW t \in D PROVE s = t \/ <<s, t>> \in R \/ <<t, s>> \in R
    <3>1. s = t \/ s < t \/ t < s
      BY <1>2
    <3>2. loaded[s] = loaded[t] \/ loaded[s] < loaded[t] \/ loaded[t] < loaded[s]
      BY <1>2
    <3>3. loaded[s] \in Nat /\ loaded[t] \in Nat
      BY <1>2
    <3>4. s = t \/ Lighter(loaded, s, t) \/ Lighter(loaded, t, s)
      BY <3>1, <3>2, <3>3 DEF Lighter
    <3> QED
      BY <1>1, <3>4
  <2>2. \A s, t, u \in D : <<s, t>> \in R /\ <<t, u>> \in R => <<s, u>> \in R
    BY <1>1, <1>2 DEF Lighter
  <2> QED
    BY <2>1, <2>2 DEF Orders
<1>4. DOMAIN loaded = D
  OBVIOUS
<1>5. \E order \in SetToSeqs(D) :
        \A i, j \in DOMAIN order : i < j => Lighter(loaded, order[i], order[j])
  <2>1. PICK order \in SetToSeqs(D) :
          \A i, j \in DOMAIN order : i < j => <<order[i], order[j]>> \in R
    BY <1>3, OrderExists
  <2>2. \A i \in DOMAIN order : order[i] \in D
    BY <2>1, SeqsOfSet
  <2> QED
    BY <1>1, <2>1, <2>2
<1>6. PICK order : order = Ascending(loaded)
  OBVIOUS
<1>7. /\ order \in SetToSeqs(D)
      /\ \A i, j \in DOMAIN order : i < j => Lighter(loaded, order[i], order[j])
  BY <1>4, <1>5, <1>6 DEF Ascending
<1>8. order \in Seq(D) /\ IsInjective(order) /\ ToSet(order) = D
  BY <1>7, SeqsOfSet
<1>9. DOMAIN order = 1..Len(order) /\ \A i \in DOMAIN order : order[i] \in D
  BY <1>8
<1> QED
  BY <1>1, <1>6, <1>7, <1>8, <1>9 DEF Ordered, R

LEMMA DescendingIs ==
    ASSUME NEW D, IsFiniteSet(D), D \subseteq Nat, NEW loaded \in [D -> Nat]
    PROVE  Ordered(Descending(loaded), D, Heaviest(loaded, D))
<1> DEFINE R == Heaviest(loaded, D)
<1>1. \A s, t \in D : <<s, t>> \in R <=> Heavier(loaded, s, t)
  BY DEF Heaviest
<1>2. \A s \in D : s \in Nat /\ loaded[s] \in Nat
  OBVIOUS
<1> HIDE DEF R
<1>3. Orders(R, D)
  <2>1. ASSUME NEW s \in D, NEW t \in D PROVE s = t \/ <<s, t>> \in R \/ <<t, s>> \in R
    <3>1. s = t \/ s < t \/ t < s
      BY <1>2
    <3>2. loaded[s] = loaded[t] \/ loaded[s] < loaded[t] \/ loaded[t] < loaded[s]
      BY <1>2
    <3>3. loaded[s] \in Nat /\ loaded[t] \in Nat
      BY <1>2
    <3>4. s = t \/ Heavier(loaded, s, t) \/ Heavier(loaded, t, s)
      BY <3>1, <3>2, <3>3 DEF Heavier
    <3> QED
      BY <1>1, <3>4
  <2>2. \A s, t, u \in D : <<s, t>> \in R /\ <<t, u>> \in R => <<s, u>> \in R
    BY <1>1, <1>2 DEF Heavier
  <2> QED
    BY <2>1, <2>2 DEF Orders
<1>4. DOMAIN loaded = D
  OBVIOUS
<1>5. \E order \in SetToSeqs(D) :
        \A i, j \in DOMAIN order : i < j => Heavier(loaded, order[i], order[j])
  <2>1. PICK order \in SetToSeqs(D) :
          \A i, j \in DOMAIN order : i < j => <<order[i], order[j]>> \in R
    BY <1>3, OrderExists
  <2>2. \A i \in DOMAIN order : order[i] \in D
    BY <2>1, SeqsOfSet
  <2> QED
    BY <1>1, <2>1, <2>2
<1>6. PICK order : order = Descending(loaded)
  OBVIOUS
<1>7. /\ order \in SetToSeqs(D)
      /\ \A i, j \in DOMAIN order : i < j => Heavier(loaded, order[i], order[j])
  BY <1>4, <1>5, <1>6 DEF Descending
<1>8. order \in Seq(D) /\ IsInjective(order) /\ ToSet(order) = D
  BY <1>7, SeqsOfSet
<1>9. DOMAIN order = 1..Len(order) /\ \A i \in DOMAIN order : order[i] \in D
  BY <1>8
<1> QED
  BY <1>1, <1>6, <1>7, <1>8, <1>9 DEF Ordered, R

-----------------------------------------------------------------------------
(***************************************************************************)
(* The states of a call, and one round of each loop.                       *)
(***************************************************************************)
ListRecord(D) ==
    [services : [D -> Seq(Matches)], loaded : [D -> Nat], undist : Seq(Matches),
     changed : SUBSET D]

States(D) == {e \in ListRecord(D) : InOnePlace(e.services, e.undist)}

\* What a state of the call says.
LEMMA StateIs ==
    ASSUME NEW D, NEW e \in States(D)
    PROVE  /\ e \in ListRecord(D) /\ DOMAIN e.services = D /\ e.loaded \in [D -> Nat]
           /\ e.undist \in Seq(Matches) /\ IsInjective(e.undist) /\ e.changed \in SUBSET D
           /\ \A s \in D : /\ e.services[s] \in Seq(Matches) /\ IsInjective(e.services[s])
                           /\ ToSet(e.services[s]) \cap ToSet(e.undist) = {}
                           /\ e.loaded[s] \in Nat
           /\ \A s \in D : \A t \in D \ {s} :
                 ToSet(e.services[s]) \cap ToSet(e.services[t]) = {}
           /\ Matches = ToSet(e.undist) \cup UNION {ToSet(e.services[s]) : s \in D}
<1>1. e \in ListRecord(D) /\ InOnePlace(e.services, e.undist)
  BY DEF States
<1>2. /\ e.services \in [D -> Seq(Matches)] /\ e.loaded \in [D -> Nat]
      /\ e.undist \in Seq(Matches) /\ e.changed \in SUBSET D
  BY <1>1 DEF ListRecord
<1>3. DOMAIN e.services = D
  BY <1>2
<1> QED
  BY <1>1, <1>2, <1>3 DEF InOnePlace

\* Matches shifted between the list of s and the undistributed ones.
LEMMA Shifted ==
    ASSUME NEW D, NEW e \in States(D), NEW s \in D, NEW f \in ListRecord(D),
           \A t \in D \ {s} : f.services[t] = e.services[t],
           IsInjective(f.services[s]), IsInjective(f.undist),
           ToSet(f.services[s]) \cup ToSet(f.undist) = ToSet(e.services[s]) \cup ToSet(e.undist),
           ToSet(f.services[s]) \cap ToSet(f.undist) = {}
    PROVE  f \in States(D)
<1>1. DOMAIN f.services = D
  BY DEF ListRecord
<1>2. \A t \in D \ {s} : ToSet(f.services[t]) = ToSet(e.services[t])
  OBVIOUS
<1>3. Matches = ToSet(f.undist) \cup UNION {ToSet(f.services[t]) : t \in D}
  <2>1. Matches = ToSet(e.undist) \cup UNION {ToSet(e.services[t]) : t \in D}
    BY StateIs
  <2>2. ASSUME NEW m \in Matches
        PROVE  m \in ToSet(f.undist) \cup UNION {ToSet(f.services[t]) : t \in D}
    <3>1. CASE m \in ToSet(e.undist) \/ m \in ToSet(e.services[s])
      BY <3>1
    <3>2. CASE \E t \in D \ {s} : m \in ToSet(e.services[t])
      BY <1>2, <3>2
    <3> QED
      BY <2>1, <3>1, <3>2
  <2>3. ASSUME NEW m \in ToSet(f.undist) \cup UNION {ToSet(f.services[t]) : t \in D}
        PROVE  m \in Matches
    <3>1. CASE m \in ToSet(f.undist) \/ m \in ToSet(f.services[s])
      BY <2>1, <3>1
    <3>2. CASE \E t \in D \ {s} : m \in ToSet(f.services[t])
      BY <1>2, <2>1, <3>2
    <3> QED
      BY <3>1, <3>2
  <2> QED
    BY <2>2, <2>3
<1>4. ASSUME NEW t \in D \ {s}
      PROVE  /\ ToSet(f.services[t]) \cap ToSet(f.services[s]) = {}
             /\ ToSet(f.services[t]) \cap ToSet(f.undist) = {}
             /\ IsInjective(f.services[t])
  <2>1. t \in D /\ s \in D \ {t} /\ f.services[t] = e.services[t]
    OBVIOUS
  <2>2. ToSet(e.services[t]) \cap ToSet(e.undist) = {} /\ IsInjective(e.services[t])
    BY <2>1 DEF States, ListRecord, InOnePlace
  <2>3. ToSet(e.services[t]) \cap ToSet(e.services[s]) = {}
    BY <2>1, StateIs
  <2>4. ToSet(f.services[t]) \cap (ToSet(f.services[s]) \cup ToSet(f.undist)) = {}
    BY <2>1, <2>2, <2>3
  <2> QED
    BY <2>1, <2>2, <2>4
<1>5. ASSUME NEW t \in D, NEW u \in D \ {t}
      PROVE  ToSet(f.services[t]) \cap ToSet(f.services[u]) = {}
  <2>1. CASE t = s
    BY <1>4, <2>1
  <2>2. CASE u = s
    BY <1>4, <2>2
  <2>3. CASE t # s /\ u # s
    <3>1. ToSet(e.services[t]) \cap ToSet(e.services[u]) = {}
      BY StateIs
    <3> QED
      BY <1>2, <2>3, <3>1
  <2> QED
    BY <2>1, <2>2, <2>3
<1>6. \A t \in D : ToSet(f.services[t]) \cap ToSet(f.undist) = {} /\ IsInjective(f.services[t])
  BY <1>4
<1>7. InOnePlace(f.services, f.undist)
  BY <1>1, <1>3, <1>5, <1>6 DEF InOnePlace
<1> QED
  BY <1>7 DEF States

LEMMA MinIs ==
    ASSUME NEW a \in Int, NEW b \in Int
    PROVE  Min({a, b}) = IF a <= b THEN a ELSE b
BY DEF Min

\* How many matches a service with this load lacks.
Lack(average, load) == IF load < average THEN average - load ELSE 0

\* A round of distributeFill gives the matches G to s.
Gives(e, f, D, average, s, G) ==
    /\ f \in States(D) /\ f.loaded = e.loaded
    /\ \A t \in D \ {s} : f.services[t] = e.services[t]
    /\ G \subseteq ToSet(e.undist) /\ IsFiniteSet(G)
    /\ ToSet(f.services[s]) = ToSet(e.services[s]) \cup G
    /\ ToSet(f.undist) = ToSet(e.undist) \ G
    /\ f.changed = IF G = {} THEN e.changed ELSE e.changed \cup {s}
    /\ Cardinality(G) <= Lack(average, e.loaded[s])
    /\ f.undist = <<>> \/ Cardinality(G) = Lack(average, e.loaded[s])

LEMMA FillOneGives ==
    ASSUME NEW D, NEW e \in States(D), NEW s \in D, NEW average \in Nat
    PROVE  \E G : Gives(e, FillOne(e, average, s), D, average, s, G)
<1>1. PICK u \in Seq(Matches), l \in Seq(Matches), k \in Nat, load \in Nat :
          u = e.undist /\ l = e.services[s] /\ k = Len(u) /\ load = e.loaded[s]
  <2>1. /\ e.undist \in Seq(Matches) /\ e.services[s] \in Seq(Matches) /\ e.loaded[s] \in Nat
        /\ Len(e.undist) \in Nat
    BY StateIs, Elements
  <2> QED
    BY <2>1
<1>2. IsInjective(u) /\ IsInjective(l) /\ ToSet(l) \cap ToSet(u) = {}
  BY <1>1, StateIs
<1>3. k = 0 <=> u = <<>>
  BY <1>1
<1>4. CASE u = <<>> \/ average - load <= 0
  <2>1. FillOne(e, average, s) = e
    BY <1>1, <1>4 DEF FillOne
  <2>2. Cardinality({}) = 0 /\ IsFiniteSet({})
    BY FS_EmptySet
  <2>3. Lack(average, load) \in Nat /\ (u = <<>> \/ Lack(average, load) = 0)
    BY <1>4 DEF Lack
  <2>4. Gives(e, e, D, average, s, {})
    BY <1>1, <2>2, <2>3 DEF Gives
  <2> QED
    BY <2>1, <2>4
<1>5. CASE ~(u = <<>> \/ average - load <= 0)
  <2>1. PICK n \in Nat : n = Min({average - load, k})
    <3>1. average - load \in Nat
      BY <1>5
    <3>2. Min({average - load, k}) \in Nat
      BY <3>1, MinIs
    <3> QED
      BY <3>2
  <2>2. /\ n <= k /\ n # 0 /\ n <= Lack(average, load)
        /\ n = k \/ n = Lack(average, load)
    <3>1. average - load \in Nat /\ average - load # 0 /\ k # 0
      BY <1>3, <1>5
    <3>2. Lack(average, load) = average - load
      BY <3>1 DEF Lack
    <3>3. n = IF average - load <= k THEN average - load ELSE k
      BY <2>1, <3>1, MinIs
    <3> QED
      BY <3>1, <3>2, <3>3
  <2>3. PICK p, r : Halves(u, n, p, r)
    BY DEF Halves
  <2>4. /\ p \in Seq(Matches) /\ IsInjective(p) /\ Len(p) = n
        /\ r \in Seq(Matches) /\ IsInjective(r) /\ Len(r) = k - n
        /\ ToSet(p) \cup ToSet(r) = ToSet(u) /\ ToSet(p) \cap ToSet(r) = {}
    <3>1. n \in 0..Len(u)
      BY <1>1, <2>2
    <3>2. /\ p \in Seq(Matches) /\ IsInjective(p) /\ Len(p) = n
          /\ r \in Seq(Matches) /\ IsInjective(r) /\ Len(r) = Len(u) - n
          /\ ToSet(p) \cup ToSet(r) = ToSet(u) /\ ToSet(p) \cap ToSet(r) = {}
      BY <1>2, <2>3, <3>1, Split
    <3> QED
      BY <1>1, <3>2
  <2>5. PICK q : Joined(q, l, p)
    BY DEF Joined
  <2>6. q \in Seq(Matches) /\ IsInjective(q) /\ ToSet(q) = ToSet(l) \cup ToSet(p)
    BY <1>2, <2>4, <2>5, Join
  <2>7. PICK f : f = [e EXCEPT !.services = [e.services EXCEPT ![s] = q], !.undist = r,
                               !.changed = e.changed \cup {s}]
    OBVIOUS
  <2>8. FillOne(e, average, s) = f
    <3>1. FillOne(e, average, s)
            = [e EXCEPT !.services[s] = l \o SubSeq(u, 1, n),
                        !.undist  = SubSeq(u, n + 1, Len(u)),
                        !.changed = e.changed \cup {s}]
      BY <1>1, <1>5, <2>1 DEF FillOne
    <3> QED
      BY <2>3, <2>5, <2>7, <3>1 DEF Halves, Joined
  <2>9. e \in ListRecord(D)
    BY StateIs
  <2>10. /\ f \in ListRecord(D) /\ f.loaded = e.loaded /\ f.undist = r /\ f.services[s] = q
         /\ f.changed = e.changed \cup {s}
         /\ \A t \in D \ {s} : f.services[t] = e.services[t]
    BY <2>4, <2>6, <2>7, <2>9 DEF ListRecord
  <2>11. f \in States(D)
    <3>1. /\ ToSet(q) \cup ToSet(r) = ToSet(l) \cup ToSet(u)
          /\ ToSet(q) \cap ToSet(r) = {}
      BY <1>2, <2>4, <2>6
    <3> QED
      BY <1>1, <2>4, <2>6, <2>10, <3>1, Shifted
  <2>12. IsFiniteSet(ToSet(p)) /\ Cardinality(ToSet(p)) = n /\ ToSet(p) # {}
    <3>1. IsFiniteSet(ToSet(p)) /\ Cardinality(ToSet(p)) = n
      BY <2>4, OnceCounts
    <3> QED
      BY <2>2, <3>1, FS_EmptySet
  <2>13. r = <<>> \/ n = Lack(average, load)
    <3>1. n = k => Len(r) = 0
      BY <2>4
    <3> QED
      BY <2>2, <2>4, <3>1
  <2>14. ToSet(r) = ToSet(u) \ ToSet(p) /\ ToSet(p) \subseteq ToSet(u)
    BY <2>4
  <2>15. Gives(e, f, D, average, s, ToSet(p))
    BY <1>1, <2>2, <2>6, <2>10, <2>11, <2>12, <2>13, <2>14 DEF Gives
  <2> QED
    BY <2>8, <2>15
<1> QED
  BY <1>4, <1>5

\* A round of distributeClipping takes the matches C back from s.
Takes(e, f, D, average, s, C) ==
    /\ f \in States(D) /\ f.loaded = e.loaded
    /\ \A t \in D \ {s} : f.services[t] = e.services[t]
    /\ C \subseteq ToSet(e.services[s]) /\ IsFiniteSet(C)
    /\ ToSet(f.services[s]) = ToSet(e.services[s]) \ C
    /\ ToSet(f.undist) = ToSet(e.undist) \cup C
    /\ f.changed = IF C = {} THEN e.changed ELSE e.changed \cup {s}
    /\ Cardinality(C) = IF e.loaded[s] <= average
                        THEN 0
                        ELSE Min({e.loaded[s] - average, Cardinality(ToSet(e.services[s]))})

LEMMA ClipOneTakes ==
    ASSUME NEW D, NEW e \in States(D), NEW s \in D, NEW average \in Nat
    PROVE  \E C : Takes(e, ClipOne(e, average, s), D, average, s, C)
<1>1. PICK u \in Seq(Matches), l \in Seq(Matches), k \in Nat, load \in Nat :
          u = e.undist /\ l = e.services[s] /\ k = Len(l) /\ load = e.loaded[s]
  <2>1. /\ e.undist \in Seq(Matches) /\ e.services[s] \in Seq(Matches) /\ e.loaded[s] \in Nat
        /\ Len(e.services[s]) \in Nat
    BY StateIs, Elements
  <2> QED
    BY <2>1
<1>2. IsInjective(u) /\ IsInjective(l) /\ ToSet(l) \cap ToSet(u) = {}
  BY <1>1, StateIs
<1>3. Cardinality(ToSet(l)) = k
  BY <1>1, <1>2, OnceCounts
<1>4. PICK n \in Int : n = Min({load - average, k})
  BY MinIs
<1>5. n = IF load - average <= k THEN load - average ELSE k
  BY <1>4, MinIs
<1>6. CASE n <= 0
  <2>1. ClipOne(e, average, s) = e
    BY <1>1, <1>4, <1>6 DEF ClipOne
  <2>2. Cardinality({}) = 0 /\ IsFiniteSet({})
    BY FS_EmptySet
  <2>3. load <= average \/ n = 0
    BY <1>5, <1>6
  <2>4. ToSet(l) \ {} = ToSet(l) /\ ToSet(u) \cup {} = ToSet(u) /\ {} \subseteq ToSet(l)
    OBVIOUS
  <2>5. 0 = IF load <= average THEN 0 ELSE Min({load - average, k})
    BY <1>4, <2>3
  <2>6. Takes(e, e, D, average, s, {})
    BY <1>1, <1>3, <2>2, <2>4, <2>5 DEF Takes
  <2> QED
    BY <2>1, <2>6
<1>7. CASE ~(n <= 0)
  <2>1. n \in 0..k /\ n # 0 /\ ~(load <= average)
    BY <1>5, <1>7
  <2>2. PICK p, r : Halves(l, n, p, r)
    BY DEF Halves
  <2>3. /\ p \in Seq(Matches) /\ IsInjective(p) /\ Len(p) = n
        /\ r \in Seq(Matches) /\ IsInjective(r)
        /\ ToSet(p) \cup ToSet(r) = ToSet(l) /\ ToSet(p) \cap ToSet(r) = {}
    BY <1>1, <1>2, <2>1, <2>2, Split
  <2>4. PICK q : Joined(q, u, p)
    BY DEF Joined
  <2>5. q \in Seq(Matches) /\ IsInjective(q) /\ ToSet(q) = ToSet(u) \cup ToSet(p)
    <3>1. ToSet(u) \cap ToSet(p) = {}
      BY <1>2, <2>3
    <3> QED
      BY <1>2, <2>3, <2>4, <3>1, Join
  <2>6. PICK f : f = [e EXCEPT !.services = [e.services EXCEPT ![s] = r], !.undist = q,
                               !.changed = e.changed \cup {s}]
    OBVIOUS
  <2>7. ClipOne(e, average, s) = f
    <3>1. ClipOne(e, average, s)
            = [e EXCEPT !.services[s] = SubSeq(l, n + 1, Len(l)),
                        !.undist  = u \o SubSeq(l, 1, n),
                        !.changed = e.changed \cup {s}]
      BY <1>1, <1>4, <1>7 DEF ClipOne
    <3> QED
      BY <2>2, <2>4, <2>6, <3>1 DEF Halves, Joined
  <2>8. e \in ListRecord(D)
    BY StateIs
  <2>9. /\ f \in ListRecord(D) /\ f.loaded = e.loaded /\ f.undist = q /\ f.services[s] = r
        /\ f.changed = e.changed \cup {s}
        /\ \A t \in D \ {s} : f.services[t] = e.services[t]
    BY <2>3, <2>5, <2>6, <2>8 DEF ListRecord
  <2>10. f \in States(D)
    <3>1. /\ ToSet(r) \cup ToSet(q) = ToSet(l) \cup ToSet(u)
          /\ ToSet(r) \cap ToSet(q) = {}
      BY <1>2, <2>3, <2>5
    <3> QED
      BY <1>1, <2>3, <2>5, <2>9, <3>1, Shifted
  <2>11. IsFiniteSet(ToSet(p)) /\ Cardinality(ToSet(p)) = n /\ ToSet(p) # {}
    <3>1. IsFiniteSet(ToSet(p)) /\ Cardinality(ToSet(p)) = n
      BY <2>3, OnceCounts
    <3> QED
      BY <2>1, <3>1, FS_EmptySet
  <2>12. ToSet(r) = ToSet(l) \ ToSet(p) /\ ToSet(p) \subseteq ToSet(l)
    BY <2>3
  <2>13. Takes(e, f, D, average, s, ToSet(p))
    BY <1>1, <1>3, <1>4, <2>1, <2>5, <2>9, <2>10, <2>11, <2>12 DEF Takes
  <2> QED
    BY <2>7, <2>13
<1> QED
  BY <1>6, <1>7

-----------------------------------------------------------------------------
(***************************************************************************)
(* The loops.                                                              *)
(***************************************************************************)

\* f goes from first by step, n times.
Goes(f, first, step, n, S) ==
    f \in [0..n -> S] /\ f[0] = first /\ \A i \in 1..n : f[i] = step[i][f[i - 1]]

LEMMA RoundsExist ==
    ASSUME NEW S, NEW first \in S, NEW n \in Nat, NEW step \in [1..n -> [S -> S]]
    PROVE  \E f : Goes(f, first, step, n, S)
<1> DEFINE K == {k \in Nat : k <= n => \E f : Goes(f, first, step, k, S)}
<1>1. 0 \in K
  <2>1. Goes([i \in 0..0 |-> first], first, step, 0, S)
    BY DEF Goes
  <2> QED
    BY <2>1
<1>2. ASSUME NEW k \in Nat, k \in K PROVE k + 1 \in K
  <2> SUFFICES ASSUME k + 1 <= n PROVE \E f : Goes(f, first, step, k + 1, S)
    OBVIOUS
  <2>1. PICK old : Goes(old, first, step, k, S)
    BY <1>2
  <2>2. PICK next : next = step[k + 1][old[k]]
    OBVIOUS
  <2>3. old[k] \in S /\ next \in S
    <3>1. old[k] \in S /\ k + 1 \in 1..n
      BY <2>1 DEF Goes
    <3> QED
      BY <2>2, <3>1
  <2>4. PICK f : f = [i \in 0..(k + 1) |-> IF i = k + 1 THEN next ELSE old[i]]
    OBVIOUS
  <2>5. f \in [0..(k + 1) -> S] /\ f[0] = first
    BY <2>1, <2>3, <2>4 DEF Goes
  <2>6. ASSUME NEW i \in 1..(k + 1) PROVE f[i] = step[i][f[i - 1]]
    <3>1. CASE i = k + 1
      <4>1. i - 1 = k /\ k \in 0..(k + 1) /\ k # k + 1 /\ i \in 0..(k + 1)
        BY <3>1
      <4>2. f[i] = next /\ f[i - 1] = old[k]
        BY <2>4, <3>1, <4>1
      <4> QED
        BY <2>2, <3>1, <4>2
    <3>2. CASE i # k + 1
      <4>1. i \in 1..k /\ i - 1 \in 0..(k + 1) /\ i - 1 # k + 1 /\ i \in 0..(k + 1)
        BY <3>2
      <4>2. f[i] = old[i] /\ f[i - 1] = old[i - 1]
        BY <2>4, <3>2, <4>1
      <4> QED
        BY <2>1, <4>1, <4>2 DEF Goes
    <3> QED
      BY <3>1, <3>2
  <2>7. Goes(f, first, step, k + 1, S)
    BY <2>5, <2>6 DEF Goes
  <2> QED
    BY <2>7
<1>3. Nat \subseteq K
  <2> HIDE DEF K
  <2> QED
    BY <1>1, <1>2, Inductive
<1>4. n \in K /\ n <= n
  BY <1>3
<1> QED
  BY <1>4

\* A call starts a loop with no service changed.
Fresh(d) == [d EXCEPT !.changed = {}]

LEMMA FreshIs ==
    ASSUME NEW D, NEW d \in States(D)
    PROVE  /\ Fresh(d) \in States(D) /\ Fresh(d).services = d.services
           /\ Fresh(d).loaded = d.loaded /\ Fresh(d).undist = d.undist /\ Fresh(d).changed = {}
BY DEF Fresh, States, ListRecord

\* The rounds of distributeFill.
FillRun(r, d, average, order, D) ==
    /\ r \in [0..Len(order) -> States(D)] /\ r[0] = Fresh(d)
    /\ \A i \in 1..Len(order) : r[i] = FillOne(r[i - 1], average, order[i])

LEMMA FillRoundsRun ==
    ASSUME NEW D, NEW d \in States(D), NEW average \in Nat, NEW order \in Seq(D)
    PROVE  FillRun(FillRounds(d, average, order), d, average, order, D)
<1>1. PICK n \in Nat : n = Len(order) /\ \A i \in 1..n : order[i] \in D
  OBVIOUS
<1>2. PICK S : S = States(D)
  OBVIOUS
<1>3. PICK first \in S : first = Fresh(d)
  BY <1>2, FreshIs
<1> DEFINE step == [i \in 1..n |-> [e \in S |-> FillOne(e, average, order[i])]]
<1>4. ASSUME NEW e \in S, NEW i \in 1..n
      PROVE  FillOne(e, average, order[i]) \in S /\ step[i][e] = FillOne(e, average, order[i])
  <2>1. FillOne(e, average, order[i]) \in S
    <3>1. PICK s \in D : s = order[i]
      BY <1>1
    <3>2. PICK G : Gives(e, FillOne(e, average, s), D, average, s, G)
      BY <1>2, FillOneGives
    <3> QED
      BY <1>2, <3>1, <3>2 DEF Gives
  <2> QED
    BY <2>1
<1>5. step \in [1..n -> [S -> S]]
  BY <1>4
<1>6. \A e \in S : \A i \in 1..n : step[i][e] = FillOne(e, average, order[i])
  BY <1>4
<1> HIDE DEF step
<1>7. PICK f : Goes(f, first, step, n, S)
  BY <1>5, RoundsExist
<1>8. /\ f \in [0..n -> S] /\ f[0] = first
      /\ \A i \in 1..n : f[i] = FillOne(f[i - 1], average, order[i])
  <2>1. f \in [0..n -> S] /\ f[0] = first /\ \A i \in 1..n : f[i] = step[i][f[i - 1]]
    BY <1>7 DEF Goes
  <2>2. \A i \in 1..n : i - 1 \in 0..n
    OBVIOUS
  <2> QED
    BY <1>6, <2>1, <2>2
<1>9. f = [i \in 0..n |-> IF i = 0 THEN first ELSE FillOne(f[i - 1], average, order[i])]
  <2>1. ASSUME NEW i \in 0..n
        PROVE  f[i] = IF i = 0 THEN first ELSE FillOne(f[i - 1], average, order[i])
    <3>1. CASE i = 0
      BY <1>8, <3>1
    <3>2. CASE i # 0
      BY <1>8, <3>2
    <3> QED
      BY <3>1, <3>2
  <2> QED
    BY <1>8, <2>1
<1>10. FillRounds(d, average, order)
         = CHOOSE r : r = [i \in 0..n |-> IF i = 0 THEN first
                                                   ELSE FillOne(r[i - 1], average, order[i])]
  BY <1>1, <1>3 DEF FillRounds, Fresh
<1>11. PICK r : r = FillRounds(d, average, order)
  OBVIOUS
<1>12. r = [i \in 0..n |-> IF i = 0 THEN first ELSE FillOne(r[i - 1], average, order[i])]
  BY <1>9, <1>10, <1>11
<1>13. /\ DOMAIN r = 0..n /\ r[0] = first
       /\ \A i \in 1..n : r[i] = FillOne(r[i - 1], average, order[i])
  <2>1. DOMAIN r = 0..n /\ r[0] = first
    BY <1>12
  <2>2. ASSUME NEW i \in 1..n PROVE r[i] = FillOne(r[i - 1], average, order[i])
    BY <1>12
  <2> QED
    BY <2>1, <2>2
<1> DEFINE K == {k \in Nat : k <= n => r[k] \in S}
<1>14. 0 \in K
  BY <1>13
<1>15. ASSUME NEW k \in Nat, k \in K PROVE k + 1 \in K
  <2> SUFFICES ASSUME k + 1 <= n PROVE r[k + 1] \in S
    OBVIOUS
  <2>1. k + 1 \in 1..n /\ (k + 1) - 1 = k /\ r[k] \in S
    BY <1>15
  <2>2. r[k + 1] = FillOne(r[k], average, order[k + 1])
    BY <1>13, <2>1
  <2> QED
    BY <1>4, <2>1, <2>2
<1>16. Nat \subseteq K
  <2> HIDE DEF K
  <2> QED
    BY <1>14, <1>15, Inductive
<1>17. \A k \in 0..n : r[k] \in S
  BY <1>16
<1>18. r \in [0..n -> S]
  <2>1. r = [i \in 0..n |-> r[i]]
    BY <1>12
  <2> QED
    BY <1>17, <2>1
<1> QED
  BY <1>1, <1>2, <1>3, <1>11, <1>13, <1>18 DEF FillRun

\* The rounds of distributeClipping.
ClipRun(r, d, average, order, D) ==
    /\ r \in [0..Len(order) -> States(D)] /\ r[0] = Fresh(d)
    /\ \A i \in 1..Len(order) : r[i] = ClipOne(r[i - 1], average, order[i])

LEMMA ClipRoundsRun ==
    ASSUME NEW D, NEW d \in States(D), NEW average \in Nat, NEW order \in Seq(D)
    PROVE  ClipRun(ClipRounds(d, average, order), d, average, order, D)
<1>1. PICK n \in Nat : n = Len(order) /\ \A i \in 1..n : order[i] \in D
  OBVIOUS
<1>2. PICK S : S = States(D)
  OBVIOUS
<1>3. PICK first \in S : first = Fresh(d)
  BY <1>2, FreshIs
<1> DEFINE step == [i \in 1..n |-> [e \in S |-> ClipOne(e, average, order[i])]]
<1>4. ASSUME NEW e \in S, NEW i \in 1..n
      PROVE  ClipOne(e, average, order[i]) \in S /\ step[i][e] = ClipOne(e, average, order[i])
  <2>1. ClipOne(e, average, order[i]) \in S
    <3>1. PICK s \in D : s = order[i]
      BY <1>1
    <3>2. PICK G : Takes(e, ClipOne(e, average, s), D, average, s, G)
      BY <1>2, ClipOneTakes
    <3> QED
      BY <1>2, <3>1, <3>2 DEF Takes
  <2> QED
    BY <2>1
<1>5. step \in [1..n -> [S -> S]]
  BY <1>4
<1>6. \A e \in S : \A i \in 1..n : step[i][e] = ClipOne(e, average, order[i])
  BY <1>4
<1> HIDE DEF step
<1>7. PICK f : Goes(f, first, step, n, S)
  BY <1>5, RoundsExist
<1>8. /\ f \in [0..n -> S] /\ f[0] = first
      /\ \A i \in 1..n : f[i] = ClipOne(f[i - 1], average, order[i])
  <2>1. f \in [0..n -> S] /\ f[0] = first /\ \A i \in 1..n : f[i] = step[i][f[i - 1]]
    BY <1>7 DEF Goes
  <2>2. \A i \in 1..n : i - 1 \in 0..n
    OBVIOUS
  <2> QED
    BY <1>6, <2>1, <2>2
<1>9. f = [i \in 0..n |-> IF i = 0 THEN first ELSE ClipOne(f[i - 1], average, order[i])]
  <2>1. ASSUME NEW i \in 0..n
        PROVE  f[i] = IF i = 0 THEN first ELSE ClipOne(f[i - 1], average, order[i])
    <3>1. CASE i = 0
      BY <1>8, <3>1
    <3>2. CASE i # 0
      BY <1>8, <3>2
    <3> QED
      BY <3>1, <3>2
  <2> QED
    BY <1>8, <2>1
<1>10. ClipRounds(d, average, order)
         = CHOOSE r : r = [i \in 0..n |-> IF i = 0 THEN first
                                                   ELSE ClipOne(r[i - 1], average, order[i])]
  BY <1>1, <1>3 DEF ClipRounds, Fresh
<1>11. PICK r : r = ClipRounds(d, average, order)
  OBVIOUS
<1>12. r = [i \in 0..n |-> IF i = 0 THEN first ELSE ClipOne(r[i - 1], average, order[i])]
  BY <1>9, <1>10, <1>11
<1>13. /\ DOMAIN r = 0..n /\ r[0] = first
       /\ \A i \in 1..n : r[i] = ClipOne(r[i - 1], average, order[i])
  <2>1. DOMAIN r = 0..n /\ r[0] = first
    BY <1>12
  <2>2. ASSUME NEW i \in 1..n PROVE r[i] = ClipOne(r[i - 1], average, order[i])
    BY <1>12
  <2> QED
    BY <2>1, <2>2
<1> DEFINE K == {k \in Nat : k <= n => r[k] \in S}
<1>14. 0 \in K
  BY <1>13
<1>15. ASSUME NEW k \in Nat, k \in K PROVE k + 1 \in K
  <2> SUFFICES ASSUME k + 1 <= n PROVE r[k + 1] \in S
    OBVIOUS
  <2>1. k + 1 \in 1..n /\ (k + 1) - 1 = k /\ r[k] \in S
    BY <1>15
  <2>2. r[k + 1] = ClipOne(r[k], average, order[k + 1])
    BY <1>13, <2>1
  <2> QED
    BY <1>4, <2>1, <2>2
<1>16. Nat \subseteq K
  <2> HIDE DEF K
  <2> QED
    BY <1>14, <1>15, Inductive
<1>17. \A k \in 0..n : r[k] \in S
  BY <1>16
<1>18. r \in [0..n -> S]
  <2>1. r = [i \in 0..n |-> r[i]]
    BY <1>12
  <2> QED
    BY <1>17, <2>1
<1> QED
  BY <1>1, <1>2, <1>3, <1>11, <1>13, <1>18 DEF ClipRun

-----------------------------------------------------------------------------
(***************************************************************************)
(* What distributeFill has done after i services of the order: the matches *)
(* m it has given away have gone to to[m], the others are still Nowhere.   *)
(***************************************************************************)
Taken(d, to, s) == {m \in ToSet(d.undist) : to[m] = s}

Full(d, average, to, s) == Cardinality(Taken(d, to, s)) = Lack(average, d.loaded[s])

\* Where the matches are.
Given(d, e, D, to) ==
    /\ e \in States(D) /\ e.loaded = d.loaded
    /\ to \in [ToSet(d.undist) -> D \cup {Nowhere}]
    /\ ToSet(e.undist) = Taken(d, to, Nowhere)
    /\ \A s \in D : ToSet(e.services[s]) = ToSet(d.services[s]) \cup Taken(d, to, s)
    /\ e.changed = {s \in D : Taken(d, to, s) # {}}

\* How many each service got.
Served(d, e, average, order, i, to) ==
    /\ \A k \in 1..Len(order) : i < k => Taken(d, to, order[k]) = {}
    /\ \A k \in 1..Len(order) :
          Cardinality(Taken(d, to, order[k])) <= Lack(average, d.loaded[order[k]])
    /\ \A k \in 1..i : e.undist = <<>> \/ Full(d, average, to, order[k])
    /\ \A k \in 1..i : \A j \in 1..(k - 1) :
          Taken(d, to, order[k]) # {} => Full(d, average, to, order[j])

Redirected(d, to, G, s) == [m \in ToSet(d.undist) |-> IF m \in G THEN s ELSE to[m]]

LEMMA RedirectedIs ==
    ASSUME NEW D, Nowhere \notin D, NEW d, NEW e, NEW to, Given(d, e, D, to),
           NEW s \in D, Taken(d, to, s) = {}, NEW G, G \subseteq ToSet(e.undist),
           NEW new, new = Redirected(d, to, G, s)
    PROVE  /\ new \in [ToSet(d.undist) -> D \cup {Nowhere}]
           /\ Taken(d, new, s) = G
           /\ Taken(d, new, Nowhere) = Taken(d, to, Nowhere) \ G
           /\ \A t \in D \ {s} : Taken(d, new, t) = Taken(d, to, t)
<1>1. PICK U : U = ToSet(d.undist)
  OBVIOUS
<1>2. to \in [U -> D \cup {Nowhere}] /\ G \subseteq U /\ \A m \in G : to[m] = Nowhere
  BY <1>1 DEF Given, Taken
<1>3. \A m \in U : new[m] = IF m \in G THEN s ELSE to[m]
  BY <1>1 DEF Redirected
<1>4. new \in [U -> D \cup {Nowhere}]
  BY <1>1, <1>2 DEF Redirected
<1>5. \A m \in U : to[m] # s
  BY <1>1 DEF Taken
<1>6. \A m \in U : new[m] = s <=> m \in G
  BY <1>3, <1>5
<1>7. \A m \in U : new[m] = Nowhere <=> to[m] = Nowhere /\ m \notin G
  BY <1>3
<1>8. \A t \in D \ {s} : \A m \in U : new[m] = t <=> to[m] = t
  BY <1>2, <1>3
<1>9. Taken(d, new, s) = G
  BY <1>1, <1>2, <1>6 DEF Taken
<1>10. Taken(d, new, Nowhere) = Taken(d, to, Nowhere) \ G
  BY <1>1, <1>7 DEF Taken
<1>11. \A t \in D \ {s} : Taken(d, new, t) = Taken(d, to, t)
  BY <1>1, <1>8 DEF Taken
<1> QED
  BY <1>1, <1>4, <1>9, <1>10, <1>11

LEMMA GivenStep ==
    ASSUME NEW D, Nowhere \notin D, NEW d, NEW e, NEW to, Given(d, e, D, to), NEW average \in Nat,
           NEW s \in D, Taken(d, to, s) = {}, NEW G, NEW f, Gives(e, f, D, average, s, G),
           NEW new, new = Redirected(d, to, G, s)
    PROVE  Given(d, f, D, new)
<1>1. /\ new \in [ToSet(d.undist) -> D \cup {Nowhere}]
      /\ Taken(d, new, s) = G
      /\ Taken(d, new, Nowhere) = Taken(d, to, Nowhere) \ G
      /\ \A t \in D \ {s} : Taken(d, new, t) = Taken(d, to, t)
  <2>1. G \subseteq ToSet(e.undist)
    BY DEF Gives
  <2> QED
    BY <2>1, RedirectedIs
<1>2. f \in States(D) /\ f.loaded = d.loaded /\ ToSet(f.undist) = Taken(d, new, Nowhere)
  BY <1>1 DEF Given, Gives
<1>3. ASSUME NEW t \in D PROVE ToSet(f.services[t]) = ToSet(d.services[t]) \cup Taken(d, new, t)
  <2>1. CASE t = s
    <3>1. ToSet(e.services[s]) = ToSet(d.services[s])
      BY DEF Given
    <3>2. ToSet(f.services[s]) = ToSet(e.services[s]) \cup G
      BY DEF Gives
    <3> QED
      BY <1>1, <2>1, <3>1, <3>2
  <2>2. CASE t # s
    <3>1. f.services[t] = e.services[t]
      BY <2>2 DEF Gives
    <3> QED
      BY <1>1, <2>2, <3>1 DEF Given
  <2> QED
    BY <2>1, <2>2
<1>4. f.changed = {t \in D : Taken(d, new, t) # {}}
  <2>1. e.changed = {t \in D : Taken(d, to, t) # {}}
    BY DEF Given
  <2>2. f.changed = IF G = {} THEN e.changed ELSE e.changed \cup {s}
    BY DEF Gives
  <2> QED
    BY <1>1, <2>1, <2>2
<1> QED
  BY <1>1, <1>2, <1>3, <1>4 DEF Given

LEMMA ServedStep ==
    ASSUME NEW D, Nowhere \notin D, NEW d, NEW e, NEW to, Given(d, e, D, to), NEW average \in Nat,
           NEW order \in Seq(D), IsInjective(order), NEW i \in Nat, i + 1 <= Len(order),
           Served(d, e, average, order, i, to), NEW s, s = order[i + 1],
           NEW G, NEW f, Gives(e, f, D, average, s, G),
           NEW new, new = Redirected(d, to, G, s)
    PROVE  Given(d, f, D, new) /\ Served(d, f, average, order, i + 1, new)
<1>1. PICK n \in Nat : n = Len(order) /\ i + 1 \in 1..n
  OBVIOUS
<1>2. s \in D /\ \A k \in 1..n : order[k] \in D /\ (k # i + 1 => order[k] # s)
  BY <1>1 DEF IsInjective
<1>3. Taken(d, to, s) = {}
  <2>1. i < i + 1 /\ i + 1 \in 1..Len(order)
    BY <1>1
  <2> QED
    BY <2>1 DEF Served
<1>4. Given(d, f, D, new)
  BY <1>2, <1>3, GivenStep
<1>5. /\ Taken(d, new, s) = G
      /\ \A t \in D \ {s} : Taken(d, new, t) = Taken(d, to, t)
  <2>1. G \subseteq ToSet(e.undist)
    BY DEF Gives
  <2> QED
    BY <1>2, <1>3, <2>1, RedirectedIs
<1>6. \A k \in 1..n : k # i + 1 => Taken(d, new, order[k]) = Taken(d, to, order[k])
  BY <1>2, <1>5
<1>7. Taken(d, new, order[i + 1]) = G
  BY <1>5
<1>8. \A k \in 1..n : k # i + 1 => (Full(d, average, new, order[k]) <=> Full(d, average, to, order[k]))
  BY <1>6 DEF Full
<1>9. e.loaded = d.loaded
  BY DEF Given
<1>10. ASSUME NEW k \in 1..n, i + 1 < k PROVE Taken(d, new, order[k]) = {}
  <2>1. k # i + 1 /\ i < k
    BY <1>10
  <2>2. Taken(d, to, order[k]) = {}
    BY <1>1, <2>1 DEF Served
  <2> QED
    BY <1>6, <2>1, <2>2
<1>11. ASSUME NEW k \in 1..n
       PROVE  Cardinality(Taken(d, new, order[k])) <= Lack(average, d.loaded[order[k]])
  <2>1. CASE k = i + 1
    BY <1>7, <1>9, <2>1 DEF Gives
  <2>2. CASE k # i + 1
    BY <1>1, <1>6, <2>2 DEF Served
  <2> QED
    BY <2>1, <2>2
<1>12. f.undist # <<>> => e.undist # <<>>
  <2>1. ToSet(f.undist) \subseteq ToSet(e.undist)
    BY DEF Gives
  <2>2. f.undist \in Seq(Matches) /\ e.undist \in Seq(Matches)
    BY StateIs DEF Gives, Given
  <2>3. (ToSet(f.undist) = {} <=> f.undist = <<>>) /\ (ToSet(e.undist) = {} <=> e.undist = <<>>)
    BY <2>2, NoElements
  <2>4. ToSet(e.undist) = {} => ToSet(f.undist) = {}
    BY <2>1
  <2> QED
    BY <2>3, <2>4
<1>13. ASSUME NEW k \in 1..(i + 1) PROVE f.undist = <<>> \/ Full(d, average, new, order[k])
  <2>1. CASE k = i + 1
    BY <1>7, <1>9, <2>1 DEF Gives, Full
  <2>2. CASE k # i + 1
    <3>1. k \in 1..i /\ k \in 1..n
      BY <1>1, <2>2
    <3> QED
      BY <1>8, <1>12, <2>2, <3>1 DEF Served
  <2> QED
    BY <2>1, <2>2
<1>14. ASSUME NEW k \in 1..(i + 1), NEW j \in 1..(k - 1), Taken(d, new, order[k]) # {}
       PROVE  Full(d, average, new, order[j])
  <2>0. j \in 1..i /\ j \in 1..n /\ j # i + 1
    BY <1>1
  <2>1. CASE k = i + 1
    <3>1. G # {}
      BY <1>7, <1>14, <2>1
    <3>2. e.undist # <<>>
      <4>1. e.undist \in Seq(Matches) /\ ToSet(e.undist) # {}
        BY <3>1, StateIs DEF Gives, Given
      <4> QED
        BY <4>1, Elements
    <3>3. Full(d, average, to, order[j])
      BY <2>0, <3>2 DEF Served
    <3> QED
      BY <1>8, <2>0, <3>3
  <2>2. CASE k # i + 1
    <3>1. k \in 1..i /\ k \in 1..n
      BY <1>1, <2>2
    <3>2. Full(d, average, to, order[j])
      BY <1>6, <1>14, <2>2, <3>1 DEF Served
    <3> QED
      BY <1>8, <2>0, <3>2
  <2> QED
    BY <2>1, <2>2
<1> QED
  BY <1>1, <1>4, <1>10, <1>11, <1>13, <1>14 DEF Served

\* The loop of distributeFill, to its end.
LEMMA FillLoopServes ==
    ASSUME NEW D, Nowhere \notin D, NEW d \in States(D), NEW average \in Nat,
           NEW order \in Seq(D), IsInjective(order)
    PROVE  \E to : /\ Given(d, FillLoop(d, average, order), D, to)
                   /\ Served(d, FillLoop(d, average, order), average, order, Len(order), to)
<1>1. PICK n \in Nat : n = Len(order) /\ \A i \in 1..n : order[i] \in D
  OBVIOUS
<1>2. PICK r : r = FillRounds(d, average, order)
  OBVIOUS
<1>3. /\ r \in [0..n -> States(D)] /\ r[0] = Fresh(d)
      /\ \A i \in 1..n : r[i] = FillOne(r[i - 1], average, order[i])
  BY <1>1, <1>2, FillRoundsRun DEF FillRun
<1> DEFINE K == {k \in Nat : k <= n => \E to : /\ Given(d, r[k], D, to)
                                               /\ Served(d, r[k], average, order, k, to)}
<1>4. 0 \in K
  <2>1. PICK e : e = r[0]
    OBVIOUS
  <2>2. /\ e \in States(D) /\ e.services = d.services /\ e.loaded = d.loaded
        /\ e.undist = d.undist /\ e.changed = {}
    BY <1>3, <2>1, FreshIs
  <2>3. PICK to : to = [m \in ToSet(d.undist) |-> Nowhere]
    OBVIOUS
  <2>4. \A s \in D : Taken(d, to, s) = {}
    BY <2>3 DEF Taken
  <2>5. Taken(d, to, Nowhere) = ToSet(d.undist)
    BY <2>3 DEF Taken
  <2>6. to \in [ToSet(d.undist) -> D \cup {Nowhere}]
    BY <2>3
  <2>7. Given(d, e, D, to)
    BY <2>2, <2>4, <2>5, <2>6 DEF Given
  <2>8. Served(d, e, average, order, 0, to)
    <3>1. Cardinality({}) = 0
      BY FS_EmptySet
    <3>2. \A s \in D : d.loaded[s] \in Nat
      BY StateIs
    <3>3. \A s \in D : 0 <= Lack(average, d.loaded[s])
      BY <3>2 DEF Lack
    <3>4. \A k \in 1..Len(order) : Taken(d, to, order[k]) = {}
      BY <1>1, <2>4
    <3>5. \A k \in 1..Len(order) :
            Cardinality(Taken(d, to, order[k])) <= Lack(average, d.loaded[order[k]])
      BY <1>1, <3>1, <3>3, <3>4
    <3>6. \A k \in 1..0 : FALSE
      OBVIOUS
    <3> QED
      BY <3>4, <3>5, <3>6 DEF Served
  <2> QED
    BY <2>1, <2>7, <2>8
<1>5. ASSUME NEW k \in Nat, k \in K PROVE k + 1 \in K
  <2> SUFFICES ASSUME k + 1 <= n
               PROVE  \E to : /\ Given(d, r[k + 1], D, to)
                              /\ Served(d, r[k + 1], average, order, k + 1, to)
    OBVIOUS
  <2>1. PICK e, f : e = r[k] /\ f = r[k + 1]
    OBVIOUS
  <2>2. PICK to : Given(d, e, D, to) /\ Served(d, e, average, order, k, to)
    BY <1>5, <2>1
  <2>3. k + 1 \in 1..n /\ (k + 1) - 1 = k
    OBVIOUS
  <2>4. PICK s \in D : s = order[k + 1]
    BY <1>1, <2>3
  <2>5. f = FillOne(e, average, s)
    BY <1>3, <2>1, <2>3, <2>4
  <2>6. PICK G : Gives(e, f, D, average, s, G)
    <3>1. e \in States(D)
      BY <2>2 DEF Given
    <3> QED
      BY <2>5, <3>1, FillOneGives
  <2>7. PICK new : new = Redirected(d, to, G, s)
    OBVIOUS
  <2>8. Given(d, f, D, new) /\ Served(d, f, average, order, k + 1, new)
    BY <1>1, <2>2, <2>4, <2>6, <2>7, ServedStep
  <2> QED
    BY <2>1, <2>8
<1>6. Nat \subseteq K
  <2> HIDE DEF K
  <2> QED
    BY <1>4, <1>5, Inductive
<1>7. n \in K /\ n <= n
  BY <1>6
<1>8. FillLoop(d, average, order) = r[n]
  BY <1>1, <1>2 DEF FillLoop
<1> QED
  BY <1>1, <1>7, <1>8

-----------------------------------------------------------------------------
(***************************************************************************)
(* distributeFill on lists is distributeFill on sets.                      *)
(***************************************************************************)
Abs(d) ==
    [services |-> SetOf(d.services), loaded |-> d.loaded, undist |-> ToSet(d.undist),
     changed |-> d.changed]

LEMMA AbsIs ==
    ASSUME NEW D, NEW d \in States(D)
    PROVE  /\ Abs(d).services = [s \in D |-> ToSet(d.services[s])]
           /\ DOMAIN Abs(d).services = D
           /\ \A s \in D : Abs(d).services[s] = ToSet(d.services[s])
           /\ Abs(d).loaded = d.loaded /\ Abs(d).undist = ToSet(d.undist)
           /\ Abs(d).changed = d.changed
<1>1. DOMAIN d.services = D
  BY StateIs
<1> QED
  BY <1>1 DEF Abs, SetOf

LEMMA AbsParts ==
    ASSUME NEW D, NEW d \in States(D), NEW a, a = Abs(d)
    PROVE  /\ DOMAIN a.services = D /\ a.loaded = d.loaded /\ a.undist = ToSet(d.undist)
           /\ a.changed = d.changed /\ \A s \in D : a.services[s] = ToSet(d.services[s])
<1>1. DOMAIN d.services = D
  BY StateIs
<1> QED
  BY <1>1 DEF Abs, SetOf

\* g is f, the end of a loop that began with d, after the loads are evaluated.
Closes(g, f, d, D) ==
    /\ g \in States(D) /\ g.services = f.services /\ g.undist = f.undist
    /\ g.changed = d.changed \cup f.changed
    /\ \A s \in D : g.loaded[s] = IF s \in f.changed THEN Cardinality(ToSet(f.services[s]))
                                                     ELSE d.loaded[s]

LEMMA ReloadCloses ==
    ASSUME NEW D, NEW d \in States(D), NEW f \in States(D), NEW g,
           g = [f EXCEPT !.loaded  = Reloaded(f.services, d.loaded, f.changed),
                         !.changed = d.changed \cup @]
    PROVE  Closes(g, f, d, D)
<1>1. /\ f \in ListRecord(D) /\ DOMAIN f.services = D /\ f.changed \in SUBSET D
      /\ d.loaded \in [D -> Nat] /\ d.changed \in SUBSET D
  BY StateIs
<1>2. ASSUME NEW s \in D
      PROVE  Len(f.services[s]) \in Nat /\ Cardinality(ToSet(f.services[s])) = Len(f.services[s])
  <2>1. f.services[s] \in Seq(Matches) /\ IsInjective(f.services[s])
    BY StateIs
  <2>2. PICK l \in Seq(Matches) : l = f.services[s]
    BY <2>1
  <2>3. Len(l) \in Nat /\ Cardinality(ToSet(l)) = Len(l)
    BY <2>1, <2>2, OnceCounts
  <2> QED
    BY <2>2, <2>3
<1>3. PICK loads : loads = Reloaded(f.services, d.loaded, f.changed)
  OBVIOUS
<1>4. \A s \in D : loads[s] = IF s \in f.changed THEN Len(f.services[s]) ELSE d.loaded[s]
  BY <1>1, <1>3 DEF Reloaded
<1>5. loads \in [D -> Nat]
  BY <1>1, <1>2, <1>3 DEF Reloaded
<1>6. g = [f EXCEPT !.loaded = loads, !.changed = d.changed \cup f.changed]
  BY <1>3
<1>7. /\ g \in ListRecord(D) /\ g.services = f.services /\ g.undist = f.undist
      /\ g.changed = d.changed \cup f.changed /\ g.loaded = loads
  BY <1>1, <1>5, <1>6 DEF ListRecord
<1>8. g \in States(D)
  BY <1>7 DEF States
<1> QED
  BY <1>2, <1>4, <1>7, <1>8 DEF Closes

\* What distributeFill has done when it returns.
FillDone(g, d, D, average, order, to) ==
    /\ order \in Seq(D) /\ Ordered(order, D, Lightest(d.loaded, D))
    /\ \E f : /\ Given(d, f, D, to) /\ Served(d, f, average, order, Len(order), to)
              /\ Closes(g, f, d, D)

LEMMA ListFillDone ==
    ASSUME NEW D, IsFiniteSet(D), D \subseteq Nat, NEW d \in States(D), NEW average \in Nat
    PROVE  \E order, to : FillDone(ListFill(d, average), d, D, average, order, to)
<1>1. Nowhere \notin D
  BY DEF Nowhere
<1>2. PICK order : order = Ascending(d.loaded)
  OBVIOUS
<1>3. Ordered(order, D, Lightest(d.loaded, D))
  <2>1. d.loaded \in [D -> Nat]
    BY StateIs
  <2> QED
    BY <1>2, <2>1, AscendingIs
<1>4. order \in Seq(D) /\ IsInjective(order)
  BY <1>3 DEF Ordered
<1>5. PICK f : f = FillLoop(d, average, order)
  OBVIOUS
<1>6. PICK to : Given(d, f, D, to) /\ Served(d, f, average, order, Len(order), to)
  BY <1>1, <1>4, <1>5, FillLoopServes
<1>7. f \in States(D)
  BY <1>6 DEF Given
<1>8. PICK g : g = ListFill(d, average)
  OBVIOUS
<1>9. g = [f EXCEPT !.loaded  = Reloaded(f.services, d.loaded, f.changed),
                    !.changed = d.changed \cup @]
  BY <1>2, <1>5, <1>8 DEF ListFill
<1>10. Closes(g, f, d, D)
  BY <1>7, <1>9, ReloadCloses
<1>11. FillDone(g, d, D, average, order, to)
  BY <1>3, <1>4, <1>6, <1>10 DEF FillDone
<1> QED
  BY <1>8, <1>11

\* The loop serves the services as Fills has it.
LEMMA ServedFills ==
    ASSUME NEW D, D \subseteq Nat, NEW d \in States(D), NEW average \in Nat, NEW order \in Seq(D),
           Ordered(order, D, Lightest(d.loaded, D)), NEW f, NEW to, Given(d, f, D, to),
           Served(d, f, average, order, Len(order), to)
    PROVE  Fills(Abs(d), average, to)
<1>1. PICK n \in Nat : n = Len(order) /\ \A i \in 1..n : order[i] \in D
  OBVIOUS
<1>2. /\ DOMAIN Abs(d).services = D /\ Abs(d).loaded = d.loaded /\ Abs(d).undist = ToSet(d.undist)
      /\ \A s \in D : d.loaded[s] \in Nat /\ s \in Nat
  BY AbsIs, StateIs
<1>3. \A s : Gets(Abs(d), to, s) = Taken(d, to, s)
  BY <1>2 DEF Gets, Taken
<1>4. \A s \in D : FillQuota(Abs(d), average, s) = Lack(average, d.loaded[s])
  BY <1>2 DEF FillQuota, Lack
<1>5. \A s \in D : \E k \in 1..n : order[k] = s
  <2>1. ToSet(order) = D
    BY DEF Ordered
  <2> QED
    BY <1>1, <2>1, Elements
<1>6. ASSUME NEW s \in D
      PROVE  /\ Cardinality(Taken(d, to, s)) <= Lack(average, d.loaded[s])
             /\ Taken(d, to, Nowhere) # {} => Full(d, average, to, s)
             /\ \A t \in D : ServedBefore(Abs(d), s, t) /\ Taken(d, to, t) # {} =>
                   Full(d, average, to, s)
  <2>1. PICK j \in 1..n : order[j] = s
    BY <1>5
  <2>2. Cardinality(Taken(d, to, s)) <= Lack(average, d.loaded[s])
    BY <1>1, <2>1 DEF Served
  <2>3. ASSUME Taken(d, to, Nowhere) # {} PROVE Full(d, average, to, s)
    <3>1. f.undist # <<>>
      <4>1. ToSet(f.undist) # {} /\ f.undist \in Seq(Matches)
        BY <2>3, StateIs DEF Given
      <4> QED
        BY <4>1, NoElements
    <3> QED
      BY <1>1, <2>1, <3>1 DEF Served
  <2>4. ASSUME NEW t \in D, ServedBefore(Abs(d), s, t), Taken(d, to, t) # {}
        PROVE  Full(d, average, to, s)
    <3>1. PICK k \in 1..n : order[k] = t
      BY <1>5
    <3>2. \/ d.loaded[s] < d.loaded[t]
          \/ d.loaded[s] = d.loaded[t] /\ s < t
      BY <1>2, <2>4 DEF ServedBefore
    <3>3. ~Lighter(d.loaded, t, s) /\ s # t
      BY <1>2, <3>2 DEF Lighter
    <3>4. ~(k < j)
      <4>1. k < j => Lighter(d.loaded, t, s)
        BY <1>1, <2>1, <3>1 DEF Ordered, Lightest
      <4> QED
        BY <3>3, <4>1
    <3>5. k # j
      BY <2>1, <3>1, <3>3
    <3>6. j \in 1..(k - 1)
      BY <3>4, <3>5
    <3> QED
      BY <1>1, <2>1, <2>4, <3>1, <3>6 DEF Served
  <2> QED
    BY <2>2, <2>3, <2>4
<1> QED
  BY <1>2, <1>3, <1>4, <1>6 DEF Fills, Full

LEMMA FillRefines ==
    ASSUME NEW D, IsFiniteSet(D), D \subseteq Nat, NEW d \in States(D), NEW average \in Nat
    PROVE  /\ ListFill(d, average) \in States(D)
           /\ Abs(ListFill(d, average)) \in distributeFill(Abs(d), average)
<1>1. PICK g : g = ListFill(d, average)
  OBVIOUS
<1>2. PICK order, to : FillDone(g, d, D, average, order, to)
  BY <1>1, ListFillDone
<1>3. PICK f : /\ Given(d, f, D, to) /\ Served(d, f, average, order, Len(order), to)
               /\ Closes(g, f, d, D)
  BY <1>2 DEF FillDone
<1>4. Fills(Abs(d), average, to)
  <2>1. order \in Seq(D) /\ Ordered(order, D, Lightest(d.loaded, D))
    BY <1>2 DEF FillDone
  <2> QED
    BY <1>3, <2>1, ServedFills
<1>5. g \in States(D)
  BY <1>3 DEF Closes
<1>6. PICK a : a = Abs(d)
  OBVIOUS
<1>7. /\ DOMAIN a.services = D /\ a.loaded = d.loaded /\ a.undist = ToSet(d.undist)
      /\ a.changed = d.changed /\ \A s \in D : a.services[s] = ToSet(d.services[s])
  BY <1>6, AbsParts
<1>8. \A s : {m \in a.undist : to[m] = s} = Taken(d, to, s)
  BY <1>7 DEF Taken
<1>9. PICK lists : lists = [s \in D |-> ToSet(g.services[s])]
  OBVIOUS
<1>10. lists = [s \in DOMAIN a.services |-> a.services[s] \cup {m \in a.undist : to[m] = s}]
  <2>1. ASSUME NEW s \in D
        PROVE  ToSet(g.services[s]) = a.services[s] \cup {m \in a.undist : to[m] = s}
    <3>1. g.services = f.services
      BY <1>3 DEF Closes
    <3>2. ToSet(f.services[s]) = ToSet(d.services[s]) \cup Taken(d, to, s)
      BY <1>3 DEF Given
    <3> QED
      BY <1>7, <1>8, <3>1, <3>2
  <2> QED
    BY <1>7, <1>9, <2>1
<1>11. f.changed = {s \in DOMAIN a.services : \E m \in a.undist : to[m] = s}
  <2>1. f.changed = {s \in D : Taken(d, to, s) # {}}
    BY <1>3 DEF Given
  <2>2. \A s : Taken(d, to, s) # {} <=> \E m \in a.undist : to[m] = s
    BY <1>7 DEF Taken
  <2> QED
    BY <1>7, <2>1, <2>2
<1>12. g.loaded = updateLoaded(lists, a.loaded, f.changed)
  <2>1. \A s \in D : g.loaded[s] = IF s \in f.changed THEN Cardinality(lists[s]) ELSE a.loaded[s]
    BY <1>3, <1>7, <1>9 DEF Closes
  <2>2. g.loaded \in [D -> Nat]
    BY <1>5, StateIs
  <2>3. g.loaded = [s \in D |-> g.loaded[s]]
    BY <2>2
  <2>4. DOMAIN lists = D
    BY <1>9
  <2> QED
    BY <2>1, <2>3, <2>4 DEF updateLoaded, evaluate
<1>13. ToSet(g.undist) = {m \in a.undist : to[m] = Nowhere}
  BY <1>3, <1>8 DEF Given, Closes
<1>14. g.changed = a.changed \cup f.changed
  BY <1>3, <1>7 DEF Closes
<1>15. Abs(g) = [services |-> lists, loaded |-> g.loaded, undist |-> ToSet(g.undist),
                 changed |-> g.changed]
  BY <1>5, <1>9, AbsIs DEF Abs
<1>16. Abs(g) = Give(a, to)
  BY <1>10, <1>11, <1>12, <1>13, <1>14, <1>15 DEF Give
<1>17. to \in [a.undist -> DOMAIN a.services \cup {Nowhere}]
  BY <1>3, <1>7 DEF Given
<1>18. Abs(g) \in distributeFill(a, average)
  BY <1>4, <1>6, <1>16, <1>17 DEF distributeFill
<1> QED
  BY <1>1, <1>5, <1>6, <1>18

-----------------------------------------------------------------------------
(***************************************************************************)
(* distributeClipping on lists is distributeClipping on sets.  The matches *)
(* cut[s] have gone back from service s.                                   *)
(***************************************************************************)
CutBack(d, e, D, cut) ==
    /\ e \in States(D) /\ e.loaded = d.loaded
    /\ cut \in [D -> SUBSET Matches]
    /\ ToSet(e.undist) = ToSet(d.undist) \cup UNION {cut[s] : s \in D}
    /\ \A s \in D : /\ cut[s] \subseteq ToSet(d.services[s])
                    /\ ToSet(e.services[s]) = ToSet(d.services[s]) \ cut[s]
    /\ e.changed = {s \in D : cut[s] # {}}

\* The surplus of a service.
Surplus(d, average, s) ==
    IF d.loaded[s] <= average
    THEN 0
    ELSE Min({d.loaded[s] - average, Cardinality(ToSet(d.services[s]))})

Clipped(d, average, order, i, cut) ==
    /\ \A k \in 1..Len(order) : i < k => cut[order[k]] = {}
    /\ \A k \in 1..i : Cardinality(cut[order[k]]) = Surplus(d, average, order[k])

Uncut(cut, s) == cut[s] = {}

CutMore(cut, s, C) == [cut EXCEPT ![s] = C]

LEMMA CutBackStep ==
    ASSUME NEW D, NEW d \in States(D), NEW e, NEW cut, CutBack(d, e, D, cut), NEW average \in Nat,
           NEW s \in D, Uncut(cut, s), NEW C, NEW f, Takes(e, f, D, average, s, C),
           NEW new, new = CutMore(cut, s, C)
    PROVE  CutBack(d, f, D, new) /\ Cardinality(C) = Surplus(d, average, s)
<1>1. /\ cut \in [D -> SUBSET Matches] /\ e.loaded = d.loaded /\ cut[s] = {}
      /\ ToSet(e.services[s]) = ToSet(d.services[s])
  BY DEF CutBack, Uncut
<1>2. C \subseteq ToSet(d.services[s]) /\ ToSet(d.services[s]) \subseteq Matches
  <2>1. d.services[s] \in Seq(Matches)
    BY StateIs
  <2>2. ToSet(d.services[s]) \subseteq Matches
    BY <2>1, Elements
  <2> QED
    BY <1>1, <2>2 DEF Takes
<1>3. new \in [D -> SUBSET Matches] /\ new[s] = C /\ \A t \in D \ {s} : new[t] = cut[t]
  BY <1>1, <1>2 DEF CutMore
<1>4. f \in States(D) /\ f.loaded = d.loaded
  BY <1>1 DEF Takes
<1>5. PICK before, after : before = UNION {cut[t] : t \in D} /\ after = UNION {new[t] : t \in D}
  OBVIOUS
<1>6. ToSet(f.undist) = ToSet(d.undist) \cup after
  <2>1. ASSUME NEW m \in after PROVE m \in before \cup C
    <3>1. PICK t \in D : m \in new[t]
      BY <1>5
    <3>2. CASE t = s
      BY <1>3, <3>1, <3>2
    <3>3. CASE t # s
      BY <1>3, <1>5, <3>1, <3>3
    <3> QED
      BY <3>2, <3>3
  <2>2. ASSUME NEW m \in before PROVE m \in after
    <3>1. PICK t \in D : m \in cut[t]
      BY <1>5
    <3>2. t # s
      BY <1>1, <3>1
    <3> QED
      BY <1>3, <1>5, <3>1, <3>2
  <2>3. ASSUME NEW m \in C PROVE m \in after
    BY <1>3, <1>5
  <2>4. after = before \cup C
    BY <2>1, <2>2, <2>3
  <2>5. ToSet(f.undist) = ToSet(e.undist) \cup C
    BY DEF Takes
  <2>6. ToSet(e.undist) = ToSet(d.undist) \cup before
    BY <1>5 DEF CutBack
  <2> QED
    BY <2>4, <2>5, <2>6
<1>7. ASSUME NEW t \in D
      PROVE  new[t] \subseteq ToSet(d.services[t]) /\ ToSet(f.services[t]) = ToSet(d.services[t]) \ new[t]
  <2>1. CASE t = s
    BY <1>1, <1>2, <1>3, <2>1 DEF Takes
  <2>2. CASE t # s
    <3>1. f.services[t] = e.services[t]
      BY <2>2 DEF Takes
    <3> QED
      BY <1>3, <2>2, <3>1 DEF CutBack
  <2> QED
    BY <2>1, <2>2
<1>8. f.changed = {t \in D : new[t] # {}}
  <2>1. e.changed = {t \in D : cut[t] # {}}
    BY DEF CutBack
  <2>2. f.changed = IF C = {} THEN e.changed ELSE e.changed \cup {s}
    BY DEF Takes
  <2> QED
    BY <1>1, <1>3, <2>1, <2>2
<1>9. Cardinality(C) = Surplus(d, average, s)
  BY <1>1 DEF Takes, Surplus
<1> QED
  BY <1>3, <1>4, <1>5, <1>6, <1>7, <1>8, <1>9 DEF CutBack

\* The loop of distributeClipping, to its end.
LEMMA ClipLoopClips ==
    ASSUME NEW D, NEW d \in States(D), NEW average \in Nat, NEW order \in Seq(D), IsInjective(order)
    PROVE  \E cut : /\ CutBack(d, ClipLoop(d, average, order), D, cut)
                    /\ Clipped(d, average, order, Len(order), cut)
<1>1. PICK n \in Nat : n = Len(order) /\ \A i \in 1..n : order[i] \in D
  OBVIOUS
<1>2. PICK r : r = ClipRounds(d, average, order)
  OBVIOUS
<1>3. /\ r \in [0..n -> States(D)] /\ r[0] = Fresh(d)
      /\ \A i \in 1..n : r[i] = ClipOne(r[i - 1], average, order[i])
  BY <1>1, <1>2, ClipRoundsRun DEF ClipRun
<1> DEFINE K == {k \in Nat : k <= n => \E cut : /\ CutBack(d, r[k], D, cut)
                                                /\ Clipped(d, average, order, k, cut)}
<1>4. 0 \in K
  <2>1. PICK e : e = r[0]
    OBVIOUS
  <2>2. /\ e \in States(D) /\ e.services = d.services /\ e.loaded = d.loaded
        /\ e.undist = d.undist /\ e.changed = {}
    BY <1>3, <2>1, FreshIs
  <2>3. PICK cut : cut = [s \in D |-> {}]
    OBVIOUS
  <2>4. cut \in [D -> SUBSET Matches] /\ \A s \in D : cut[s] = {}
    BY <2>3
  <2>5. UNION {cut[s] : s \in D} = {}
    BY <2>4
  <2>6. CutBack(d, e, D, cut)
    BY <2>2, <2>4, <2>5 DEF CutBack
  <2>7. Clipped(d, average, order, 0, cut)
    <3>1. \A k \in 1..Len(order) : cut[order[k]] = {}
      BY <1>1, <2>4
    <3>2. \A k \in 1..0 : FALSE
      OBVIOUS
    <3> QED
      BY <3>1, <3>2 DEF Clipped
  <2> QED
    BY <2>1, <2>6, <2>7
<1>5. ASSUME NEW k \in Nat, k \in K PROVE k + 1 \in K
  <2> SUFFICES ASSUME k + 1 <= n
               PROVE  \E cut : /\ CutBack(d, r[k + 1], D, cut)
                               /\ Clipped(d, average, order, k + 1, cut)
    OBVIOUS
  <2>1. PICK e, f : e = r[k] /\ f = r[k + 1]
    OBVIOUS
  <2>2. PICK cut : CutBack(d, e, D, cut) /\ Clipped(d, average, order, k, cut)
    BY <1>5, <2>1
  <2>3. k + 1 \in 1..n /\ (k + 1) - 1 = k /\ k < k + 1
    OBVIOUS
  <2>4. PICK s \in D : s = order[k + 1]
    BY <1>1, <2>3
  <2>5. f = ClipOne(e, average, s)
    BY <1>3, <2>1, <2>3, <2>4
  <2>6. PICK C : Takes(e, f, D, average, s, C)
    <3>1. e \in States(D)
      BY <2>2 DEF CutBack
    <3> QED
      BY <2>5, <3>1, ClipOneTakes
  <2>7. Uncut(cut, s)
    BY <1>1, <2>2, <2>3, <2>4 DEF Clipped, Uncut
  <2>8. PICK new : new = CutMore(cut, s, C)
    OBVIOUS
  <2>9. CutBack(d, f, D, new) /\ Cardinality(C) = Surplus(d, average, s)
    BY <2>2, <2>6, <2>7, <2>8, CutBackStep
  <2>10. new[s] = C /\ \A t \in D \ {s} : new[t] = cut[t]
    BY <2>2, <2>8 DEF CutBack, CutMore
  <2>11. \A j \in 1..n : j # k + 1 => new[order[j]] = cut[order[j]]
    <3>1. \A j \in 1..n : j # k + 1 => order[j] \in D \ {s}
      BY <1>1, <2>3, <2>4 DEF IsInjective
    <3> QED
      BY <2>10, <3>1
  <2>12. ASSUME NEW j \in 1..n, k + 1 < j PROVE new[order[j]] = {}
    <3>1. j # k + 1 /\ k < j
      BY <2>12
    <3> QED
      BY <1>1, <2>2, <2>11, <3>1 DEF Clipped
  <2>13. ASSUME NEW j \in 1..(k + 1)
         PROVE  Cardinality(new[order[j]]) = Surplus(d, average, order[j])
    <3>1. CASE j = k + 1
      BY <2>4, <2>9, <2>10, <3>1
    <3>2. CASE j # k + 1
      <4>1. j \in 1..k /\ j \in 1..n
        BY <3>2
      <4> QED
        BY <2>2, <2>11, <3>2, <4>1 DEF Clipped
    <3> QED
      BY <3>1, <3>2
  <2>14. Clipped(d, average, order, k + 1, new)
    BY <1>1, <2>12, <2>13 DEF Clipped
  <2> QED
    BY <2>1, <2>9, <2>14
<1>6. Nat \subseteq K
  <2> HIDE DEF K
  <2> QED
    BY <1>4, <1>5, Inductive
<1>7. n \in K /\ n <= n
  BY <1>6
<1>8. ClipLoop(d, average, order) = r[n]
  BY <1>1, <1>2 DEF ClipLoop
<1> QED
  BY <1>1, <1>7, <1>8

\* The ends of the order tell whether some service is too free or too busy.
LEMMA EndsTell ==
    ASSUME NEW D, D # {}, D \subseteq Nat, NEW d \in States(D), NEW order \in Seq(D),
           Ordered(order, D, Heaviest(d.loaded, D))
    PROVE  ClippingDue(Abs(d)) <=>
             (tooFree(d.loaded[Last(order)]) \/ tooBusy(d.loaded[Head(order)]))
<1>1. PICK n \in Nat : n = Len(order) /\ \A i \in 1..n : order[i] \in D
  OBVIOUS
<1>2. \A s \in D : \E k \in 1..n : order[k] = s
  <2>1. ToSet(order) = D
    BY DEF Ordered
  <2> QED
    BY <1>1, <2>1, Elements
<1>3. n # 0
  <2>1. PICK s \in D : TRUE
    OBVIOUS
  <2>2. PICK k \in 1..n : order[k] = s
    BY <1>2
  <2> QED
    BY <2>2
<1>4. Last(order) = order[n] /\ Head(order) = order[1] /\ order[n] \in D /\ order[1] \in D
  BY <1>1, <1>3 DEF Last
<1>5. \A s \in D : d.loaded[s] \in Nat
  BY StateIs
<1>6. ASSUME NEW s \in D PROVE d.loaded[order[n]] <= d.loaded[s] /\ d.loaded[s] <= d.loaded[order[1]]
  <2>1. PICK k \in 1..n : order[k] = s
    BY <1>2
  <2>2. /\ \A i, j \in 1..n : i < j => Heavier(d.loaded, order[i], order[j])
    BY <1>1 DEF Ordered, Heaviest
  <2>3. k = n \/ Heavier(d.loaded, s, order[n])
    BY <1>3, <2>1, <2>2
  <2>4. k = 1 \/ Heavier(d.loaded, order[1], s)
    BY <1>3, <2>1, <2>2
  <2>5. d.loaded[s] \in Nat /\ d.loaded[order[n]] \in Nat /\ d.loaded[order[1]] \in Nat
    BY <1>4, <1>5
  <2>6. d.loaded[order[n]] <= d.loaded[s]
    BY <2>1, <2>3, <2>5 DEF Heavier
  <2>7. d.loaded[s] <= d.loaded[order[1]]
    BY <2>1, <2>4, <2>5 DEF Heavier
  <2> QED
    BY <2>6, <2>7
<1>7. DOMAIN Abs(d).services = D /\ Abs(d).loaded = d.loaded
  BY AbsIs
<1>8. ASSUME NEW s \in D
      PROVE  /\ tooFree(d.loaded[s]) => tooFree(d.loaded[order[n]])
             /\ tooBusy(d.loaded[s]) => tooBusy(d.loaded[order[1]])
  <2>1. /\ d.loaded[s] \in Nat /\ d.loaded[order[n]] \in Nat /\ d.loaded[order[1]] \in Nat
        /\ d.loaded[order[n]] <= d.loaded[s] /\ d.loaded[s] <= d.loaded[order[1]]
        /\ BusyLoad \in Nat
    BY <1>4, <1>5, <1>6, BusyLoadAssumption
  <2> QED
    BY <2>1 DEF tooFree, tooBusy
<1> QED
  BY <1>4, <1>7, <1>8 DEF ClippingDue

\* What distributeClipping has done when it returns.
ClipDone(g, d, D, average, cut) ==
    /\ \A s \in D : Cardinality(cut[s]) = Surplus(d, average, s)
    /\ \E f : CutBack(d, f, D, cut) /\ Closes(g, f, d, D)

LEMMA ListClippingDone ==
    ASSUME NEW D, IsFiniteSet(D), D # {}, D \subseteq Nat, NEW d \in States(D), NEW average \in Nat
    PROVE  IF ClippingDue(Abs(d))
           THEN \E cut : ClipDone(ListClipping(d, average), d, D, average, cut)
           ELSE ListClipping(d, average) = d
<1>1. PICK order : order = Descending(d.loaded)
  OBVIOUS
<1>2. Ordered(order, D, Heaviest(d.loaded, D))
  <2>1. d.loaded \in [D -> Nat]
    BY StateIs
  <2> QED
    BY <1>1, <2>1, DescendingIs
<1>3. order \in Seq(D) /\ IsInjective(order)
  BY <1>2 DEF Ordered
<1>4. ClippingDue(Abs(d)) <=>
        (tooFree(d.loaded[Last(order)]) \/ tooBusy(d.loaded[Head(order)]))
  BY <1>2, <1>3, EndsTell
<1>5. CASE ~ClippingDue(Abs(d))
  <2>1. ListClipping(d, average) = d
    BY <1>1, <1>4, <1>5 DEF ListClipping
  <2> QED
    BY <1>5, <2>1
<1>6. CASE ClippingDue(Abs(d))
  <2>1. PICK f : f = ClipLoop(d, average, order)
    OBVIOUS
  <2>2. PICK cut : CutBack(d, f, D, cut) /\ Clipped(d, average, order, Len(order), cut)
    BY <1>3, <2>1, ClipLoopClips
  <2>3. f \in States(D)
    BY <2>2 DEF CutBack
  <2>4. PICK g : g = ListClipping(d, average)
    OBVIOUS
  <2>5. g = [f EXCEPT !.loaded  = Reloaded(f.services, d.loaded, f.changed),
                      !.changed = d.changed \cup @]
    BY <1>1, <1>4, <1>6, <2>1, <2>4 DEF ListClipping
  <2>6. Closes(g, f, d, D)
    BY <2>3, <2>5, ReloadCloses
  <2>7. ASSUME NEW s \in D PROVE Cardinality(cut[s]) = Surplus(d, average, s)
    <3>1. PICK k \in 1..Len(order) : order[k] = s
      BY <1>2, <1>3, Elements DEF Ordered
    <3> QED
      BY <2>2, <3>1 DEF Clipped
  <2>8. ClipDone(g, d, D, average, cut)
    BY <2>2, <2>6, <2>7 DEF ClipDone
  <2> QED
    BY <1>6, <2>4, <2>8
<1> QED
  BY <1>5, <1>6

LEMMA ClipRefines ==
    ASSUME NEW D, IsFiniteSet(D), D # {}, D \subseteq Nat, NEW d \in States(D), NEW average \in Nat
    PROVE  /\ ListClipping(d, average) \in States(D)
           /\ Abs(ListClipping(d, average)) \in distributeClipping(Abs(d), average)
<1>1. PICK g, a : g = ListClipping(d, average) /\ a = Abs(d)
  OBVIOUS
<1>2. CASE ~ClippingDue(a)
  <2>1. g = d
    BY <1>1, <1>2, ListClippingDone
  <2> QED
    BY <1>1, <1>2, <2>1 DEF distributeClipping
<1>3. CASE ClippingDue(a)
  <2>1. PICK cut : ClipDone(g, d, D, average, cut)
    BY <1>1, <1>3, ListClippingDone
  <2>2. PICK f : CutBack(d, f, D, cut) /\ Closes(g, f, d, D)
    BY <2>1 DEF ClipDone
  <2>3. g \in States(D)
    BY <2>2 DEF Closes
  <2>4. /\ DOMAIN a.services = D /\ a.loaded = d.loaded /\ a.undist = ToSet(d.undist)
        /\ a.changed = d.changed /\ \A s \in D : a.services[s] = ToSet(d.services[s])
    BY <1>1, AbsParts
  <2>5. PICK lists : lists = [s \in D |-> ToSet(g.services[s])]
    OBVIOUS
  <2>6. lists = [s \in DOMAIN a.services |-> a.services[s] \ cut[s]]
    <3>1. ASSUME NEW s \in D PROVE ToSet(g.services[s]) = a.services[s] \ cut[s]
      BY <2>2, <2>4 DEF CutBack, Closes
    <3> QED
      BY <2>4, <2>5, <3>1
  <2>7. f.changed = {s \in DOMAIN a.services : cut[s] # {}}
    BY <2>2, <2>4 DEF CutBack
  <2>8. g.loaded = updateLoaded(lists, a.loaded, f.changed)
    <3>1. \A s \in D : g.loaded[s] = IF s \in f.changed THEN Cardinality(lists[s]) ELSE a.loaded[s]
      BY <2>2, <2>4, <2>5 DEF Closes
    <3>2. g.loaded \in [D -> Nat]
      BY <2>3, StateIs
    <3>3. g.loaded = [s \in D |-> g.loaded[s]]
      BY <3>2
    <3>4. DOMAIN lists = D
      BY <2>5
    <3> QED
      BY <3>1, <3>3, <3>4 DEF updateLoaded, evaluate
  <2>9. ToSet(g.undist) = a.undist \cup UNION {cut[s] : s \in DOMAIN a.services}
    BY <2>2, <2>4 DEF CutBack, Closes
  <2>10. g.changed = a.changed \cup f.changed
    BY <2>2, <2>4 DEF Closes
  <2>11. Abs(g) = [services |-> lists, loaded |-> g.loaded, undist |-> ToSet(g.undist),
                   changed |-> g.changed]
    BY <2>3, <2>5, AbsIs DEF Abs
  <2>12. Abs(g) = TakeBack(a, cut)
    BY <2>6, <2>7, <2>8, <2>9, <2>10, <2>11 DEF TakeBack
  <2>13. ASSUME NEW s \in D PROVE cut[s] \in kSubset(ClipQuota(a, average, s), a.services[s])
    <3>1. cut[s] \subseteq a.services[s]
      BY <2>2, <2>4 DEF CutBack
    <3>2. ClipQuota(a, average, s) = Surplus(d, average, s)
      BY <2>4 DEF ClipQuota, Surplus
    <3>3. Cardinality(cut[s]) = ClipQuota(a, average, s)
      BY <2>1, <3>2 DEF ClipDone
    <3> QED
      BY <3>1, <3>3 DEF kSubset
  <2>14. cut \in [D -> UNION {kSubset(ClipQuota(a, average, s), a.services[s]) : s \in D}]
    <3>1. cut \in [D -> SUBSET Matches]
      BY <2>2 DEF CutBack
    <3>2. cut = [s \in D |-> cut[s]]
      BY <3>1
    <3>3. \A s \in D : cut[s] \in UNION {kSubset(ClipQuota(a, average, t), a.services[t]) : t \in D}
      BY <2>13
    <3> QED
      BY <3>2, <3>3
  <2>15. Abs(g) \in distributeClipping(a, average)
    BY <1>3, <2>4, <2>12, <2>13, <2>14 DEF distributeClipping
  <2> QED
    BY <1>1, <2>3, <2>15
<1> QED
  BY <1>2, <1>3

-----------------------------------------------------------------------------
(***************************************************************************)
(* The call.                                                               *)
(***************************************************************************)
Start(in) ==
    [services |-> in.services, loaded |-> in.loaded, undist |-> in.undist, changed |-> {}]

LEMMA AverageIs ==
    ASSUME NEW D, IsFiniteSet(D), D # {}, NEW services, DOMAIN services = D
    PROVE  \A known \in SUBSET Matches : countPerService(known, services) \in Nat
<1>1. \A known \in SUBSET Matches : Cardinality(known) \in Nat
  BY InputsAssumption, FS_Subset, FS_CardinalityType
<1>2. Cardinality(D) \in Nat /\ Cardinality(D) # 0
  BY FS_CardinalityType, FS_EmptySet
<1> QED
  BY <1>1, <1>2 DEF countPerService

\* The fill, the clipping and the second fill of a call on services.
LEMMA CallIs ==
    ASSUME NEW D, IsFiniteSet(D), D # {}, NEW in, DOMAIN in.services = D,
           NEW average, average = countPerService(in.known, in.services),
           NEW start, start = Start(in), NEW f, f = ListFill(start, average),
           NEW c, c = ListClipping(f, average)
    PROVE  ListDistribution(in) = IF c.undist = <<>> THEN c ELSE ListFill(c, average)
BY DEF ListDistribution, Start

\* A fill, a clipping and a second fill if it is called for are a distribution.
LEMMA Composed ==
    ASSUME NEW services, NEW loaded, NEW undist, NEW all, DOMAIN services # {},
           NEW average, average = countPerService(all, services), NEW a,
           a = [services |-> services, loaded |-> loaded, undist |-> undist, changed |-> {}],
           NEW x \in distributeFill(a, average), NEW y \in distributeClipping(x, average),
           NEW z, z \in IF y.undist = {} THEN {y} ELSE distributeFill(y, average)
    PROVE  z \in Distributions(services, loaded, undist, all)
<1> DEFINE avg     == countPerService(all, services)
           start   == [services |-> services, loaded |-> loaded, undist |-> undist, changed |-> {}]
           Ends(c)  == IF c.undist = {} THEN {c} ELSE distributeFill(c, avg)
           Clips(f) == UNION {Ends(c) : c \in distributeClipping(f, avg)}
<1>1. x \in distributeFill(start, avg) /\ y \in distributeClipping(x, avg) /\ z \in Ends(y)
  OBVIOUS
<1>2. Distributions(services, loaded, undist, all)
        = UNION {Clips(f) : f \in distributeFill(start, avg)}
  BY Zenon DEF Distributions
<1> HIDE DEF avg, start
<1>3. z \in Clips(x)
  <2> HIDE DEF Ends
  <2> QED
    BY <1>1, Zenon
<1> HIDE DEF Clips
<1> QED
  BY <1>1, <1>2, <1>3, Zenon

LEMMA CallRefines ==
    ASSUME NEW D, IsFiniteSet(D), D \subseteq Nat, NEW in, Start(in) \in States(D),
           in.known \in SUBSET Matches, NEW d, d = ListDistribution(in)
    PROVE  /\ d \in States(D)
           /\ Abs(d) \in Distributions(SetOf(in.services), in.loaded, ToSet(in.undist), in.known)
<1>1. PICK start : start = Start(in)
  OBVIOUS
<1>2. /\ start \in States(D) /\ start.services = in.services /\ start.loaded = in.loaded
      /\ start.undist = in.undist /\ start.changed = {}
  BY <1>1 DEF Start
<1>3. DOMAIN in.services = D
  BY <1>2, StateIs
<1>4. PICK a : a = [services |-> SetOf(in.services), loaded |-> in.loaded,
                    undist |-> ToSet(in.undist), changed |-> {}]
  OBVIOUS
<1>5. a = Abs(start) /\ DOMAIN SetOf(in.services) = D
  BY <1>2, <1>3, <1>4 DEF Abs, SetOf
<1>6. CASE D = {}
  <2>1. d = start
    BY <1>1, <1>3, <1>6 DEF ListDistribution, Start
  <2>2. Distributions(SetOf(in.services), in.loaded, ToSet(in.undist), in.known) = {a}
    BY <1>4, <1>5, <1>6 DEF Distributions
  <2> QED
    BY <1>2, <1>5, <2>1, <2>2
<1>7. CASE D # {}
  <2>1. PICK average \in Nat : average = countPerService(in.known, in.services)
    BY <1>3, <1>7, AverageIs
  <2>2. average = countPerService(in.known, SetOf(in.services))
    BY <1>3, <1>5, <2>1 DEF countPerService
  <2>3. PICK f, c : f = ListFill(start, average) /\ c = ListClipping(f, average)
    OBVIOUS
  <2>4. d = IF c.undist = <<>> THEN c ELSE ListFill(c, average)
    BY <1>1, <1>3, <1>7, <2>1, <2>3, CallIs
  <2>5. f \in States(D) /\ Abs(f) \in distributeFill(a, average)
    BY <1>2, <1>5, <2>3, FillRefines
  <2>6. c \in States(D) /\ Abs(c) \in distributeClipping(Abs(f), average)
    BY <1>7, <2>3, <2>5, ClipRefines
  <2>7. c.undist = <<>> <=> Abs(c).undist = {}
    <3>1. c.undist \in Seq(Matches) /\ Abs(c).undist = ToSet(c.undist)
      BY <2>6, StateIs, AbsIs
    <3> QED
      BY <3>1, NoElements
  <2>8. /\ d \in States(D)
        /\ Abs(d) \in IF Abs(c).undist = {} THEN {Abs(c)} ELSE distributeFill(Abs(c), average)
    <3>1. CASE c.undist = <<>>
      BY <2>4, <2>6, <2>7, <3>1
    <3>2. CASE c.undist # <<>>
      <4>1. d = ListFill(c, average)
        BY <2>4, <3>2
      <4>2. d \in States(D) /\ Abs(d) \in distributeFill(Abs(c), average)
        BY <2>6, <4>1, FillRefines
      <4> QED
        BY <2>7, <3>2, <4>2
    <3> QED
      BY <3>1, <3>2
  <2>9. PICK x, y : x = Abs(f) /\ y = Abs(c)
    OBVIOUS
  <2>10. /\ x \in distributeFill(a, average) /\ y \in distributeClipping(x, average)
         /\ Abs(d) \in IF y.undist = {} THEN {y} ELSE distributeFill(y, average)
    BY <2>5, <2>6, <2>8, <2>9
  <2>11. PICK z, lists, load, u : /\ z = Abs(d) /\ lists = SetOf(in.services)
                                  /\ load = in.loaded /\ u = ToSet(in.undist)
    OBVIOUS
  <2>12. z \in Distributions(lists, load, u, in.known)
    BY <1>4, <1>5, <1>7, <2>2, <2>10, <2>11, Composed
  <2>13. Abs(d) \in Distributions(SetOf(in.services), in.loaded, ToSet(in.undist), in.known)
    BY <2>11, <2>12
  <2> QED
    BY <2>8, <2>13
<1> QED
  BY <1>6, <1>7

\* The inputs of a call are in order, and its output is what it computed.
IInv ==
    /\ \E D \in SUBSET Sids : Start(input) \in States(D)
    /\ input.known \in SUBSET Matches
    /\ call = "returned" => output = ListDistribution(input)

LEMMA InputsInOrder == Init => IInv
<1> SUFFICES ASSUME Init PROVE IInv
  OBVIOUS
<1>1. PICK D \in SUBSET Sids : \E at \in [Matches -> D \cup {Nowhere}] :
         \E services \in Tables(D, at), undist \in SetToSeqs(At(at, Nowhere)) :
            \E loaded \in Loads(services), known \in SUBSET Matches :
                input = [services |-> services, loaded |-> loaded, undist |-> undist,
                         known |-> known]
  BY DEF Init
<1>2. PICK at \in [Matches -> D \cup {Nowhere}] :
         \E services \in Tables(D, at), undist \in SetToSeqs(At(at, Nowhere)) :
            \E loaded \in Loads(services), known \in SUBSET Matches :
                input = [services |-> services, loaded |-> loaded, undist |-> undist,
                         known |-> known]
  BY <1>1
<1>3. PICK services \in Tables(D, at), undist \in SetToSeqs(At(at, Nowhere)) :
            \E loaded \in Loads(services), known \in SUBSET Matches :
                input = [services |-> services, loaded |-> loaded, undist |-> undist,
                         known |-> known]
  BY <1>2
<1>4. PICK loaded \in Loads(services), known \in SUBSET Matches :
                input = [services |-> services, loaded |-> loaded, undist |-> undist,
                         known |-> known]
  BY <1>3
<1>5. Nowhere \notin D
  BY InputsAssumption DEF Nowhere
<1>6. \A s : At(at, s) \in SUBSET Matches /\ IsFiniteSet(At(at, s))
  <2>1. \A s : At(at, s) \in SUBSET Matches
    BY DEF At
  <2> QED
    BY <2>1, InputsAssumption, FS_Subset
<1>7. ASSUME NEW s, NEW q \in SetToSeqs(At(at, s))
      PROVE  q \in Seq(Matches) /\ IsInjective(q) /\ ToSet(q) = At(at, s)
  <2>1. PICK S : S = At(at, s)
    OBVIOUS
  <2>2. q \in Seq(S) /\ IsInjective(q) /\ ToSet(q) = S
    BY <1>6, <2>1, SeqsOfSet
  <2>3. S \subseteq Matches
    BY <1>6, <2>1
  <2>4. q \in Seq(Matches)
    BY <2>2, <2>3
  <2> QED
    BY <2>1, <2>2, <2>4
<1>8. DOMAIN services = D /\ \A s \in D : services[s] \in SetToSeqs(At(at, s))
  BY DEF Tables
<1>9. \A s \in D : /\ services[s] \in Seq(Matches) /\ IsInjective(services[s])
                   /\ ToSet(services[s]) = At(at, s)
  BY <1>7, <1>8
<1>10. undist \in Seq(Matches) /\ IsInjective(undist) /\ ToSet(undist) = At(at, Nowhere)
  BY <1>7
<1>11. services \in [D -> Seq(Matches)]
  <2>1. services = [s \in D |-> services[s]]
    BY <1>8 DEF Tables
  <2> QED
    BY <1>9, <2>1
<1>12. loaded \in [D -> Nat]
  <2>1. loaded \in [D -> 0..Cardinality(Matches)]
    BY <1>4, <1>8 DEF Loads
  <2>2. Cardinality(Matches) \in Nat
    BY InputsAssumption, FS_CardinalityType
  <2>3. 0..Cardinality(Matches) \subseteq Nat
    BY <2>2
  <2> QED
    BY <2>1, <2>3
<1>13. InOnePlace(services, undist)
  <2>1. Matches = ToSet(undist) \cup UNION {ToSet(services[s]) : s \in D}
    <3>1. ASSUME NEW m \in Matches
          PROVE  m \in ToSet(undist) \cup UNION {ToSet(services[s]) : s \in D}
      <4>1. CASE at[m] = Nowhere
        BY <1>10, <4>1 DEF At
      <4>2. CASE at[m] \in D
        BY <1>9, <4>2 DEF At
      <4> QED
        BY <4>1, <4>2
    <3>2. ASSUME NEW m \in ToSet(undist) \cup UNION {ToSet(services[s]) : s \in D}
          PROVE  m \in Matches
      BY <1>6, <1>9, <1>10
    <3> QED
      BY <3>1, <3>2
  <2>2. \A s \in D : ToSet(services[s]) \cap ToSet(undist) = {}
    BY <1>5, <1>9, <1>10 DEF At
  <2>3. \A s \in D : \A t \in D \ {s} : ToSet(services[s]) \cap ToSet(services[t]) = {}
    BY <1>9 DEF At
  <2> QED
    BY <1>8, <1>9, <1>10, <2>1, <2>2, <2>3 DEF InOnePlace
<1>14. Start(input) \in States(D)
  <2>1. Start(input) = [services |-> services, loaded |-> loaded, undist |-> undist, changed |-> {}]
    BY <1>4 DEF Start
  <2> QED
    BY <1>10, <1>11, <1>12, <1>13, <2>1 DEF States, ListRecord
<1>15. call # "returned"
  BY DEF Init
<1>16. input.known \in SUBSET Matches
  BY <1>4
<1> QED
  BY <1>14, <1>15, <1>16 DEF IInv

LEMMA CallInvariant == Spec => []IInv
<1>1. Init => IInv
  BY InputsInOrder
<1>2. IInv /\ [Run]_vars => IInv'
  BY DEF IInv, Run, vars
<1> QED
  BY <1>1, <1>2, PTL DEF Spec

(***************************************************************************)
(* For every set of matches and services and every order of the lists, the *)
(* loops of distributeFill and distributeClipping end in an outcome that   *)
(* the set version of the strategy allows, with every match in one place.  *)
(***************************************************************************)
THEOREM ListsImplementSets == Spec => []ListsRefineSets
<1>1. IInv => ListsRefineSets
  <2> SUFFICES ASSUME IInv, call = "returned"
               PROVE  /\ [services |-> SetOf(output.services), loaded |-> output.loaded,
                          undist |-> ToSet(output.undist), changed |-> output.changed]
                           \in Distributions(SetOf(input.services), input.loaded,
                                             ToSet(input.undist), input.known)
                      /\ InOnePlace(output.services, output.undist)
    BY DEF ListsRefineSets
  <2>1. PICK D \in SUBSET Sids : Start(input) \in States(D)
    BY DEF IInv
  <2>2. IsFiniteSet(D) /\ D \subseteq Nat
    BY InputsAssumption, FS_Subset
  <2>3. PICK in, d : in = input /\ d = output
    OBVIOUS
  <2>4. d = ListDistribution(in) /\ Start(in) \in States(D) /\ in.known \in SUBSET Matches
    BY <2>1, <2>3 DEF IInv
  <2>5. /\ d \in States(D)
        /\ Abs(d) \in Distributions(SetOf(in.services), in.loaded, ToSet(in.undist), in.known)
    BY <2>2, <2>4, CallRefines
  <2> QED
    BY <2>3, <2>5 DEF Abs, States
<1> QED
  BY <1>1, CallInvariant, PTL

-----------------------------------------------------------------------------
(***************************************************************************)
(* A call with true loads leaves nothing to do for the next one.           *)
(***************************************************************************)
Truthful(d, D) == \A s \in D : d.loaded[s] = Cardinality(ToSet(d.services[s]))

\* No service below the average while a match is left, and none above it that
\* would be clipped.
Filled(d, D, average) == d.undist = <<>> \/ \A s \in D : d.loaded[s] >= average

Level(d, D, average) == \A s \in D : d.loaded[s] <= average

Settled(d, D, average) ==
    Filled(d, D, average) /\ (~ClippingDue(Abs(d)) \/ Level(d, D, average))

\* Two sets without a common element.
LEMMA UnionCounts ==
    ASSUME NEW S, IsFiniteSet(S), NEW T, IsFiniteSet(T), S \cap T = {}
    PROVE  Cardinality(S \cup T) = Cardinality(S) + Cardinality(T)
<1>1. Cardinality(S \cup T) = Cardinality(S) + Cardinality(T) - Cardinality({})
  BY FS_Union
<1>2. Cardinality({}) = 0 /\ Cardinality(S) \in Nat /\ Cardinality(T) \in Nat
  BY FS_EmptySet, FS_CardinalityType
<1> QED
  BY <1>1, <1>2

LEMMA CutCounts ==
    ASSUME NEW S, IsFiniteSet(S), NEW T \in SUBSET S
    PROVE  Cardinality(S \ T) = Cardinality(S) - Cardinality(T)
<1>1. S \cap T = T
  OBVIOUS
<1> QED
  BY <1>1, FS_Difference

\* The elements of the lists can be counted.
LEMMA ListsFinite ==
    ASSUME NEW D, NEW d \in States(D)
    PROVE  /\ IsFiniteSet(ToSet(d.undist))
           /\ \A s \in D : /\ IsFiniteSet(ToSet(d.services[s]))
                           /\ Cardinality(ToSet(d.services[s])) \in Nat
                           /\ Cardinality(ToSet(d.services[s])) = Len(d.services[s])
<1>1. PICK u \in Seq(Matches) : u = d.undist /\ IsInjective(u)
  BY StateIs
<1>2. IsFiniteSet(ToSet(u))
  BY <1>1, OnceCounts
<1>3. ASSUME NEW s \in D
      PROVE  /\ IsFiniteSet(ToSet(d.services[s])) /\ Cardinality(ToSet(d.services[s])) \in Nat
             /\ Cardinality(ToSet(d.services[s])) = Len(d.services[s])
  <2>1. PICK l \in Seq(Matches) : l = d.services[s] /\ IsInjective(l)
    BY StateIs
  <2>2. IsFiniteSet(ToSet(l)) /\ Cardinality(ToSet(l)) = Len(l)
    BY <2>1, OnceCounts
  <2> QED
    BY <2>1, <2>2, FS_CardinalityType
<1> QED
  BY <1>1, <1>2, <1>3

LEMMA FillBalances ==
    ASSUME NEW D, IsFiniteSet(D), D \subseteq Nat, NEW d \in States(D), NEW average \in Nat,
           Truthful(d, D), NEW g, g = ListFill(d, average)
    PROVE  /\ g \in States(D) /\ Truthful(g, D) /\ Filled(g, D, average)
           /\ Level(d, D, average) => Level(g, D, average)
<1>1. PICK order, to : FillDone(g, d, D, average, order, to)
  BY ListFillDone
<1>2. PICK f : /\ Given(d, f, D, to) /\ Served(d, f, average, order, Len(order), to)
               /\ Closes(g, f, d, D)
  BY <1>1 DEF FillDone
<1>3. g \in States(D) /\ g.services = f.services /\ g.undist = f.undist
  BY <1>2 DEF Closes
<1>4. ASSUME NEW s \in D
      PROVE  \E n \in Nat : /\ n = Cardinality(Taken(d, to, s))
                            /\ g.loaded[s] = d.loaded[s] + n
                            /\ g.loaded[s] = Cardinality(ToSet(g.services[s]))
                            /\ n <= Lack(average, d.loaded[s])
                            /\ g.undist = <<>> \/ n = Lack(average, d.loaded[s])
  <2>1. PICK k \in 1..Len(order) : order[k] = s
    <3>1. order \in Seq(D) /\ ToSet(order) = D
      BY <1>1 DEF FillDone, Ordered
    <3> QED
      BY <3>1, Elements
  <2>2. PICK T : T = Taken(d, to, s)
    OBVIOUS
  <2>3. T \in SUBSET ToSet(d.undist) /\ IsFiniteSet(ToSet(d.undist))
    BY <2>2, ListsFinite DEF Taken
  <2>4. IsFiniteSet(T)
    BY <2>3, FS_Subset
  <2>5. PICK n \in Nat : n = Cardinality(T)
    BY <2>4, FS_CardinalityType
  <2>6. n <= Lack(average, d.loaded[s]) /\ (g.undist = <<>> \/ n = Lack(average, d.loaded[s]))
    BY <1>2, <1>3, <2>1, <2>2, <2>5 DEF Served, Full
  <2>7. PICK L : L = ToSet(d.services[s])
    OBVIOUS
  <2>8. IsFiniteSet(L) /\ L \cap T = {} /\ d.loaded[s] = Cardinality(L) /\ Cardinality(L) \in Nat
    <3>1. L \cap ToSet(d.undist) = {}
      BY <2>7, StateIs
    <3> QED
      BY <2>3, <2>7, <3>1, ListsFinite DEF Truthful
  <2>9. ToSet(g.services[s]) = L \cup T
    BY <1>2, <1>3, <2>2, <2>7 DEF Given
  <2>10. Cardinality(ToSet(g.services[s])) = d.loaded[s] + n
    BY <2>4, <2>5, <2>8, <2>9, UnionCounts
  <2>11. g.loaded[s] = d.loaded[s] + n
    <3>1. CASE s \in f.changed
      BY <1>2, <1>3, <2>10, <3>1 DEF Closes
    <3>2. CASE s \notin f.changed
      <4>1. T = {}
        BY <1>2, <2>2, <3>2 DEF Given
      <4>2. n = 0
        BY <2>5, <4>1, FS_EmptySet
      <4>3. g.loaded[s] = d.loaded[s]
        BY <1>2, <3>2 DEF Closes
      <4> QED
        BY <2>8, <4>2, <4>3
    <3> QED
      BY <3>1, <3>2
  <2> QED
    BY <2>2, <2>5, <2>6, <2>10, <2>11
<1>5. \A s \in D : d.loaded[s] \in Nat
  BY StateIs
<1>6. Truthful(g, D)
  BY <1>4 DEF Truthful
<1>7. Filled(g, D, average)
  <2> SUFFICES ASSUME g.undist # <<>>, NEW s \in D PROVE g.loaded[s] >= average
    BY DEF Filled
  <2>1. PICK n \in Nat : g.loaded[s] = d.loaded[s] + n /\ n = Lack(average, d.loaded[s])
    BY <1>4
  <2> QED
    BY <1>5, <2>1 DEF Lack
<1>8. ASSUME Level(d, D, average), NEW s \in D PROVE g.loaded[s] <= average
  <2>1. PICK n \in Nat : g.loaded[s] = d.loaded[s] + n /\ n <= Lack(average, d.loaded[s])
    BY <1>4
  <2>2. PICK l \in Nat : l = d.loaded[s] /\ l <= average
    BY <1>5, <1>8 DEF Level
  <2>3. Lack(average, l) = average - l
    BY <2>2 DEF Lack
  <2> QED
    BY <2>1, <2>2, <2>3
<1> QED
  BY <1>3, <1>6, <1>7, <1>8 DEF Level

LEMMA ClipBalances ==
    ASSUME NEW D, IsFiniteSet(D), D # {}, D \subseteq Nat, NEW d \in States(D), NEW average \in Nat,
           Truthful(d, D), ClippingDue(Abs(d)), NEW g, g = ListClipping(d, average)
    PROVE  g \in States(D) /\ Truthful(g, D) /\ Level(g, D, average)
<1>1. PICK cut : ClipDone(g, d, D, average, cut)
  BY ListClippingDone
<1>2. PICK f : CutBack(d, f, D, cut) /\ Closes(g, f, d, D)
  BY <1>1 DEF ClipDone
<1>3. g \in States(D) /\ g.services = f.services
  BY <1>2 DEF Closes
<1>4. ASSUME NEW s \in D
      PROVE  g.loaded[s] = Cardinality(ToSet(g.services[s])) /\ g.loaded[s] <= average
  <2>1. PICK L, C : L = ToSet(d.services[s]) /\ C = cut[s]
    OBVIOUS
  <2>2. IsFiniteSet(L) /\ C \in SUBSET L /\ ToSet(g.services[s]) = L \ C
    BY <1>2, <1>3, <2>1, ListsFinite DEF CutBack
  <2>3. PICK l \in Nat : l = Cardinality(L) /\ d.loaded[s] = l
    BY <2>1, ListsFinite DEF Truthful
  <2>4. PICK n : n = Cardinality(C)
    OBVIOUS
  <2>5. n = IF l <= average THEN 0 ELSE Min({l - average, l})
    BY <1>1, <2>1, <2>3, <2>4 DEF ClipDone, Surplus
  <2>6. n \in Nat /\ (l <= average => n = 0) /\ (l > average => n = l - average)
    <3>1. CASE l <= average
      BY <2>5, <3>1
    <3>2. CASE ~(l <= average)
      <4>1. l - average \in Nat /\ l - average <= l
        BY <3>2
      <4>2. Min({l - average, l}) = l - average
        BY <4>1, MinIs
      <4> QED
        BY <2>5, <3>2, <4>1, <4>2
    <3> QED
      BY <3>1, <3>2
  <2>7. Cardinality(ToSet(g.services[s])) = l - n
    BY <2>2, <2>3, <2>4, CutCounts
  <2>8. l - n <= average
    BY <2>6
  <2>9. g.loaded[s] = l - n
    <3>1. CASE s \in f.changed
      BY <1>2, <1>3, <2>7, <3>1 DEF Closes
    <3>2. CASE s \notin f.changed
      <4>1. C = {}
        BY <1>2, <2>1, <3>2 DEF CutBack
      <4>2. n = 0
        BY <2>4, <4>1, FS_EmptySet
      <4>3. g.loaded[s] = l
        BY <1>2, <2>3, <3>2 DEF Closes
      <4> QED
        BY <4>2, <4>3
    <3> QED
      BY <3>1, <3>2
  <2> QED
    BY <2>7, <2>8, <2>9
<1> QED
  BY <1>3, <1>4 DEF Truthful, Level

\* A state is its four parts.
LEMMA SameState ==
    ASSUME NEW D, NEW d \in States(D), NEW e \in States(D), e.services = d.services,
           e.loaded = d.loaded, e.undist = d.undist, e.changed = d.changed
    PROVE  e = d
<1>1. d \in ListRecord(D) /\ e \in ListRecord(D)
  BY StateIs
<1>2. /\ d = [services |-> d.services, loaded |-> d.loaded, undist |-> d.undist, changed |-> d.changed]
      /\ e = [services |-> e.services, loaded |-> e.loaded, undist |-> e.undist, changed |-> e.changed]
  BY <1>1 DEF ListRecord
<1> QED
  BY <1>2

\* A loop that did nothing leaves the state as it was.
LEMMA IdleCloses ==
    ASSUME NEW D, NEW d \in States(D), NEW g, Closes(g, Fresh(d), d, D)
    PROVE  g = d
<1>1. PICK f : f = Fresh(d)
  OBVIOUS
<1>2. f.services = d.services /\ f.undist = d.undist /\ f.changed = {}
  BY <1>1, FreshIs
<1>3. /\ g \in States(D) /\ g.services = d.services /\ g.undist = d.undist
      /\ g.changed = d.changed /\ \A s \in D : g.loaded[s] = d.loaded[s]
  BY <1>1, <1>2 DEF Closes
<1>4. g.loaded \in [D -> Nat] /\ d.loaded \in [D -> Nat]
  BY <1>3, StateIs
<1>5. g.loaded = d.loaded
  BY <1>3, <1>4
<1> QED
  BY <1>3, <1>5, SameState

LEMMA FillIdle ==
    ASSUME NEW D, IsFiniteSet(D), D \subseteq Nat, NEW d \in States(D), NEW average \in Nat,
           Filled(d, D, average)
    PROVE  ListFill(d, average) = d
<1>1. PICK order : order = Ascending(d.loaded)
  OBVIOUS
<1>2. order \in Seq(D)
  <2>1. d.loaded \in [D -> Nat]
    BY StateIs
  <2> QED
    BY <1>1, <2>1, AscendingIs DEF Ordered
<1>3. PICK n \in Nat : n = Len(order) /\ \A i \in 1..n : order[i] \in D
  BY <1>2
<1>4. PICK e : e = Fresh(d)
  OBVIOUS
<1>5. e \in States(D) /\ e.loaded = d.loaded /\ e.undist = d.undist
  BY <1>4, FreshIs
<1>6. ASSUME NEW s \in D PROVE FillOne(e, average, s) = e
  <2>1. d.loaded[s] \in Nat
    BY StateIs
  <2>2. e.undist = <<>> \/ average - e.loaded[s] <= 0
    BY <1>5, <2>1 DEF Filled
  <2> QED
    BY <2>2 DEF FillOne
<1>7. PICK r : r = FillRounds(d, average, order)
  OBVIOUS
<1>8. r[0] = e /\ \A i \in 1..n : r[i] = FillOne(r[i - 1], average, order[i])
  <2>1. FillRun(r, d, average, order, D)
    BY <1>2, <1>7, FillRoundsRun
  <2> QED
    BY <1>3, <1>4, <2>1 DEF FillRun
<1> DEFINE K == {k \in Nat : k <= n => r[k] = e}
<1>9. 0 \in K
  BY <1>8
<1>10. ASSUME NEW k \in Nat, k \in K PROVE k + 1 \in K
  <2> SUFFICES ASSUME k + 1 <= n PROVE r[k + 1] = e
    OBVIOUS
  <2>1. k + 1 \in 1..n /\ (k + 1) - 1 = k /\ r[k] = e
    BY <1>10
  <2>2. r[k + 1] = FillOne(e, average, order[k + 1])
    BY <1>8, <2>1
  <2> QED
    BY <1>3, <1>6, <2>1, <2>2
<1>11. Nat \subseteq K
  <2> HIDE DEF K
  <2> QED
    BY <1>9, <1>10, Inductive
<1>12. r[n] = e
  <2>1. n \in K /\ n <= n
    BY <1>11
  <2> QED
    BY <2>1
<1>13. FillLoop(d, average, order) = e
  BY <1>3, <1>7, <1>12 DEF FillLoop
<1>14. PICK g : g = ListFill(d, average)
  OBVIOUS
<1>15. g = [e EXCEPT !.loaded  = Reloaded(e.services, d.loaded, e.changed),
                     !.changed = d.changed \cup @]
  BY <1>1, <1>13, <1>14 DEF ListFill
<1>16. Closes(g, e, d, D)
  BY <1>5, <1>15, ReloadCloses
<1> QED
  BY <1>4, <1>14, <1>16, IdleCloses

LEMMA ClipIdle ==
    ASSUME NEW D, IsFiniteSet(D), D # {}, D \subseteq Nat, NEW d \in States(D), NEW average \in Nat,
           ~ClippingDue(Abs(d)) \/ Level(d, D, average)
    PROVE  ListClipping(d, average) = d
<1>1. CASE ~ClippingDue(Abs(d))
  BY <1>1, ListClippingDone
<1>2. CASE ClippingDue(Abs(d))
  <2>1. PICK g : g = ListClipping(d, average)
    OBVIOUS
  <2>2. PICK order : order = Descending(d.loaded)
    OBVIOUS
  <2>3. order \in Seq(D) /\ Ordered(order, D, Heaviest(d.loaded, D))
    <3>1. d.loaded \in [D -> Nat]
      BY StateIs
    <3> QED
      BY <2>2, <3>1, DescendingIs DEF Ordered
  <2>4. PICK n \in Nat : n = Len(order) /\ \A i \in 1..n : order[i] \in D
    BY <2>3
  <2>5. PICK e : e = Fresh(d)
    OBVIOUS
  <2>6. e \in States(D) /\ e.loaded = d.loaded
    BY <2>5, FreshIs
  <2>7. ASSUME NEW s \in D PROVE ClipOne(e, average, s) = e
    <3>1. d.loaded[s] \in Nat /\ d.loaded[s] <= average
      BY <1>2, StateIs DEF Level
    <3>2. Len(e.services[s]) \in Nat
      BY <2>6, StateIs, Elements
    <3>3. Min({e.loaded[s] - average, Len(e.services[s])}) <= 0
      <4>1. PICK a \in Int, b \in Nat : a = e.loaded[s] - average /\ b = Len(e.services[s]) /\ a <= 0
        BY <2>6, <3>1, <3>2
      <4>2. Min({a, b}) = IF a <= b THEN a ELSE b
        BY MinIs
      <4> QED
        BY <4>1, <4>2
    <3> QED
      BY <3>3 DEF ClipOne
  <2>8. PICK r : r = ClipRounds(d, average, order)
    OBVIOUS
  <2>9. r[0] = e /\ \A i \in 1..n : r[i] = ClipOne(r[i - 1], average, order[i])
    <3>1. ClipRun(r, d, average, order, D)
      BY <2>3, <2>8, ClipRoundsRun
    <3> QED
      BY <2>4, <2>5, <3>1 DEF ClipRun
  <2> DEFINE K == {k \in Nat : k <= n => r[k] = e}
  <2>10. 0 \in K
    BY <2>9
  <2>11. ASSUME NEW k \in Nat, k \in K PROVE k + 1 \in K
    <3> SUFFICES ASSUME k + 1 <= n PROVE r[k + 1] = e
      OBVIOUS
    <3>1. k + 1 \in 1..n /\ (k + 1) - 1 = k /\ r[k] = e
      BY <2>11
    <3>2. r[k + 1] = ClipOne(e, average, order[k + 1])
      BY <2>9, <3>1
    <3> QED
      BY <2>4, <2>7, <3>1, <3>2
  <2>12. Nat \subseteq K
    <3> HIDE DEF K
    <3> QED
      BY <2>10, <2>11, Inductive
  <2>13. r[n] = e
    <3>1. n \in K /\ n <= n
      BY <2>12
    <3> QED
      BY <3>1
  <2>14. ClipLoop(d, average, order) = e
    BY <2>4, <2>8, <2>13 DEF ClipLoop
  <2>15. tooFree(d.loaded[Last(order)]) \/ tooBusy(d.loaded[Head(order)])
    BY <1>2, <2>3, EndsTell
  <2>16. g = [e EXCEPT !.loaded  = Reloaded(e.services, d.loaded, e.changed),
                       !.changed = d.changed \cup @]
    BY <2>1, <2>2, <2>14, <2>15 DEF ListClipping
  <2>17. Closes(g, e, d, D)
    BY <2>6, <2>16, ReloadCloses
  <2> QED
    BY <2>1, <2>5, <2>17, IdleCloses
<1> QED
  BY <1>1, <1>2

\* What a call leaves when the loads were true.
LEMMA CallSettles ==
    ASSUME NEW D, IsFiniteSet(D), D # {}, D \subseteq Nat, NEW in, Start(in) \in States(D),
           Truthful(Start(in), D), NEW d, d = ListDistribution(in),
           NEW average \in Nat, average = countPerService(in.known, in.services)
    PROVE  d \in States(D) /\ Settled(d, D, average)
<1>1. PICK start : start = Start(in)
  OBVIOUS
<1>2. start \in States(D) /\ start.services = in.services /\ Truthful(start, D)
  BY <1>1 DEF Start
<1>3. DOMAIN in.services = D
  BY <1>2, StateIs
<1>4. PICK f, c : f = ListFill(start, average) /\ c = ListClipping(f, average)
  OBVIOUS
<1>5. d = IF c.undist = <<>> THEN c ELSE ListFill(c, average)
  BY <1>1, <1>3, <1>4, CallIs
<1>6. f \in States(D) /\ Truthful(f, D) /\ Filled(f, D, average)
  BY <1>2, <1>4, FillBalances
<1>7. CASE ClippingDue(Abs(f))
  <2>1. c \in States(D) /\ Truthful(c, D) /\ Level(c, D, average)
    BY <1>4, <1>6, <1>7, ClipBalances
  <2>2. CASE c.undist = <<>>
    BY <1>5, <2>1, <2>2 DEF Settled, Filled
  <2>3. CASE c.undist # <<>>
    <3>1. d = ListFill(c, average)
      BY <1>5, <2>3
    <3>2. d \in States(D) /\ Filled(d, D, average) /\ Level(d, D, average)
      BY <2>1, <3>1, FillBalances
    <3> QED
      BY <3>2 DEF Settled
  <2> QED
    BY <2>2, <2>3
<1>8. CASE ~ClippingDue(Abs(f))
  <2>1. c = f
    BY <1>4, <1>6, <1>8, ListClippingDone
  <2>2. ListFill(f, average) = f
    BY <1>6, FillIdle
  <2>3. d = f
    BY <1>5, <2>1, <2>2
  <2> QED
    BY <1>6, <1>8, <2>3 DEF Settled
<1> QED
  BY <1>7, <1>8

\* A call that finds everything settled changes nothing.
LEMMA SettledStays ==
    ASSUME NEW D, IsFiniteSet(D), D # {}, D \subseteq Nat, NEW in, NEW start, start = Start(in),
           start \in States(D), NEW average \in Nat,
           average = countPerService(in.known, in.services), Settled(start, D, average)
    PROVE  ListDistribution(in) = start
<1>1. DOMAIN in.services = D
  <2>1. start.services = in.services
    BY DEF Start
  <2> QED
    BY <2>1, StateIs
<1>2. ListFill(start, average) = start
  BY FillIdle DEF Settled
<1>3. ListClipping(start, average) = start
  BY ClipIdle DEF Settled
<1>4. PICK f, c : f = ListFill(start, average) /\ c = ListClipping(f, average)
  OBVIOUS
<1>5. ListDistribution(in) = IF c.undist = <<>> THEN c ELSE ListFill(c, average)
  BY <1>1, <1>4, CallIs
<1> QED
  BY <1>2, <1>3, <1>4, <1>5

(***************************************************************************)
(* With accurate loads the outcome of a call is settled, whatever the      *)
(* number of matches and services: calling operator() again at once moves  *)
(* no match, not even within a list.                                       *)
(***************************************************************************)
THEOREM DistributionsSettle == Spec => []DistributionSettles
<1>1. IInv => DistributionSettles
  <2> SUFFICES ASSUME IInv, call = "returned",
                      \A s \in DOMAIN input.services : input.loaded[s] = Len(input.services[s]),
                      NEW again, again = ListDistribution([services |-> output.services,
                                             loaded |-> output.loaded, undist |-> output.undist,
                                             known |-> input.known])
               PROVE  again.services = output.services /\ again.undist = output.undist
    BY DEF DistributionSettles
  <2>1. PICK D \in SUBSET Sids : Start(input) \in States(D)
    BY DEF IInv
  <2>2. IsFiniteSet(D) /\ D \subseteq Nat
    BY InputsAssumption, FS_Subset
  <2>3. PICK in, d : in = input /\ d = output
    OBVIOUS
  <2>4. d = ListDistribution(in) /\ Start(in) \in States(D) /\ in.known \in SUBSET Matches
    BY <2>1, <2>3 DEF IInv
  <2>5. PICK next : next = [services |-> d.services, loaded |-> d.loaded, undist |-> d.undist,
                            known |-> in.known]
    OBVIOUS
  <2>6. again = ListDistribution(next)
    BY <2>3, <2>5
  <2>7. PICK start : start = Start(next)
    OBVIOUS
  <2>8. d \in States(D)
    BY <2>2, <2>4, CallRefines
  <2>9. start = Fresh(d) /\ start.services = d.services /\ start.undist = d.undist
    <3>1. /\ start.services = d.services /\ start.loaded = d.loaded
          /\ start.undist = d.undist /\ start.changed = {}
      BY <2>5, <2>7 DEF Start
    <3>2. start \in States(D)
      BY <2>8, <3>1, <2>5, <2>7 DEF Start, States, ListRecord
    <3>3. PICK e : e = Fresh(d)
      OBVIOUS
    <3>4. /\ e \in States(D) /\ e.services = d.services
          /\ e.loaded = d.loaded /\ e.undist = d.undist /\ e.changed = {}
      BY <2>8, <3>3, FreshIs
    <3>5. start = e
      BY <3>1, <3>2, <3>4, SameState
    <3> QED
      BY <3>1, <3>3, <3>5
  <2>10. CASE D = {}
    <3>1. DOMAIN next.services = {}
      BY <2>5, <2>8, <2>10, StateIs
    <3>2. again = start
      BY <2>6, <2>7, <3>1 DEF ListDistribution, Start
    <3> QED
      BY <2>3, <2>9, <3>2
  <2>11. CASE D # {}
    <3>1. DOMAIN in.services = D /\ DOMAIN next.services = D
      <4>1. Start(in).services = in.services
        BY DEF Start
      <4> QED
        BY <2>4, <2>5, <2>8, <4>1, StateIs
    <3>2. PICK average \in Nat : average = countPerService(in.known, in.services)
      BY <2>2, <2>4, <2>11, <3>1, AverageIs
    <3>3. average = countPerService(next.known, next.services)
      BY <2>5, <3>1, <3>2 DEF countPerService
    <3>4. Truthful(Start(in), D)
      <4>1. PICK e : e = Start(in)
        OBVIOUS
      <4>2. e \in States(D) /\ e.services = in.services /\ e.loaded = in.loaded
        BY <2>4, <4>1 DEF Start
      <4>3. \A s \in D : in.loaded[s] = Len(in.services[s])
        BY <2>3, <3>1
      <4>4. \A s \in D : Cardinality(ToSet(e.services[s])) = Len(e.services[s])
        BY <4>2, ListsFinite
      <4> QED
        BY <4>1, <4>2, <4>3, <4>4 DEF Truthful
    <3>5. Settled(d, D, average)
      BY <2>2, <2>4, <2>11, <3>2, <3>4, CallSettles
    <3>6. start \in States(D) /\ start.loaded = d.loaded /\ start.undist = d.undist
      BY <2>8, <2>9, FreshIs
    <3>7. Settled(start, D, average)
      <4>1. Filled(start, D, average) /\ (Level(start, D, average) <=> Level(d, D, average))
        BY <3>5, <3>6 DEF Settled, Filled, Level
      <4>2. /\ Abs(start).loaded = Abs(d).loaded /\ DOMAIN Abs(start).services = D
            /\ DOMAIN Abs(d).services = D
        BY <2>8, <3>6, AbsIs
      <4>3. ClippingDue(Abs(start)) <=> ClippingDue(Abs(d))
        BY <4>2 DEF ClippingDue
      <4> QED
        BY <3>5, <4>1, <4>3 DEF Settled
    <3>8. again = start
      BY <2>2, <2>6, <2>7, <2>11, <3>3, <3>6, <3>7, SettledStays
    <3> QED
      BY <2>3, <2>9, <3>8
  <2> QED
    BY <2>10, <2>11
<1> QED
  BY <1>1, CallInvariant, PTL
=============================================================================
