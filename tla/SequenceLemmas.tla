--------------------------- MODULE SequenceLemmas ---------------------------
(* What the proofs about the filters need to know of the sequences in which   *)
(* packets wait: nothing here is about the code.                              *)
EXTENDS Integers, Sequences, FiniteSets, SequenceTheorems, FiniteSetTheorems, TLAPS

\* A sequence with one more element at its end.
LEMMA Appended ==
  ASSUME NEW S, NEW s \in Seq(S), NEW p \in S, NEW r, r = Append(s, p)
  PROVE  /\ r \in Seq(S) /\ r # <<>>
         /\ Len(s) \in Nat /\ Len(r) = Len(s) + 1
         /\ r[Len(s) + 1] = p /\ r[Len(r)] = p
         /\ \A i \in 1..Len(s) : r[i] = s[i]
         /\ 1..Len(r) = 1..Len(s) \cup {Len(s) + 1} /\ Len(s) + 1 \notin 1..Len(s)
OBVIOUS

\* Appending an element adds it to those in the sequence.
LEMMA AppendElements ==
  ASSUME NEW S, NEW s \in Seq(S), NEW p \in S, NEW r, r = Append(s, p)
  PROVE  \A x : (\E i \in 1..Len(r) : r[i] = x) <=> x = p \/ \E i \in 1..Len(s) : s[i] = x
<1>1. /\ r[Len(s) + 1] = p /\ \A i \in 1..Len(s) : r[i] = s[i]
      /\ 1..Len(r) = (1..Len(s)) \cup {Len(s) + 1}
  BY Appended
<1> QED
  BY <1>1, Zenon

\* What remains of a sequence when its first n elements are taken away, when
\* something is appended to it, and when its head is taken as well.
LEMMA Remainder ==
  ASSUME NEW S, NEW s \in Seq(S), NEW n \in 0..Len(s)
  PROVE  /\ SubSeq(s, n + 1, Len(s)) \in Seq(S)
         /\ Len(SubSeq(s, n + 1, Len(s))) = Len(s) - n
         /\ \A p \in S :
              SubSeq(Append(s, p), n + 1, Len(Append(s, p))) = Append(SubSeq(s, n + 1, Len(s)), p)
         /\ n < Len(s) => /\ Head(SubSeq(s, n + 1, Len(s))) = s[n + 1]
                          /\ SubSeq(s, n + 1, Len(s)) # <<>>
                          /\ Tail(SubSeq(s, n + 1, Len(s))) = SubSeq(s, n + 2, Len(s))
<1> DEFINE r == SubSeq(s, n + 1, Len(s))
<1>1. /\ Len(s) \in Nat /\ n \in Nat /\ n <= Len(s) /\ r \in Seq(S) /\ Len(r) = Len(s) - n
      /\ \A i \in 1..Len(r) : r[i] = s[n + i]
  OBVIOUS
<1> HIDE DEF r
<1>2. ASSUME NEW p \in S
      PROVE  SubSeq(Append(s, p), n + 1, Len(Append(s, p))) = Append(r, p)
  <2> DEFINE a == Append(s, p)
             b == SubSeq(a, n + 1, Len(a))
  <2>1. /\ a \in Seq(S) /\ Len(a) = Len(s) + 1 /\ a[Len(s) + 1] = p
        /\ \A i \in 1..Len(s) : a[i] = s[i]
    OBVIOUS
  <2> HIDE DEF a
  <2>2. b \in Seq(S) /\ Len(b) = Len(a) - n /\ \A i \in 1..Len(b) : b[i] = a[n + i]
    BY <1>1, <2>1
  <2>3. /\ Append(r, p) \in Seq(S) /\ Len(Append(r, p)) = Len(r) + 1
        /\ Append(r, p)[Len(r) + 1] = p /\ \A i \in 1..Len(r) : Append(r, p)[i] = r[i]
    BY <1>1
  <2> HIDE DEF b
  <2>4. ASSUME NEW i \in 1..Len(b) PROVE b[i] = Append(r, p)[i]
    <3>1. CASE i = Len(r) + 1
      <4>1. n + i = Len(s) + 1
        BY <1>1, <3>1
      <4> QED
        BY <2>1, <2>2, <2>3, <3>1, <4>1
    <3>2. CASE i # Len(r) + 1
      <4>1. i \in 1..Len(r) /\ n + i \in 1..Len(s)
        BY <1>1, <2>1, <2>2, <3>2
      <4> QED
        BY <1>1, <2>1, <2>2, <2>3, <4>1
    <3> QED
      BY <3>1, <3>2
  <2>5. Len(b) = Len(Append(r, p))
    BY <1>1, <2>1, <2>2, <2>3
  <2>6. b = Append(r, p)
    BY <2>2, <2>3, <2>4, <2>5, SeqEqual
  <2> QED
    BY <2>6 DEF a, b
<1>3. ASSUME n < Len(s)
      PROVE  Head(r) = s[n + 1] /\ r # <<>> /\ Tail(r) = SubSeq(s, n + 2, Len(s))
  <2> DEFINE u == SubSeq(s, n + 2, Len(s))
  <2>1. u \in Seq(S) /\ Len(u) = Len(s) - n - 1 /\ \A i \in 1..Len(u) : u[i] = s[n + 1 + i]
    <3>1. n + 2 \in 1..(Len(s) + 1) /\ Len(s) \in 0..Len(s)
      BY <1>1, <1>3
    <3> QED
      BY <3>1
  <2>2. r # <<>> /\ Len(r) > 0
    BY <1>1, <1>3
  <2>3. Head(r) = r[1] /\ r[1] = s[n + 1]
    BY <1>1, <2>2
  <2>4. Tail(r) \in Seq(S) /\ Len(Tail(r)) = Len(r) - 1 /\ \A i \in 1..Len(Tail(r)) : Tail(r)[i] = r[i + 1]
    BY <1>1, <2>2
  <2> HIDE DEF u
  <2>5. Len(Tail(r)) = Len(u) /\ \A i \in 1..Len(Tail(r)) : Tail(r)[i] = u[i]
    BY <1>1, <2>1, <2>4, SMTT(30)
  <2>6. Tail(r) = u
    BY <2>1, <2>4, <2>5, SeqEqual
  <2> QED
    BY <2>2, <2>3, <2>6 DEF u
<1> QED
  BY <1>1, <1>2, <1>3 DEF r

\* A sequence without repetitions is no longer than the set it is from is large.
LEMMA NoRepetition ==
  ASSUME NEW S, IsFiniteSet(S), NEW s \in Seq(S),
         \A i, j \in 1..Len(s) : s[i] = s[j] => i = j
  PROVE  Len(s) <= Cardinality(S)
<1>1. s \in [1..Len(s) -> S] /\ Len(s) \in Nat /\ DOMAIN s = 1..Len(s)
  BY LenProperties
<1>2. IsInjective(s)
  BY <1>1 DEF IsInjective
<1>4. s \in Injection(1..Len(s), S)
  BY <1>1, <1>2 DEF Injection
<1>3. Cardinality(1..Len(s)) = Len(s)
  <2>1. Cardinality(1..Len(s)) = IF 1 > Len(s) THEN 0 ELSE Len(s) - 1 + 1
    BY <1>1, FS_Interval
  <2> QED
    BY <1>1, <2>1
<1> QED
  BY <1>3, <1>4, FS_Injection

\* What is in a sequence from which nothing, or the first element, is taken.
LEMMA RemainderElements ==
  ASSUME NEW S, NEW s \in Seq(S), NEW n \in 0..Len(s)
  PROVE  \A i \in 1..Len(SubSeq(s, n + 1, Len(s))) :
           SubSeq(s, n + 1, Len(s))[i] = s[n + i] /\ n + i \in (n + 1)..Len(s)
OBVIOUS

\* A sequence with one more element before it and one behind.
LEMMA Enclosed ==
  ASSUME NEW S, NEW s \in Seq(S), NEW a \in S, NEW b \in S,
         NEW l, l = <<a>> \o s \o <<b>>
  PROVE  /\ l \in Seq(S) /\ Len(l) = Len(s) + 2 /\ l[1] = a /\ l[Len(l)] = b
         /\ \A i \in 2..Len(l) - 1 : i - 1 \in 1..Len(s) /\ l[i] = s[i - 1]
<1> DEFINE v == <<a>>
           w == <<b>>
           u == v \o s
           m == u \o w
<1>1. /\ v \in Seq(S) /\ Len(v) = 1 /\ v[1] = a
      /\ w \in Seq(S) /\ Len(w) = 1 /\ w[1] = b
  OBVIOUS
<1>2. Len(s) \in Nat
  OBVIOUS
<1>3. l = m
  OBVIOUS
<1> HIDE DEF v, w
<1>4. u \in Seq(S)
  BY <1>1, ConcatProperties
<1>5. /\ Len(u) = Len(v) + Len(s)
      /\ \A i \in 1..Len(v) + Len(s) : u[i] = IF i <= Len(v) THEN v[i] ELSE s[i - Len(v)]
  BY <1>1, ConcatProperties, Zenon
<1> HIDE DEF u
<1>6. w \in Seq(S)
  BY <1>1
<1>7. /\ m \in Seq(S) /\ Len(m) = Len(u) + Len(w)
      /\ \A i \in 1..Len(u) + Len(w) : m[i] = IF i <= Len(u) THEN u[i] ELSE w[i - Len(u)]
  BY <1>4, <1>6, ConcatProperties, Zenon
<1> HIDE DEF m
<1>8. u[1] = a /\ \A i \in 2..1 + Len(s) : u[i] = s[i - 1]
  BY <1>1, <1>2, <1>5
<1>9. Len(m) = Len(s) + 2 /\ m[1] = a /\ m[Len(m)] = b
  BY <1>1, <1>2, <1>5, <1>7, <1>8
<1>10. ASSUME NEW i \in 2..Len(m) - 1 PROVE i - 1 \in 1..Len(s) /\ m[i] = s[i - 1]
  BY <1>1, <1>2, <1>5, <1>7, <1>8, <1>9
<1> QED
  BY <1>3, <1>7, <1>9, <1>10

\* A sequence from which the k-th element is taken: where the others are then.
Without(s, k) == [j \in 1..Len(s) - 1 |-> IF j < k THEN s[j] ELSE s[j + 1]]

Shifted(s, k, r) ==
  /\ Len(s) \in Nat /\ Len(r) = Len(s) - 1
  /\ \A j \in 1..Len(r) : \E l \in 1..Len(s) : /\ r[j] = s[l] /\ l # k
                                               /\ l = IF j < k THEN j ELSE j + 1
  /\ \A l \in 1..Len(s) : l # k => \E j \in 1..Len(r) : /\ r[j] = s[l]
                                                         /\ l = IF j < k THEN j ELSE j + 1

\* The others stay, and stay apart.
LEMMA WithoutOne ==
  ASSUME NEW S, NEW s \in Seq(S), NEW k \in 1..Len(s), NEW r, r = Without(s, k)
  PROVE  r \in Seq(S) /\ Shifted(s, k, r)
<1>1. Len(s) \in Nat /\ k \in Nat /\ 1 <= k /\ k <= Len(s) /\ Len(s) - 1 \in Nat
  OBVIOUS
<1>2. \A j \in 1..Len(s) - 1 : /\ j \in 1..Len(s) /\ j + 1 \in 1..Len(s)
                               /\ s[j] \in S /\ s[j + 1] \in S
  BY <1>1
<1>3. \A j \in 1..Len(s) - 1 : (IF j < k THEN s[j] ELSE s[j + 1]) \in S
  BY <1>2
<1>4. /\ r \in [1..Len(s) - 1 -> S]
      /\ \A j \in 1..Len(s) - 1 : r[j] = IF j < k THEN s[j] ELSE s[j + 1]
  BY <1>3 DEF Without
<1>5. r \in Seq(S) /\ Len(r) = Len(s) - 1
  BY <1>1, <1>4
<1>6. ASSUME NEW j \in 1..Len(r)
      PROVE  \E l \in 1..Len(s) : r[j] = s[l] /\ l # k /\ l = IF j < k THEN j ELSE j + 1
  <2>1. CASE j < k
    <3>1. j \in 1..Len(s) /\ j # k /\ r[j] = s[j]
      BY <1>1, <1>2, <1>4, <1>5, <2>1
    <3> QED
      BY <2>1, <3>1
  <2>2. CASE ~(j < k)
    <3>1. j + 1 \in 1..Len(s) /\ j + 1 # k /\ r[j] = s[j + 1]
      BY <1>1, <1>2, <1>4, <1>5, <2>2
    <3> QED
      BY <2>2, <3>1
  <2> QED
    BY <2>1, <2>2
<1>7. ASSUME NEW l \in 1..Len(s), l # k
      PROVE  \E j \in 1..Len(r) : r[j] = s[l] /\ l = IF j < k THEN j ELSE j + 1
  <2>1. CASE l < k
    <3>1. l \in 1..Len(r) /\ r[l] = s[l]
      BY <1>1, <1>4, <1>5, <2>1
    <3> QED
      BY <2>1, <3>1
  <2>2. CASE ~(l < k)
    <3>1. l - 1 \in 1..Len(r) /\ ~(l - 1 < k) /\ (l - 1) + 1 = l
      BY <1>1, <1>5, <1>7, <2>2
    <3>2. r[l - 1] = s[l]
      BY <1>4, <1>5, <3>1
    <3> QED
      BY <3>1, <3>2
  <2> QED
    BY <2>1, <2>2
<1> QED
  BY <1>1, <1>5, <1>6, <1>7 DEF Shifted

\* Who is before whom: it stays so when one more comes, and when another goes.
Before(s, a, b) == \E j, k \in 1..Len(s) : j < k /\ s[j] = a /\ s[k] = b

\* Who is appended comes after all.
LEMMA BeforeAppend ==
  ASSUME NEW S, NEW s \in Seq(S), NEW p \in S, NEW a,
         NEW r, r = Append(s, p)
  PROVE  /\ \A b : Before(s, a, b) => Before(r, a, b)
         /\ (\E j \in 1..Len(s) : s[j] = a) => Before(r, a, p)
<1>1. /\ Len(s) \in Nat /\ Len(r) = Len(s) + 1 /\ r[Len(s) + 1] = p
      /\ \A j \in 1..Len(s) : r[j] = s[j] /\ j \in 1..Len(r)
      /\ Len(s) + 1 \in 1..Len(r) /\ \A j \in 1..Len(s) : j < Len(s) + 1
  OBVIOUS
<1>2. ASSUME NEW b, Before(s, a, b) PROVE Before(r, a, b)
  BY <1>1, <1>2 DEF Before
<1>3. ASSUME NEW j \in 1..Len(s), s[j] = a PROVE Before(r, a, p)
  BY <1>1, <1>3 DEF Before
<1> QED
  BY <1>2, <1>3

\* Taking one away does not change the order of the others.
LEMMA BeforeWithout ==
  ASSUME NEW S, NEW s \in Seq(S), NEW k \in 1..Len(s), NEW r, r = Without(s, k)
  PROVE  \A a, b : a # s[k] /\ b # s[k] /\ Before(s, a, b) => Before(r, a, b)
<1>1. Shifted(s, k, r)
  BY WithoutOne
<1> SUFFICES ASSUME NEW a, NEW b, a # s[k], b # s[k], Before(s, a, b) PROVE Before(r, a, b)
  OBVIOUS
<1>2. PICK l, m \in 1..Len(s) : l < m /\ s[l] = a /\ s[m] = b
  BY DEF Before
<1>3. PICK i \in 1..Len(r) : r[i] = a /\ l = IF i < k THEN i ELSE i + 1
  BY <1>1, <1>2 DEF Shifted
<1>4. PICK j \in 1..Len(r) : r[j] = b /\ m = IF j < k THEN j ELSE j + 1
  BY <1>1, <1>2 DEF Shifted
<1>5. i < j
  <2>1. i \in Nat /\ j \in Nat /\ k \in Nat /\ l \in Nat /\ m \in Nat
    <3>1. Len(r) = Len(s) - 1 /\ Len(s) \in Nat
      BY <1>1 DEF Shifted
    <3> QED
      BY <3>1
  <2> QED
    BY <1>2, <1>3, <1>4, <2>1
<1> QED
  BY <1>3, <1>4, <1>5 DEF Before

\* How many of the first k elements of a sequence are in a set.
Count(s, S, k) == Cardinality({j \in 1..k : s[j] \in S})

\* One more counts if it is in the set.
LEMMA Counting ==
  ASSUME NEW s, NEW S, NEW k \in Nat
  PROVE  /\ Count(s, S, k) \in Nat
         /\ Count(s, S, 0) = 0
         /\ Count(s, S, k + 1) = IF s[k + 1] \in S THEN Count(s, S, k) + 1 ELSE Count(s, S, k)
         /\ \A i \in 0..k : Count(s, S, i) \in Nat /\ Count(s, S, i) <= Count(s, S, k)
<1> DEFINE C(m) == {j \in 1..m : s[j] \in S}
<1>1. \A m \in Nat : IsFiniteSet(C(m)) /\ Cardinality(C(m)) \in Nat
  <2> TAKE m \in Nat
  <2>1. IsFiniteSet(1..m)
    BY FS_Interval
  <2>2. C(m) \in SUBSET (1..m)
    OBVIOUS
  <2>3. IsFiniteSet(C(m))
    BY <2>1, <2>2, FS_Subset
  <2> QED
    BY <2>3, FS_CardinalityType
<1>2. Cardinality(C(0)) = 0
  <2>1. C(0) = {}
    OBVIOUS
  <2> QED
    BY <2>1, FS_EmptySet
<1>3. Cardinality(C(k + 1)) = IF s[k + 1] \in S THEN Cardinality(C(k)) + 1 ELSE Cardinality(C(k))
  <2>1. CASE s[k + 1] \in S
    <3>1. C(k + 1) = C(k) \cup {k + 1} /\ k + 1 \notin C(k)
      BY <2>1
    <3> QED
      BY <1>1, <2>1, <3>1, FS_AddElement
  <2>2. CASE s[k + 1] \notin S
    <3>1. C(k + 1) = C(k)
      BY <2>2
    <3> QED
      BY <2>2, <3>1
  <2> QED
    BY <2>1, <2>2
<1>4. ASSUME NEW i \in 0..k PROVE Cardinality(C(i)) \in Nat /\ Cardinality(C(i)) <= Cardinality(C(k))
  <2>1. C(i) \in SUBSET C(k) /\ i \in Nat
    OBVIOUS
  <2> QED
    BY <1>1, <2>1, FS_Subset
<1> QED
  BY <1>1, <1>2, <1>3, <1>4 DEF Count

\* Taking the head off.
LEMMA Shorter ==
  ASSUME NEW S, NEW s \in Seq(S), s # <<>>
  PROVE  /\ Len(s) \in Nat /\ Len(s) >= 1 /\ Head(s) = s[1]
         /\ Tail(s) \in Seq(S) /\ Len(Tail(s)) = Len(s) - 1
         /\ Tail(s) = <<>> <=> Len(s) = 1
<1>1. /\ Len(s) \in Nat /\ Len(s) >= 1 /\ Head(s) = s[1]
      /\ Tail(s) \in Seq(S) /\ Len(Tail(s)) = Len(s) - 1
  OBVIOUS
<1>2. \A t \in Seq(S) : t = <<>> <=> Len(t) = 0
  BY EmptySeq
<1> DEFINE t == Tail(s)
           l == Len(s)
<1>3. t = <<>> <=> l - 1 = 0
  BY <1>1, <1>2
<1>4. l \in Nat
  BY <1>1
<1> HIDE DEF t, l
<1>5. t = <<>> <=> l = 1
  BY <1>3, <1>4
<1> QED
  BY <1>1, <1>5 DEF t, l
=============================================================================
