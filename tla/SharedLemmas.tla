---------------------------- MODULE SharedLemmas ----------------------------
(***************************************************************************)
(* What the proofs of several components rest on: induction and recursion  *)
(* over the natural numbers, for every first value and step; the two loops *)
(* of TransTable on any array of transitions; and the facts of a grammar,  *)
(* the least set closed under its productions.                             *)
(***************************************************************************)
EXTENDS TransTable, Derivations, SequenceTheorems, FiniteSetTheorems,
        WellFoundedInduction, TLAPS

----------------------------------------------------------------------------
(* Induction and recursion over the natural numbers.                       *)

LEMMA LeastNatural ==
  ASSUME NEW T \in SUBSET Nat, T # {}
  PROVE  \E n \in T : \A k \in T : n <= k
<1> DEFINE U == {0..n : n \in T}
<1>1. U \subseteq FiniteSubsetsOf(Nat) /\ U # {}
  <2>1. ASSUME NEW n \in T PROVE 0..n \in FiniteSubsetsOf(Nat)
    <3>1. n \in Nat
      OBVIOUS
    <3>2. IsFiniteSet(0..n)
      BY <3>1, FS_Interval
    <3>3. 0..n \subseteq Nat
      BY <3>1
    <3>4. QED
      BY <3>2, <3>3 DEF FiniteSubsetsOf
  <2>2. PICK n \in T : TRUE
    OBVIOUS
  <2>3. 0..n \in U
    BY <2>2
  <2>4. QED
    BY <2>1, <2>3
<1>2. PICK X \in U : \A Y \in U : ~(<<Y, X>> \in StrictSubsetOrdering(Nat))
  <2> HIDE DEF U
  <2>1. IsWellFoundedOn(StrictSubsetOrdering(Nat), FiniteSubsetsOf(Nat))
    BY FS_StrictSubsetOrderingWellFounded
  <2>2. QED
    BY <1>1, <2>1, WFMin
<1>3. PICK n \in T : X = 0..n
  OBVIOUS
<1>4. ASSUME NEW k \in T, k < n PROVE FALSE
  <2>1. 0..k \subseteq 0..n /\ n \in 0..n /\ n \notin 0..k
    BY <1>4
  <2>2. <<0..k, 0..n>> \in StrictSubsetOrdering(Nat)
    BY <2>1 DEF StrictSubsetOrdering
  <2>3. QED
    BY <1>2, <1>3, <2>2
<1>5. QED
  BY <1>4

LEMMA Induction ==
  ASSUME NEW T, 0 \in T, \A n \in Nat : n \in T => n + 1 \in T
  PROVE  Nat \subseteq T
<1> SUFFICES ASSUME Nat \ T # {} PROVE FALSE
  OBVIOUS
<1>1. PICK n \in Nat \ T : \A k \in Nat \ T : n <= k
  BY LeastNatural
<1>2. n # 0 /\ n - 1 \in Nat /\ n - 1 \in T
  BY <1>1
<1>3. QED
  BY <1>1, <1>2

\* A function on the natural numbers is given by what comes first and what
\* comes next.
Recursive(f, S, first, step) ==
  f \in [Nat -> S] /\ f[0] = first /\ \A n \in Nat : f[n + 1] = step[<<n, f[n]>>]
HasRecursive(S, first, step) == \E f : Recursive(f, S, first, step)

LEMMA Recursion ==
  ASSUME NEW S, NEW first \in S, NEW step \in [Nat \X S -> S]
  PROVE  HasRecursive(S, first, step)
<1> DEFINE Good(n, h) == /\ h \in [0..n -> S] /\ h[0] = first
                         /\ \A i \in 0..(n - 1) : h[i + 1] = step[<<i, h[i]>>]
           T == {n \in Nat : \E h : Good(n, h)}
           U == {i \in Nat : \A m, n \in Nat : \A h, k :
                   Good(m, h) /\ Good(n, k) /\ i <= m /\ i <= n => h[i] = k[i]}
<1>1. Nat \subseteq T
  <2>1. 0 \in T
    <3>1. Good(0, [i \in 0..0 |-> first])
      OBVIOUS
    <3>2. QED
      BY <3>1
  <2>2. ASSUME NEW n \in Nat, n \in T PROVE n + 1 \in T
    <3>1. PICK h : Good(n, h)
      BY <2>2
    <3> DEFINE k == [i \in 0..(n + 1) |-> IF i <= n THEN h[i] ELSE step[<<n, h[n]>>]]
    <3>2. k \in [0..(n + 1) -> S]
      <4>1. \A i \in 0..(n + 1) : i <= n => h[i] \in S
        BY <3>1
      <4>2. step[<<n, h[n]>>] \in S
        BY <3>1
      <4>3. QED
        BY <4>1, <4>2
    <3>3. k[0] = first
      BY <3>1
    <3>4. \A i \in 0..n : k[i + 1] = step[<<i, k[i]>>]
      <4>1. ASSUME NEW i \in 0..n, i < n PROVE k[i + 1] = step[<<i, k[i]>>]
        <5>1. i \in 0..(n - 1) /\ i + 1 \in 0..(n + 1) /\ i + 1 <= n /\ i \in 0..(n + 1) /\ i <= n
          BY <4>1
        <5>2. QED
          BY <3>1, <5>1
      <4>2. k[n + 1] = step[<<n, k[n]>>]
        OBVIOUS
      <4>3. \A i \in 0..n : i < n \/ i = n
        OBVIOUS
      <4>4. QED
        BY <4>1, <4>2, <4>3
    <3>5. (n + 1) - 1 = n
      OBVIOUS
    <3> HIDE DEF k
    <3>6. Good(n + 1, k)
      BY <3>2, <3>3, <3>4, <3>5
    <3>7. QED
      BY <3>6
  <2> HIDE DEF T
  <2>3. QED
    BY <2>1, <2>2, Induction
<1>2. Nat \subseteq U
  <2>1. 0 \in U
    OBVIOUS
  <2>2. ASSUME NEW i \in Nat, i \in U PROVE i + 1 \in U
    <3> SUFFICES ASSUME NEW m \in Nat, NEW n \in Nat, NEW h, NEW k,
                        Good(m, h), Good(n, k), i + 1 <= m, i + 1 <= n
                 PROVE  h[i + 1] = k[i + 1]
      OBVIOUS
    <3>1. i \in 0..(m - 1) /\ i \in 0..(n - 1) /\ i <= m /\ i <= n
      OBVIOUS
    <3>2. h[i] = k[i]
      <4> HIDE DEF Good
      <4>1. QED
        BY <2>2, <3>1
    <3>3. QED
      BY <3>1, <3>2
  <2> HIDE DEF U
  <2>3. QED
    BY <2>1, <2>2, Induction
<1> DEFINE f == [n \in Nat |-> (CHOOSE h : Good(n, h))[n]]
<1>3. ASSUME NEW n \in Nat PROVE \E h : Good(n, h) /\ f[n] = h[n]
  <2>1. \E h : Good(n, h)
    BY <1>1
  <2>2. Good(n, CHOOSE h : Good(n, h))
    BY <2>1
  <2>3. QED
    BY <2>2
<1>4. f \in [Nat -> S]
  <2>1. ASSUME NEW n \in Nat PROVE f[n] \in S
    <3>1. PICK h : Good(n, h) /\ f[n] = h[n]
      BY <1>3
    <3>2. QED
      BY <3>1
  <2>2. QED
    BY <2>1
<1>5. f[0] = first
  BY <1>3
<1>6. ASSUME NEW n \in Nat PROVE f[n + 1] = step[<<n, f[n]>>]
  <2>1. PICK h : Good(n, h) /\ f[n] = h[n]
    BY <1>3
  <2>2. PICK k : Good(n + 1, k) /\ f[n + 1] = k[n + 1]
    <3>1. n + 1 \in Nat
      OBVIOUS
    <3> HIDE DEF Good, f
    <3>2. QED
      BY <1>3, <3>1
  <2>3. h[n] = k[n]
    <3>1. n \in U /\ n <= n /\ n <= n + 1 /\ n + 1 \in Nat
      BY <1>2
    <3>2. QED
      BY <2>1, <2>2, <3>1
  <2>4. n \in 0..((n + 1) - 1)
    OBVIOUS
  <2>5. QED
    BY <2>1, <2>2, <2>3, <2>4
<1> HIDE DEF f
<1>7. QED
  BY <1>4, <1>5, <1>6 DEF HasRecursive, Recursive

\* The same on an initial piece of the natural numbers.
FromZero(D) == D \subseteq Nat /\ \A k \in D : k # 0 => k - 1 \in D
RecursiveOn(D, S, first, step) ==
  \E f \in [D -> S] : f = [k \in D |-> IF k = 0 THEN first ELSE step[<<k - 1, f[k - 1]>>]]

LEMMA RecursionOn ==
  ASSUME NEW S, NEW first \in S, NEW step \in [Nat \X S -> S], NEW D, FromZero(D)
  PROVE  RecursiveOn(D, S, first, step)
<1>1. PICK g : g \in [Nat -> S] /\ g[0] = first /\ \A n \in Nat : g[n + 1] = step[<<n, g[n]>>]
  <2>1. HasRecursive(S, first, step)
    BY Recursion
  <2>2. QED
    BY <2>1 DEF HasRecursive, Recursive
<1>0. D \subseteq Nat /\ \A k \in D : k # 0 => k - 1 \in D
  BY DEF FromZero
<1> DEFINE f == [k \in D |-> g[k]]
<1>2. ASSUME NEW k \in D PROVE f[k] = IF k = 0 THEN first ELSE step[<<k - 1, f[k - 1]>>]
  <2>1. CASE k = 0
    BY <1>1, <2>1
  <2>2. CASE k # 0
    <3>1. k - 1 \in D /\ k - 1 \in Nat /\ (k - 1) + 1 = k
      BY <1>0, <2>2
    <3>2. f[k] = g[k] /\ f[k - 1] = g[k - 1]
      BY <3>1
    <3> HIDE DEF f
    <3>3. QED
      BY <1>1, <2>2, <3>1, <3>2
  <2>3. QED
    BY <2>1, <2>2
<1>3. f \in [D -> S] /\ f = [k \in D |-> f[k]]
  BY <1>0, <1>1
<1> HIDE DEF f
<1>4. f = [k \in D |-> IF k = 0 THEN first ELSE step[<<k - 1, f[k - 1]>>]]
  BY <1>2, <1>3
<1>5. QED
  BY <1>3, <1>4 DEF RecursiveOn

\* A function that goes through a sequence from its front, as a loop does.
ScanOver(S, items, first, step) ==
  \E f \in [0..Len(items) -> S] :
    f = [k \in 0..Len(items) |-> IF k = 0 THEN first ELSE step[<<f[k - 1], items[k]>>]]

LEMMA ScanFrom ==
  ASSUME NEW S, NEW T, NEW items \in Seq(T), NEW first \in S, NEW step \in [S \X T -> S]
  PROVE  ScanOver(S, items, first, step)
<1> DEFINE n == Len(items)
           D == 0..n
           next == [p \in Nat \X S |-> IF p[1] < n THEN step[<<p[2], items[p[1] + 1]>>] ELSE p[2]]
<1>1. n \in Nat /\ \A k \in 1..n : items[k] \in T
  OBVIOUS
<1>2. next \in [Nat \X S -> S]
  <2>1. ASSUME NEW p \in Nat \X S
        PROVE  (IF p[1] < n THEN step[<<p[2], items[p[1] + 1]>>] ELSE p[2]) \in S
    <3>1. p[1] \in Nat /\ p[2] \in S
      OBVIOUS
    <3>2. CASE p[1] < n
      <4>1. p[1] + 1 \in 1..n
        BY <1>1, <3>1, <3>2
      <4>2. <<p[2], items[p[1] + 1]>> \in S \X T
        BY <1>1, <3>1, <4>1
      <4>3. QED
        BY <3>2, <4>2
    <3>3. CASE ~(p[1] < n)
      BY <3>1, <3>3
    <3>4. QED
      BY <3>2, <3>3
  <2>2. QED
    BY <2>1
<1>3. FromZero(D)
  BY <1>1 DEF FromZero
<1>4. \A i \in Nat, s \in S : i < n => next[<<i, s>>] = step[<<s, items[i + 1]>>]
  <2> SUFFICES ASSUME NEW i \in Nat, NEW s \in S, i < n
               PROVE  next[<<i, s>>] = step[<<s, items[i + 1]>>]
    OBVIOUS
  <2> DEFINE p == <<i, s>>
  <2>1. p \in Nat \X S /\ p[1] = i /\ p[2] = s
    OBVIOUS
  <2> HIDE DEF p
  <2>2. next[p] = step[<<p[2], items[p[1] + 1]>>]
    BY <2>1
  <2>3. QED
    BY <2>1, <2>2 DEF p
<1> HIDE DEF next
<1>5. PICK f \in [D -> S] : f = [k \in D |-> IF k = 0 THEN first ELSE next[<<k - 1, f[k - 1]>>]]
  <2> HIDE DEF D
  <2>1. RecursiveOn(D, S, first, next)
    BY <1>2, <1>3, RecursionOn
  <2>2. QED
    BY <2>1 DEF RecursiveOn
<1>6. ASSUME NEW k \in D
      PROVE  f[k] = IF k = 0 THEN first ELSE step[<<f[k - 1], items[k]>>]
  <2>1. CASE k = 0
    BY <1>5, <2>1
  <2>2. CASE k # 0
    <3>1. k - 1 \in Nat /\ k - 1 < n /\ (k - 1) + 1 = k /\ k - 1 \in D
      BY <1>1, <2>2
    <3>2. f[k] = next[<<k - 1, f[k - 1]>>]
      BY <1>5, <2>2
    <3>3. f[k - 1] \in S
      BY <1>5, <3>1
    <3>4. next[<<k - 1, f[k - 1]>>] = step[<<f[k - 1], items[(k - 1) + 1]>>]
      BY <1>4, <3>1, <3>3
    <3>5. QED
      BY <2>2, <3>1, <3>2, <3>4
  <2>3. QED
    BY <2>1, <2>2
<1>7. f = [k \in D |-> f[k]]
  BY <1>5
<1>8. f = [k \in D |-> IF k = 0 THEN first ELSE step[<<f[k - 1], items[k]>>]]
  BY <1>6, <1>7
<1>9. QED
  BY <1>8 DEF ScanOver

----------------------------------------------------------------------------
(* The array of transitions: the insertion keeps it sorted, and on a       *)
(* sorted array the index loop keeps every row exact.                      *)

\* The keys are totally ordered, by their states first.
LEMMA KeysOrdered ==
  ASSUME NEW s \in Transition, NEW t \in Transition
  PROVE  /\ KeyLE(s, t) \/ KeyLE(t, s)
         /\ KeyLE(s, t) => s.q <= t.q
<1>1. /\ s.q \in Nat /\ s.a \in Nat /\ s.top \in Nat
      /\ t.q \in Nat /\ t.a \in Nat /\ t.top \in Nat
  BY DEF Transition
<1>2. QED
  BY <1>1 DEF KeyLE

LEMMA ElementsTyped ==
  ASSUME NEW s \in Seq(Transition)
  PROVE  /\ Len(s) \in Nat /\ DOMAIN s = 1..Len(s)
         /\ \A j \in 1..Len(s) : s[j] \in Transition /\ s[j].q \in Nat
<1>1. Len(s) \in Nat /\ DOMAIN s = 1..Len(s) /\ \A j \in 1..Len(s) : s[j] \in Transition
  BY LenProperties, ElementOfSeq
<1>2. QED
  BY <1>1 DEF Transition

\* Inserting a record where the stable sort puts it keeps the array sorted.
LEMMA InsertedSorted ==
  ASSUME NEW s \in Seq(Transition), NEW t \in Transition, NEW k, SortedByKey(s), SortPosition(s, t, k)
  PROVE  SortedByKey(Inserted(s, t, k)) /\ Len(Inserted(s, t, k)) = Len(s) + 1
<1>1. /\ Len(s) \in Nat /\ k \in 1..(Len(s) + 1)
      /\ \A j \in 1..Len(s) : s[j] \in Transition
  BY ElementsTyped DEF SortPosition
<1> DEFINE r == Inserted(s, t, k)
<1>2. r \in [1..(Len(s) + 1) -> Transition]
  <2>1. \A j \in 1..(Len(s) + 1) : (IF j < k THEN s[j] ELSE IF j = k THEN t ELSE s[j - 1]) \in Transition
    BY <1>1
  <2>2. QED
    BY <2>1 DEF Inserted
<1>3. Len(s) + 1 \in Nat /\ Len(r) = Len(s) + 1
  <2>1. r \in Seq(Transition) /\ Len(s) + 1 \in Nat
    BY <1>1, <1>2, SeqDef
  <2>2. DOMAIN r = 1..(Len(s) + 1) /\ DOMAIN r = 1..Len(r) /\ Len(r) \in Nat
    BY <1>2, <2>1, LenProperties
  <2>3. QED
    BY <2>1, <2>2
<1>4. \A j \in 1..(Len(s) + 1) : r[j] = IF j < k THEN s[j] ELSE IF j = k THEN t ELSE s[j - 1]
  BY DEF Inserted
<1> HIDE DEF r
<1>5. ASSUME NEW i \in 1..(Len(s) + 1), NEW j \in 1..(Len(s) + 1), i < j
      PROVE  KeyLE(r[i], r[j])
  <2>1. CASE i < k /\ j < k
    <3>1. r[i] = s[i] /\ r[j] = s[j] /\ i \in 1..Len(s) /\ j \in 1..Len(s)
      BY <1>1, <1>4, <2>1
    <3>2. QED
      BY <1>5, <3>1 DEF SortedByKey
  <2>2. CASE i < k /\ j = k
    <3>1. r[i] = s[i] /\ r[j] = t /\ i \in 1..(k - 1)
      BY <1>1, <1>4, <2>2
    <3>2. QED
      BY <3>1 DEF SortPosition
  <2>3. CASE i < k /\ j > k
    <3>1. r[i] = s[i] /\ r[j] = s[j - 1] /\ i \in 1..Len(s) /\ j - 1 \in 1..Len(s) /\ i < j - 1
      BY <1>1, <1>4, <2>3
    <3>2. QED
      BY <3>1 DEF SortedByKey
  <2>4. CASE i = k
    <3>1. r[i] = t /\ r[j] = s[j - 1] /\ j - 1 \in k..Len(s) /\ j - 1 \in 1..Len(s)
      BY <1>1, <1>4, <1>5, <2>4
    <3>2. ~KeyLE(s[j - 1], t) /\ s[j - 1] \in Transition
      BY <1>1, <3>1 DEF SortPosition
    <3>3. QED
      BY <3>1, <3>2, KeysOrdered
  <2>5. CASE i > k
    <3>1. r[i] = s[i - 1] /\ r[j] = s[j - 1] /\ i - 1 \in 1..Len(s) /\ j - 1 \in 1..Len(s) /\ i - 1 < j - 1
      BY <1>1, <1>4, <1>5, <2>5
    <3>2. QED
      BY <3>1 DEF SortedByKey
  <2>6. QED
    BY <1>1, <1>5, <2>1, <2>2, <2>3, <2>4, <2>5
<1>6. QED
  BY <1>3, <1>5 DEF SortedByKey, r

----------------------------------------------------------------------------
\* The index of the first n records of s is exact: every state's row holds its
\* records among them, and no row is empty that should not be.  A record of no
\* state is in no row.
Indexed(s, n, states, offsets, counts) ==
  /\ offsets \in [states -> Nat] /\ counts \in [states -> Nat]
  /\ \A q \in states : counts[q] > 0 => offsets[q] + counts[q] <= n
  /\ \A j \in 1..n : s[j].q \in states => counts[s[j].q] > 0
  /\ ExactRows(s, n, offsets, counts)

\* The index loop at record n + 1 of a sorted array, a record of some state.
LEMMA IndexedOneOfState ==
  ASSUME NEW s \in Seq(Transition), SortedByKey(s), NEW states,
         NEW n \in Nat, n < Len(s), NEW offsets, NEW counts, Indexed(s, n, states, offsets, counts),
         s[n + 1].q \in states
  PROVE  Indexed(s, n + 1, states, NextOffsets(offsets, counts, n, s[n + 1]), NextCounts(counts, s[n + 1]))
<1> DEFINE t == s[n + 1]
           o == NextOffsets(offsets, counts, n, t)
           c == NextCounts(counts, t)
<1>1. /\ Len(s) \in Nat /\ \A j \in 1..Len(s) : s[j] \in Transition /\ s[j].q \in Nat
      /\ n + 1 \in 1..Len(s) /\ t.q \in states
  <2>1. n + 1 \in 1..Len(s)
    BY ElementsTyped
  <2>2. QED
    BY <2>1, ElementsTyped
<1>2. offsets \in [states -> Nat] /\ counts \in [states -> Nat]
  BY DEF Indexed
<1>3. /\ c = [counts EXCEPT ![t.q] = @ + 1]
      /\ o = IF counts[t.q] = 0 THEN [offsets EXCEPT ![t.q] = n] ELSE offsets
  BY <1>1, <1>2 DEF NextOffsets, NextCounts
<1>4. o \in [states -> Nat] /\ c \in [states -> Nat]
  BY <1>1, <1>2, <1>3
<1>5. ASSUME NEW q \in states, q # t.q PROVE o[q] = offsets[q] /\ c[q] = counts[q]
  BY <1>2, <1>3, <1>5
<1>6. c[t.q] = counts[t.q] + 1
  BY <1>1, <1>2, <1>3
\* A row that is not empty ends at the last record: the array is sorted.
<1>7. ASSUME counts[t.q] > 0 PROVE offsets[t.q] + counts[t.q] = n
  <2> DEFINE k == offsets[t.q] + counts[t.q]
  <2>1. k \in Nat /\ k <= n /\ k >= 1 /\ offsets[t.q] \in Nat /\ counts[t.q] \in Nat
    BY <1>1, <1>2, <1>7 DEF Indexed
  <2>2. CASE k < n
    <3>1. k \in 1..n /\ n \in 1..n /\ k \in Row(offsets, counts, t.q) /\ n \notin Row(offsets, counts, t.q)
      BY <1>7, <2>1, <2>2 DEF Row
    <3>2. s[k].q = t.q /\ s[n].q # t.q
      BY <1>1, <1>2, <1>7, <3>1 DEF Indexed, ExactRows
    <3>3. KeyLE(s[k], s[n]) /\ KeyLE(s[n], s[n + 1])
      BY <1>1, <2>1, <2>2 DEF SortedByKey
    <3>4. k \in 1..Len(s) /\ n \in 1..Len(s)
      BY <1>1, <2>1, <2>2
    <3>5. s[k].q <= s[n].q /\ s[n].q <= t.q /\ s[k].q \in Nat /\ s[n].q \in Nat /\ t.q \in Nat
      BY <1>1, <3>3, <3>4, KeysOrdered
    <3>6. QED
      BY <3>2, <3>5
  <2>3. QED
    BY <2>1, <2>2
<1>8. counts[t.q] \in Nat /\ offsets[t.q] \in Nat /\ o[t.q] = IF counts[t.q] = 0 THEN n ELSE offsets[t.q]
  BY <1>1, <1>2, <1>3
<1> HIDE DEF t, o, c
<1>9. o[t.q] + c[t.q] = n + 1
  <2>1. CASE counts[t.q] = 0
    BY <1>6, <1>8, <2>1
  <2>2. CASE counts[t.q] # 0
    <3>1. counts[t.q] > 0 /\ o[t.q] = offsets[t.q]
      BY <1>8, <2>2
    <3>2. offsets[t.q] + counts[t.q] = n
      BY <1>7, <3>1
    <3>3. ASSUME NEW x \in Nat, NEW y \in Nat, x + y = n PROVE x + (y + 1) = n + 1
      BY <3>3
    <3>4. offsets[t.q] + (counts[t.q] + 1) = n + 1
      BY <1>8, <3>2, <3>3
    <3>5. QED
      BY <1>6, <3>1, <3>4
  <2>3. QED
    BY <2>1, <2>2
<1>10. \A q \in states : c[q] > 0 => o[q] + c[q] <= n + 1
  <2>1. ASSUME NEW q \in states, q # t.q, c[q] > 0 PROVE o[q] + c[q] <= n + 1
    <3>1. offsets[q] + counts[q] <= n /\ offsets[q] \in Nat /\ counts[q] \in Nat
      BY <1>2, <1>5, <2>1 DEF Indexed
    <3>2. QED
      BY <1>5, <2>1, <3>1
  <2>2. QED
    BY <1>9, <2>1
<1>11. \A j \in 1..(n + 1) : s[j].q \in states => c[s[j].q] > 0
  <2> SUFFICES ASSUME NEW j \in 1..(n + 1), s[j].q \in states PROVE c[s[j].q] > 0
    OBVIOUS
  <2>1. CASE s[j].q = t.q
    BY <1>6, <1>8, <2>1
  <2>2. CASE s[j].q # t.q
    <3>1. j \in 1..n /\ j \in 1..Len(s)
      BY <1>1, <2>2 DEF t
    <3>2. QED
      BY <1>5, <2>2, <3>1 DEF Indexed
  <2>3. QED
    BY <2>1, <2>2
<1>12. ExactRows(s, n + 1, o, c)
  <2> SUFFICES ASSUME NEW q \in states, c[q] > 0, NEW j \in 1..(n + 1)
               PROVE  s[j].q = q <=> j \in Row(o, c, q)
    BY <1>4 DEF ExactRows
  <2>1. CASE q = t.q
    <3>1. CASE counts[t.q] = 0
      <4>1. o[q] = n /\ c[q] = 1
        BY <1>6, <1>8, <2>1, <3>1
      <4>2. j \in Row(o, c, q) <=> j = n + 1
        BY <4>1 DEF Row
      <4>3. ASSUME j \in 1..n PROVE s[j].q # q
        BY <2>1, <3>1, <4>3 DEF Indexed
      <4>4. QED
        BY <2>1, <4>2, <4>3 DEF t
    <3>2. CASE counts[t.q] # 0
      <4>1. counts[t.q] > 0 /\ o[q] = offsets[q] /\ c[q] = counts[q] + 1 /\ offsets[q] + counts[q] = n
        BY <1>6, <1>7, <1>8, <2>1, <3>2
      <4>2. \A i \in 1..n : s[i].q = q <=> i \in Row(offsets, counts, q)
        BY <1>2, <2>1, <4>1 DEF Indexed, ExactRows
      <4>3. \A i \in 1..n : i \in Row(offsets, counts, q) <=> i \in Row(o, c, q)
        BY <1>8, <2>1, <4>1 DEF Row
      <4>4. n + 1 \in Row(o, c, q)
        BY <1>8, <2>1, <4>1 DEF Row
      <4>5. QED
        BY <2>1, <4>2, <4>3, <4>4 DEF t
    <3>3. QED
      BY <3>1, <3>2
  <2>2. CASE q # t.q
    <3>1. o[q] = offsets[q] /\ c[q] = counts[q] /\ counts[q] > 0 /\ offsets[q] \in Nat /\ counts[q] \in Nat
      BY <1>2, <1>5, <2>2
    <3>2. offsets[q] + counts[q] <= n
      BY <3>1 DEF Indexed
    <3>3. CASE j \in 1..n
      BY <1>2, <3>1, <3>3 DEF Indexed, ExactRows, Row
    <3>4. CASE j = n + 1
      BY <2>2, <3>1, <3>2, <3>4 DEF Row, t
    <3>5. QED
      BY <3>3, <3>4
  <2>3. QED
    BY <2>1, <2>2
<1>13. QED
  BY <1>4, <1>10, <1>11, <1>12 DEF Indexed, t, o, c

\* The same at any record.
LEMMA IndexedOneMore ==
  ASSUME NEW s \in Seq(Transition), SortedByKey(s), NEW states,
         NEW n \in Nat, n < Len(s), NEW offsets, NEW counts, Indexed(s, n, states, offsets, counts)
  PROVE  Indexed(s, n + 1, states, NextOffsets(offsets, counts, n, s[n + 1]), NextCounts(counts, s[n + 1]))
<1>1. CASE s[n + 1].q \in states
  BY <1>1, IndexedOneOfState
<1>2. CASE s[n + 1].q \notin states
  <2>1. offsets \in [states -> Nat] /\ counts \in [states -> Nat] /\ DOMAIN counts = states
    BY DEF Indexed
  <2>2. NextOffsets(offsets, counts, n, s[n + 1]) = offsets /\ NextCounts(counts, s[n + 1]) = counts
    BY <1>2, <2>1 DEF NextOffsets, NextCounts
  <2>3. \A q \in states : counts[q] > 0 => offsets[q] + counts[q] <= n + 1
    <3>1. ASSUME NEW q \in states, counts[q] > 0 PROVE offsets[q] + counts[q] <= n + 1
      <4>1. offsets[q] + counts[q] <= n /\ offsets[q] \in Nat /\ counts[q] \in Nat
        BY <2>1, <3>1 DEF Indexed
      <4>2. QED
        BY <4>1
    <3>2. QED
      BY <3>1
  <2>4. \A j \in 1..(n + 1) : s[j].q \in states => j \in 1..n /\ counts[s[j].q] > 0
    <3>1. \A j \in 1..(n + 1) : j = n + 1 \/ j \in 1..n
      OBVIOUS
    <3>2. QED
      BY <1>2, <3>1 DEF Indexed
  <2>5. ExactRows(s, n + 1, offsets, counts)
    <3> SUFFICES ASSUME NEW q \in states, counts[q] > 0, NEW j \in 1..(n + 1)
                 PROVE  s[j].q = q <=> j \in Row(offsets, counts, q)
      BY <2>1 DEF ExactRows
    <3>1. CASE j \in 1..n
      BY <2>1, <3>1 DEF Indexed, ExactRows
    <3>2. CASE j = n + 1
      <4>1. offsets[q] + counts[q] <= n /\ offsets[q] \in Nat /\ counts[q] \in Nat
        BY <2>1 DEF Indexed
      <4>2. j \notin Row(offsets, counts, q)
        BY <3>2, <4>1 DEF Row
      <4>3. QED
        BY <1>2, <3>2, <4>2
    <3>3. QED
      BY <3>1, <3>2
  <2>6. QED
    BY <2>1, <2>2, <2>3, <2>4, <2>5 DEF Indexed
<1>3. QED
  BY <1>1, <1>2

----------------------------------------------------------------------------
(* The least set closed under a monotone step, reached from below.         *)

Monotone(step, F) == \A K, L \in SUBSET F : K \subseteq L => step[K] \subseteq step[L]
Iterated(tree, step, F) ==
  tree[0] = {} /\ \A k \in Nat : tree[k] \in SUBSET F => tree[k + 1] = step[tree[k]]

LEMMA IterationInside ==
  ASSUME NEW F, NEW step \in [SUBSET F -> SUBSET F], NEW tree, Iterated(tree, step, F)
  PROVE  \A k \in Nat : tree[k] \in SUBSET F /\ tree[k + 1] = step[tree[k]]
<1> DEFINE T == {k \in Nat : tree[k] \in SUBSET F}
<1>1. 0 \in T
  BY DEF Iterated
<1>2. ASSUME NEW k \in Nat, k \in T PROVE k + 1 \in T
  BY <1>2 DEF Iterated
<1> HIDE DEF T
<1>3. Nat \subseteq T
  BY <1>1, <1>2, Induction
<1>4. QED
  BY <1>3 DEF T, Iterated

LEMMA IterationLeast ==
  ASSUME NEW F, IsFiniteSet(F), NEW step \in [SUBSET F -> SUBSET F], Monotone(step, F),
         NEW tree, Iterated(tree, step, F), NEW K \in SUBSET F, step[K] \subseteq K
  PROVE  tree[Cardinality(F)] \subseteq K
<1> DEFINE T == {k \in Nat : tree[k] \subseteq K}
<1>1. \A k \in Nat : tree[k] \in SUBSET F /\ tree[k + 1] = step[tree[k]]
  BY IterationInside DEF Iterated
<1>2. 0 \in T
  BY DEF Iterated
<1>3. ASSUME NEW k \in Nat, k \in T PROVE k + 1 \in T
  <2>1. step[tree[k]] \subseteq step[K]
    BY <1>1, <1>3 DEF Monotone
  <2>2. QED
    BY <1>1, <1>3, <2>1
<1> HIDE DEF T
<1>4. Nat \subseteq T
  BY <1>2, <1>3, Induction
<1>5. Cardinality(F) \in T
  BY <1>4, FS_CardinalityType
<1>6. QED
  BY <1>5 DEF T

\* As many steps as there are elements are enough.
LEMMA IterationSettles ==
  ASSUME NEW F, IsFiniteSet(F), NEW step \in [SUBSET F -> SUBSET F], Monotone(step, F),
         NEW tree, Iterated(tree, step, F)
  PROVE  /\ tree[Cardinality(F)] \in SUBSET F
         /\ step[tree[Cardinality(F)]] = tree[Cardinality(F)]
<1>1. \A k \in Nat : tree[k] \in SUBSET F /\ tree[k + 1] = step[tree[k]]
  BY IterationInside
<1>2. IsFiniteSet(F) /\ Cardinality(F) \in Nat
  BY FS_CardinalityType
<1>4. \A k \in Nat : tree[k] \subseteq F
  BY <1>1
<1>5. \A k \in Nat : tree[k] \subseteq tree[k + 1]
  <2> DEFINE T == {k \in Nat : tree[k] \subseteq tree[k + 1]}
  <2>1. 0 \in T
    BY DEF Iterated
  <2>2. ASSUME NEW k \in Nat, k \in T PROVE k + 1 \in T
    <3>1. tree[k] \subseteq tree[k + 1] /\ k + 1 \in Nat
      BY <2>2
    <3>2. step[tree[k]] \subseteq step[tree[k + 1]]
      BY <1>1, <3>1 DEF Monotone
    <3>3. tree[k + 1] \subseteq tree[(k + 1) + 1]
      BY <1>1, <3>1, <3>2
    <3>4. QED
      BY <3>1, <3>3
  <2> HIDE DEF T
  <2>3. Nat \subseteq T
    BY <2>1, <2>2, Induction
  <2>4. QED
    BY <2>3 DEF T
<1>6. \A k \in Nat : tree[k + 1] = tree[k] \/ Cardinality(tree[k]) >= k
  <2> DEFINE T == {k \in Nat : tree[k + 1] = tree[k] \/ Cardinality(tree[k]) >= k}
  <2>0. \A k \in Nat : IsFiniteSet(tree[k]) /\ Cardinality(tree[k]) \in Nat
    BY <1>2, <1>4, FS_Subset, FS_CardinalityType
  <2>1. 0 \in T
    BY <2>0
  <2>2. ASSUME NEW k \in Nat, k \in T PROVE k + 1 \in T
    <3>1. CASE tree[k + 1] = tree[k]
      BY <1>1, <3>1
    <3>2. CASE tree[k + 1] # tree[k] /\ Cardinality(tree[k]) >= k
      <4>0. /\ k + 1 \in Nat /\ tree[k] \in SUBSET tree[k + 1] /\ IsFiniteSet(tree[k + 1])
            /\ Cardinality(tree[k]) \in Nat /\ Cardinality(tree[k + 1]) \in Nat
        <5>1. k + 1 \in Nat
          OBVIOUS
        <5>2. QED
          BY <1>5, <2>0, <5>1
      <4>1. /\ Cardinality(tree[k]) <= Cardinality(tree[k + 1])
            /\ Cardinality(tree[k + 1]) = Cardinality(tree[k]) => tree[k + 1] = tree[k]
        BY <4>0, FS_Subset
      <4>2. Cardinality(tree[k + 1]) >= k + 1
        BY <4>0, <3>2, <4>1
      <4>3. QED
        BY <4>0, <4>2
    <3>3. QED
      BY <2>2, <3>1, <3>2
  <2> HIDE DEF T
  <2>3. Nat \subseteq T
    BY <2>1, <2>2, Induction
  <2>4. QED
    BY <2>3 DEF T
<1> DEFINE n == Cardinality(F)
<1>7. tree[n + 1] = tree[n]
  <2>1. CASE Cardinality(tree[n]) >= n
    <3>1. tree[n] \subseteq F /\ IsFiniteSet(tree[n]) /\ Cardinality(tree[n]) \in Nat
      BY <1>2, <1>4, FS_Subset, FS_CardinalityType
    <3>2. Cardinality(tree[n]) <= n /\ (Cardinality(tree[n]) = n => tree[n] = F)
      BY <1>2, <3>1, FS_Subset
    <3>3. tree[n] = F
      BY <1>2, <2>1, <3>1, <3>2
    <3>4. n \in Nat /\ n + 1 \in Nat
      BY <1>2
    <3> HIDE DEF n
    <3>5. tree[n + 1] \subseteq F /\ tree[n] \subseteq tree[n + 1]
      BY <1>4, <1>5, <3>4
    <3>6. QED
      BY <3>3, <3>5
  <2>2. QED
    BY <1>2, <1>6, <2>1
<1>8. n \in Nat
  BY <1>2
<1> HIDE DEF n
<1>9. tree[n] \in SUBSET F /\ step[tree[n]] = tree[n]
  BY <1>1, <1>7, <1>8
<1>10. QED
  BY <1>9 DEF n

----------------------------------------------------------------------------
(* The facts of a grammar.                                                 *)

LEMMA TallerTrees ==
  ASSUME NEW g, NEW w
  PROVE  /\ Trees(g, w)[0] = {}
         /\ \A k \in Nat : Trees(g, w)[k + 1] = OneTaller(g, w, Trees(g, w)[k])
<1> DEFINE All == SUBSET Facts(g, w)
           step == [x \in Nat \X All |-> OneTaller(g, w, x[2])]
           Is(t) == t = [k \in Nat |-> IF k = 0 THEN {} ELSE {x : x \in OneTaller(g, w, t[k - 1])}]
<1>1. PICK f \in [Nat -> All] : f[0] = {} /\ \A k \in Nat : f[k + 1] = step[<<k, f[k]>>]
  <2> DEFINE none == {}
  <2>1. none \in All
    OBVIOUS
  <2>2. step \in [Nat \X All -> All]
    BY DEF OneTaller
  <2> HIDE DEF All, step, none
  <2>3. \E f \in [Nat -> All] : f[0] = none /\ \A k \in Nat : f[k + 1] = step[<<k, f[k]>>]
    <3>1. HasRecursive(All, none, step)
      BY <2>1, <2>2, Recursion
    <3>2. QED
      BY <3>1 DEF HasRecursive, Recursive
  <2>4. QED
    BY <2>3 DEF none
<1>2. \A k \in Nat : f[k + 1] = OneTaller(g, w, f[k])
  BY <1>1
<1>3. Is(f)
  <2>1. ASSUME NEW k \in Nat PROVE f[k] = IF k = 0 THEN {} ELSE OneTaller(g, w, f[k - 1])
    <3>1. CASE k = 0
      BY <1>1, <3>1
    <3>2. CASE k # 0
      <4>1. k - 1 \in Nat /\ (k - 1) + 1 = k
        BY <3>2
      <4>2. QED
        BY <1>2, <3>2, <4>1
    <3>3. QED
      BY <3>1, <3>2
  <2>2. QED
    BY <2>1
<1>4. Trees(g, w) = CHOOSE t : Is(t)
  BY DEF Trees
<1>5. Is(Trees(g, w))
  <2> HIDE DEF Is
  <2>1. QED
    BY <1>3, <1>4
<1>6. Trees(g, w) = [k \in Nat |-> IF k = 0 THEN {} ELSE OneTaller(g, w, Trees(g, w)[k - 1])]
  <2>1. \A k \in Nat : {x : x \in OneTaller(g, w, Trees(g, w)[k - 1])} = OneTaller(g, w, Trees(g, w)[k - 1])
    OBVIOUS
  <2>2. QED
    BY <1>5, <2>1
<1>7. ASSUME NEW k \in Nat PROVE Trees(g, w)[k + 1] = OneTaller(g, w, Trees(g, w)[k])
  <2>1. k + 1 \in Nat /\ k + 1 # 0 /\ (k + 1) - 1 = k
    OBVIOUS
  <2>2. QED
    BY <1>6, <2>1
<1>8. QED
  BY <1>6, <1>7

\* More known facts give more.
LEMMA TallerMonotone ==
  ASSUME NEW g, NEW w, NEW K, NEW L, K \subseteq L
  PROVE  OneTaller(g, w, K) \subseteq OneTaller(g, w, L)
<1>1. \A s, from, to : Derives(g, w, K, s, from, to) => Derives(g, w, L, s, from, to)
  BY DEF Derives
<1>2. \A rhs, from, to : AllDerive(g, w, K, rhs, from, to) => AllDerive(g, w, L, rhs, from, to)
  BY <1>1 DEF AllDerive
<1>3. QED
  BY <1>2 DEF OneTaller

LEMMA FactsFinite ==
  ASSUME NEW g, NEW w, g.nt \in Nat, Len(w) \in Nat
  PROVE  IsFiniteSet(Facts(g, w)) /\ Cardinality(Facts(g, w)) \in Nat
<1>1. IsFiniteSet(Nonterminals(g)) /\ IsFiniteSet(0..Len(w))
  <2>1. g.nt - 1 \in Int
    OBVIOUS
  <2>2. QED
    BY <2>1, FS_Interval DEF Nonterminals
<1> DEFINE Box == Nonterminals(g) \X (0..Len(w)) \X (0..Len(w))
<1>2. IsFiniteSet(Box)
  <2> DEFINE P == 0..Len(w)
             N == Nonterminals(g)
             Pairs == N \X P
             flat == [x \in Pairs \X P |-> <<x[1][1], x[1][2], x[2]>>]
  <2>1. IsFiniteSet(Pairs)
    BY <1>1, FS_Product
  <2>2. IsFiniteSet(Pairs \X P)
    BY <1>1, <2>1, FS_Product
  <2>3. \A y \in Box : \E x \in Pairs \X P : y = flat[x]
    <3> SUFFICES ASSUME NEW a \in N, NEW i \in P, NEW j \in P
                 PROVE  \E x \in Pairs \X P : <<a, i, j>> = flat[x]
      BY DEF P, N
    <3>1. <<<<a, i>>, j>> \in Pairs \X P /\ flat[<<<<a, i>>, j>>] = <<a, i, j>>
      OBVIOUS
    <3>2. QED
      BY <3>1
  <2>4. {flat[x] : x \in Pairs \X P} = Box
    BY <2>3 DEF P, N
  <2>5. flat \in Surjection(Pairs \X P, Box)
    BY <2>3, <2>4 DEF Surjection
  <2> HIDE DEF flat, Pairs, Box
  <2>6. QED
    BY <2>2, <2>5, FS_Surjection
<1>3. Facts(g, w) \subseteq Box
  BY DEF Facts
<1> HIDE DEF Box
<1>4. QED
  BY <1>2, <1>3, FS_Subset, FS_CardinalityType

\* The facts of a grammar are closed under its productions: trees higher than
\* there are facts show nothing new.
LEMMA DerivedClosed ==
  ASSUME NEW g, NEW w, g.nt \in Nat, Len(w) \in Nat
  PROVE  /\ Derived(g, w) \subseteq Facts(g, w)
         /\ OneTaller(g, w, Derived(g, w)) = Derived(g, w)
<1> DEFINE F == Facts(g, w)
           step == [K \in SUBSET F |-> OneTaller(g, w, K)]
           tree == Trees(g, w)
<1>1. IsFiniteSet(F) /\ step \in [SUBSET F -> SUBSET F] /\ Monotone(step, F)
  BY FactsFinite, TallerMonotone DEF OneTaller, Monotone
<1>2. Iterated(tree, step, F)
  <2>1. \A T \in SUBSET F : step[T] = OneTaller(g, w, T)
    OBVIOUS
  <2>2. tree[0] = {} /\ \A k \in Nat : tree[k + 1] = OneTaller(g, w, tree[k])
    BY TallerTrees
  <2> HIDE DEF F, step, tree
  <2>3. QED
    BY <2>1, <2>2 DEF Iterated
<1>3. Derived(g, w) = tree[Cardinality(F)]
  BY DEF Derived
<1>4. \A K \in SUBSET F : step[K] = OneTaller(g, w, K)
  OBVIOUS
<1> HIDE DEF F, step, tree
<1>5. tree[Cardinality(F)] \in SUBSET F /\ step[tree[Cardinality(F)]] = tree[Cardinality(F)]
  BY <1>1, <1>2, IterationSettles
<1>6. QED
  BY <1>3, <1>4, <1>5 DEF F

\* They are the least such set.
LEMMA DerivedLeast ==
  ASSUME NEW g, NEW w, g.nt \in Nat, Len(w) \in Nat,
         NEW K, OneTaller(g, w, K) \subseteq K
  PROVE  Derived(g, w) \subseteq K
<1> DEFINE F == Facts(g, w)
           step == [M \in SUBSET F |-> OneTaller(g, w, M)]
           tree == Trees(g, w)
           L == K \cap F
<1>1. IsFiniteSet(F) /\ step \in [SUBSET F -> SUBSET F] /\ Monotone(step, F)
  BY FactsFinite, TallerMonotone DEF OneTaller, Monotone
<1>2. Iterated(tree, step, F)
  <2>1. \A T \in SUBSET F : step[T] = OneTaller(g, w, T)
    OBVIOUS
  <2>2. tree[0] = {} /\ \A k \in Nat : tree[k + 1] = OneTaller(g, w, tree[k])
    BY TallerTrees
  <2> HIDE DEF F, step, tree
  <2>3. QED
    BY <2>1, <2>2 DEF Iterated
<1>3. L \in SUBSET F /\ step[L] \subseteq L
  <2>1. OneTaller(g, w, L) \subseteq OneTaller(g, w, K)
    BY TallerMonotone
  <2>2. OneTaller(g, w, L) \subseteq F
    BY DEF OneTaller
  <2>3. QED
    BY <2>1, <2>2
<1>4. Derived(g, w) = tree[Cardinality(F)]
  BY DEF Derived
<1> HIDE DEF F, step, tree, L
<1>5. tree[Cardinality(F)] \subseteq L
  BY <1>1, <1>2, <1>3, IterationLeast
<1>6. QED
  BY <1>4, <1>5 DEF L

\* What may begin where, in the same way.
Begins(g, w) == Nonterminals(g) \X (0..Len(w))

LEMMA BeginsFinite ==
  ASSUME NEW g, NEW w, g.nt \in Nat, Len(w) \in Nat
  PROVE  IsFiniteSet(Begins(g, w)) /\ Cardinality(Begins(g, w)) \in Nat
<1>1. IsFiniteSet(Nonterminals(g)) /\ IsFiniteSet(0..Len(w))
  <2>1. g.nt - 1 \in Int
    OBVIOUS
  <2>2. QED
    BY <2>1, FS_Interval DEF Nonterminals
<1>2. QED
  BY <1>1, FS_Product, FS_CardinalityType DEF Begins

LEMMA DeeperInside ==
  ASSUME NEW g, NEW w, g.nt \in Nat, Len(w) \in Nat, g.start \in Nonterminals(g),
         NEW known
  PROVE  \A K \in SUBSET Begins(g, w) : OneDeeper(g, w, known, K) \in SUBSET Begins(g, w)
<1>1. <<g.start, 0>> \in Begins(g, w)
  BY DEF Begins
<1>2. ASSUME NEW d \in Begins(g, w) PROVE DueWithin(g, w, known, d) \subseteq Begins(g, w)
  <2>1. d[2] \in 0..Len(w)
    BY DEF Begins
  <2>2. \A u \in d[2]..Len(w) : u \in 0..Len(w)
    BY <2>1
  <2>3. QED
    BY <2>2 DEF DueWithin, Begins
<1>3. ASSUME NEW K \in SUBSET Begins(g, w) PROVE OneDeeper(g, w, known, K) \in SUBSET Begins(g, w)
  BY <1>1, <1>2 DEF OneDeeper
<1>4. QED
  BY <1>3

LEMMA DeeperStep ==
  ASSUME NEW g, NEW w, g.nt \in Nat, Len(w) \in Nat, g.start \in Nonterminals(g),
         NEW known
  PROVE  LET step == [K \in SUBSET Begins(g, w) |-> OneDeeper(g, w, known, K)]
         IN step \in [SUBSET Begins(g, w) -> SUBSET Begins(g, w)] /\ Monotone(step, Begins(g, w))
<1>1. \A K \in SUBSET Begins(g, w) : OneDeeper(g, w, known, K) \in SUBSET Begins(g, w)
  BY DeeperInside
<1>2. ASSUME NEW K \in SUBSET Begins(g, w), NEW L \in SUBSET Begins(g, w), K \subseteq L
      PROVE  OneDeeper(g, w, known, K) \subseteq OneDeeper(g, w, known, L)
  BY <1>2 DEF OneDeeper
<1> HIDE DEF Begins
<1>3. QED
  BY <1>1, <1>2 DEF Monotone

LEMMA DeeperDues ==
  ASSUME NEW g, NEW w, g.nt \in Nat, Len(w) \in Nat, g.start \in Nonterminals(g)
  PROVE  /\ Dues(g, w)[0] = {}
         /\ \A k \in Nat : Dues(g, w)[k + 1] = OneDeeper(g, w, Derived(g, w), Dues(g, w)[k])
<1> DEFINE All == SUBSET Begins(g, w)
           known == Derived(g, w)
           step == [x \in Nat \X All |-> OneDeeper(g, w, known, x[2])]
           Is(t) == t = [k \in Nat |-> IF k = 0 THEN {} ELSE OneDeeper(g, w, known, t[k - 1])]
<1>0. \A K \in All : OneDeeper(g, w, known, K) \in All
  BY DeeperInside
<1>1. PICK f \in [Nat -> All] : f[0] = {} /\ \A k \in Nat : f[k + 1] = step[<<k, f[k]>>]
  <2> DEFINE none == {}
  <2>1. none \in All
    OBVIOUS
  <2>2. step \in [Nat \X All -> All]
    BY <1>0
  <2> HIDE DEF All, step, none
  <2>3. \E f \in [Nat -> All] : f[0] = none /\ \A k \in Nat : f[k + 1] = step[<<k, f[k]>>]
    <3>1. HasRecursive(All, none, step)
      BY <2>1, <2>2, Recursion
    <3>2. QED
      BY <3>1 DEF HasRecursive, Recursive
  <2>4. QED
    BY <2>3 DEF none
<1> HIDE DEF known
<1>2. \A k \in Nat : f[k + 1] = OneDeeper(g, w, known, f[k])
  BY <1>1
<1>3. Is(f)
  <2>1. ASSUME NEW k \in Nat PROVE f[k] = IF k = 0 THEN {} ELSE OneDeeper(g, w, known, f[k - 1])
    <3>1. CASE k = 0
      BY <1>1, <3>1
    <3>2. CASE k # 0
      <4>1. k - 1 \in Nat /\ (k - 1) + 1 = k
        BY <3>2
      <4>2. QED
        BY <1>2, <3>2, <4>1
    <3>3. QED
      BY <3>1, <3>2
  <2>2. QED
    BY <2>1
<1>4. Dues(g, w) = CHOOSE t : Is(t)
  BY DEF Dues, known
<1>5. Is(Dues(g, w))
  <2> HIDE DEF Is
  <2>1. QED
    BY <1>3, <1>4
<1>6. Dues(g, w) = [k \in Nat |-> IF k = 0 THEN {} ELSE OneDeeper(g, w, known, Dues(g, w)[k - 1])]
  BY <1>5
<1>7. ASSUME NEW k \in Nat PROVE Dues(g, w)[k + 1] = OneDeeper(g, w, known, Dues(g, w)[k])
  <2>1. k + 1 \in Nat /\ k + 1 # 0 /\ (k + 1) - 1 = k
    OBVIOUS
  <2>2. QED
    BY <1>6, <2>1
<1>8. QED
  BY <1>6, <1>7 DEF known

\* The places where nonterminals are due are the least set with the start
\* symbol that is closed under the productions begun there.
LEMMA DueClosed ==
  ASSUME NEW g, NEW w, g.nt \in Nat, Len(w) \in Nat, g.start \in Nonterminals(g)
  PROVE  /\ Due(g, w) \subseteq Begins(g, w)
         /\ OneDeeper(g, w, Derived(g, w), Due(g, w)) = Due(g, w)
<1> DEFINE F == Begins(g, w)
           step == [K \in SUBSET F |-> OneDeeper(g, w, Derived(g, w), K)]
           tree == Dues(g, w)
<1>1. IsFiniteSet(F) /\ step \in [SUBSET F -> SUBSET F] /\ Monotone(step, F)
  BY BeginsFinite, DeeperStep
<1>2. Iterated(tree, step, F)
  <2>1. \A K \in SUBSET F : step[K] = OneDeeper(g, w, Derived(g, w), K)
    OBVIOUS
  <2>2. QED
    BY <2>1, DeeperDues DEF Iterated
<1>3. Due(g, w) = tree[Cardinality(F)]
  BY DEF Due, Begins
<1>4. \A K \in SUBSET F : step[K] = OneDeeper(g, w, Derived(g, w), K)
  OBVIOUS
<1> HIDE DEF F, step, tree
<1>5. tree[Cardinality(F)] \in SUBSET F /\ step[tree[Cardinality(F)]] = tree[Cardinality(F)]
  BY <1>1, <1>2, IterationSettles
<1>6. QED
  BY <1>3, <1>4, <1>5 DEF F

LEMMA DueLeast ==
  ASSUME NEW g, NEW w, g.nt \in Nat, Len(w) \in Nat, g.start \in Nonterminals(g),
         NEW K \in SUBSET Begins(g, w), OneDeeper(g, w, Derived(g, w), K) \subseteq K
  PROVE  Due(g, w) \subseteq K
<1> DEFINE F == Begins(g, w)
           step == [M \in SUBSET F |-> OneDeeper(g, w, Derived(g, w), M)]
           tree == Dues(g, w)
<1>1. IsFiniteSet(F) /\ step \in [SUBSET F -> SUBSET F] /\ Monotone(step, F)
  BY BeginsFinite, DeeperStep
<1>2. Iterated(tree, step, F)
  <2>1. \A M \in SUBSET F : step[M] = OneDeeper(g, w, Derived(g, w), M)
    OBVIOUS
  <2>2. tree[0] = {} /\ \A k \in Nat : tree[k + 1] = OneDeeper(g, w, Derived(g, w), tree[k])
    BY DeeperDues
  <2> HIDE DEF F, tree, step
  <2>3. QED
    BY <2>1, <2>2 DEF Iterated
<1>3. K \in SUBSET F /\ step[K] \subseteq K
  OBVIOUS
<1>4. Due(g, w) = tree[Cardinality(F)]
  BY DEF Due, Begins
<1> HIDE DEF F, step, tree
<1>5. tree[Cardinality(F)] \subseteq K
  BY <1>1, <1>2, <1>3, IterationLeast
<1>6. QED
  BY <1>4, <1>5


LEMMA ImageFinite ==
  ASSUME NEW S, IsFiniteSet(S), NEW f
  PROVE  IsFiniteSet({f[x] : x \in S})
<1> DEFINE T == {f[x] : x \in S}
           h == [x \in S |-> f[x]]
<1>1. h \in Surjection(S, T)
  BY DEF Surjection
<1> HIDE DEF h, T
<1>2. IsFiniteSet(T)
  BY <1>1, FS_Surjection
<1>3. QED
  BY <1>2 DEF T

\* A listing of a finite set without repetition is complete.
LEMMA ListingCovers ==
  ASSUME NEW S, IsFiniteSet(S), NEW f \in [1..Cardinality(S) -> S],
         \A a, b \in 1..Cardinality(S) : a # b => f[a] # f[b]
  PROVE  \A x \in S : \E t \in 1..Cardinality(S) : f[t] = x
<1> DEFINE D == 1..Cardinality(S)
<1>1. Cardinality(S) \in Nat
  BY FS_CardinalityType
<1>2. Cardinality(D) = Cardinality(S)
  <2>1. 1 \in Int /\ Cardinality(S) \in Int
    BY <1>1
  <2>2. Cardinality(D) = IF 1 > Cardinality(S) THEN 0 ELSE Cardinality(S) - 1 + 1
    BY <2>1, FS_Interval
  <2> HIDE DEF D
  <2>3. QED
    BY <1>1, <2>2
<1>3. f \in Injection(D, S)
  BY DEF Injection, IsInjective
<1> HIDE DEF D
<1>4. f \in Surjection(D, S)
  BY <1>2, <1>3, FS_Injection
<1>5. QED
  BY <1>4 DEF Surjection, D

LEMMA ProductionsFinite ==
  ASSUME NEW h, Len(h.prods) \in Int
  PROVE  IsFiniteSet(Prods(h))
  BY FS_Interval DEF Prods

----------------------------------------------------------------------------
(* The symbols of a valid grammar.                                         *)

LEMMA ValidParts ==
  ASSUME NEW h, Valid(h)
  PROVE  /\ h.nt \in Nat /\ h.start \in Nonterminals(h) /\ Len(h.prods) \in Nat
         /\ \A p \in Prods(h) : Lhs(h, p) \in Nonterminals(h) /\ Rhs(h, p) \in Seq(Nat)
<1>1. IsCfg(h) /\ Validate(h) = "Ok"
  BY DEF Valid
<1>2. /\ h.nt \in Nat /\ h.start \in Nat /\ h.prods \in Seq(Production)
  BY <1>1 DEF IsCfg
<1>3. \A p \in Prods(h) : Lhs(h, p) \in Nat /\ Rhs(h, p) \in Seq(Nat)
  <2>1. \A p \in 1..Len(h.prods) : h.prods[p] \in Production
    BY <1>2
  <2>2. \A x \in Production : x.lhs \in Nat /\ x.rhs \in Seq(Nat)
    BY DEF Production
  <2>3. QED
    BY <2>1, <2>2 DEF Prods, Lhs, Rhs
<1>4. h.start < h.nt /\ \A p \in Prods(h) : Lhs(h, p) < h.nt
  BY <1>1, <1>2, <1>3 DEF Validate
<1>5. QED
  BY <1>2, <1>3, <1>4 DEF Nonterminals

----------------------------------------------------------------------------
(* Cutting a span into the spans of the symbols of a right-hand side.      *)

\* From the back, as the partition table of cyk_accepts is filled: ends[t] is
\* where rhs[t..] may begin.
LEMMA CutsFromTheBack ==
  ASSUME NEW g, NEW w, NEW K, \A A, a, b : <<A, a, b>> \in K => a <= b,
         NEW rhs, Len(rhs) \in Nat, NEW from \in Nat, NEW to \in Nat, from <= to,
         NEW ends, ends[Len(rhs) + 1] = {to},
         \A t \in 1..Len(rhs) : \A a \in from..to :
           a \in ends[t] <=> \E b \in a..to : b \in ends[t + 1] /\ Derives(g, w, K, rhs[t], a, b)
  PROVE  from \in ends[1] <=> AllDerive(g, w, K, rhs, from, to)
<1> DEFINE m == Len(rhs)
           CutsTo(cut, t, a) ==
             /\ cut \in [(t - 1)..m -> from..to] /\ cut[t - 1] = a /\ cut[m] = to
             /\ \A u \in t..m : Derives(g, w, K, rhs[u], cut[u - 1], cut[u])
           Cut(t, a) == \E cut : CutsTo(cut, t, a)
           T == {k \in Nat : k <= m => \A a \in from..to : a \in ends[(m + 1) - k] <=> Cut((m + 1) - k, a)}
<1>0. m \in Nat
  OBVIOUS
<1> HIDE DEF m
<1>1. \A s : \A a, b \in Int : Derives(g, w, K, s, a, b) => a <= b
  BY DEF Derives
<1>2. 0 \in T
  <2>0. (m + 1) - 0 = m + 1
    BY <1>0
  <2> SUFFICES ASSUME NEW a \in from..to PROVE a \in ends[m + 1] <=> Cut(m + 1, a)
    <3> HIDE DEF Cut
    <3>1. QED
      BY <2>0
  <2>1. (m + 1) - 1 = m /\ (m + 1)..m = {}
    BY <1>0
  <2>2. ASSUME a = to PROVE Cut(m + 1, a)
    <3>1. [u \in m..m |-> to] \in [m..m -> from..to] /\ [u \in m..m |-> to][m] = to
      BY <1>0
    <3>2. CutsTo([u \in m..m |-> to], m + 1, a)
      BY <2>1, <2>2, <3>1
    <3>3. QED
      BY <3>2
  <2>3. ASSUME Cut(m + 1, a) PROVE a = to
    BY <2>1, <2>3
  <2>4. QED
    BY <2>2, <2>3 DEF m
<1>3. ASSUME NEW k \in Nat, k \in T PROVE k + 1 \in T
  <2> SUFFICES ASSUME k + 1 <= m, NEW a \in from..to
               PROVE  a \in ends[(m + 1) - (k + 1)] <=> Cut((m + 1) - (k + 1), a)
    OBVIOUS
  <2> DEFINE t == m - k
  <2>1. /\ t \in 1..m /\ (m + 1) - (k + 1) = t /\ (m + 1) - k = t + 1 /\ (t + 1) - 1 = t
        /\ t - 1 \in (t - 1)..m /\ m \in (t - 1)..m /\ t \in (t - 1)..m /\ m # t - 1 /\ t # t - 1
        /\ t \in Int /\ m \in t..m
    BY <1>0
  <2> HIDE DEF t
  <2>2. \A b \in from..to : b \in ends[t + 1] <=> Cut(t + 1, b)
    <3>1. k <= m
      BY <1>0
    <3>2. QED
      BY <1>3, <2>1, <3>1
  <2>3. ASSUME a \in ends[t] PROVE Cut(t, a)
    <3>1. PICK b \in a..to : b \in ends[t + 1] /\ Derives(g, w, K, rhs[t], a, b)
      BY <2>1, <2>3 DEF m
    <3>2. b \in from..to
      OBVIOUS
    <3>3. PICK cut : CutsTo(cut, t + 1, b)
      BY <2>2, <3>1, <3>2
    <3> DEFINE cut2 == [u \in (t - 1)..m |-> IF u = t - 1 THEN a ELSE cut[u]]
    <3>4. cut \in [t..m -> from..to] /\ cut[t] = b /\ cut[m] = to
      BY <2>1, <3>3
    <3>5. \A u \in (t - 1)..m : u # t - 1 => u \in t..m
      BY <1>0, <2>1
    <3>6. cut2 \in [(t - 1)..m -> from..to] /\ cut2[t - 1] = a /\ cut2[m] = to /\ cut2[t] = b
      BY <2>1, <3>4, <3>5
    <3>7. ASSUME NEW u \in t..m PROVE Derives(g, w, K, rhs[u], cut2[u - 1], cut2[u])
      <4>1. CASE u = t
        BY <3>1, <3>6, <4>1
      <4>2. CASE u # t
        <5>1. u \in (t + 1)..m /\ u - 1 \in (t - 1)..m /\ u - 1 # t - 1 /\ u \in (t - 1)..m /\ u # t - 1
          BY <1>0, <2>1, <4>2
        <5>2. cut2[u - 1] = cut[u - 1] /\ cut2[u] = cut[u]
          BY <5>1
        <5>3. Derives(g, w, K, rhs[u], cut[u - 1], cut[u])
          BY <3>3, <5>1
        <5>4. QED
          BY <5>2, <5>3
      <4>3. QED
        BY <4>1, <4>2
    <3> HIDE DEF cut2
    <3>8. CutsTo(cut2, t, a)
      BY <3>6, <3>7
    <3> HIDE DEF CutsTo
    <3>9. QED
      BY <3>8
  <2>4. ASSUME Cut(t, a) PROVE a \in ends[t]
    <3>1. PICK cut : CutsTo(cut, t, a)
      <4> HIDE DEF CutsTo
      <4>1. QED
        BY <2>4
    <3> DEFINE b == cut[t]
               rest == [u \in t..m |-> cut[u]]
    <3>2. b \in from..to
      BY <2>1, <3>1
    <3>3. Derives(g, w, K, rhs[t], a, b)
      <4>1. t \in t..m
        BY <1>0, <2>1
      <4>2. QED
        BY <3>1, <4>1
    <3>4. b \in a..to
      BY <1>1, <3>2, <3>3
    <3>5. /\ rest \in [t..m -> from..to] /\ rest[t] = b /\ rest[m] = to
      <4>1. \A u \in t..m : u \in (t - 1)..m
        BY <1>0, <2>1
      <4>2. t \in t..m
        BY <1>0, <2>1
      <4>3. QED
        BY <2>1, <3>1, <4>1, <4>2
    <3>6. ASSUME NEW u \in (t + 1)..m PROVE Derives(g, w, K, rhs[u], rest[u - 1], rest[u])
      <4>1. u \in t..m /\ u - 1 \in t..m
        BY <1>0, <2>1
      <4>2. QED
        BY <3>1, <4>1
    <3> HIDE DEF b, rest
    <3>7. CutsTo(rest, t + 1, b)
      BY <2>1, <3>5, <3>6
    <3>8. Cut(t + 1, b)
      <4> HIDE DEF CutsTo
      <4>1. QED
        BY <3>7
    <3>9. b \in ends[t + 1]
      <4> HIDE DEF Cut
      <4>1. QED
        BY <2>2, <3>2, <3>8
    <3>10. QED
      BY <2>1, <3>3, <3>4, <3>9 DEF m
  <2>5. QED
    <3> HIDE DEF Cut
    <3>1. QED
      BY <2>1, <2>3, <2>4
<1> HIDE DEF T
<1>4. m \in T
  BY <1>0, <1>2, <1>3, Induction
<1>5. from \in ends[1] <=> Cut(1, from)
  <2>1. (m + 1) - m = 1 /\ m <= m /\ from \in from..to
    BY <1>0
  <2> HIDE DEF Cut
  <2>2. QED
    BY <1>4, <2>1 DEF T
<1>6. Cut(1, from) <=> AllDerive(g, w, K, rhs, from, to)
  <2>1. 1 - 1 = 0
    OBVIOUS
  <2>2. QED
    BY <2>1 DEF AllDerive, m
<1>7. QED
  <2> HIDE DEF Cut
  <2>1. QED
    BY <1>5, <1>6

\* The symbols of a right-hand side, one more at a time.
LEMMA NoSymbols ==
  ASSUME NEW g, NEW w, NEW K, NEW from \in Nat
  PROVE  AllDerive(g, w, K, <<>>, from, from)
<1> DEFINE cut == [t \in 0..0 |-> from]
<1>1. cut \in [0..0 -> from..from] /\ cut[0] = from
  OBVIOUS
<1> HIDE DEF cut
<1>2. Len(<<>>) = 0 /\ 1..0 = {}
  OBVIOUS
<1>3. QED
  BY <1>1, <1>2 DEF AllDerive

LEMMA OneMoreSymbol ==
  ASSUME NEW g, NEW w, NEW K, NEW rhs \in Seq(Nat), NEW s \in Nat,
         NEW from \in Nat, NEW mid \in Nat, NEW to \in Nat, from <= mid, mid <= to,
         AllDerive(g, w, K, rhs, from, mid), Derives(g, w, K, s, mid, to)
  PROVE  AllDerive(g, w, K, Append(rhs, s), from, to)
<1> DEFINE m == Len(rhs)
<1>1. /\ m \in Nat /\ Len(Append(rhs, s)) = m + 1 /\ Append(rhs, s)[m + 1] = s
      /\ \A t \in 1..m : Append(rhs, s)[t] = rhs[t]
  OBVIOUS
<1>2. PICK cut \in [0..m -> from..mid] :
        /\ cut[0] = from /\ cut[m] = mid
        /\ \A t \in 1..m : Derives(g, w, K, rhs[t], cut[t - 1], cut[t])
  BY DEF AllDerive
<1> HIDE DEF m
<1> DEFINE cut2 == [t \in 0..(m + 1) |-> IF t = m + 1 THEN to ELSE cut[t]]
<1>3. \A t \in 0..m : t \in 0..(m + 1) /\ t # m + 1
  BY <1>1
<1>4. \A t \in 0..(m + 1) : t # m + 1 => t \in 0..m
  BY <1>1
<1>5. /\ cut2 \in [0..(m + 1) -> from..to] /\ cut2[m + 1] = to
      /\ \A t \in 0..m : cut2[t] = cut[t]
  BY <1>1, <1>2, <1>3, <1>4
<1> HIDE DEF cut2
<1>6. cut2[0] = from /\ cut2[m] = mid
  BY <1>1, <1>2, <1>5
<1>7. ASSUME NEW t \in 1..(m + 1)
      PROVE  Derives(g, w, K, Append(rhs, s)[t], cut2[t - 1], cut2[t])
  <2>1. CASE t = m + 1
    <3>1. (m + 1) - 1 = m
      BY <1>1
    <3>2. QED
      BY <1>1, <1>5, <1>6, <2>1, <3>1
  <2>2. CASE t # m + 1
    <3>1. t \in 1..m /\ t - 1 \in 0..m /\ t \in 0..m
      BY <1>1, <2>2
    <3>2. QED
      BY <1>1, <1>2, <1>5, <3>1
  <2>3. QED
    BY <2>1, <2>2
<1>8. QED
  BY <1>1, <1>5, <1>6, <1>7 DEF AllDerive

\* Sequences put together, in either order.
LEMMA ConcatThree ==
  ASSUME NEW S, NEW x \in Seq(S), NEW y \in Seq(S), NEW z \in Seq(S)
  PROVE  (x \o y) \o z = x \o (y \o z)
BY ConcatAssociative

\* A pair is two sequences of one element.
LEMMA PairSplit ==
  ASSUME NEW S, NEW x \in S, NEW y \in S
  PROVE  /\ <<x>> \in Seq(S) /\ <<y>> \in Seq(S)
         /\ <<x, y>> = <<x>> \o <<y>>
<1>1. <<x>> \in Seq(S) /\ <<y>> \in Seq(S)
  OBVIOUS
<1> DEFINE joined == <<x>> \o <<y>>
<1>2. /\ joined \in Seq(S) /\ Len(joined) = 2
      /\ joined[1] = x /\ joined[2] = y
  BY <1>1, ConcatProperties
<1> HIDE DEF joined
<1>3. joined = <<x, y>>
  <2>1. DOMAIN joined = 1..2 /\ joined = [i \in 1..2 |-> joined[i]]
    BY <1>2
  <2>2. <<x, y>> = [i \in 1..2 |-> joined[i]]
    BY <1>2
  <2>3. QED
    BY <2>1, <2>2
<1>4. QED
  BY <1>1, <1>3 DEF joined

\* A front of a sequence and the next element.
LEMMA OneLonger ==
  ASSUME NEW rhs \in Seq(Nat), NEW dot \in 0..Len(rhs), dot < Len(rhs)
  PROVE  /\ SubSeq(rhs, 1, dot) \in Seq(Nat) /\ rhs[dot + 1] \in Nat
         /\ SubSeq(rhs, 1, dot + 1) = Append(SubSeq(rhs, 1, dot), rhs[dot + 1])
<1> DEFINE front == SubSeq(rhs, 1, dot)
           s == rhs[dot + 1]
           more == SubSeq(rhs, 1, dot + 1)
           grown == Append(front, s)
<1>1. front \in Seq(Nat) /\ Len(front) = dot /\ \A t \in 1..dot : front[t] = rhs[t]
  OBVIOUS
<1>2. s \in Nat
  OBVIOUS
<1>3. more \in Seq(Nat) /\ Len(more) = dot + 1 /\ \A t \in 1..(dot + 1) : more[t] = rhs[t]
  OBVIOUS
<1> HIDE DEF front
<1>4. /\ grown \in Seq(Nat) /\ Len(grown) = dot + 1
      /\ grown[dot + 1] = s /\ \A t \in 1..dot : grown[t] = front[t]
  BY <1>1, <1>2
<1> HIDE DEF more, grown
<1>5. \A t \in 1..(dot + 1) : more[t] = grown[t]
  <2>1. \A t \in 1..(dot + 1) : t \in 1..dot \/ t = dot + 1
    OBVIOUS
  <2>2. QED
    BY <1>1, <1>3, <1>4, <2>1
<1>6. more = grown
  <2>1. more = [t \in 1..(dot + 1) |-> more[t]]
    BY <1>3
  <2>2. grown = [t \in 1..(dot + 1) |-> grown[t]]
    BY <1>4
  <2>3. QED
    BY <1>5, <2>1, <2>2
<1>7. QED
  BY <1>1, <1>2, <1>6 DEF more, grown, front

----------------------------------------------------------------------------
(* Facts about the first m terminals depend on them only.                  *)

Agree(x, y, m) == m <= Len(x) /\ m <= Len(y) /\ \A t \in 1..m : x[t] = y[t]

LEMMA AllDeriveLocal ==
  ASSUME NEW h, NEW x, NEW y, Len(x) \in Nat, Len(y) \in Nat, NEW m \in Nat, Agree(x, y, m),
         NEW K, NEW L, \A A, a, b : <<A, a, b>> \in K /\ b <= m => <<A, a, b>> \in L,
         NEW rhs, Len(rhs) \in Nat, NEW from \in Nat, NEW to \in Nat, to <= m,
         AllDerive(h, x, K, rhs, from, to)
  PROVE  AllDerive(h, y, L, rhs, from, to)
<1>1. PICK cut \in [0..Len(rhs) -> from..to] :
        /\ cut[0] = from /\ cut[Len(rhs)] = to
        /\ \A t \in 1..Len(rhs) : Derives(h, x, K, rhs[t], cut[t - 1], cut[t])
  BY DEF AllDerive
<1>2. ASSUME NEW s, NEW a \in Nat, NEW b \in Nat, b <= m, Derives(h, x, K, s, a, b)
      PROVE  Derives(h, y, L, s, a, b)
  <2>1. CASE IsTerminal(h, s)
    <3>1. b = a + 1 /\ x[b] = TerminalId(h, s)
      BY <1>2, <2>1 DEF Derives
    <3>2. b \in 1..m
      BY <1>2, <3>1
    <3>3. QED
      BY <2>1, <3>1, <3>2 DEF Derives, Agree
  <2>2. CASE ~IsTerminal(h, s)
    BY <1>2, <2>2 DEF Derives
  <2>3. QED
    BY <2>1, <2>2
<1>3. ASSUME NEW t \in 1..Len(rhs) PROVE Derives(h, y, L, rhs[t], cut[t - 1], cut[t])
  <2>1. t - 1 \in 0..Len(rhs) /\ t \in 0..Len(rhs)
    OBVIOUS
  <2>2. cut[t - 1] \in from..to /\ cut[t] \in from..to
    BY <1>1, <2>1
  <2>3. cut[t - 1] \in Nat /\ cut[t] \in Nat /\ cut[t] <= m
    BY <2>2
  <2>4. QED
    BY <1>1, <1>2, <2>3
<1>4. QED
  BY <1>1, <1>3 DEF AllDerive

LEMMA DerivedLocal ==
  ASSUME NEW h, Valid(h), NEW x, NEW y, Len(x) \in Nat, Len(y) \in Nat,
         NEW m \in Nat, Agree(x, y, m)
  PROVE  \A A, a, b : <<A, a, b>> \in Derived(h, x) /\ b <= m => <<A, a, b>> \in Derived(h, y)
<1> DEFINE Y == Derived(h, y)
           K == {f \in Facts(h, x) : f[3] <= m => f \in Y}
<1>0. h.nt \in Nat /\ h.start \in Nonterminals(h) /\ \A p \in Prods(h) : Rhs(h, p) \in Seq(Nat)
  BY ValidParts
<1>1. \A A, a, b : <<A, a, b>> \in K /\ b <= m => <<A, a, b>> \in Y
  OBVIOUS
<1>2. OneTaller(h, y, Y) = Y
  BY <1>0, DerivedClosed
<1>3. OneTaller(h, x, K) \subseteq K
  <2> SUFFICES ASSUME NEW f \in OneTaller(h, x, K), f[3] <= m PROVE f \in Y
    BY DEF OneTaller
  <2>1. f \in Facts(h, x)
    BY DEF OneTaller
  <2>2. PICK p \in Prods(h) : Lhs(h, p) = f[1] /\ AllDerive(h, x, K, Rhs(h, p), f[2], f[3])
    BY DEF OneTaller
  <2>3. /\ f[1] \in Nonterminals(h) /\ f[2] \in Nat /\ f[3] \in Nat /\ f[2] <= f[3]
        /\ f = <<f[1], f[2], f[3]>>
    BY <2>1 DEF Facts
  <2>4. f \in Facts(h, y)
    <3>1. f[2] \in 0..Len(y) /\ f[3] \in 0..Len(y)
      BY <2>3 DEF Agree
    <3>2. QED
      BY <2>3, <3>1 DEF Facts
  <2> HIDE DEF K, Y
  <2>5. AllDerive(h, y, Y, Rhs(h, p), f[2], f[3])
    <3>1. Len(Rhs(h, p)) \in Nat
      BY <1>0
    <3>2. QED
      BY <1>1, <2>2, <2>3, <3>1, AllDeriveLocal
  <2>6. f \in OneTaller(h, y, Y)
    BY <2>2, <2>4, <2>5 DEF OneTaller
  <2>7. QED
    BY <1>2, <2>6
<1>4. Derived(h, x) \subseteq K
  <2> HIDE DEF K
  <2>1. QED
    BY <1>0, <1>3, DerivedLeast
<1>5. QED
  BY <1>1, <1>4

LEMMA DueLocal ==
  ASSUME NEW h, Valid(h), NEW x, NEW y, Len(x) \in Nat, Len(y) \in Nat, NEW m \in Nat, Agree(x, y, m)
  PROVE  \A d \in Due(h, x) : d[2] <= m => d \in Due(h, y)
<1> DEFINE X == Derived(h, x)
           Y == Derived(h, y)
           K == {d \in Begins(h, x) : d[2] <= m => d \in Due(h, y)}
<1>0. h.nt \in Nat /\ h.start \in Nonterminals(h) /\ \A p \in Prods(h) : Rhs(h, p) \in Seq(Nat)
  BY ValidParts
<1>1. OneDeeper(h, y, Y, Due(h, y)) = Due(h, y)
  BY <1>0, DueClosed
<1>2. \A A, a, b : <<A, a, b>> \in X /\ b <= m => <<A, a, b>> \in Y
  BY DerivedLocal
<1>3. OneDeeper(h, x, X, K) \subseteq K
  <2>1. <<h.start, 0>> \in K
    <3>1. <<h.start, 0>> \in Begins(h, x)
      BY <1>0 DEF Begins
    <3>2. <<h.start, 0>> \in Due(h, y)
      BY <1>1 DEF OneDeeper
    <3>3. QED
      BY <3>1, <3>2
  <2>2. ASSUME NEW d \in K, NEW f \in DueWithin(h, x, X, d) PROVE f \in K
    <3>1. d \in Begins(h, x)
      OBVIOUS
    <3>2. d[2] \in 0..Len(x)
      BY <3>1 DEF Begins
    <3>3. /\ f[1] \in Nonterminals(h) /\ f[2] \in d[2]..Len(x) /\ f = <<f[1], f[2]>>
      BY DEF DueWithin
    <3>4. f[2] \in 0..Len(x) /\ f[2] \in Nat /\ d[2] \in Nat /\ d[2] <= f[2]
      BY <3>2, <3>3
    <3>5. f \in Begins(h, x)
      BY <3>3, <3>4 DEF Begins
    <3>6. ASSUME f[2] <= m PROVE f \in Due(h, y)
      <4>1. d \in Due(h, y)
        <5>1. d[2] <= m
          BY <3>4, <3>6
        <5>2. QED
          BY <2>2, <5>1
      <4> HIDE DEF K, X, Y
      <4>2. PICK p \in Prods(h) : Lhs(h, p) = d[1] /\ \E t \in 1..Len(Rhs(h, p)) :
              Rhs(h, p)[t] = f[1] /\ AllDerive(h, x, X, SubSeq(Rhs(h, p), 1, t - 1), d[2], f[2])
        BY DEF DueWithin
      <4>3. PICK t \in 1..Len(Rhs(h, p)) :
              Rhs(h, p)[t] = f[1] /\ AllDerive(h, x, X, SubSeq(Rhs(h, p), 1, t - 1), d[2], f[2])
        BY <4>2
      <4> DEFINE before == SubSeq(Rhs(h, p), 1, t - 1)
      <4>4. Len(before) \in Nat
        BY <1>0
      <4>5. AllDerive(h, y, Y, before, d[2], f[2])
        <5> HIDE DEF before
        <5>1. AllDerive(h, x, X, before, d[2], f[2])
          BY <4>3 DEF before
        <5>2. QED
          BY <1>2, <3>4, <3>6, <4>4, <5>1, AllDeriveLocal
      <4>6. f[2] \in d[2]..Len(y)
        BY <3>4, <3>6 DEF Agree
      <4>7. f \in DueWithin(h, y, Y, d)
        BY <3>3, <4>2, <4>3, <4>5, <4>6 DEF DueWithin
      <4>8. f \in OneDeeper(h, y, Y, Due(h, y))
        BY <4>1, <4>7 DEF OneDeeper
      <4>9. QED
        BY <1>1, <4>8
    <3>7. QED
      BY <3>5, <3>6
  <2> HIDE DEF K, X
  <2>3. QED
    BY <2>1, <2>2 DEF OneDeeper
<1>4. K \in SUBSET Begins(h, x)
  OBVIOUS
<1>5. Due(h, x) \subseteq K
  <2> HIDE DEF K
  <2>1. QED
    BY <1>0, <1>3, <1>4, DueLeast
<1>6. QED
  BY <1>5

----------------------------------------------------------------------------
(* Sequences put together.                                                 *)

\* What holds of the empty sequence, and of a sequence with one more element
\* in front, holds of all.
LEMMA FrontInduction ==
  ASSUME NEW S, NEW P, <<>> \in P,
         \A a \in S : \A t \in Seq(S) : t \in P => <<a>> \o t \in P
  PROVE  Seq(S) \subseteq P
<1> DEFINE T == {n \in Nat : \A s \in Seq(S) : Len(s) = n => s \in P}
<1>1. 0 \in T
  <2>1. \A s \in Seq(S) : Len(s) = 0 => s = <<>>
    OBVIOUS
  <2>2. QED
    BY <2>1
<1>2. ASSUME NEW n \in Nat, n \in T PROVE n + 1 \in T
  <2> SUFFICES ASSUME NEW s \in Seq(S), Len(s) = n + 1 PROVE s \in P
    OBVIOUS
  <2>1. s # <<>> /\ Head(s) \in S /\ Tail(s) \in Seq(S) /\ Len(Tail(s)) = n
    OBVIOUS
  <2>2. s = <<Head(s)>> \o Tail(s)
    BY <2>1
  <2>3. Tail(s) \in P
    BY <1>2, <2>1
  <2> DEFINE a == Head(s)
             t == Tail(s)
  <2>4. a \in S /\ t \in Seq(S) /\ t \in P /\ s = <<a>> \o t
    BY <2>1, <2>2, <2>3
  <2> HIDE DEF a, t
  <2>5. QED
    BY <2>4
<1> HIDE DEF T
<1>3. Nat \subseteq T
  BY <1>1, <1>2, Induction
<1>4. \A s \in Seq(S) : Len(s) \in Nat
  OBVIOUS
<1>5. QED
  BY <1>3, <1>4 DEF T

ElementsOf(s) == {s[i] : i \in DOMAIN s}

LEMMA ElementsOfBoth ==
  ASSUME NEW S, NEW s \in Seq(S), NEW t \in Seq(S)
  PROVE  ElementsOf(s \o t) = ElementsOf(s) \cup ElementsOf(t)
<1>1. s \in Seq(S) /\ t \in Seq(S)
  OBVIOUS
<1>2. Range(s \o t) = Range(s) \cup Range(t)
  BY <1>1, RangeConcatenation, ZenonT(60)
<1>3. QED
  BY <1>2 DEF Range, ElementsOf

LEMMA Elements ==
  ASSUME NEW S, NEW s \in Seq(S)
  PROVE  /\ Len(s) \in Nat /\ DOMAIN s = 1..Len(s)
         /\ ElementsOf(s) = {s[i] : i \in 1..Len(s)} /\ ElementsOf(s) \subseteq S
<1>1. Len(s) \in Nat /\ DOMAIN s = 1..Len(s) /\ \A i \in 1..Len(s) : s[i] \in S
  OBVIOUS
<1>2. QED
  BY <1>1 DEF ElementsOf

LEMMA ElementsOfConcat ==
  ASSUME NEW S, NEW s \in Seq(S), NEW t \in Seq(S)
  PROVE  s \o t \in Seq(S) /\ ElementsOf(s \o t) = ElementsOf(s) \cup ElementsOf(t)
<1>1. s \o t \in Seq(S)
  BY ConcatProperties
<1>2. s \in Seq(S) /\ t \in Seq(S)
  OBVIOUS
<1>3. ElementsOf(s \o t) = ElementsOf(s) \cup ElementsOf(t)
  BY <1>2, ElementsOfBoth, ZenonT(60)
<1>4. QED
  BY <1>1, <1>3

LEMMA ElementsOfOne ==
  ASSUME NEW S, NEW x \in S
  PROVE  /\ <<x>> \in Seq(S) /\ ElementsOf(<<x>>) = {x}
         /\ <<>> \in Seq(S) /\ ElementsOf(<<>>) = {}
<1>1. <<x>> \in Seq(S) /\ Len(<<x>>) = 1 /\ <<x>>[1] = x /\ <<>> \in Seq(S) /\ Len(<<>>) = 0
  OBVIOUS
<1>2. ElementsOf(<<x>>) = {<<x>>[i] : i \in 1..1}
  BY <1>1, Elements
<1>3. 1..1 = {1}
  OBVIOUS
<1>4. ElementsOf(<<x>>) = {x}
  BY <1>1, <1>2, <1>3
<1>5. ElementsOf(<<>>) = {}
  BY DEF ElementsOf
<1>6. QED
  BY <1>1, <1>4, <1>5

LEMMA ElementsOfMore ==
  ASSUME NEW S, NEW s \in Seq(S), NEW x \in S
  PROVE  Append(s, x) \in Seq(S) /\ ElementsOf(Append(s, x)) = ElementsOf(s) \cup {x}
<1>1. Append(s, x) = s \o <<x>>
  BY AppendIsConcat
<1>2. <<x>> \in Seq(S) /\ ElementsOf(<<x>>) = {x}
  BY ElementsOfOne
<1> DEFINE one == <<x>>
<1>3. one \in Seq(S) /\ ElementsOf(one) = {x} /\ Append(s, x) = s \o one
  BY <1>1, <1>2
<1> HIDE DEF one
<1>4. s \o one \in Seq(S) /\ ElementsOf(s \o one) = ElementsOf(s) \cup ElementsOf(one)
  BY <1>3, ElementsOfConcat
<1>5. QED
  BY <1>3, <1>4

\* FlattenSeq of SequencesExt, which cannot be instantiated beside the
\* theorems about finite sets.
Joined(seqs) ==
  IF Len(seqs) = 0 THEN seqs
  ELSE LET flatten[i \in 1..Len(seqs)] == IF i = 1 THEN seqs[i] ELSE flatten[i - 1] \o seqs[i]
       IN flatten[Len(seqs)]

IsJoin(s, f) == f = [i \in 1..Len(s) |-> IF i = 1 THEN s[i] ELSE f[i - 1] \o s[i]]
HasJoin(s) == \E f : IsJoin(s, f)

LEMMA JoinExists ==
  ASSUME NEW S, NEW s \in Seq(Seq(S)), s # <<>>
  PROVE  HasJoin(s)
<1> DEFINE len == Len(s)
           first == s[1]
           step == [x \in Nat \X Seq(S) |-> IF x[1] + 2 \in 1..len THEN x[2] \o s[x[1] + 2] ELSE x[2]]
<1>1. len \in Nat /\ len >= 1 /\ \A i \in 1..len : s[i] \in Seq(S)
  BY LenProperties, ElementOfSeq
<1>2. first \in Seq(S)
  BY <1>1
<1>3. step \in [Nat \X Seq(S) -> Seq(S)]
  <2>1. \A x, y \in Seq(S) : x \o y \in Seq(S)
    BY ConcatProperties
  <2>2. ASSUME NEW x \in Nat \X Seq(S)
        PROVE  (IF x[1] + 2 \in 1..len THEN x[2] \o s[x[1] + 2] ELSE x[2]) \in Seq(S)
    BY <1>1, <2>1
  <2> HIDE DEF len
  <2>3. QED
    BY <2>2
<1>4. PICK h : h \in [Nat -> Seq(S)] /\ h[0] = first /\ \A k \in Nat : h[k + 1] = step[<<k, h[k]>>]
  <2> HIDE DEF first, step
  <2>1. HasRecursive(Seq(S), first, step)
    BY <1>2, <1>3, Recursion
  <2>2. QED
    BY <2>1 DEF HasRecursive, Recursive
<1> DEFINE f == [i \in 1..len |-> h[i - 1]]
<1>5. ASSUME NEW i \in 1..len
      PROVE  f[i] = IF i = 1 THEN s[i] ELSE f[i - 1] \o s[i]
  <2>1. CASE i = 1
    BY <1>4, <2>1
  <2>2. CASE i # 1
    <3>1. i - 2 \in Nat /\ (i - 2) + 1 = i - 1 /\ (i - 2) + 2 = i /\ i - 1 \in 1..len /\ (i - 1) - 1 = i - 2
      BY <1>1, <2>2
    <3>2. h[(i - 2) + 1] = step[<<i - 2, h[i - 2]>>] /\ h[i - 2] \in Seq(S)
      BY <1>4, <3>1
    <3>3. step[<<i - 2, h[i - 2]>>] = h[i - 2] \o s[i]
      <4> HIDE DEF len
      <4>1. <<i - 2, h[i - 2]>> \in Nat \X Seq(S)
        BY <3>1, <3>2
      <4>2. QED
        BY <3>1, <4>1
    <3>4. f[i] = h[i - 1] /\ f[i - 1] = h[i - 2]
      BY <3>1
    <3> HIDE DEF f, step
    <3>5. QED
      BY <2>2, <3>1, <3>2, <3>3, <3>4
  <2>3. QED
    BY <2>1, <2>2
<1>6. f = [i \in 1..len |-> IF i = 1 THEN s[i] ELSE f[i - 1] \o s[i]]
  <2>1. f = [i \in 1..len |-> f[i]]
    OBVIOUS
  <2> HIDE DEF f, len
  <2>2. QED
    BY <1>5, <2>1
<1> HIDE DEF f
<1>7. QED
  BY <1>6 DEF HasJoin, IsJoin

LEMMA JoinSteps ==
  ASSUME NEW S, NEW s \in Seq(Seq(S)), s # <<>>
  PROVE  \E f : /\ \A i \in 1..Len(s) : f[i] \in Seq(S)
                /\ f[1] = s[1]
                /\ \A i \in 2..Len(s) : f[i] = f[i - 1] \o s[i]
                /\ Joined(s) = f[Len(s)]
<1> DEFINE f == CHOOSE f : IsJoin(s, f)
           len == Len(s)
<1>1. len \in Nat /\ len >= 1 /\ \A i \in 1..len : s[i] \in Seq(S)
  BY LenProperties, ElementOfSeq
<1>2. IsJoin(s, f)
  BY JoinExists DEF HasJoin
<1>3. Joined(s) = f[len]
  BY <1>1 DEF Joined, IsJoin
<1> HIDE DEF f
<1>4. f = [i \in 1..len |-> IF i = 1 THEN s[i] ELSE f[i - 1] \o s[i]]
  BY <1>2 DEF IsJoin
<1>5. f[1] = s[1] /\ \A i \in 2..len : f[i] = f[i - 1] \o s[i]
  <2>1. 1 \in 1..len /\ \A i \in 2..len : i \in 1..len /\ i # 1
    BY <1>1
  <2> HIDE DEF len
  <2>2. QED
    BY <1>4, <2>1
<1> DEFINE T == {k \in Nat : k + 1 <= len => f[k + 1] \in Seq(S)}
<1>6. 0 \in T
  BY <1>1, <1>5
<1>7. ASSUME NEW k \in Nat, k \in T PROVE k + 1 \in T
  <2> SUFFICES ASSUME (k + 1) + 1 <= len PROVE f[(k + 1) + 1] \in Seq(S)
    OBVIOUS
  <2>1. (k + 1) + 1 \in 2..len /\ ((k + 1) + 1) - 1 = k + 1 /\ k + 1 <= len /\ (k + 1) + 1 \in 1..len
    BY <1>1
  <2>2. f[(k + 1) + 1] = f[k + 1] \o s[(k + 1) + 1]
    BY <1>5, <2>1
  <2>3. f[k + 1] \in Seq(S) /\ s[(k + 1) + 1] \in Seq(S)
    BY <1>1, <1>7, <2>1
  <2>4. QED
    BY <2>2, <2>3, ConcatProperties
<1> HIDE DEF T
<1>8. Nat \subseteq T
  BY <1>6, <1>7, Induction
<1>9. ASSUME NEW i \in 1..len PROVE f[i] \in Seq(S)
  <2>1. i - 1 \in T /\ (i - 1) + 1 = i /\ i <= len
    BY <1>1, <1>8
  <2>2. QED
    BY <2>1 DEF T
<1>10. QED
  BY <1>3, <1>5, <1>9

\* The first of them stands before the others.
LEMMA JoinFirst ==
  ASSUME NEW S, NEW x \in Seq(S), NEW t \in Seq(Seq(S))
  PROVE  /\ Joined(<<x>> \o t) = x \o Joined(t)
         /\ Joined(t) \in Seq(S)
<1> DEFINE s == <<x>> \o t
           len == Len(t)
<1>1. /\ s \in Seq(Seq(S)) /\ s # <<>> /\ Len(s) = len + 1 /\ len \in Nat
      /\ s[1] = x /\ \A i \in 1..len : s[i + 1] = t[i]
  <2>1. <<x>> \in Seq(Seq(S)) /\ Len(<<x>>) = 1 /\ <<x>>[1] = x /\ len \in Nat
    BY LenProperties
  <2>2. /\ s \in Seq(Seq(S)) /\ Len(s) = 1 + len
        /\ \A i \in 1..(1 + len) : s[i] = IF i <= 1 THEN <<x>>[i] ELSE t[i - 1]
    BY <2>1, ConcatProperties
  <2>3. ASSUME NEW i \in 1..len PROVE s[i + 1] = t[i]
    <3>1. i + 1 \in 1..(1 + len) /\ ~(i + 1 <= 1) /\ (i + 1) - 1 = i
      BY <2>1
    <3>2. QED
      BY <2>2, <3>1
  <2> HIDE DEF s, len
  <2>4. 1 \in 1..(1 + len) /\ s # <<>>
    BY <2>1, <2>2
  <2>5. QED
    BY <2>1, <2>2, <2>3, <2>4
<1> HIDE DEF s
<1>2. PICK f : /\ \A i \in 1..(len + 1) : f[i] \in Seq(S)
               /\ f[1] = s[1]
               /\ \A i \in 2..(len + 1) : f[i] = f[i - 1] \o s[i]
               /\ Joined(s) = f[len + 1]
  <2>1. \E f : /\ \A i \in 1..Len(s) : f[i] \in Seq(S)
               /\ f[1] = s[1]
               /\ \A i \in 2..Len(s) : f[i] = f[i - 1] \o s[i]
               /\ Joined(s) = f[Len(s)]
    BY <1>1, JoinSteps
  <2> HIDE DEF len
  <2>2. QED
    BY <1>1, <2>1
<1>3. CASE t = <<>>
  <2>1. len = 0 /\ Joined(t) = <<>>
    BY <1>3 DEF Joined
  <2>2. Joined(s) = x
    BY <1>1, <1>2, <2>1
  <2>3. x \o <<>> = x /\ <<>> \in Seq(S)
    BY ConcatEmptySeq
  <2>4. QED
    BY <2>1, <2>2, <2>3 DEF s
<1>4. CASE t # <<>>
  <2>1. PICK e : /\ \A i \in 1..len : e[i] \in Seq(S)
                 /\ e[1] = t[1]
                 /\ \A i \in 2..len : e[i] = e[i - 1] \o t[i]
                 /\ Joined(t) = e[len]
    BY <1>4, JoinSteps
  <2>2. len >= 1 /\ \A i \in 1..len : t[i] \in Seq(S)
    BY <1>4, LenProperties, ElementOfSeq
  <2> HIDE DEF len
  <2> DEFINE T == {k \in Nat : k + 1 <= len => f[k + 2] = x \o e[k + 1]}
  <2>3. 0 \in T
    <3>1. 2 \in 2..(len + 1) /\ 2 - 1 = 1 /\ 1 \in 1..len /\ 1 + 1 = 2
      BY <1>1, <2>2
    <3>2. f[2] = f[1] \o s[2] /\ s[2] = t[1]
      BY <1>1, <1>2, <3>1
    <3>3. f[2] = x \o e[1]
      BY <1>1, <1>2, <2>1, <3>2
    <3>4. QED
      BY <3>3
  <2>4. ASSUME NEW k \in Nat, k \in T PROVE k + 1 \in T
    <3> SUFFICES ASSUME (k + 1) + 1 <= len PROVE f[(k + 1) + 2] = x \o e[(k + 1) + 1]
      OBVIOUS
    <3>1. /\ (k + 1) + 2 \in 2..(len + 1) /\ ((k + 1) + 2) - 1 = k + 2 /\ k + 1 <= len
          /\ (k + 1) + 1 \in 2..len /\ ((k + 1) + 1) - 1 = k + 1 /\ (k + 1) + 1 \in 1..len
          /\ ((k + 1) + 1) + 1 = (k + 1) + 2 /\ k + 1 \in 1..len
      BY <1>1
    <3>2. f[(k + 1) + 2] = f[k + 2] \o t[(k + 1) + 1]
      BY <1>1, <1>2, <3>1
    <3>3. e[(k + 1) + 1] = e[k + 1] \o t[(k + 1) + 1]
      BY <2>1, <3>1
    <3>4. f[k + 2] = x \o e[k + 1]
      BY <2>4, <3>1
    <3>5. e[k + 1] \in Seq(S) /\ t[(k + 1) + 1] \in Seq(S) /\ x \in Seq(S)
      BY <2>1, <2>2, <3>1
    <3> DEFINE fNext == f[(k + 1) + 2]
               fNow == f[k + 2]
               eNext == e[(k + 1) + 1]
               eNow == e[k + 1]
               word == t[(k + 1) + 1]
    <3>6. /\ fNext = fNow \o word /\ eNext = eNow \o word /\ fNow = x \o eNow
          /\ eNow \in Seq(S) /\ word \in Seq(S)
      BY <3>2, <3>3, <3>4, <3>5
    <3> HIDE DEF fNext, fNow, eNext, eNow, word
    <3>7. (x \o eNow) \o word = x \o (eNow \o word)
      <4>1. eNow \in Seq(S) /\ word \in Seq(S)
        BY <3>6
      <4>2. QED
        BY <4>1, ConcatThree
    <3>8. fNext = x \o eNext
      BY <3>6, <3>7
    <3>9. QED
      BY <3>8 DEF fNext, eNext
  <2> HIDE DEF T
  <2>5. Nat \subseteq T
    BY <2>3, <2>4, Induction
  <2>6. f[len + 1] = x \o e[len]
    <3>1. len - 1 \in T /\ (len - 1) + 1 = len /\ (len - 1) + 2 = len + 1 /\ len <= len
      BY <1>1, <2>2, <2>5
    <3>2. QED
      BY <3>1 DEF T
  <2>7. len \in 1..len
    BY <1>1, <2>2
  <2>8. QED
    BY <1>2, <2>1, <2>6, <2>7 DEF s
<1>5. QED
  BY <1>3, <1>4

LEMMA JoinEmpty == Joined(<<>>) = <<>>
  BY DEF Joined

LEMMA JoinBoth ==
  ASSUME NEW S, NEW x \in Seq(Seq(S)), NEW y \in Seq(Seq(S))
  PROVE  Joined(x \o y) = Joined(x) \o Joined(y) /\ Joined(x) \in Seq(S)
<1> DEFINE W == Seq(S)
           P == {z \in Seq(W) : Joined(z \o y) = Joined(z) \o Joined(y)}
<1>0. \A z \in Seq(W) : Joined(z) \in W
  BY JoinFirst, EmptySeq
<1>1. <<>> \in P
  <2>1. <<>> \in Seq(W) /\ <<>> \o y = y /\ <<>> \o Joined(y) = Joined(y)
    BY <1>0, ConcatEmptySeq, EmptySeq
  <2>2. QED
    BY <2>1, JoinEmpty
<1>2. ASSUME NEW a \in W, NEW t \in Seq(W), t \in P PROVE <<a>> \o t \in P
  <2>1. <<a>> \in Seq(W) /\ <<a>> \o t \in Seq(W) /\ t \o y \in Seq(W)
    BY ConcatProperties
  <2>2. (<<a>> \o t) \o y = <<a>> \o (t \o y)
    BY <2>1, ConcatThree
  <2>3. Joined(<<a>> \o (t \o y)) = a \o Joined(t \o y)
    BY <2>1, JoinFirst
  <2>4. Joined(t \o y) = Joined(t) \o Joined(y)
    BY <1>2
  <2>5. Joined(<<a>> \o t) = a \o Joined(t)
    BY JoinFirst
  <2>6. (a \o Joined(t)) \o Joined(y) = a \o (Joined(t) \o Joined(y))
    <3>1. Joined(t) \in Seq(S) /\ Joined(y) \in Seq(S) /\ a \in Seq(S)
      BY <1>0
    <3>2. QED
      BY <3>1, ConcatThree
  <2>7. QED
    BY <2>1, <2>2, <2>3, <2>4, <2>5, <2>6
<1> HIDE DEF P
<1>3. Seq(W) \subseteq P
  BY <1>1, <1>2, FrontInduction
<1>4. QED
  BY <1>0, <1>3 DEF P

\* What is in the parts is in the whole.
LEMMA ElementsOfJoined ==
  ASSUME NEW S, NEW z \in Seq(Seq(S))
  PROVE  /\ Joined(z) \in Seq(S)
         /\ ElementsOf(Joined(z)) = UNION {ElementsOf(z[k]) : k \in 1..Len(z)}
<1> DEFINE W == Seq(S)
           P == {y \in Seq(W) : ElementsOf(Joined(y)) = UNION {ElementsOf(u) : u \in ElementsOf(y)}}
<1>1. <<>> \in P
  <2>1. <<>> \in Seq(W) /\ ElementsOf(<<>>) = {}
    BY DEF ElementsOf
  <2>2. QED
    BY <2>1, JoinEmpty
<1>2. ASSUME NEW a \in W, NEW t \in Seq(W), t \in P PROVE <<a>> \o t \in P
  <2>1. <<a>> \in Seq(W) /\ ElementsOf(<<a>>) = {a}
    BY ElementsOfOne
  <2>2. <<a>> \o t \in Seq(W) /\ ElementsOf(<<a>> \o t) = {a} \cup ElementsOf(t)
    <3> DEFINE one == <<a>>
    <3>1. one \in Seq(W) /\ ElementsOf(one) = {a} /\ t \in Seq(W)
      BY <2>1
    <3> HIDE DEF one, W, P
    <3>2. one \o t \in Seq(W) /\ ElementsOf(one \o t) = ElementsOf(one) \cup ElementsOf(t)
      BY <3>1, ElementsOfConcat, ZenonT(60)
    <3>3. QED
      BY <3>1, <3>2 DEF one
  <2>3. Joined(<<a>> \o t) = a \o Joined(t) /\ Joined(t) \in Seq(S)
    BY JoinFirst
  <2>4. ElementsOf(a \o Joined(t)) = ElementsOf(a) \cup ElementsOf(Joined(t))
    BY <2>3, ElementsOfConcat
  <2>5. ElementsOf(Joined(t)) = UNION {ElementsOf(u) : u \in ElementsOf(t)}
    BY <1>2
  <2> DEFINE all == <<a>> \o t
  <2>6. all \in Seq(W) /\ ElementsOf(all) = {a} \cup ElementsOf(t) /\ Joined(all) = a \o Joined(t)
    BY <2>2, <2>3
  <2> HIDE DEF all
  <2>7. ElementsOf(Joined(all)) = UNION {ElementsOf(u) : u \in ElementsOf(all)}
    BY <2>4, <2>5, <2>6
  <2>8. QED
    BY <2>6, <2>7 DEF all
<1> HIDE DEF P
<1>3. Seq(W) \subseteq P
  BY <1>1, <1>2, FrontInduction
<1>4. ElementsOf(Joined(z)) = UNION {ElementsOf(u) : u \in ElementsOf(z)}
  BY <1>3 DEF P
<1>5. ElementsOf(z) = {z[k] : k \in 1..Len(z)}
  BY Elements
<1>6. Joined(z) \in Seq(S)
  <2>1. <<>> \in Seq(S)
    BY EmptySeq
  <2>2. QED
    BY <2>1, JoinFirst
<1>7. QED
  BY <1>4, <1>5, <1>6

\* A sequence with each element replaced by a sequence of its own.
Spread(g, s) == Joined([j \in 1..Len(s) |-> g[s[j]]])

LEMMA SpreadBoth ==
  ASSUME NEW S, NEW T, NEW g \in [S -> Seq(T)], NEW x \in Seq(S), NEW y \in Seq(S)
  PROVE  Spread(g, x \o y) = Spread(g, x) \o Spread(g, y) /\ Spread(g, x) \in Seq(T)
<1> DEFINE z == x \o y
           gx == [j \in 1..Len(x) |-> g[x[j]]]
           gy == [j \in 1..Len(y) |-> g[y[j]]]
           gz == [j \in 1..Len(z) |-> g[z[j]]]
<1>1. /\ Len(x) \in Nat /\ Len(y) \in Nat /\ z \in Seq(S) /\ Len(z) = Len(x) + Len(y)
      /\ \A j \in 1..Len(z) : z[j] = IF j <= Len(x) THEN x[j] ELSE y[j - Len(x)]
  BY ConcatProperties, LenProperties
<1>2. /\ \A j \in 1..Len(x) : x[j] \in S
      /\ \A j \in 1..Len(y) : y[j] \in S
      /\ \A j \in 1..Len(z) : z[j] \in S
  BY <1>1, ElementOfSeq
<1>3. gx \in Seq(Seq(T)) /\ Len(gx) = Len(x) /\ gy \in Seq(Seq(T)) /\ Len(gy) = Len(y)
      /\ gz \in Seq(Seq(T)) /\ Len(gz) = Len(z)
  <2>1. /\ \A j \in 1..Len(x) : g[x[j]] \in Seq(T)
        /\ \A j \in 1..Len(y) : g[y[j]] \in Seq(T)
        /\ \A j \in 1..Len(z) : g[z[j]] \in Seq(T)
    BY <1>2
  <2>2. Len(z) \in Nat
    BY <1>1
  <2> HIDE DEF z
  <2>3. QED
    BY <1>1, <2>1, <2>2
<1>4. gz = gx \o gy
  <2>1. gx \o gy \in Seq(Seq(T)) /\ Len(gx \o gy) = Len(x) + Len(y)
        /\ \A j \in 1..(Len(x) + Len(y)) :
             (gx \o gy)[j] = IF j <= Len(x) THEN gx[j] ELSE gy[j - Len(x)]
    <3> HIDE DEF gx, gy
    <3>1. gx \in Seq(Seq(T)) /\ gy \in Seq(Seq(T))
      BY <1>3
    <3>2. /\ gx \o gy \in Seq(Seq(T)) /\ Len(gx \o gy) = Len(gx) + Len(gy)
          /\ \A j \in 1..(Len(gx) + Len(gy)) :
               (gx \o gy)[j] = IF j <= Len(gx) THEN gx[j] ELSE gy[j - Len(gx)]
      BY <3>1, ConcatProperties
    <3>3. QED
      BY <1>3, <3>2
  <2>2. ASSUME NEW j \in 1..(Len(x) + Len(y)) PROVE gz[j] = (gx \o gy)[j]
    <3>1. CASE j <= Len(x)
      <4>1. j \in 1..Len(x) /\ j \in 1..Len(z)
        BY <1>1, <3>1
      <4>2. z[j] = x[j] /\ gz[j] = g[z[j]] /\ gx[j] = g[x[j]]
        BY <1>1, <3>1, <4>1
      <4> HIDE DEF gx, gy, gz, z
      <4>3. QED
        BY <2>1, <3>1, <4>2
    <3>2. CASE ~(j <= Len(x))
      <4>1. j - Len(x) \in 1..Len(y) /\ j \in 1..Len(z)
        BY <1>1, <3>2
      <4>2. z[j] = y[j - Len(x)] /\ gz[j] = g[z[j]] /\ gy[j - Len(x)] = g[y[j - Len(x)]]
        BY <1>1, <3>2, <4>1
      <4> HIDE DEF gx, gy, gz, z
      <4>3. QED
        BY <2>1, <3>2, <4>2
    <3>3. QED
      BY <3>1, <3>2
  <2> HIDE DEF gx, gy, gz
  <2>3. QED
    BY <1>1, <1>3, <2>1, <2>2, SeqEqual
<1> HIDE DEF gx, gy, gz
<1>5. Joined(gz) = Joined(gx) \o Joined(gy) /\ Joined(gx) \in Seq(T)
  BY <1>3, <1>4, JoinBoth
<1>6. QED
  BY <1>5 DEF Spread, gx, gy, gz, z

LEMMA SpreadOne ==
  ASSUME NEW S, NEW T, NEW g \in [S -> Seq(T)], NEW a \in S
  PROVE  Spread(g, <<a>>) = g[a] /\ Spread(g, <<>>) = <<>>
<1> DEFINE b == g[a]
<1>1. [j \in 1..Len(<<a>>) |-> g[<<a>>[j]]] = <<b>>
  OBVIOUS
<1>2. b \in Seq(T)
  OBVIOUS
<1>3. [j \in 1..Len(<<>>) |-> g[<<>>[j]]] = <<>>
  OBVIOUS
<1> HIDE DEF b
<1>4. <<b>> \o <<>> = <<b>> /\ b \o <<>> = b /\ <<>> \in Seq(Seq(T)) /\ <<b>> \in Seq(Seq(T))
  BY <1>2, ConcatEmptySeq, EmptySeq
<1>5. Joined(<<b>>) = b
  <2>1. Joined(<<b>> \o <<>>) = b \o Joined(<<>>)
    BY <1>2, <1>4, JoinFirst
  <2>2. QED
    BY <1>4, <2>1, JoinEmpty
<1>6. QED
  BY <1>1, <1>3, <1>5, JoinEmpty DEF Spread, b

\* An insertion divides a sequence in two.
LEMMA InsertedSplit ==
  ASSUME NEW S, NEW s \in Seq(S), NEW t \in S, NEW k \in 1..(Len(s) + 1)
  PROVE  LET front == SubSeq(s, 1, k - 1)
             back == SubSeq(s, k, Len(s))
         IN /\ front \in Seq(S) /\ back \in Seq(S)
            /\ s = front \o back /\ Inserted(s, t, k) = (front \o <<t>>) \o back
<1> DEFINE front == SubSeq(s, 1, k - 1)
           back == SubSeq(s, k, Len(s))
           one == <<t>>
           joined == front \o back
           more == front \o one
           all == more \o back
           inserted == Inserted(s, t, k)
<1>1. Len(s) \in Nat /\ k \in Nat /\ 1 <= k /\ k <= Len(s) + 1
  OBVIOUS
<1>2. /\ front \in Seq(S) /\ Len(front) = k - 1 /\ \A j \in 1..(k - 1) : front[j] = s[j]
      /\ back \in Seq(S) /\ Len(back) = Len(s) - k + 1 /\ \A j \in 1..(Len(s) - k + 1) : back[j] = s[k + j - 1]
      /\ one \in Seq(S) /\ Len(one) = 1 /\ one[1] = t
  OBVIOUS
<1> HIDE DEF front, back, one
<1>3. /\ joined \in Seq(S) /\ Len(joined) = Len(s)
      /\ \A j \in 1..Len(s) : joined[j] = IF j <= k - 1 THEN front[j] ELSE back[j - (k - 1)]
  BY <1>1, <1>2, ConcatProperties
<1>4. /\ more \in Seq(S) /\ Len(more) = k
      /\ \A j \in 1..k : more[j] = IF j <= k - 1 THEN front[j] ELSE one[j - (k - 1)]
  <2>1. /\ more \in Seq(S) /\ Len(more) = Len(front) + Len(one)
        /\ \A j \in 1..(Len(front) + Len(one)) :
             more[j] = IF j <= Len(front) THEN front[j] ELSE one[j - Len(front)]
    BY <1>2, ConcatProperties
  <2>2. Len(front) + Len(one) = k
    BY <1>1, <1>2
  <2>3. QED
    BY <1>2, <2>1, <2>2
<1> HIDE DEF joined, more
<1>5. /\ all \in Seq(S) /\ Len(all) = Len(s) + 1
      /\ \A j \in 1..(Len(s) + 1) : all[j] = IF j <= k THEN more[j] ELSE back[j - k]
  <2>1. /\ all \in Seq(S) /\ Len(all) = Len(more) + Len(back)
        /\ \A j \in 1..(Len(more) + Len(back)) :
             all[j] = IF j <= Len(more) THEN more[j] ELSE back[j - Len(more)]
    BY <1>2, <1>4, ConcatProperties
  <2>2. Len(more) + Len(back) = Len(s) + 1
    BY <1>1, <1>2, <1>4
  <2>3. QED
    BY <1>4, <2>1, <2>2
<1> HIDE DEF all
<1>6. \A j \in 1..Len(s) : joined[j] = s[j]
  <2> SUFFICES ASSUME NEW j \in 1..Len(s) PROVE joined[j] = s[j]
    OBVIOUS
  <2>1. CASE j <= k - 1
    BY <1>1, <1>2, <1>3, <2>1
  <2>2. CASE ~(j <= k - 1)
    <3>1. j - (k - 1) \in 1..(Len(s) - k + 1) /\ k + (j - (k - 1)) - 1 = j
      BY <1>1, <2>2
    <3>2. QED
      BY <1>2, <1>3, <2>2, <3>1
  <2>3. QED
    BY <2>1, <2>2
<1>7. inserted = [j \in 1..(Len(s) + 1) |-> IF j < k THEN s[j] ELSE IF j = k THEN t ELSE s[j - 1]]
  BY DEF Inserted
<1>8. \A j \in 1..(Len(s) + 1) : inserted[j] = all[j]
  <2> SUFFICES ASSUME NEW j \in 1..(Len(s) + 1) PROVE inserted[j] = all[j]
    OBVIOUS
  <2>0. inserted[j] = IF j < k THEN s[j] ELSE IF j = k THEN t ELSE s[j - 1]
    BY <1>7
  <2>1. CASE j < k
    <3>1. j \in 1..k /\ j \in 1..(k - 1) /\ j <= k - 1 /\ j <= k
      BY <1>1, <2>1
    <3>2. QED
      BY <1>2, <1>4, <1>5, <2>0, <2>1, <3>1
  <2>2. CASE j = k
    <3>1. j \in 1..k /\ ~(j <= k - 1) /\ j <= k /\ j - (k - 1) = 1 /\ ~(j < k)
      BY <1>1, <2>2
    <3>2. QED
      BY <1>2, <1>4, <1>5, <2>0, <2>2, <3>1
  <2>3. CASE j > k
    <3>1. j - k \in 1..(Len(s) - k + 1) /\ k + (j - k) - 1 = j - 1 /\ ~(j <= k) /\ ~(j < k) /\ j # k
      BY <1>1, <2>3
    <3>2. QED
      BY <1>2, <1>5, <2>0, <3>1
  <2>4. QED
    BY <1>1, <2>1, <2>2, <2>3
<1>9. inserted = all
  <2>1. all = [j \in 1..(Len(s) + 1) |-> all[j]]
    BY <1>5
  <2>2. inserted = [j \in 1..(Len(s) + 1) |-> inserted[j]]
    BY <1>7
  <2> HIDE DEF inserted
  <2>3. QED
    BY <1>8, <2>1, <2>2
<1>10. joined = s
  <2>1. joined = [j \in 1..Len(s) |-> joined[j]] /\ s = [j \in 1..Len(s) |-> s[j]]
    BY <1>3
  <2>2. QED
    BY <1>6, <2>1
<1>11. QED
  BY <1>2, <1>9, <1>10 DEF joined, more, all, inserted, front, back, one
----------------------------------------------------------------------------
(* Finite sets of one size.                                                *)

\* A function that repeats no value is onto exactly where its two sets are of
\* one size.
LEMMA InjectiveOnto ==
  ASSUME NEW S, NEW T, NEW f \in [S -> T], IsFiniteSet(T), \A x, y \in S : f[x] = f[y] => x = y
  PROVE  Cardinality(S) = Cardinality(T) <=> \A t \in T : \E x \in S : f[x] = t
<1>1. f \in Injection(S, T)
  BY DEF Injection, IsInjective
<1>2. Cardinality(S) = Cardinality(T) <=> f \in Surjection(S, T)
  BY <1>1, FS_Injection
<1>3. f \in Surjection(S, T) <=> \A t \in T : \E x \in S : f[x] = t
  BY DEF Surjection
<1>4. QED
  BY <1>2, <1>3
=============================================================================
