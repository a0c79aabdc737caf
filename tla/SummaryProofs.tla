---------------------------- MODULE SummaryProofs ---------------------------
(***************************************************************************)
(* What a summary says of a machine is about all that the machine can      *)
(* reach within the bound, and about paths that it has: proved for every   *)
(* machine and bound, whatever the order of the sweeps.                    *)
(***************************************************************************)
EXTENDS Summary, SharedLemmas
LOCAL INSTANCE SequencesExt

----------------------------------------------------------------------------
(* The recursive functions of the model.                                   *)

HasSteps(S, first, next) ==
  \E f \in [Nat -> S] : f = [k \in Nat |-> IF k = 0 THEN first ELSE next[f[k - 1]]]

LEMMA StepsFrom ==
  ASSUME NEW S, NEW first \in S, NEW next \in [S -> S]
  PROVE  HasSteps(S, first, next)
<1> DEFINE step == [p \in Nat \X S |-> next[p[2]]]
<1>1. step \in [Nat \X S -> S]
  OBVIOUS
<1> HIDE DEF step
<1>2. FromZero(Nat)
  BY DEF FromZero
<1>3. RecursiveOn(Nat, S, first, step)
  BY <1>1, <1>2, RecursionOn
<1>4. PICK f \in [Nat -> S] : f = [k \in Nat |-> IF k = 0 THEN first ELSE step[<<k - 1, f[k - 1]>>]]
  BY <1>3 DEF RecursiveOn
<1>5. ASSUME NEW k \in Nat PROVE f[k] = IF k = 0 THEN first ELSE next[f[k - 1]]
  <2>1. CASE k = 0
    BY <1>4, <2>1
  <2>2. CASE k # 0
    <3> DEFINE i == k - 1
               p == <<i, f[i]>>
    <3>1. i \in Nat
      BY <2>2
    <3>2. f[k] = step[p]
      BY <1>4, <2>2
    <3> HIDE DEF i
    <3>3. p \in Nat \X S /\ p[2] = f[i]
      BY <3>1
    <3> HIDE DEF p
    <3>4. step[p] = next[f[i]]
      BY <3>3 DEF step
    <3>5. QED
      BY <2>2, <3>2, <3>4 DEF i
  <2>3. QED
    BY <2>1, <2>2
<1>6. f = [k \in Nat |-> f[k]]
  OBVIOUS
<1>7. f = [k \in Nat |-> IF k = 0 THEN first ELSE next[f[k - 1]]]
  BY <1>5, <1>6
<1>8. QED
  BY <1>7 DEF HasSteps

----------------------------------------------------------------------------
(* The members of sequences.                                               *)

LEMMA Members ==
  ASSUME NEW S, NEW s \in Seq(S)
  PROVE  /\ Len(s) \in Nat /\ DOMAIN s = 1..Len(s)
         /\ ToSet(s) = {s[i] : i \in 1..Len(s)} /\ ToSet(s) \subseteq S
<1>1. s \in Seq(S)
  OBVIOUS
<1>2. /\ Len(s) \in Nat /\ DOMAIN s = 1..Len(s)
      /\ ElementsOf(s) = {s[i] : i \in 1..Len(s)} /\ ElementsOf(s) \subseteq S
  BY <1>1, Elements, ZenonT(60)
<1>3. ElementsOf(s) = ToSet(s)
  BY DEF ElementsOf, ToSet
<1>4. QED
  BY <1>2, <1>3

LEMMA BothMembers ==
  ASSUME NEW S, NEW s \in Seq(S), NEW t \in Seq(S)
  PROVE  s \o t \in Seq(S) /\ ToSet(s \o t) = ToSet(s) \cup ToSet(t)
<1>1. s \in Seq(S) /\ t \in Seq(S)
  OBVIOUS
<1>2. s \o t \in Seq(S) /\ ElementsOf(s \o t) = ElementsOf(s) \cup ElementsOf(t)
  BY <1>1, ElementsOfConcat, ZenonT(60)
<1>3. \A u : ElementsOf(u) = ToSet(u)
  BY DEF ElementsOf, ToSet
<1>4. QED
  BY <1>2, <1>3

LEMMA OneMember ==
  ASSUME NEW S, NEW x \in S
  PROVE  /\ <<x>> \in Seq(S) /\ ToSet(<<x>>) = {x}
         /\ <<>> \in Seq(S) /\ ToSet(<<>>) = {}
  BY ElementsOfOne DEF ElementsOf, ToSet

LEMMA OneMore ==
  ASSUME NEW S, NEW s \in Seq(S), NEW x \in S
  PROVE  Append(s, x) \in Seq(S) /\ ToSet(Append(s, x)) = ToSet(s) \cup {x}
<1>1. s \in Seq(S) /\ x \in S
  OBVIOUS
<1>2. Append(s, x) \in Seq(S) /\ ElementsOf(Append(s, x)) = ElementsOf(s) \cup {x}
  BY <1>1, ElementsOfMore, ZenonT(60)
<1>3. \A u : ElementsOf(u) = ToSet(u)
  BY DEF ElementsOf, ToSet
<1>4. QED
  BY <1>2, <1>3

LEMMA LastTaken ==
  ASSUME NEW S, NEW s \in Seq(S), s # <<>>
  PROVE  /\ Last(s) \in S /\ Last(s) \in ToSet(s) /\ Front(s) \in Seq(S)
         /\ ToSet(s) = ToSet(Front(s)) \cup {Last(s)}
<1> DEFINE n == Len(s)
<1>1. n \in Nat /\ n > 0 /\ n - 1 \in Nat /\ n \in 1..n /\ s[n] \in S
  OBVIOUS
<1>2. Last(s) = s[n] /\ Front(s) = SubSeq(s, 1, n - 1)
  BY DEF Last, Front
<1>3. /\ Front(s) \in Seq(S) /\ Len(Front(s)) = n - 1
      /\ \A i \in 1..(n - 1) : Front(s)[i] = s[i]
  <2> DEFINE k == n - 1
             u == SubSeq(s, 1, k)
  <2>1. k \in Nat /\ k <= Len(s)
    BY <1>1
  <2>2. Front(s) = u
    BY <1>2
  <2> HIDE DEF k
  <2>3. u \in Seq(S) /\ Len(u) = k /\ \A i \in 1..k : u[i] = s[i]
    BY <2>1
  <2> HIDE DEF u
  <2>4. QED
    BY <2>2, <2>3 DEF k
<1>4. ToSet(s) = {s[i] : i \in 1..n}
  <2>1. s \in Seq(S)
    OBVIOUS
  <2>2. ToSet(s) = {s[i] : i \in 1..Len(s)}
    BY <2>1, Members, ZenonT(60)
  <2>3. QED
    BY <2>2
<1>5. ToSet(Front(s)) = {s[i] : i \in 1..(n - 1)}
  BY <1>3, Members
<1>6. 1..n = 1..(n - 1) \cup {n}
  BY <1>1
<1> HIDE DEF n
<1>7. QED
  BY <1>1, <1>2, <1>3, <1>4, <1>5, <1>6

LEMMA JoinedMembers ==
  ASSUME NEW S, NEW z \in Seq(Seq(S))
  PROVE  /\ FlattenSeq(z) \in Seq(S)
         /\ ToSet(FlattenSeq(z)) = UNION {ToSet(z[k]) : k \in 1..Len(z)}
<1>1. FlattenSeq(z) = Joined(z)
  BY DEF FlattenSeq, Joined
<1>2. Joined(z) \in Seq(S) /\ ElementsOf(Joined(z)) = UNION {ElementsOf(z[k]) : k \in 1..Len(z)}
  BY ElementsOfJoined
<1>3. \A s : ElementsOf(s) = ToSet(s)
  BY DEF ElementsOf, ToSet
<1>4. QED
  BY <1>1, <1>2, <1>3

----------------------------------------------------------------------------
(* Moves.                                                                  *)

Setting == op \in Ops /\ m \in Machines(op) /\ h \in Nat

LEMMA Fields ==
  ASSUME Setting
  PROVE  /\ m.trans \in Seq(Transition) /\ Len(m.trans) \in Nat /\ DOMAIN m.trans = 1..Len(m.trans)
         /\ \A j \in 1..Len(m.trans) :
              /\ m.trans[j] \in Transition
              /\ m.trans[j].next_q \in Nat /\ m.trans[j].push \in Seq(Nat) /\ m.trans[j].top \in Nat
         /\ m.inputs \in Nat /\ m.accepting \subseteq Nat /\ m.bottom \in Nat
         /\ StartConfig \in Configs
<1>1. /\ m.trans \in Seq(Transition) /\ m.inputs \in Nat
      /\ m.start \in Nat /\ m.bottom \in Nat /\ m.accepting \subseteq Nat
  BY MachinesAssumption DEF Setting
<1>2. Len(m.trans) \in Nat /\ DOMAIN m.trans = 1..Len(m.trans) /\ \A j \in 1..Len(m.trans) : m.trans[j] \in Transition
  BY <1>1
<1>3. \A t \in Transition : t.next_q \in Nat /\ t.push \in Seq(Nat) /\ t.top \in Nat
  BY DEF Transition
<1>4. StartConfig \in Configs
  <2> DEFINE b == <<m.bottom>>
  <2>1. b \in Seq(Nat)
    BY <1>1
  <2>2. StartConfig = <<m.start, b>>
    BY DEF StartConfig
  <2> HIDE DEF b
  <2>3. QED
    BY <1>1, <2>1, <2>2 DEF Configs
<1>5. QED
  BY <1>1, <1>2, <1>3, <1>4

Moved(t, c) == <<t.next_q, t.push \o Tail(c[2])>>

LEMMA MovesOnMembers ==
  ASSUME Setting, NEW c \in Configs, NEW a
  PROVE  /\ MovesOn(c, a) \in Seq(Configs)
         /\ \A d : d \in ToSet(MovesOn(c, a)) <=>
              \E j \in 1..Len(m.trans) : Applies(m.trans[j], c, a) /\ d = Moved(m.trans[j], c)
<1> DEFINE n == Len(m.trans)
           one(j) == IF Applies(m.trans[j], c, a) THEN <<Moved(m.trans[j], c)>> ELSE <<>>
           z == [j \in 1..n |-> one(j)]
<1>1. n \in Nat /\ DOMAIN m.trans = 1..n
  BY Fields
<1>2. ASSUME NEW j \in 1..n
      PROVE  /\ one(j) \in Seq(Configs)
             /\ \A d : d \in ToSet(one(j)) <=> Applies(m.trans[j], c, a) /\ d = Moved(m.trans[j], c)
  <2>1. CASE Applies(m.trans[j], c, a)
    <3>1. c[2] \in Seq(Nat) /\ c[2] # <<>>
      BY <2>1 DEF Applies, Configs
    <3> DEFINE s == c[2]
    <3>2. Tail(s) \in Seq(Nat)
      <4>1. s \in Seq(Nat) /\ s # <<>>
        BY <3>1
      <4> HIDE DEF s
      <4>2. QED
        BY <4>1
    <3>3. m.trans[j].next_q \in Nat /\ m.trans[j].push \in Seq(Nat)
      BY Fields
    <3> DEFINE u == m.trans[j].push
               v == Tail(s)
    <3>4. u \o v \in Seq(Nat)
      <4>1. u \in Seq(Nat) /\ v \in Seq(Nat)
        BY <3>2, <3>3
      <4> HIDE DEF u, v
      <4>2. QED
        BY <4>1, ConcatProperties
    <3>5. Moved(m.trans[j], c) \in Configs
      <4>1. Moved(m.trans[j], c) = <<m.trans[j].next_q, u \o v>>
        BY DEF Moved
      <4> DEFINE w == u \o v
                 q == m.trans[j].next_q
      <4>2. Moved(m.trans[j], c) = <<q, w>> /\ q \in Nat /\ w \in Seq(Nat)
        BY <3>3, <3>4, <4>1
      <4> HIDE DEF w, q
      <4>3. QED
        BY <4>2 DEF Configs
    <3> DEFINE e == Moved(m.trans[j], c)
    <3>6. one(j) = <<e>> /\ e \in Configs
      BY <2>1, <3>5
    <3> HIDE DEF one, e
    <3>7. <<e>> \in Seq(Configs) /\ ToSet(<<e>>) = {e}
      BY <3>6, OneMember
    <3>8. QED
      BY <2>1, <3>6, <3>7 DEF e
  <2>2. CASE ~Applies(m.trans[j], c, a)
    <3>1. one(j) = <<>>
      BY <2>2
    <3>2. <<>> \in Seq(Configs) /\ ToSet(<<>>) = {}
      BY EmptySeq DEF ToSet
    <3> HIDE DEF one
    <3>3. QED
      BY <2>2, <3>1, <3>2
  <2>3. QED
    BY <2>1, <2>2
<1>3. MovesOn(c, a) = FlattenSeq(z)
  BY <1>1 DEF MovesOn, Moved
<1>4. z \in Seq(Seq(Configs)) /\ Len(z) = n /\ \A j \in 1..n : z[j] = one(j)
  <2>1. \A j \in 1..n : one(j) \in Seq(Configs)
    BY <1>2
  <2> HIDE DEF one, n
  <2>2. QED
    BY <1>1, <2>1
<1> HIDE DEF z, one, n
<1>5. /\ FlattenSeq(z) \in Seq(Configs)
      /\ ToSet(FlattenSeq(z)) = UNION {ToSet(z[k]) : k \in 1..Len(z)}
  BY <1>4, JoinedMembers
<1>6. ASSUME NEW d
      PROVE  d \in ToSet(FlattenSeq(z)) <=>
               \E j \in 1..n : Applies(m.trans[j], c, a) /\ d = Moved(m.trans[j], c)
  <2>1. d \in ToSet(FlattenSeq(z)) <=> \E j \in 1..n : d \in ToSet(z[j])
    BY <1>4, <1>5
  <2>2. \A j \in 1..n : d \in ToSet(z[j]) <=> Applies(m.trans[j], c, a) /\ d = Moved(m.trans[j], c)
    BY <1>2, <1>4
  <2>3. QED
    BY <2>1, <2>2
<1>7. QED
  BY <1>3, <1>5, <1>6 DEF n

LEMMA MovesOfMembers ==
  ASSUME Setting, NEW c \in Configs
  PROVE  /\ MovesOf(c) \in Seq(Configs) /\ ToSet(MovesOf(c)) \subseteq Configs
         /\ \A d : d \in ToSet(MovesOf(c)) <=> \E a \in 0..m.inputs : d \in ToSet(MovesOn(c, a))
<1> DEFINE n == m.inputs
           z == [k \in 1..(n + 1) |-> MovesOn(c, k - 1)]
<1>1. n \in Nat
  BY Fields
<1>2. MovesOf(c) = FlattenSeq(z)
  BY DEF MovesOf
<1>3. z \in Seq(Seq(Configs)) /\ Len(z) = n + 1 /\ \A k \in 1..(n + 1) : z[k] = MovesOn(c, k - 1)
  <2>1. \A k \in 1..(n + 1) : MovesOn(c, k - 1) \in Seq(Configs)
    BY MovesOnMembers
  <2> HIDE DEF n
  <2>2. QED
    BY <1>1, <2>1
<1> HIDE DEF z, n
<1>4. /\ FlattenSeq(z) \in Seq(Configs)
      /\ ToSet(FlattenSeq(z)) = UNION {ToSet(z[k]) : k \in 1..Len(z)}
  BY <1>3, JoinedMembers
<1>5. ASSUME NEW d
      PROVE  d \in ToSet(FlattenSeq(z)) <=> \E a \in 0..n : d \in ToSet(MovesOn(c, a))
  <2>1. d \in ToSet(FlattenSeq(z)) <=> \E k \in 1..(n + 1) : d \in ToSet(MovesOn(c, k - 1))
    BY <1>3, <1>4
  <2>2. ASSUME NEW a \in 0..n PROVE a + 1 \in 1..(n + 1) /\ (a + 1) - 1 = a
    BY <1>1
  <2>3. ASSUME NEW k \in 1..(n + 1) PROVE k - 1 \in 0..n
    BY <1>1
  <2>4. QED
    BY <2>1, <2>2, <2>3
<1>6. ToSet(FlattenSeq(z)) \subseteq Configs
  BY <1>4, Members
<1>7. QED
  BY <1>2, <1>4, <1>5, <1>6 DEF n

----------------------------------------------------------------------------
(* What a search adds: the moves within the bound that it has not seen.    *)

LEMMA NotSeenMembers ==
  ASSUME NEW moves \in Seq(Configs)
  PROVE  /\ NotSeen(moves) \in Seq(Configs)
         /\ ToSet(NotSeen(moves)) = {d \in ToSet(moves) : Fits(d) /\ d \notin reachable}
<1> DEFINE n == Len(moves)
           S == Seq(Configs)
           next(s, d) == IF ~Fits(d) \/ d \in reachable \cup ToSet(s) THEN s ELSE Append(s, d)
           Is(f) == f = [k \in 0..n |-> IF k = 0 THEN <<>> ELSE next(f[k - 1], moves[k])]
           new == CHOOSE f : Is(f)
<1>1. n \in Nat /\ \A k \in 1..n : moves[k] \in Configs
  OBVIOUS
<1>2. NotSeen(moves) = new[n]
  BY DEF NotSeen
<1>3. \A s \in S : \A d \in Configs : next(s, d) \in S
  BY OneMore
<1> HIDE DEF next, S
<1>4. \E f : Is(f)
  <2> DEFINE step == [p \in Nat \X S |-> IF p[1] < n THEN next(p[2], moves[p[1] + 1]) ELSE p[2]]
             first == <<>>
             D == 0..n
  <2>1. step \in [Nat \X S -> S]
    <3>1. ASSUME NEW p \in Nat \X S
          PROVE  (IF p[1] < n THEN next(p[2], moves[p[1] + 1]) ELSE p[2]) \in S
      <4>1. p[1] \in Nat /\ p[2] \in S
        OBVIOUS
      <4>2. CASE p[1] < n
        <5>1. p[1] + 1 \in 1..n
          BY <1>1, <4>1, <4>2
        <5>2. QED
          BY <1>1, <1>3, <4>1, <4>2, <5>1
      <4>3. CASE ~(p[1] < n)
        BY <4>1, <4>3
      <4>4. QED
        BY <4>2, <4>3
    <3>2. QED
      BY <3>1
  <2>2. first \in S
    BY EmptySeq DEF S
  <2>3. FromZero(D)
    BY <1>1 DEF FromZero
  <2> HIDE DEF step, first, D
  <2>4. PICK f \in [D -> S] : f = [k \in D |-> IF k = 0 THEN first ELSE step[<<k - 1, f[k - 1]>>]]
    <3>1. RecursiveOn(D, S, first, step)
      BY <2>1, <2>2, <2>3, RecursionOn
    <3>2. QED
      BY <3>1 DEF RecursiveOn
  <2>5. ASSUME NEW k \in D
        PROVE  /\ f[k] \in S
               /\ f[k] = IF k = 0 THEN <<>> ELSE next(f[k - 1], moves[k])
    <3>1. f[0] = first
      BY <1>1, <2>4 DEF D
    <3>2. ASSUME NEW i \in Nat, i < n PROVE f[i + 1] = step[<<i, f[i]>>]
      <4>1. i + 1 \in D /\ i + 1 # 0 /\ (i + 1) - 1 = i
        BY <1>1, <3>2 DEF D
      <4>2. QED
        BY <2>4, <4>1
    <3>3. \A i \in D : f[i] \in S
      BY <2>4
    <3>4. f[k] = IF k = 0 THEN <<>> ELSE next(f[k - 1], moves[k])
      <4>1. CASE k = 0
        BY <3>1, <4>1 DEF first
      <4>2. CASE k # 0
        <5>1. k - 1 \in Nat /\ k - 1 < n /\ (k - 1) + 1 = k /\ k - 1 \in D
          BY <1>1, <4>2 DEF D
        <5> DEFINE i == k - 1
                   p == <<i, f[i]>>
        <5>2. i \in Nat /\ i < n /\ i + 1 = k /\ i \in D
          BY <5>1
        <5> HIDE DEF i
        <5>3. f[i + 1] = step[p]
          BY <3>2, <5>2
        <5>4. p \in Nat \X S /\ p[1] = i /\ p[2] = f[i]
          BY <3>3, <5>2
        <5> HIDE DEF p
        <5>5. step[p] = next(p[2], moves[p[1] + 1])
          BY <5>2, <5>4 DEF step
        <5>6. f[k] = next(f[i], moves[k])
          BY <5>2, <5>3, <5>4, <5>5
        <5>7. QED
          BY <4>2, <5>6 DEF i
      <4>3. QED
        BY <4>1, <4>2
    <3>5. QED
      BY <3>3, <3>4
  <2>6. f = [k \in 0..n |-> f[k]]
    BY <2>4 DEF D
  <2>7. Is(f)
    BY <2>5, <2>6 DEF D
  <2>8. QED
    BY <2>7
<1>5. Is(new)
  <2> HIDE DEF Is
  <2>1. QED
    BY <1>4
<1> HIDE DEF new
<1>6. new[0] = <<>>
  BY <1>1, <1>5
<1>7. ASSUME NEW k \in Nat, k < n PROVE new[k + 1] = next(new[k], moves[k + 1])
  <2>1. k + 1 \in 0..n /\ k + 1 # 0 /\ (k + 1) - 1 = k
    BY <1>1, <1>7
  <2>2. QED
    BY <1>5, <2>1
<1> HIDE DEF Is
<1> DEFINE fresh(k) == {d \in {moves[i] : i \in 1..k} : Fits(d) /\ d \notin reachable}
           T == {k \in Nat : k <= n => new[k] \in S /\ ToSet(new[k]) = fresh(k)}
<1>8. 0 \in T
  <2>1. <<>> \in S /\ ToSet(<<>>) = {} /\ fresh(0) = {}
    BY EmptySeq DEF S, ToSet
  <2>2. QED
    BY <1>6, <2>1
<1>9. ASSUME NEW k \in Nat, k \in T PROVE k + 1 \in T
  <2>1. ASSUME k + 1 <= n PROVE new[k + 1] \in S /\ ToSet(new[k + 1]) = fresh(k + 1)
    <3> DEFINE d == moves[k + 1]
               s == new[k]
    <3>1. k < n /\ k <= n /\ k + 1 \in 1..n /\ d \in Configs
      BY <1>1, <2>1
    <3>2. s \in S /\ ToSet(s) = fresh(k) /\ new[k + 1] = next(s, d)
      BY <1>7, <1>9, <3>1
    <3>3. fresh(k + 1) = fresh(k) \cup (IF Fits(d) /\ d \notin reachable THEN {d} ELSE {})
      <4>1. 1..(k + 1) = 1..k \cup {k + 1}
        OBVIOUS
      <4>2. {moves[i] : i \in 1..(k + 1)} = {moves[i] : i \in 1..k} \cup {d}
        BY <4>1
      <4>3. QED
        BY <4>2
    <3> HIDE DEF d, s, fresh
    <3>4. CASE ~Fits(d) \/ d \in reachable \cup ToSet(s)
      <4>1. next(s, d) = s
        BY <3>4 DEF next
      <4>2. fresh(k + 1) = fresh(k)
        BY <3>2, <3>3, <3>4
      <4>3. QED
        BY <3>2, <4>1, <4>2
    <3>5. CASE Fits(d) /\ d \notin reachable \cup ToSet(s)
      <4>1. next(s, d) = Append(s, d)
        BY <3>5 DEF next
      <4>2. Append(s, d) \in S /\ ToSet(Append(s, d)) = ToSet(s) \cup {d}
        <5>1. s \in Seq(Configs) /\ d \in Configs
          BY <3>1, <3>2 DEF S
        <5>2. Append(s, d) \in Seq(Configs) /\ ToSet(Append(s, d)) = ToSet(s) \cup {d}
          BY <5>1, OneMore, ZenonT(60)
        <5>3. QED
          BY <5>2 DEF S
      <4>3. fresh(k + 1) = fresh(k) \cup {d}
        BY <3>3, <3>5
      <4>4. QED
        BY <3>2, <4>1, <4>2, <4>3
    <3>6. QED
      BY <3>4, <3>5
  <2>2. QED
    BY <2>1
<1> HIDE DEF T
<1>10. Nat \subseteq T
  BY <1>8, <1>9, Induction
<1>11. new[n] \in S /\ ToSet(new[n]) = fresh(n)
  BY <1>1, <1>10 DEF T
<1>12. ToSet(moves) = {moves[i] : i \in 1..n}
  BY Members
<1>13. QED
  BY <1>2, <1>11, <1>12 DEF S, fresh

----------------------------------------------------------------------------
(* The invariant of the forward search: a configuration that no longer     *)
(* waits has all its moves accounted for.                                  *)

Expanded(c) ==
  \A d \in ToSet(MovesOf(c)) : IF Fits(d) THEN d \in reachable ELSE op = "compute_unbounded" => truncated

SearchTyped ==
  /\ Setting
  /\ reachable \subseteq Configs /\ IsFiniteSet(reachable) /\ StartConfig \in reachable
  /\ frontier \in Seq(Configs) /\ ToSet(frontier) \subseteq reachable
  /\ truncated \in BOOLEAN

\* Going backwards from any reachable configuration leads to the start.
Rooted ==
  \A D \in SUBSET reachable :
    D # {} /\ (\A c \in reachable : \A d \in D : d \in ToSet(MovesOf(c)) => c \in D) => StartConfig \in D

SearchInv ==
  /\ SearchTyped
  /\ \A c \in reachable : c = StartConfig \/ Fits(c)
  /\ op = "compute_unbounded" => Fits(StartConfig)
  /\ Rooted
  /\ \A c \in reachable : c \in ToSet(frontier) \/ Expanded(c)
  /\ truncated => \E c \in reachable : \E d \in ToSet(MovesOf(c)) : ~Fits(d)
  /\ pc \notin {"levels", "reach"} => frontier = <<>>
  /\ op = "compute_unbounded" =>
       pc \in {"levels", "reach", "done", "panic"} /\ (pc = "done" => ~truncated) /\ (pc = "panic" => truncated)

LEMMA DepthNatural ==
  ASSUME op \in Ops, m \in Machines(op)
  PROVE  MaxStackDepth(m) \in Nat
<1> DEFINE s == m.trans
           n == Len(s)
           len(i) == Len(s[i].push)
<1>1. s \in Seq(Transition) /\ n \in Nat
  BY MachinesAssumption
<1>2. ASSUME NEW i \in 1..n PROVE len(i) \in Nat
  <2>1. s[i] \in Transition
    BY <1>1
  <2>2. \A t \in Transition : Len(t.push) \in Nat
    BY DEF Transition
  <2>3. QED
    BY <2>1, <2>2
<1>3. CASE s = <<>>
  BY <1>3 DEF MaxStackDepth
<1>4. CASE s # <<>>
  <2> DEFINE lens == {len(i) : i \in 1..n}
             T == {k \in Nat : k < n => \E i \in 1..(k + 1) : \A j \in 1..(k + 1) : len(j) <= len(i)}
  <2>0. n > 0
    BY <1>1, <1>4
  <2>a. MaxStackDepth(m) = CHOOSE k \in lens : \A i \in 1..n : len(i) <= k
    BY <1>4 DEF MaxStackDepth
  <2> HIDE DEF n, len
  <2>1. 0 \in T
    <3>1. 0 + 1 = 1 /\ 1 \in 1..1 /\ 1..1 = {1}
      OBVIOUS
    <3>2. 0 < n => len(1) \in Nat /\ len(1) <= len(1)
      BY <1>1, <1>2
    <3>3. QED
      BY <3>1, <3>2
  <2>2. ASSUME NEW k \in Nat, k \in T PROVE k + 1 \in T
    <3> SUFFICES ASSUME k + 1 < n
                 PROVE  \E i \in 1..((k + 1) + 1) : \A j \in 1..((k + 1) + 1) : len(j) <= len(i)
      OBVIOUS
    <3> DEFINE l == (k + 1) + 1
    <3>1. k < n /\ l \in 1..n /\ 1..l = 1..(k + 1) \cup {l} /\ \A j \in 1..(k + 1) : j \in 1..n
      BY <1>1
    <3>2. PICK i \in 1..(k + 1) : \A j \in 1..(k + 1) : len(j) <= len(i)
      BY <2>2, <3>1
    <3>3. len(l) \in Nat /\ len(i) \in Nat /\ \A j \in 1..(k + 1) : len(j) \in Nat
      BY <1>2, <3>1
    <3> HIDE DEF l
    <3>4. CASE len(l) <= len(i)
      <4>1. i \in 1..l /\ \A j \in 1..l : len(j) <= len(i)
        BY <3>1, <3>2, <3>4
      <4>2. QED
        BY <4>1 DEF l
    <3>5. CASE ~(len(l) <= len(i))
      <4>1. l \in 1..l
        BY <3>1
      <4>2. ASSUME NEW j \in 1..l PROVE len(j) <= len(l)
        <5>1. CASE j = l
          BY <3>3, <5>1
        <5>2. CASE j # l
          <6>1. j \in 1..(k + 1)
            BY <3>1, <5>2
          <6>2. QED
            BY <3>2, <3>3, <3>5, <6>1
        <5>3. QED
          BY <5>1, <5>2
      <4>3. QED
        BY <4>1, <4>2 DEF l
    <3>6. QED
      BY <3>4, <3>5
  <2> HIDE DEF T
  <2>3. Nat \subseteq T
    BY <2>1, <2>2, Induction
  <2>4. n - 1 \in Nat /\ n - 1 < n /\ (n - 1) + 1 = n
    BY <1>1, <2>0
  <2>5. \E i \in 1..n : \A j \in 1..n : len(j) <= len(i)
    <3> DEFINE k == n - 1
    <3>1. k \in T /\ k < n /\ k + 1 = n
      BY <2>3, <2>4
    <3> HIDE DEF k
    <3>2. QED
      BY <3>1 DEF T
  <2>6. \E k \in lens : \A i \in 1..n : len(i) <= k
    BY <2>5
  <2>7. MaxStackDepth(m) \in lens
    BY <2>a, <2>6
  <2>8. lens \subseteq Nat
    BY <1>2
  <2>9. QED
    BY <2>7, <2>8
<1>5. QED
  BY <1>3, <1>4

LEMMA SameMoves ==
  ASSUME m' = m, NEW c
  PROVE  /\ MovesOf(c)' = MovesOf(c)
         /\ \A a : MovesOn(c, a)' = MovesOn(c, a)
  BY DEF MovesOf, MovesOn, Applies

LEMMA SearchInit == Init => SearchInv
<1> SUFFICES ASSUME Init PROVE SearchInv
  OBVIOUS
<1>1. /\ op \in Ops /\ m \in Machines(op)
      /\ h \in IF op = "compute" THEN Bounds ELSE {IntrinsicBound}
      /\ pc = IF op = "compute" THEN "reach" ELSE "levels"
      /\ reachable = {StartConfig} /\ frontier = <<StartConfig>> /\ truncated = FALSE
  BY DEF Init
<1>2. MaxStackDepth(m) \in Nat
  BY <1>1, DepthNatural
<1>3. Setting
  BY <1>1, <1>2, BoundsAssumption DEF Setting, IntrinsicBound
<1>4. StartConfig \in Configs
  BY <1>3, Fields
<1>5. frontier \in Seq(Configs) /\ ToSet(frontier) = {StartConfig}
  <2> DEFINE c == StartConfig
  <2>1. c \in Configs /\ frontier = <<c>>
    BY <1>1, <1>4
  <2> HIDE DEF c
  <2>2. <<c>> \in Seq(Configs) /\ ToSet(<<c>>) = {c}
    BY <2>1, OneMember
  <2>3. QED
    BY <2>1, <2>2 DEF c
<1>6. IsFiniteSet(reachable)
  BY <1>1, FS_Singleton
<1>7. op = "compute_unbounded" => Fits(StartConfig)
  <2> SUFFICES ASSUME op = "compute_unbounded" PROVE Fits(StartConfig)
    OBVIOUS
  <2>1. h = MaxStackDepth(m) + 1
    BY <1>1 DEF IntrinsicBound
  <2>2. Len(StartConfig[2]) = 1
    BY DEF StartConfig
  <2>3. QED
    BY <1>2, <2>1, <2>2 DEF Fits
<1>8. SearchTyped
  BY <1>1, <1>3, <1>4, <1>5, <1>6 DEF SearchTyped
<1>9. Rooted
  BY <1>1 DEF Rooted
<1>10. QED
  BY <1>1, <1>5, <1>7, <1>8, <1>9 DEF SearchInv, Ops

LEMMA ReachHolds == SearchInv /\ Reach => SearchInv'
<1> SUFFICES ASSUME SearchInv, Reach PROVE SearchInv'
  OBVIOUS
<1> DEFINE c == Last(frontier)
           moves == MovesOf(c)
           new == NotSeen(moves)
           front == Front(frontier)
<1>1. /\ pc = "reach" /\ frontier # <<>>
      /\ reachable' = reachable \cup ToSet(new) /\ frontier' = front \o new
      /\ truncated' = (truncated \/ (op = "compute_unbounded" /\ \E d \in ToSet(moves) : ~Fits(d)))
      /\ m' = m /\ op' = op /\ h' = h /\ pc' = pc
  BY DEF Reach, given
<1>2. /\ Setting /\ reachable \subseteq Configs /\ IsFiniteSet(reachable) /\ StartConfig \in reachable
      /\ frontier \in Seq(Configs) /\ ToSet(frontier) \subseteq reachable /\ truncated \in BOOLEAN
  BY DEF SearchInv, SearchTyped
<1>3. /\ c \in Configs /\ c \in ToSet(frontier) /\ front \in Seq(Configs)
      /\ ToSet(frontier) = ToSet(front) \cup {c}
  BY <1>1, <1>2, LastTaken
<1> HIDE DEF c, front
<1>4. moves \in Seq(Configs) /\ ToSet(moves) \subseteq Configs
  BY <1>2, <1>3, MovesOfMembers
<1>5. new \in Seq(Configs) /\ ToSet(new) = {d \in ToSet(moves) : Fits(d) /\ d \notin reachable}
  <2> HIDE DEF moves
  <2>1. QED
    BY <1>4, NotSeenMembers
<1> HIDE DEF new
<1>6. frontier' \in Seq(Configs) /\ ToSet(frontier') = ToSet(front) \cup ToSet(new)
  <2>1. front \o new \in Seq(Configs) /\ ToSet(front \o new) = ToSet(front) \cup ToSet(new)
    BY <1>3, <1>5, BothMembers
  <2>2. QED
    BY <1>1, <2>1
<1>7. \A d : Fits(d)' = Fits(d) /\ MovesOf(d)' = MovesOf(d)
  BY <1>1, SameMoves DEF Fits
<1>8. SearchTyped'
  <2>1. IsFiniteSet(ToSet(new))
    <3> DEFINE n == Len(new)
    <3>1. n \in Nat /\ ToSet(new) = {new[i] : i \in 1..n}
      BY <1>5, Members
    <3>2. IsFiniteSet(1..n)
      BY <3>1, FS_Interval
    <3> HIDE DEF n
    <3>3. QED
      BY <3>1, <3>2, ImageFinite
  <2>2. IsFiniteSet(reachable')
    BY <1>1, <1>2, <2>1, FS_Union
  <2>3. Setting' /\ StartConfig' = StartConfig
    BY <1>1, <1>2 DEF Setting, StartConfig
  <2>4. reachable' \subseteq Configs /\ StartConfig \in reachable'
    BY <1>1, <1>2, <1>4, <1>5
  <2>5. ToSet(frontier') \subseteq reachable'
    BY <1>1, <1>2, <1>3, <1>6
  <2>6. truncated' \in BOOLEAN
    BY <1>1
  <2>7. QED
    BY <1>6, <2>2, <2>3, <2>4, <2>5, <2>6 DEF SearchTyped
<1>9. \A d \in reachable' : d = StartConfig \/ Fits(d)
  BY <1>1, <1>5 DEF SearchInv
<1>10. ASSUME NEW d \in reachable' PROVE d \in ToSet(frontier') \/ Expanded(d)'
  <2>1. CASE d \in ToSet(new)
    BY <1>6, <2>1
  <2>2. CASE d \in reachable
    <3>1. CASE d \in ToSet(front)
      BY <1>6, <3>1
    <3>2. CASE d = c
      <4>1. MovesOf(d) = moves
        BY <3>2
      <4>2. ASSUME NEW e \in ToSet(moves)
            PROVE  IF Fits(e) THEN e \in reachable' ELSE op' = "compute_unbounded" => truncated'
        <5>1. CASE Fits(e)
          BY <1>1, <1>5, <5>1
        <5>2. CASE ~Fits(e)
          BY <1>1, <5>2
        <5>3. QED
          BY <5>1, <5>2
      <4>3. QED
        BY <1>7, <4>1, <4>2 DEF Expanded
    <3>3. CASE d \notin ToSet(frontier)
      <4>1. Expanded(d)
        BY <2>2, <3>3 DEF SearchInv
      <4>2. QED
        BY <1>1, <1>7, <4>1 DEF Expanded
    <3>4. QED
      BY <1>3, <3>1, <3>2, <3>3
  <2>3. QED
    BY <1>1, <2>1, <2>2
<1>11. ASSUME truncated' PROVE \E d \in reachable' : \E e \in ToSet(MovesOf(d)) : ~Fits(e)
  <2>1. CASE truncated
    BY <1>1, <2>1 DEF SearchInv
  <2>2. CASE ~truncated
    <3>1. \E e \in ToSet(MovesOf(c)) : ~Fits(e)
      BY <1>1, <1>11, <2>2
    <3>2. c \in reachable'
      BY <1>1, <1>2, <1>3
    <3>3. QED
      BY <3>1, <3>2
  <2>3. QED
    BY <2>1, <2>2
<1>12. Rooted'
  <2> SUFFICES ASSUME NEW D \in SUBSET reachable', D # {},
                      \A e \in reachable' : \A d \in D : d \in ToSet(MovesOf(e)) => e \in D
               PROVE  StartConfig \in D
    <3>1. StartConfig' = StartConfig
      BY <1>1 DEF StartConfig
    <3>2. QED
      BY <1>7, <3>1 DEF Rooted
  <2> DEFINE E == D \cap reachable
  <2>1. CASE E # {}
    <3>1. E \in SUBSET reachable /\ \A e \in reachable : \A d \in E : d \in ToSet(MovesOf(e)) => e \in E
      BY <1>1
    <3>2. StartConfig \in E
      <4> HIDE DEF E
      <4>1. QED
        BY <2>1, <3>1 DEF SearchInv, Rooted
    <3>3. QED
      BY <3>2
  <2>2. CASE E = {}
    <3>1. PICK d \in D : d \in ToSet(new)
      BY <1>1, <2>2
    <3>2. d \in ToSet(MovesOf(c)) /\ c \in reachable /\ c \in reachable'
      BY <1>1, <1>2, <1>3, <1>5, <3>1
    <3>3. c \in D
      BY <3>2
    <3>4. QED
      BY <2>2, <3>2, <3>3
  <2>3. QED
    BY <2>1, <2>2
<1>13. QED
  <2>1. StartConfig' = StartConfig
    BY <1>1 DEF StartConfig
  <2>2. \A d \in reachable' : d = StartConfig' \/ Fits(d)'
    BY <1>7, <1>9, <2>1
  <2>3. op' = "compute_unbounded" => Fits(StartConfig)'
    <3>1. Fits(StartConfig)' <=> Fits(StartConfig)
      BY <1>1, <2>1 DEF Fits
    <3>2. QED
      BY <1>1, <3>1 DEF SearchInv
  <2>4. truncated' => \E d \in reachable' : \E e \in ToSet(MovesOf(d)') : ~Fits(e)'
    BY <1>7, <1>11
  <2>5. QED
    BY <1>1, <1>8, <1>10, <1>12, <2>2, <2>3, <2>4 DEF SearchInv

\* The other actions leave the search alone.
LEMMA OthersHold ==
  ASSUME SearchInv, UNCHANGED <<given, searched>>,
         pc' \notin {"levels", "reach"} => frontier = <<>>,
         op = "compute_unbounded" =>
           pc' \in {"levels", "reach", "done", "panic"} /\ (pc' = "done" => ~truncated) /\ (pc' = "panic" => truncated)
  PROVE  SearchInv'
<1>1. m' = m /\ op' = op /\ h' = h /\ reachable' = reachable /\ frontier' = frontier /\ truncated' = truncated
  BY DEF given, searched
<1>2. \A d : Fits(d)' = Fits(d) /\ MovesOf(d)' = MovesOf(d)
  BY <1>1, SameMoves DEF Fits
<1>3. SearchTyped'
  BY <1>1 DEF SearchInv, SearchTyped, Setting, StartConfig
<1>4. /\ \A c \in reachable' : c = StartConfig' \/ Fits(c)'
      /\ op' = "compute_unbounded" => Fits(StartConfig)'
      /\ Rooted'
  <2>1. StartConfig' = StartConfig
    BY <1>1 DEF StartConfig
  <2>2. Fits(StartConfig)' <=> Fits(StartConfig)
    BY <1>1, <2>1 DEF Fits
  <2>3. \A c \in reachable' : c = StartConfig' \/ Fits(c)'
    BY <1>1, <1>2, <2>1 DEF SearchInv
  <2>4. Rooted'
    BY <1>1, <1>2, <2>1 DEF SearchInv, Rooted
  <2>5. QED
    BY <1>1, <2>2, <2>3, <2>4 DEF SearchInv
<1>5. ASSUME NEW c \in reachable PROVE c \in ToSet(frontier) \/ Expanded(c)'
  BY <1>1, <1>2 DEF SearchInv, Expanded
<1>6. truncated => \E c \in reachable : \E d \in ToSet(MovesOf(c)') : ~Fits(d)'
  BY <1>2 DEF SearchInv
<1>7. QED
  BY <1>1, <1>3, <1>4, <1>5, <1>6 DEF SearchInv

LEMMA SearchNext == SearchInv /\ [Next]_vars => SearchInv'
<1> SUFFICES ASSUME SearchInv, [Next]_vars PROVE SearchInv'
  OBVIOUS
<1>1. CASE Reach
  BY <1>1, ReachHolds
<1>2. CASE ReachEnd
  <2>1. UNCHANGED <<given, searched>> /\ frontier = <<>> /\ op # "compute_unbounded"
    BY <1>2 DEF ReachEnd
  <2>2. QED
    BY <2>1, OthersHold
<1>3. CASE ReachEndUnbounded
  <2>1. UNCHANGED <<given, searched>> /\ frontier = <<>> /\ pc' = IF truncated THEN "panic" ELSE "done"
    BY <1>3 DEF ReachEndUnbounded
  <2>2. truncated \in BOOLEAN
    BY DEF SearchInv, SearchTyped
  <2>3. QED
    BY <2>1, <2>2, OthersHold
<1>4. CASE VisitAny
  <2>1. PICK c \in todo : Visit(c)
    BY <1>4 DEF VisitAny
  <2>2. UNCHANGED <<given, searched>> /\ pc' = pc /\ pc = "sweep"
    BY <2>1 DEF Visit
  <2>3. QED
    BY <2>2, OthersHold DEF SearchInv
<1>5. CASE SweepEnd
  <2>1. UNCHANGED <<given, searched>> /\ pc = "sweep"
    BY <1>5 DEF SweepEnd
  <2>2. QED
    BY <2>1, OthersHold DEF SearchInv
<1>6. CASE Level
  <2>1. UNCHANGED <<given, searched>> /\ pc' = pc
    BY <1>6 DEF Level
  <2>2. QED
    BY <2>1, OthersHold DEF SearchInv
<1>7. CASE LevelsEnd
  <2>1. UNCHANGED <<given, searched>> /\ pc' = "reach"
    BY <1>7 DEF LevelsEnd
  <2>2. QED
    BY <2>1, OthersHold
<1>8. CASE UNCHANGED vars
  <2>1. UNCHANGED <<given, searched>> /\ pc' = pc
    BY <1>8 DEF vars, given, searched
  <2>2. QED
    BY <2>1, OthersHold DEF SearchInv
<1>9. QED
  BY <1>1, <1>2, <1>3, <1>4, <1>5, <1>6, <1>7, <1>8 DEF Next

LEMMA SearchAlways == Spec => []SearchInv
<1>1. Init => SearchInv
  BY SearchInit
<1>2. SearchInv /\ [Next]_vars => SearchInv'
  BY SearchNext
<1>3. QED
  BY <1>1, <1>2, PTL DEF Spec

LEMMA InvPanics == SearchInv => PanicsIffDeeper
<1> SUFFICES ASSUME SearchInv, op = "compute_unbounded", pc \in {"done", "panic"}
             PROVE  pc = "panic" <=> \E c \in reachable : \E d \in ToSet(MovesOf(c)) : d \notin reachable
  BY DEF PanicsIffDeeper
<1>1. CASE pc = "panic"
  <2>1. PICK c \in reachable : \E d \in ToSet(MovesOf(c)) : ~Fits(d)
    BY <1>1 DEF SearchInv
  <2>2. PICK d \in ToSet(MovesOf(c)) : ~Fits(d)
    BY <2>1
  <2>3. d \notin reachable
    BY <2>2 DEF SearchInv
  <2>4. QED
    BY <1>1, <2>3
<1>2. CASE pc = "done"
  <2>1. ~truncated /\ frontier = <<>>
    BY <1>2 DEF SearchInv
  <2>2. ToSet(frontier) = {}
    BY <2>1 DEF ToSet
  <2>3. ASSUME NEW c \in reachable, NEW d \in ToSet(MovesOf(c)) PROVE d \in reachable
    <3>1. Expanded(c)
      BY <2>2 DEF SearchInv
    <3>2. QED
      BY <2>1, <3>1 DEF Expanded
  <2>4. QED
    BY <1>2, <2>3
<1>3. QED
  BY <1>1, <1>2

\* compute_unbounded panics exactly when the machine reaches something deeper
\* than its own bound.
THEOREM PanicsExactly == Spec => []PanicsIffDeeper
<1>1. SearchInv => PanicsIffDeeper
  BY InvPanics
<1>2. QED
  BY <1>1, SearchAlways, PTL

----------------------------------------------------------------------------
(* Paths.                                                                  *)

Before(X) == {c \in reachable : \E d \in ToSet(MovesOf(c)) : d \in X}

LEMMA LeadingSteps ==
  ASSUME NEW ends \in SUBSET reachable
  PROVE  /\ LeadingTo(ends)[0] = ends
         /\ \A k \in Nat : LeadingTo(ends)[k + 1] = Before(LeadingTo(ends)[k])
         /\ \A k \in Nat : LeadingTo(ends)[k] \subseteq reachable
<1> DEFINE S == SUBSET reachable
           Is(f) == f = [k \in Nat |-> IF k = 0 THEN ends ELSE Before(f[k - 1])]
           before == CHOOSE f : Is(f)
<1>1. LeadingTo(ends) = before
  BY DEF LeadingTo, Before
<1>2. \A X \in S : Before(X) \in S
  BY DEF Before
<1>3. \E f : Is(f)
  <2> DEFINE next == [X \in S |-> Before(X)]
  <2>1. next \in [S -> S]
    BY <1>2
  <2>2. \A X \in S : next[X] = Before(X)
    OBVIOUS
  <2> HIDE DEF next
  <2>3. PICK f \in [Nat -> S] : f = [k \in Nat |-> IF k = 0 THEN ends ELSE next[f[k - 1]]]
    <3>1. HasSteps(S, ends, next)
      BY <2>1, StepsFrom
    <3>2. QED
      BY <3>1 DEF HasSteps
  <2>4. ASSUME NEW k \in Nat PROVE f[k] = IF k = 0 THEN ends ELSE Before(f[k - 1])
    <3>1. CASE k = 0
      BY <2>3, <3>1
    <3>2. CASE k # 0
      <4>1. k - 1 \in Nat
        BY <3>2
      <4>2. f[k - 1] \in S
        BY <4>1
      <4>3. QED
        BY <2>2, <2>3, <3>2, <4>2
    <3>3. QED
      BY <3>1, <3>2
  <2>5. f = [k \in Nat |-> f[k]]
    OBVIOUS
  <2>6. Is(f)
    BY <2>4, <2>5
  <2>7. QED
    BY <2>6
<1>4. Is(before)
  <2> HIDE DEF Is
  <2>1. QED
    BY <1>3
<1> HIDE DEF before
<1>5. before[0] = ends
  BY <1>4
<1>6. ASSUME NEW k \in Nat PROVE before[k + 1] = Before(before[k])
  <2>1. k + 1 \in Nat /\ k + 1 # 0 /\ (k + 1) - 1 = k
    OBVIOUS
  <2>2. QED
    BY <1>4, <2>1
<1> HIDE DEF Is
<1>7. \A k \in Nat : before[k] \subseteq reachable
  <2> DEFINE T == {k \in Nat : before[k] \subseteq reachable}
  <2>1. 0 \in T
    BY <1>5
  <2>2. ASSUME NEW k \in Nat, k \in T PROVE k + 1 \in T
    BY <1>6 DEF Before
  <2> HIDE DEF T
  <2>3. Nat \subseteq T
    BY <2>1, <2>2, Induction
  <2>4. QED
    BY <2>3 DEF T
<1>8. QED
  BY <1>1, <1>5, <1>6, <1>7

----------------------------------------------------------------------------
(* What a visit records.                                                   *)

Known == UNION {[X -> Nat] : X \in SUBSET Configs}

LEMMA KnownParts ==
  ASSUME NEW known \in Known
  PROVE  /\ DOMAIN known \subseteq Configs
         /\ \A d \in DOMAIN known : known[d] \in Nat
  BY DEF Known

IsRecorded(g, known, configs, n) ==
  /\ g \in Known /\ DOMAIN g = configs \cup DOMAIN known
  /\ \A d \in configs : g[d] = n
  /\ \A d \in DOMAIN known : d \notin configs => g[d] = known[d]

LEMMA RecordedTyped ==
  ASSUME NEW known \in Known, NEW configs \in SUBSET Configs, NEW n \in Nat
  PROVE  IsRecorded(Recorded(known, configs, n), known, configs, n)
<1> DEFINE X == configs \cup DOMAIN known
           f == [d \in X |-> IF d \in configs THEN n ELSE known[d]]
<1>1. Recorded(known, configs, n) = f
  BY DEF Recorded
<1>2. X \in SUBSET Configs /\ \A d \in X : (IF d \in configs THEN n ELSE known[d]) \in Nat
  BY KnownParts
<1> HIDE DEF X
<1>3. f \in [X -> Nat]
  BY <1>2
<1>4. f \in Known
  <2> HIDE DEF f
  <2>1. QED
    BY <1>2, <1>3 DEF Known
<1>5. QED
  BY <1>1, <1>4 DEF X, IsRecorded

LEMMA RecordedOne ==
  ASSUME NEW known \in Known, NEW c \in Configs, NEW v \in Nat
  PROVE  LET g == Recorded(known, {c}, v)
         IN /\ g \in Known /\ DOMAIN g = {c} \cup DOMAIN known /\ g[c] = v
            /\ \A d \in DOMAIN known : d # c => g[d] = known[d]
<1> DEFINE one == {c}
<1>1. one \in SUBSET Configs /\ c \in one
  OBVIOUS
<1> HIDE DEF one
<1>2. IsRecorded(Recorded(known, one, v), known, one, v)
  BY <1>1, RecordedTyped
<1>3. QED
  BY <1>2 DEF one, IsRecorded

Near(known, c, a) == {d \in ToSet(MovesOn(c, a)) : Fits(d) /\ d \in DOMAIN known}
Recording(known, c, a, g) ==
  \/ Near(known, c, a) = {} /\ g = known
  \/ \E d \in Near(known, c, a) : g = Recorded(known, {c}, known[d] + 1)

LEMMA AfterOne ==
  ASSUME Setting, NEW known \in Known, NEW c \in Configs, NEW a
  PROVE  Recording(known, c, a, After(known, c, a))
<1> DEFINE moves == MovesOn(c, a)
           near == {j \in DOMAIN moves : Fits(moves[j]) /\ moves[j] \in DOMAIN known}
           first == CHOOSE j \in near : \A k \in near : j <= k
<1>1. moves \in Seq(Configs)
  BY MovesOnMembers
<1>2. After(known, c, a) = IF near = {} THEN known ELSE Recorded(known, {c}, known[moves[first]] + 1)
  BY DEF After
<1>3. Near(known, c, a) = {moves[j] : j \in near}
  <2>1. ToSet(moves) = {moves[j] : j \in DOMAIN moves}
    BY DEF ToSet
  <2>2. Near(known, c, a) = {d \in ToSet(moves) : Fits(d) /\ d \in DOMAIN known}
    BY DEF Near
  <2> HIDE DEF moves
  <2>3. QED
    BY <2>1, <2>2
<1> HIDE DEF moves
<1>4. near \subseteq Nat
  <2>1. DOMAIN moves = 1..Len(moves) /\ Len(moves) \in Nat
    BY <1>1
  <2>2. QED
    BY <2>1
<1> HIDE DEF near
<1>5. CASE near = {}
  BY <1>2, <1>3, <1>5 DEF Recording
<1>6. CASE near # {}
  <2>1. \E j \in near : \A k \in near : j <= k
    BY <1>4, <1>6, LeastNatural
  <2>2. first \in near
    BY <2>1
  <2> HIDE DEF first
  <2>3. moves[first] \in Near(known, c, a)
    BY <1>3, <2>2
  <2>4. QED
    BY <1>2, <1>6, <2>3 DEF Recording
<1>7. QED
  BY <1>5, <1>6

\* K holds the distances that are right.
AllIn(K, known) == \A d \in DOMAIN known : <<d, known[d]>> \in K
OneMoreIn(K, c) == \A d \in ToSet(MovesOf(c)) : \A n \in Nat : <<d, n>> \in K => <<c, n + 1>> \in K
\* g may say more of c than known, and of nothing else.
Extends(known, c, g) ==
  g \in Known /\ DOMAIN known \subseteq DOMAIN g /\ DOMAIN g \subseteq DOMAIN known \cup {c}

LEMMA AfterRight ==
  ASSUME Setting, NEW known \in Known, NEW c \in Configs, NEW a \in 0..m.inputs, NEW K,
         AllIn(K, known), OneMoreIn(K, c)
  PROVE  LET g == After(known, c, a)
         IN /\ Extends(known, c, g) /\ AllIn(K, g)
            /\ Near(known, c, a) # {} => c \in DOMAIN g
<1> DEFINE g == After(known, c, a)
<1>1. Recording(known, c, a, g)
  BY AfterOne
<1> HIDE DEF g
<1>2. CASE Near(known, c, a) = {} /\ g = known
  BY <1>2 DEF g, Extends
<1>3. CASE \E d \in Near(known, c, a) : g = Recorded(known, {c}, known[d] + 1)
  <2>1. PICK d \in Near(known, c, a) : g = Recorded(known, {c}, known[d] + 1)
    BY <1>3
  <2> DEFINE n == known[d]
             v == n + 1
  <2>2. d \in ToSet(MovesOn(c, a)) /\ d \in DOMAIN known
    BY DEF Near
  <2>3. n \in Nat
    BY <2>2, KnownParts
  <2>4. <<d, n>> \in K
    BY <2>2 DEF AllIn
  <2>5. d \in ToSet(MovesOf(c))
    BY <2>2, MovesOfMembers
  <2>6. g = Recorded(known, {c}, v)
    BY <2>1
  <2> HIDE DEF n
  <2>7. <<c, v>> \in K /\ v \in Nat
    BY <2>3, <2>4, <2>5 DEF OneMoreIn
  <2> HIDE DEF v
  <2>8. /\ g \in Known /\ DOMAIN g = {c} \cup DOMAIN known /\ g[c] = v
        /\ \A e \in DOMAIN known : e # c => g[e] = known[e]
    BY <2>6, <2>7, RecordedOne
  <2>9. ASSUME NEW e \in DOMAIN g PROVE <<e, g[e]>> \in K
    <3>1. CASE e = c
      BY <2>7, <2>8, <3>1
    <3>2. CASE e # c
      <4>1. e \in DOMAIN known /\ g[e] = known[e]
        BY <2>8, <3>2
      <4>2. QED
        BY <4>1 DEF AllIn
    <3>3. QED
      BY <3>1, <3>2
  <2>10. AllIn(K, g)
    BY <2>9 DEF AllIn
  <2>11. QED
    BY <2>8, <2>10 DEF g, Extends
<1>4. QED
  BY <1>1, <1>2, <1>3 DEF Recording

LEMMA AfterTyped ==
  ASSUME Setting, NEW known \in Known, NEW c \in Configs, NEW a
  PROVE  After(known, c, a) \in Known
<1> DEFINE g == After(known, c, a)
<1>1. Recording(known, c, a, g)
  BY AfterOne
<1> HIDE DEF g
<1>2. ASSUME NEW d \in Near(known, c, a), g = Recorded(known, {c}, known[d] + 1) PROVE g \in Known
  <2> DEFINE v == known[d] + 1
  <2>1. known[d] \in Nat
    BY KnownParts DEF Near
  <2>2. v \in Nat /\ g = Recorded(known, {c}, v)
    BY <1>2, <2>1
  <2> HIDE DEF v
  <2>3. QED
    BY <2>2, RecordedOne
<1>3. QED
  BY <1>1, <1>2 DEF Recording, g

LEMMA AfterAll ==
  ASSUME Setting, distance \in Known, NEW c \in Configs, NEW K, AllIn(K, distance), OneMoreIn(K, c)
  PROVE  /\ Extends(distance, c, AfterAllInputs(c)) /\ AllIn(K, AfterAllInputs(c))
         /\ (\E d \in ToSet(MovesOf(c)) : Fits(d) /\ d \in DOMAIN distance) => c \in DOMAIN AfterAllInputs(c)
<1> DEFINE n == m.inputs + 1
           Is(f) == f = [k \in 0..n |-> IF k = 0 THEN distance ELSE After(f[k - 1], c, k - 1)]
           upTo == CHOOSE f : Is(f)
<1>0. AfterAllInputs(c) = upTo[n]
  BY DEF AfterAllInputs
<1>1. n \in Nat /\ \A a \in 0..m.inputs : a + 1 \in Nat /\ a < n /\ a + 1 <= n
  BY Fields
<1>2. \A known \in Known : \A a : After(known, c, a) \in Known
  BY AfterTyped
<1> HIDE DEF n
<1>3. \E f : Is(f)
  <2> DEFINE step == [p \in Nat \X Known |-> After(p[2], c, p[1])]
             D == 0..n
  <2>1. step \in [Nat \X Known -> Known]
    <3>1. ASSUME NEW p \in Nat \X Known PROVE After(p[2], c, p[1]) \in Known
      BY <1>2
    <3>2. QED
      BY <3>1
  <2>2. FromZero(D)
    BY <1>1 DEF FromZero
  <2> HIDE DEF step, D
  <2>3. RecursiveOn(D, Known, distance, step)
    BY <2>1, <2>2, RecursionOn
  <2>4. PICK f \in [D -> Known] : f = [k \in D |-> IF k = 0 THEN distance ELSE step[<<k - 1, f[k - 1]>>]]
    BY <2>3 DEF RecursiveOn
  <2>5. ASSUME NEW k \in D PROVE f[k] = IF k = 0 THEN distance ELSE After(f[k - 1], c, k - 1)
    <3>1. CASE k = 0
      BY <2>4, <3>1
    <3>2. CASE k # 0
      <4> DEFINE i == k - 1
                 p == <<i, f[i]>>
      <4>1. i \in Nat /\ i \in D
        BY <1>1, <3>2 DEF D
      <4>2. f[k] = step[p]
        BY <2>4, <3>2
      <4> HIDE DEF i
      <4>3. p \in Nat \X Known /\ p[1] = i /\ p[2] = f[i]
        BY <2>4, <4>1
      <4> HIDE DEF p
      <4>4. step[p] = After(f[i], c, i)
        BY <4>3 DEF step
      <4>5. QED
        BY <3>2, <4>2, <4>4 DEF i
    <3>3. QED
      BY <3>1, <3>2
  <2>6. f = [k \in 0..n |-> f[k]]
    BY <2>4 DEF D
  <2>7. Is(f)
    BY <2>5, <2>6 DEF D
  <2>8. QED
    BY <2>7
<1>4. Is(upTo)
  <2> HIDE DEF Is
  <2>1. QED
    BY <1>3
<1> HIDE DEF upTo
<1>5. upTo[0] = distance
  BY <1>1, <1>4
<1>6. ASSUME NEW k \in Nat, k < n PROVE upTo[k + 1] = After(upTo[k], c, k)
  <2>1. k + 1 \in 0..n /\ k + 1 # 0 /\ (k + 1) - 1 = k
    BY <1>1, <1>6
  <2>2. QED
    BY <1>4, <2>1
<1> HIDE DEF Is
<1> DEFINE Right(g, k) == /\ Extends(distance, c, g) /\ AllIn(K, g)
                          /\ \A a \in Nat : a < k /\ Near(distance, c, a) # {} => c \in DOMAIN g
           T == {k \in Nat : k <= n => Right(upTo[k], k)}
<1>7. 0 \in T
  BY <1>5 DEF Extends
<1>8. ASSUME NEW k \in Nat, k \in T PROVE k + 1 \in T
  <2> SUFFICES ASSUME k + 1 <= n PROVE Right(upTo[k + 1], k + 1)
    OBVIOUS
  <2> DEFINE g == upTo[k]
             new == upTo[k + 1]
  <2>1. k < n /\ k <= n /\ k \in 0..m.inputs
    BY <1>1, <1>8, Fields DEF n
  <2>2. Right(g, k) /\ new = After(g, c, k)
    BY <1>6, <1>8, <2>1
  <2> HIDE DEF g, new
  <2>3. g \in Known /\ AllIn(K, g)
    BY <2>2 DEF Extends
  <2>4. Extends(g, c, new) /\ AllIn(K, new) /\ (Near(g, c, k) # {} => c \in DOMAIN new)
    BY <2>1, <2>2, <2>3, AfterRight
  <2>5. Extends(distance, c, new)
    BY <2>2, <2>4 DEF Extends
  <2>6. ASSUME NEW a \in Nat, a < k + 1, Near(distance, c, a) # {} PROVE c \in DOMAIN new
    <3>1. a < k \/ a = k
      BY <2>6
    <3>2. CASE a < k
      <4>1. c \in DOMAIN g
        BY <2>2, <2>6, <3>2
      <4>2. QED
        BY <2>4, <4>1 DEF Extends
    <3>3. CASE a = k
      <4>1. Near(distance, c, k) # {}
        BY <2>6, <3>3
      <4>2. Near(g, c, k) # {}
        BY <2>2, <4>1 DEF Near, Extends
      <4>3. QED
        BY <2>4, <4>2
    <3>4. QED
      BY <3>1, <3>2, <3>3
  <2>7. Right(new, k + 1)
    BY <2>4, <2>5, <2>6
  <2>8. QED
    BY <2>7 DEF new
<1> HIDE DEF T, Right
<1>9. Nat \subseteq T
  BY <1>7, <1>8, Induction
<1>10. Right(upTo[n], n)
  BY <1>1, <1>9 DEF T
<1>11. ASSUME NEW d \in ToSet(MovesOf(c)), Fits(d), d \in DOMAIN distance PROVE c \in DOMAIN upTo[n]
  <2>1. PICK a \in 0..m.inputs : d \in ToSet(MovesOn(c, a))
    BY MovesOfMembers
  <2>2. a \in Nat /\ a < n
    BY <1>1, Fields
  <2>3. Near(distance, c, a) # {}
    BY <1>11, <2>1 DEF Near
  <2>4. QED
    BY <1>10, <2>2, <2>3 DEF Right
<1>12. QED
  BY <1>0, <1>10, <1>11 DEF Right

----------------------------------------------------------------------------
(* The invariant of the sweeps: a distance is the length of a path to an   *)
(* accepting configuration, that is, in every relation that holds the      *)
(* lengths of paths; and while a sweep has found nothing, what it has      *)
(* visited is not one move away from a distance.                           *)

Ends == AcceptingIn(reachable)
HoldsPaths(K) == (\A c \in Ends : <<c, 0>> \in K) /\ \A c \in reachable : OneMoreIn(K, c)
Settled(c) ==
  c \in DOMAIN distance \/ \A d \in ToSet(MovesOf(c)) : Fits(d) => d \notin DOMAIN distance

SweepTyped ==
  /\ distance \in Known /\ Ends \subseteq DOMAIN distance /\ DOMAIN distance \subseteq reachable
  /\ todo \subseteq reachable /\ changed \in BOOLEAN

SweepInv ==
  op = "compute" /\ pc \in {"sweep", "done"} =>
    /\ SweepTyped
    /\ \A K : HoldsPaths(K) => AllIn(K, distance)
    /\ \A c \in reachable : (pc = "sweep" /\ (changed \/ c \in todo)) \/ Settled(c)

LEMMA SamePaths ==
  ASSUME UNCHANGED <<given, searched>>
  PROVE  /\ m' = m /\ op' = op /\ reachable' = reachable /\ Ends' = Ends
         /\ \A c : MovesOf(c)' = MovesOf(c) /\ Fits(c)' = Fits(c)
         /\ \A K : HoldsPaths(K)' <=> HoldsPaths(K)
<1>1. m' = m /\ op' = op /\ h' = h /\ reachable' = reachable
  BY DEF given, searched
<1>2. Ends' = Ends /\ \A c : MovesOf(c)' = MovesOf(c) /\ Fits(c)' = Fits(c)
  BY <1>1, SameMoves DEF Ends, AcceptingIn, Fits
<1>3. \A K : HoldsPaths(K)' <=> HoldsPaths(K)
  BY <1>1, <1>2 DEF HoldsPaths, OneMoreIn
<1>4. QED
  BY <1>1, <1>2, <1>3

LEMMA SweepInit == Init => SweepInv
  BY DEF Init, SweepInv

LEMMA ReachEndSweeps == SearchInv /\ ReachEnd => SweepInv'
<1> SUFFICES ASSUME SearchInv, ReachEnd PROVE SweepInv'
  OBVIOUS
<1>1. /\ UNCHANGED <<given, searched>> /\ pc' = "sweep"
      /\ distance' = [c \in Ends |-> 0] /\ todo' = reachable /\ changed' = FALSE
  BY DEF ReachEnd, Ends
<1>2. /\ reachable' = reachable /\ Ends' = Ends /\ \A K : HoldsPaths(K)' <=> HoldsPaths(K)
  BY <1>1, SamePaths
<1>3. Ends \subseteq reachable /\ reachable \subseteq Configs
  BY DEF Ends, AcceptingIn, SearchInv, SearchTyped
<1>4. distance' \in Known /\ DOMAIN distance' = Ends /\ \A c \in Ends : distance'[c] = 0
  <2>1. distance' \in [Ends -> Nat] /\ Ends \in SUBSET Configs
    BY <1>1, <1>3
  <2>2. distance' \in Known
    BY <2>1 DEF Known
  <2>3. QED
    BY <1>1, <2>2
<1>5. SweepTyped'
  BY <1>1, <1>2, <1>3, <1>4 DEF SweepTyped
<1>6. ASSUME NEW K, HoldsPaths(K) PROVE AllIn(K, distance')
  BY <1>4, <1>6 DEF AllIn, HoldsPaths
<1>7. \A K : HoldsPaths(K)' => AllIn(K, distance)'
  BY <1>2, <1>6 DEF AllIn
<1>8. QED
  BY <1>1, <1>2, <1>5, <1>7 DEF SweepInv

LEMMA VisitSweeps == SearchInv /\ SweepInv /\ VisitAny => SweepInv'
<1> SUFFICES ASSUME SearchInv, SweepInv, NEW c \in todo, Visit(c), op = "compute" PROVE SweepInv'
  BY SamePaths DEF VisitAny, Visit, SweepInv
<1> DEFINE new == IF c \in DOMAIN distance THEN distance ELSE AfterAllInputs(c)
<1>1. /\ UNCHANGED <<given, searched>> /\ pc = "sweep" /\ pc' = "sweep"
      /\ todo' = todo \ {c} /\ distance' = new /\ changed' = (changed \/ new # distance)
  BY DEF Visit
<1>2. /\ reachable' = reachable /\ Ends' = Ends /\ \A K : HoldsPaths(K)' <=> HoldsPaths(K)
      /\ \A d : MovesOf(d)' = MovesOf(d) /\ Fits(d)' = Fits(d)
  BY <1>1, SamePaths
<1>3. /\ distance \in Known /\ Ends \subseteq DOMAIN distance /\ DOMAIN distance \subseteq reachable
      /\ todo \subseteq reachable /\ changed \in BOOLEAN
  BY <1>1 DEF SweepInv, SweepTyped
<1>4. Setting /\ reachable \subseteq Configs /\ c \in reachable /\ c \in Configs
  BY <1>3 DEF SearchInv, SearchTyped
<1>5. ASSUME NEW K, HoldsPaths(K) PROVE Extends(distance, c, new) /\ AllIn(K, new)
  <2>1. AllIn(K, distance) /\ OneMoreIn(K, c)
    BY <1>1, <1>4, <1>5 DEF SweepInv, HoldsPaths
  <2>2. CASE c \in DOMAIN distance
    BY <1>3, <2>1, <2>2 DEF Extends
  <2>3. CASE c \notin DOMAIN distance
    BY <1>3, <1>4, <2>1, <2>3, AfterAll
  <2>4. QED
    BY <2>2, <2>3
<1> DEFINE All == Configs \X Nat
<1>6. HoldsPaths(All)
  <2>1. \A d \in Ends : d \in Configs
    BY <1>3, <1>4
  <2>2. \A d \in Configs : \A n \in Nat : n + 1 \in Nat
    OBVIOUS
  <2>3. \A e, n : <<e, n>> \in All <=> e \in Configs /\ n \in Nat
    OBVIOUS
  <2> HIDE DEF All
  <2>4. \A d \in Ends : <<d, 0>> \in All
    BY <2>1, <2>3
  <2>5. \A d \in reachable : OneMoreIn(All, d)
    BY <1>4, <2>3 DEF OneMoreIn
  <2>6. QED
    BY <2>4, <2>5 DEF HoldsPaths
<1> HIDE DEF All
<1>7. Extends(distance, c, new)
  BY <1>5, <1>6
<1>8. SweepTyped'
  BY <1>1, <1>2, <1>3, <1>4, <1>7 DEF SweepTyped, Extends
<1>9. \A K : HoldsPaths(K)' => AllIn(K, distance)'
  <2>1. \A K : HoldsPaths(K) => AllIn(K, new)
    BY <1>5
  <2> HIDE DEF new
  <2>2. QED
    BY <1>1, <1>2, <2>1 DEF AllIn
<1>10. ASSUME NEW d \in reachable, ~changed', d \notin todo' PROVE Settled(d)'
  <2>1. ~changed /\ new = distance /\ distance' = distance
    BY <1>1, <1>3, <1>10
  <2>2. Settled(d)
    <3>1. CASE d # c
      <4>1. d \notin todo
        BY <1>1, <1>10, <3>1
      <4>2. QED
        BY <1>1, <2>1, <4>1 DEF SweepInv
    <3>2. CASE d = c /\ c \in DOMAIN distance
      BY <3>2 DEF Settled
    <3>3. CASE d = c /\ c \notin DOMAIN distance
      <4>1. AfterAllInputs(c) = distance
        BY <2>1, <3>3
      <4>2. AllIn(All, distance) /\ OneMoreIn(All, c)
        BY <1>1, <1>4, <1>6 DEF SweepInv, HoldsPaths
      <4>3. (\E e \in ToSet(MovesOf(c)) : Fits(e) /\ e \in DOMAIN distance) => c \in DOMAIN AfterAllInputs(c)
        BY <1>3, <1>4, <4>2, AfterAll
      <4>4. QED
        BY <3>3, <4>1, <4>3 DEF Settled
    <3>4. QED
      BY <3>1, <3>2, <3>3
  <2>3. QED
    BY <1>2, <2>1, <2>2 DEF Settled
<1>11. QED
  BY <1>1, <1>2, <1>8, <1>9, <1>10 DEF SweepInv

LEMMA SweepNext == SearchInv /\ SweepInv /\ [Next]_vars => SweepInv'
<1> SUFFICES ASSUME SearchInv, SweepInv, [Next]_vars PROVE SweepInv'
  OBVIOUS
<1>1. CASE Reach
  BY <1>1 DEF Reach, SweepInv
<1>2. CASE ReachEnd
  BY <1>2, ReachEndSweeps
<1>3. CASE ReachEndUnbounded
  BY <1>3 DEF ReachEndUnbounded, SweepInv, given
<1>4. CASE VisitAny
  BY <1>4, VisitSweeps
<1>5. CASE SweepEnd \/ UNCHANGED vars
  <2>1. UNCHANGED <<given, searched>> /\ distance' = distance
    BY <1>5 DEF SweepEnd, vars, given, searched
  <2>2. /\ op' = op /\ reachable' = reachable /\ Ends' = Ends /\ \A K : HoldsPaths(K)' <=> HoldsPaths(K)
        /\ \A d : MovesOf(d)' = MovesOf(d) /\ Fits(d)' = Fits(d)
    BY <2>1, SamePaths
  <2>3. \A d : Settled(d)' <=> Settled(d)
    BY <2>1, <2>2 DEF Settled
  <2>4. \A K : AllIn(K, distance)' <=> AllIn(K, distance)
    BY <2>1 DEF AllIn
  <2>5. CASE UNCHANGED vars
    <3>1. pc' = pc /\ todo' = todo /\ changed' = changed
      BY <2>5 DEF vars
    <3>2. SweepTyped' <=> SweepTyped
      BY <2>1, <2>2, <3>1 DEF SweepTyped
    <3>3. QED
      BY <2>2, <2>3, <2>4, <3>1, <3>2 DEF SweepInv
  <2>6. CASE SweepEnd
    <3>1. /\ pc = "sweep" /\ todo = {}
          /\ \/ changed /\ todo' = reachable /\ changed' = FALSE /\ pc' = pc
             \/ ~changed /\ pc' = "done" /\ todo' = todo /\ changed' = changed
      BY <2>6 DEF SweepEnd
    <3> SUFFICES ASSUME op = "compute" PROVE SweepInv'
      BY <2>2 DEF SweepInv
    <3>2. SweepTyped /\ \A K : HoldsPaths(K) => AllIn(K, distance)
      BY <3>1 DEF SweepInv
    <3>3. SweepTyped'
      BY <2>1, <2>2, <3>1, <3>2 DEF SweepTyped
    <3>4. ASSUME NEW c \in reachable PROVE (pc' = "sweep" /\ (changed' \/ c \in todo')) \/ Settled(c)
      BY <3>1 DEF SweepInv
    <3>5. QED
      BY <2>2, <2>3, <2>4, <3>2, <3>3, <3>4 DEF SweepInv
  <2>7. QED
    BY <1>5, <2>5, <2>6
<1>6. CASE Level
  BY <1>6 DEF Level, SweepInv
<1>7. CASE LevelsEnd
  BY <1>7 DEF LevelsEnd, SweepInv
<1>8. QED
  BY <1>1, <1>2, <1>3, <1>4, <1>5, <1>6, <1>7 DEF Next

LEMMA SweepAlways == Spec => []SweepInv
<1>1. Init => SweepInv
  BY SweepInit
<1>2. SearchInv /\ SweepInv /\ [Next]_vars => SweepInv'
  BY SweepNext
<1>3. QED
  BY <1>1, <1>2, SearchAlways, PTL DEF Spec

----------------------------------------------------------------------------
(* What the result of compute says.                                        *)

\* Only the start may be beyond the bound, when the bound is zero; then all
\* else has an empty stack and no move.
LEMMA OnlyStartBeyond ==
  ASSUME SearchInv, NEW c \in reachable, NEW d \in reachable, d \in ToSet(MovesOf(c)), ~Fits(d)
  PROVE  c = d
<1>1. Setting /\ c \in Configs /\ h \in Nat
  BY DEF SearchInv, SearchTyped, Setting
<1>2. d = StartConfig
  BY DEF SearchInv
<1>3. Len(StartConfig[2]) = 1
  BY DEF StartConfig
<1>4. h = 0
  BY <1>1, <1>2, <1>3 DEF Fits
<1>5. PICK a \in 0..m.inputs : d \in ToSet(MovesOn(c, a))
  BY <1>1, MovesOfMembers
<1>6. PICK j \in 1..Len(m.trans) : Applies(m.trans[j], c, a)
  BY <1>1, <1>5, MovesOnMembers
<1>7. c[2] \in Seq(Nat) /\ c[2] # <<>>
  BY <1>1, <1>6 DEF Applies, Configs
<1> DEFINE s == c[2]
<1>8. Len(s) > 0
  <2>1. s \in Seq(Nat) /\ s # <<>>
    BY <1>7
  <2> HIDE DEF s
  <2>2. QED
    BY <2>1
<1>9. ~Fits(c)
  <2>1. Len(s) \in Nat
    BY <1>7
  <2>2. Fits(c) <=> Len(s) <= h
    BY DEF Fits
  <2> HIDE DEF s
  <2>3. QED
    BY <1>4, <1>8, <2>1, <2>2
<1>10. c = StartConfig
  BY <1>9 DEF SearchInv
<1>11. QED
  BY <1>2, <1>10

LEMMA InvPaths == SearchInv /\ SweepInv => DistanceIsAPath
<1> SUFFICES ASSUME SearchInv, SweepInv, op = "compute", pc = "done"
             PROVE  LET before == LeadingTo(Ends)
                    IN /\ \A c \in DOMAIN distance : distance[c] \in Nat /\ c \in before[distance[c]]
                       /\ \A k \in 0..Cardinality(reachable) : before[k] \subseteq DOMAIN distance
                       /\ ~Proven => StuckConfigs = Cardinality(reachable)
  BY DEF DistanceIsAPath, Computed, Ends
<1> DEFINE before == LeadingTo(Ends)
<1>1. /\ distance \in Known /\ Ends \subseteq DOMAIN distance /\ DOMAIN distance \subseteq reachable
      /\ \A K : HoldsPaths(K) => AllIn(K, distance)
      /\ \A c \in reachable : Settled(c)
  BY DEF SweepInv, SweepTyped
<1>2. reachable \subseteq Configs /\ Ends \in SUBSET reachable
  BY DEF SearchInv, SearchTyped, Ends, AcceptingIn
<1>3. before[0] = Ends /\ \A k \in Nat : before[k + 1] = Before(before[k]) /\ before[k] \subseteq reachable
  BY <1>2, LeadingSteps
<1> HIDE DEF before
<1>4. ASSUME NEW c \in DOMAIN distance PROVE distance[c] \in Nat /\ c \in before[distance[c]]
  <2> DEFINE K == {p \in Configs \X Nat : p[1] \in before[p[2]]}
  <2>1. \A d, n : <<d, n>> \in K <=> d \in Configs /\ n \in Nat /\ d \in before[n]
    OBVIOUS
  <2> HIDE DEF K
  <2>2. \A d \in Ends : <<d, 0>> \in K
    BY <1>2, <1>3, <2>1
  <2>3. ASSUME NEW d \in reachable, NEW e \in ToSet(MovesOf(d)), NEW n \in Nat, <<e, n>> \in K
        PROVE  <<d, n + 1>> \in K
    <3>1. e \in before[n]
      BY <2>1, <2>3
    <3>2. d \in before[n + 1]
      BY <1>3, <3>1 DEF Before
    <3>3. n + 1 \in Nat /\ d \in Configs
      BY <1>2
    <3>4. QED
      BY <2>1, <3>2, <3>3
  <2>4. HoldsPaths(K)
    BY <2>2, <2>3 DEF HoldsPaths, OneMoreIn
  <2>5. <<c, distance[c]>> \in K
    BY <1>1, <2>4 DEF AllIn
  <2>6. QED
    BY <2>1, <2>5
<1>5. \A k \in Nat : before[k] \subseteq DOMAIN distance
  <2> DEFINE T == {k \in Nat : before[k] \subseteq DOMAIN distance}
  <2>1. 0 \in T
    BY <1>1, <1>3
  <2>2. ASSUME NEW k \in Nat, k \in T PROVE k + 1 \in T
    <3> SUFFICES ASSUME NEW c \in before[k + 1] PROVE c \in DOMAIN distance
      OBVIOUS
    <3>1. PICK d \in ToSet(MovesOf(c)) : d \in before[k]
      BY <1>3 DEF Before
    <3>2. c \in reachable /\ d \in reachable /\ d \in DOMAIN distance
      BY <1>3, <2>2, <3>1
    <3>3. CASE Fits(d)
      BY <1>1, <3>1, <3>2, <3>3 DEF Settled
    <3>4. CASE ~Fits(d)
      BY <3>1, <3>2, <3>4, OnlyStartBeyond
    <3>5. QED
      BY <3>3, <3>4
  <2> HIDE DEF T
  <2>3. Nat \subseteq T
    BY <2>1, <2>2, Induction
  <2>4. QED
    BY <2>3 DEF T
<1>6. ASSUME ~Proven PROVE StuckConfigs = Cardinality(reachable)
  <2>1. StartConfig \notin DOMAIN distance
    BY <1>6 DEF Proven
  <2>2. ASSUME NEW c \in reachable, NEW d \in DOMAIN distance, d \in ToSet(MovesOf(c)) PROVE c \in DOMAIN distance
    <3>1. Fits(d)
      BY <1>1, <2>1 DEF SearchInv
    <3>2. QED
      BY <1>1, <2>2, <3>1 DEF Settled
  <2>3. DOMAIN distance = {}
    BY <1>1, <2>1, <2>2 DEF SearchInv, Rooted
  <2>4. AcceptingIn(reachable) = {}
    BY <1>1, <2>3 DEF Ends
  <2>5. reachable \ AcceptingIn(reachable) = reachable
    BY <2>4
  <2>6. QED
    BY <2>5 DEF StuckConfigs
<1>7. 0..Cardinality(reachable) \subseteq Nat
  BY DEF SearchInv, SearchTyped
<1>8. QED
  BY <1>4, <1>5, <1>6, <1>7 DEF before

\* Whatever the order of the sweeps, the configurations with a distance are
\* those from which a path leads to acceptance, the distance is the length of
\* such a path, and without one from the start every configuration is stuck.
THEOREM DistancesArePaths == Spec => []DistanceIsAPath
<1>1. SearchInv /\ SweepInv => DistanceIsAPath
  BY InvPaths
<1>2. QED
  BY <1>1, SearchAlways, SweepAlways, PTL

----------------------------------------------------------------------------
(* What is_viable keeps.                                                   *)

LEMMA ByEpsMore ==
  ASSUME SearchInv, NEW X \in SUBSET reachable
  PROVE  /\ X \subseteq ByEps(X) /\ ByMovesOn(EpsInput(m), X) \subseteq ByEps(X)
         /\ ByEps(X) \subseteq reachable
<1> DEFINE S == SUBSET reachable
           by(Y) == Y \cup ByMovesOn(EpsInput(m), Y)
           Is(f) == f = [k \in Nat |-> IF k = 0 THEN X ELSE by(f[k - 1])]
           more == CHOOSE f : Is(f)
           n == Cardinality(reachable)
<1>1. ByEps(X) = more[n]
  BY DEF ByEps
<1>2. \A Y \in S : by(Y) \in S
  BY DEF ByMovesOn
<1>3. \E f : Is(f)
  <2> DEFINE next == [Y \in S |-> by(Y)]
  <2> HIDE DEF by
  <2>1. next \in [S -> S] /\ X \in S
    BY <1>2
  <2>2. \A Y \in S : next[Y] = by(Y)
    OBVIOUS
  <2> HIDE DEF next, S
  <2>3. PICK f \in [Nat -> S] : f = [k \in Nat |-> IF k = 0 THEN X ELSE next[f[k - 1]]]
    <3>1. HasSteps(S, X, next)
      BY <2>1, StepsFrom
    <3>2. QED
      BY <3>1 DEF HasSteps
  <2>4. ASSUME NEW k \in Nat PROVE f[k] = IF k = 0 THEN X ELSE by(f[k - 1])
    <3>1. CASE k = 0
      BY <2>3, <3>1
    <3>2. CASE k # 0
      <4>1. k - 1 \in Nat
        BY <3>2
      <4>2. f[k - 1] \in S
        BY <4>1
      <4>3. QED
        BY <2>2, <2>3, <3>2, <4>2
    <3>3. QED
      BY <3>1, <3>2
  <2>5. f = [k \in Nat |-> f[k]]
    OBVIOUS
  <2>6. Is(f)
    BY <2>4, <2>5
  <2>7. QED
    BY <2>6
<1> HIDE DEF by
<1>4. Is(more)
  <2> HIDE DEF Is
  <2>1. QED
    BY <1>3
<1> HIDE DEF more
<1>5. more[0] = X
  BY <1>4
<1>6. ASSUME NEW k \in Nat PROVE more[k + 1] = by(more[k])
  <2>1. k + 1 \in Nat /\ k + 1 # 0 /\ (k + 1) - 1 = k
    OBVIOUS
  <2>2. QED
    BY <1>4, <2>1
<1> HIDE DEF Is
<1>7. n \in Nat /\ n # 0
  <2>1. IsFiniteSet(reachable) /\ reachable # {}
    BY DEF SearchInv, SearchTyped
  <2>2. QED
    BY <2>1, FS_CardinalityType, FS_EmptySet
<1> DEFINE T == {k \in Nat : more[k + 1] \in S /\ X \subseteq more[k + 1] /\ ByMovesOn(EpsInput(m), X) \subseteq more[k + 1]}
<1>8. 0 \in T
  <2>1. more[0 + 1] = by(X)
    BY <1>5, <1>6
  <2>2. QED
    BY <1>2, <2>1 DEF by
<1>9. ASSUME NEW k \in Nat, k \in T PROVE k + 1 \in T
  <2>1. more[(k + 1) + 1] = by(more[k + 1]) /\ more[k + 1] \subseteq by(more[k + 1])
    BY <1>6 DEF by
  <2>2. by(more[k + 1]) \in S
    BY <1>2, <1>9
  <2>3. QED
    BY <1>9, <2>1, <2>2
<1> HIDE DEF n, T
<1>10. Nat \subseteq T
  BY <1>8, <1>9, Induction
<1>11. n - 1 \in Nat /\ (n - 1) + 1 = n
  BY <1>7
<1>12. QED
  <2> DEFINE k == n - 1
  <2>1. k \in T /\ k + 1 = n
    BY <1>10, <1>11
  <2> HIDE DEF k
  <2>2. more[n] \in S /\ X \subseteq more[n] /\ ByMovesOn(EpsInput(m), X) \subseteq more[n]
    BY <2>1 DEF T
  <2>3. QED
    BY <1>1, <2>2

LEMMA EndingSteps ==
  ASSUME SearchInv
  PROVE  /\ EndingWithin[0] = ByEps(Ends)
         /\ \A k \in Nat : EndingWithin[k + 1] =
              ByEps(EndingWithin[k] \cup UNION {ByMovesOn(a, EndingWithin[k]) : a \in 0..(m.inputs - 1)})
         /\ \A k \in Nat : EndingWithin[k] \subseteq reachable
<1> DEFINE S == SUBSET reachable
           wider(Y) == Y \cup UNION {ByMovesOn(a, Y) : a \in 0..(m.inputs - 1)}
           first == ByEps(Ends)
           Is(f) == f = [k \in Nat |-> IF k = 0 THEN first ELSE ByEps(wider(f[k - 1]))]
           within == CHOOSE f : Is(f)
<1>1. EndingWithin = within
  BY DEF EndingWithin, Ends
<1>2. first \in S
  <2>1. Ends \in SUBSET reachable
    BY DEF Ends, AcceptingIn
  <2>2. QED
    BY <2>1, ByEpsMore
<1>3. \A Y \in S : wider(Y) \in S /\ ByEps(wider(Y)) \in S
  <2> SUFFICES ASSUME NEW Y \in S PROVE wider(Y) \in S /\ ByEps(wider(Y)) \in S
    OBVIOUS
  <2>1. wider(Y) \in SUBSET reachable
    BY DEF ByMovesOn
  <2> HIDE DEF wider
  <2>2. QED
    BY <2>1, ByEpsMore
<1> HIDE DEF wider, first
<1>4. \E f : Is(f)
  <2> DEFINE next == [Y \in S |-> ByEps(wider(Y))]
  <2>1. next \in [S -> S]
    BY <1>3
  <2>2. \A Y \in S : next[Y] = ByEps(wider(Y))
    OBVIOUS
  <2> HIDE DEF next, S
  <2>3. PICK f \in [Nat -> S] : f = [k \in Nat |-> IF k = 0 THEN first ELSE next[f[k - 1]]]
    <3>1. HasSteps(S, first, next)
      BY <1>2, <2>1, StepsFrom
    <3>2. QED
      BY <3>1 DEF HasSteps
  <2>4. ASSUME NEW k \in Nat PROVE f[k] = IF k = 0 THEN first ELSE ByEps(wider(f[k - 1]))
    <3>1. CASE k = 0
      BY <2>3, <3>1
    <3>2. CASE k # 0
      <4>1. k - 1 \in Nat
        BY <3>2
      <4>2. f[k - 1] \in S
        BY <4>1
      <4>3. QED
        BY <2>2, <2>3, <3>2, <4>2
    <3>3. QED
      BY <3>1, <3>2
  <2>5. f = [k \in Nat |-> f[k]]
    OBVIOUS
  <2>6. Is(f)
    BY <2>4, <2>5
  <2>7. QED
    BY <2>6
<1>5. Is(within)
  <2> HIDE DEF Is
  <2>1. QED
    BY <1>4
<1> HIDE DEF within
<1>6. within[0] = first
  BY <1>5
<1>7. ASSUME NEW k \in Nat PROVE within[k + 1] = ByEps(wider(within[k]))
  <2>1. k + 1 \in Nat /\ k + 1 # 0 /\ (k + 1) - 1 = k
    OBVIOUS
  <2>2. QED
    BY <1>5, <2>1
<1> HIDE DEF Is
<1>8. \A k \in Nat : within[k] \in S
  <2> DEFINE T == {k \in Nat : within[k] \in S}
  <2>1. 0 \in T
    BY <1>2, <1>6
  <2>2. ASSUME NEW k \in Nat, k \in T PROVE k + 1 \in T
    BY <1>3, <1>7, <2>2
  <2> HIDE DEF T
  <2>3. Nat \subseteq T
    BY <2>1, <2>2, Induction
  <2>4. QED
    BY <2>3 DEF T
<1>9. QED
  BY <1>1, <1>6, <1>7, <1>8 DEF first, wider

LEMMA InvViable == SearchInv /\ SweepInv => ViableCanEnd
<1> SUFFICES ASSUME SearchInv, SweepInv, op = "compute", pc = "done", NEW budget \in Budgets, NEW c \in reachable,
                    IsViable(c, budget)
             PROVE  c \in EndingWithin[budget]
  BY DEF ViableCanEnd, Computed
<1> DEFINE within == EndingWithin
           wider(k) == within[k] \cup UNION {ByMovesOn(a, within[k]) : a \in 0..(m.inputs - 1)}
<1>1. /\ within[0] = ByEps(Ends)
      /\ \A k \in Nat : within[k + 1] = ByEps(wider(k)) /\ within[k] \subseteq reachable
  BY EndingSteps
<1>2. Setting /\ reachable \subseteq Configs /\ Ends \in SUBSET reachable
  BY DEF SearchInv, SearchTyped, Ends, AcceptingIn
<1> HIDE DEF within
<1>3. ASSUME NEW k \in Nat
      PROVE  /\ wider(k) \in SUBSET reachable
             /\ wider(k) \subseteq within[k + 1] /\ ByMovesOn(EpsInput(m), wider(k)) \subseteq within[k + 1]
  <2>1. wider(k) \in SUBSET reachable
    BY <1>1 DEF ByMovesOn
  <2> DEFINE X == wider(k)
  <2> HIDE DEF X
  <2>2. X \in SUBSET reachable /\ within[k + 1] = ByEps(X)
    BY <1>1, <2>1 DEF X
  <2>3. X \subseteq ByEps(X) /\ ByMovesOn(EpsInput(m), X) \subseteq ByEps(X)
    BY <2>2, ByEpsMore
  <2>4. QED
    BY <2>1, <2>2, <2>3 DEF X
<1>4. \A i \in Nat : \A k \in Nat : within[i] \subseteq within[i + k]
  <2> SUFFICES ASSUME NEW i \in Nat PROVE \A k \in Nat : within[i] \subseteq within[i + k]
    OBVIOUS
  <2> DEFINE T == {k \in Nat : within[i] \subseteq within[i + k]}
  <2>1. 0 \in T
    <3>1. i + 0 = i
      OBVIOUS
    <3>2. QED
      BY <3>1
  <2>2. ASSUME NEW k \in Nat, k \in T PROVE k + 1 \in T
    <3>1. i + k \in Nat /\ (i + k) + 1 = i + (k + 1)
      OBVIOUS
    <3>2. within[i + k] \subseteq within[i + (k + 1)]
      BY <1>3, <3>1
    <3>3. QED
      BY <2>2, <3>2
  <2> HIDE DEF T
  <2>3. Nat \subseteq T
    BY <2>1, <2>2, Induction
  <2>4. QED
    BY <2>3 DEF T
<1> DEFINE K == {p \in Configs \X Nat : p[1] \in within[p[2]]}
<1>5. \A d, n : <<d, n>> \in K <=> d \in Configs /\ n \in Nat /\ d \in within[n]
  OBVIOUS
<1> HIDE DEF K
<1>6. ASSUME NEW d \in Ends PROVE <<d, 0>> \in K
  <2>1. Ends \subseteq ByEps(Ends)
    BY <1>2, ByEpsMore
  <2>2. QED
    BY <1>1, <1>2, <1>5, <2>1
<1>7. ASSUME NEW d \in reachable, NEW e \in ToSet(MovesOf(d)), NEW n \in Nat, <<e, n>> \in K
      PROVE  <<d, n + 1>> \in K
  <2>1. e \in within[n] /\ d \in Configs /\ n + 1 \in Nat
    BY <1>2, <1>5, <1>7
  <2>2. PICK a \in 0..m.inputs : e \in ToSet(MovesOn(d, a))
    BY <1>2, <2>1, MovesOfMembers
  <2>3. a \in 0..(m.inputs - 1) \/ a = m.inputs
    BY <1>2, Fields
  <2>4. CASE a \in 0..(m.inputs - 1)
    <3>1. d \in ByMovesOn(a, within[n])
      BY <2>1, <2>2 DEF ByMovesOn
    <3>2. d \in wider(n)
      BY <2>4, <3>1
    <3>3. QED
      BY <1>3, <1>5, <2>1, <3>2
  <2>5. CASE a = m.inputs
    <3>1. a = EpsInput(m) /\ e \in wider(n)
      BY <2>1, <2>5 DEF EpsInput
    <3>2. d \in ByMovesOn(EpsInput(m), wider(n))
      BY <2>2, <3>1 DEF ByMovesOn
    <3>3. QED
      BY <1>3, <1>5, <2>1, <3>2
  <2>6. QED
    BY <2>3, <2>4, <2>5
<1>8. HoldsPaths(K)
  BY <1>6, <1>7 DEF HoldsPaths, OneMoreIn
<1>9. c \in DOMAIN distance /\ distance[c] <= budget
  BY DEF IsViable
<1>10. distance[c] \in Nat /\ c \in within[distance[c]]
  <2>1. AllIn(K, distance)
    BY <1>8 DEF SweepInv
  <2>2. QED
    BY <1>5, <1>9, <2>1 DEF AllIn
<1>11. budget - distance[c] \in Nat /\ distance[c] + (budget - distance[c]) = budget
  <2>1. budget \in Nat
    BY BoundsAssumption
  <2>2. QED
    BY <1>9, <1>10, <2>1
<1>12. QED
  <2> DEFINE i == distance[c]
             k == budget - i
  <2>1. i \in Nat /\ k \in Nat /\ i + k = budget /\ c \in within[i]
    BY <1>10, <1>11
  <2> HIDE DEF i, k
  <2>2. c \in within[i + k]
    BY <1>4, <2>1
  <2>3. QED
    BY <2>1, <2>2 DEF within

\* is_viable keeps no configuration that cannot end within the budget.
THEOREM ViableAlwaysCanEnd == Spec => []ViableCanEnd
<1>1. SearchInv /\ SweepInv => ViableCanEnd
  BY InvViable
<1>2. QED
  BY <1>1, SearchAlways, SweepAlways, PTL

----------------------------------------------------------------------------
(* The invariant of the levels: below the level in hand, what is one move  *)
(* before a configuration is at most one further.                          *)

Bottoms == {<<q, <<m.bottom>>>> : q \in m.accepting}

LevelTyped ==
  /\ distance \in Known /\ level \subseteq DOMAIN distance /\ dist \in Nat
  /\ \A c \in level : distance[c] = dist
  /\ \A c \in DOMAIN distance : distance[c] <= dist

LevelInv ==
  op = "compute_unbounded" =>
    /\ LevelTyped
    /\ \A c \in Bottoms : c \in DOMAIN distance /\ distance[c] = 0
    /\ \A c \in DOMAIN distance \ level : \A d \in Preds(c) : d \in DOMAIN distance /\ distance[d] <= distance[c] + 1
    /\ pc # "levels" => level = {}

LEMMA PredsTyped ==
  ASSUME Setting, NEW c \in Configs
  PROVE  Preds(c) \subseteq Configs
<1> SUFFICES ASSUME NEW t \in ToSet(m.trans), Len(t.push) <= Len(c[2])
             PROVE  <<t.q, <<t.top>> \o SubSeq(c[2], Len(t.push) + 1, Len(c[2]))>> \in Configs
  BY DEF Preds
<1>1. t \in Transition
  <2>1. m.trans \in Seq(Transition)
    BY Fields
  <2>2. ToSet(m.trans) \subseteq Transition
    BY <2>1, Members
  <2>3. QED
    BY <2>2
<1>2. t.q \in Nat /\ t.top \in Nat /\ t.push \in Seq(Nat) /\ c[2] \in Seq(Nat)
  BY <1>1 DEF Transition, Configs
<1> DEFINE s == c[2]
           i == Len(t.push) + 1
           j == Len(s)
           u == SubSeq(s, i, j)
           one == <<t.top>>
           w == one \o u
           q == t.q
<1>3. i \in Nat /\ 1 <= i /\ j \in Nat /\ i <= j + 1 /\ s \in Seq(Nat) /\ j = Len(s)
  BY <1>2
<1>4. one \in Seq(Nat) /\ q \in Nat
  BY <1>2
<1> HIDE DEF i, one, q
<1>5. u \in Seq(Nat)
  <2> HIDE DEF s, j
  <2>1. QED
    BY <1>3
<1> HIDE DEF u
<1>6. w \in Seq(Nat)
  BY <1>4, <1>5, ConcatProperties
<1> HIDE DEF w
<1>7. <<q, w>> \in Configs
  BY <1>4, <1>6 DEF Configs
<1>8. QED
  BY <1>7 DEF w, u, one, i, q

LEMMA PredOfMove ==
  ASSUME Setting, NEW c \in Configs, Fits(c), NEW d, d \in ToSet(MovesOf(c))
  PROVE  c \in Preds(d)
<1>1. PICK a \in 0..m.inputs : d \in ToSet(MovesOn(c, a))
  BY MovesOfMembers
<1>2. PICK j \in 1..Len(m.trans) : Applies(m.trans[j], c, a) /\ d = Moved(m.trans[j], c)
  BY <1>1, MovesOnMembers
<1> DEFINE t == m.trans[j]
           s == c[2]
           push == t.push
           tail == Tail(s)
           u == push \o tail
           rest == SubSeq(u, Len(push) + 1, Len(u))
<1>3. /\ t \in ToSet(m.trans) /\ push \in Seq(Nat) /\ s \in Seq(Nat) /\ s # <<>>
      /\ t.q = c[1] /\ t.top = Head(s) /\ d[1] = t.next_q /\ d[2] = u /\ c = <<c[1], s>>
  <2>1. t \in ToSet(m.trans)
    BY Fields DEF ToSet
  <2>2. push \in Seq(Nat)
    BY Fields
  <2>3. s \in Seq(Nat) /\ s # <<>> /\ t.q = c[1] /\ t.top = Head(s)
    BY <1>2 DEF Applies, Configs
  <2>4. d[1] = t.next_q /\ d[2] = u
    BY <1>2 DEF Moved
  <2>5. c = <<c[1], s>>
    BY DEF Configs
  <2>6. QED
    BY <2>1, <2>2, <2>3, <2>4, <2>5
<1> HIDE DEF t, s, push
<1>4. tail \in Seq(Nat) /\ s = <<Head(s)>> \o tail
  BY <1>3
<1> HIDE DEF tail
<1>5. /\ u \in Seq(Nat) /\ Len(u) = Len(push) + Len(tail) /\ Len(push) \in Nat /\ Len(tail) \in Nat
      /\ \A i \in 1..Len(tail) : u[Len(push) + i] = tail[i]
  <2>1. /\ u \in Seq(Nat) /\ Len(u) = Len(push) + Len(tail)
        /\ \A i \in 1..(Len(push) + Len(tail)) : u[i] = IF i <= Len(push) THEN push[i] ELSE tail[i - Len(push)]
    BY <1>3, <1>4, ConcatProperties
  <2>2. Len(push) \in Nat /\ Len(tail) \in Nat
    BY <1>3, <1>4
  <2>3. ASSUME NEW i \in 1..Len(tail) PROVE u[Len(push) + i] = tail[i]
    <3> DEFINE p == Len(push)
               l == Len(tail)
    <3>1. p + i \in 1..(p + l) /\ ~(p + i <= p) /\ (p + i) - p = i
      BY <2>2
    <3>2. QED
      BY <2>1, <3>1
  <2>4. QED
    BY <2>1, <2>2, <2>3
<1> HIDE DEF u
<1>6. rest = tail
  <2> DEFINE p == Len(push) + 1
             e == Len(u)
  <2>1. p \in Nat /\ 1 <= p /\ e \in Nat /\ e = Len(u) /\ e - p + 1 = Len(tail) /\ p <= e + 1
    BY <1>5
  <2>2. rest = SubSeq(u, p, e)
    OBVIOUS
  <2> HIDE DEF p
  <2> HIDE DEF e
  <2>3. /\ SubSeq(u, p, e) \in Seq(Nat) /\ Len(SubSeq(u, p, e)) = e - p + 1
        /\ \A i \in 1..(e - p + 1) : SubSeq(u, p, e)[i] = u[p + i - 1]
    <3>1. p \in 1..(Len(u) + 1) /\ e \in (p - 1)..Len(u) /\ u \in Seq(Nat)
      BY <1>5, <2>1
    <3>2. QED
      BY <2>1, <3>1, SubSeqProperties
  <2> HIDE DEF rest
  <2>4. /\ rest \in Seq(Nat) /\ Len(rest) = Len(tail)
        /\ \A i \in 1..Len(tail) : rest[i] = u[p + i - 1]
    BY <2>1, <2>2, <2>3
  <2>5. ASSUME NEW i \in 1..Len(tail) PROVE rest[i] = tail[i]
    <3>1. p + i - 1 = Len(push) + i
      BY <1>5 DEF p
    <3>2. QED
      BY <1>5, <2>4, <3>1
  <2>6. QED
    BY <1>4, <2>4, <2>5, SeqEqual
<1> HIDE DEF rest
<1>7. c = <<t.q, <<t.top>> \o rest>>
  <2>1. <<t.top>> \o rest = s
    BY <1>3, <1>4, <1>6
  <2>2. QED
    BY <1>3, <2>1
<1>8. c = <<t.q, <<t.top>> \o SubSeq(d[2], Len(t.push) + 1, Len(d[2]))>>
  BY <1>3, <1>7 DEF rest, push
<1>9. t.next_q = d[1] /\ Len(t.push) <= Len(d[2])
  <2>1. Len(push) <= Len(u)
    BY <1>5
  <2>2. QED
    BY <1>3, <2>1 DEF push
<1>10. Len(c[2]) <= h
  BY DEF Fits
<1>11. t.a \in 0..m.inputs
  BY <1>1, <1>2 DEF Applies, t
<1>12. QED
  BY <1>3, <1>8, <1>9, <1>10, <1>11 DEF Preds

LEMMA LevelInit == Init => LevelInv
<1> SUFFICES ASSUME Init, op = "compute_unbounded" PROVE LevelInv
  BY DEF LevelInv
<1>1. Setting
  BY SearchInit DEF SearchInv, SearchTyped
<1>2. level = Bottoms /\ dist = 0 /\ distance = [c \in level |-> 0] /\ pc = "levels"
  BY DEF Init, Bottoms
<1>3. Bottoms \in SUBSET Configs
  <2> DEFINE b == <<m.bottom>>
  <2>1. b \in Seq(Nat) /\ m.accepting \subseteq Nat
    BY <1>1, Fields
  <2>2. Bottoms = {<<q, b>> : q \in m.accepting}
    BY DEF Bottoms
  <2> HIDE DEF b
  <2>3. QED
    BY <2>1, <2>2 DEF Configs
<1>4. distance \in [Bottoms -> Nat]
  BY <1>2
<1>5. distance \in Known
  BY <1>3, <1>4 DEF Known
<1>6. QED
  BY <1>2, <1>5 DEF LevelInv, LevelTyped

LEMMA SamePreds ==
  ASSUME m' = m, h' = h
  PROVE  Bottoms' = Bottoms /\ \A c : Preds(c)' = Preds(c)
  BY DEF Bottoms, Preds

LEMMA LevelHolds == SearchInv /\ LevelInv /\ Level => LevelInv'
<1> SUFFICES ASSUME SearchInv, LevelInv, Level, op = "compute_unbounded" PROVE LevelInv'
  BY DEF LevelInv, Level, given
<1> DEFINE new == {c \in UNION {Preds(d) : d \in level} : c \in DOMAIN distance => distance[c] > dist + 1}
           next == dist + 1
<1>1. /\ pc' = "levels" /\ m' = m /\ h' = h /\ op' = op
      /\ level' = new /\ distance' = Recorded(distance, new, next) /\ dist' = next
  BY DEF Level, given
<1>2. /\ distance \in Known /\ level \subseteq DOMAIN distance /\ dist \in Nat
      /\ \A c \in level : distance[c] = dist
      /\ \A c \in DOMAIN distance : distance[c] <= dist
      /\ \A c \in Bottoms : c \in DOMAIN distance /\ distance[c] = 0
      /\ \A c \in DOMAIN distance \ level : \A d \in Preds(c) : d \in DOMAIN distance /\ distance[d] <= distance[c] + 1
  BY DEF LevelInv, LevelTyped
<1>3. Setting
  BY DEF SearchInv, SearchTyped
<1>4. next \in Nat /\ \A c \in DOMAIN distance : distance[c] \in Nat /\ distance[c] <= next /\ ~(distance[c] > next)
  <2>1. \A c \in DOMAIN distance : distance[c] \in Nat
    BY <1>2, KnownParts
  <2>2. QED
    BY <1>2, <2>1
<1>5. /\ new \cap DOMAIN distance = {} /\ new \in SUBSET Configs
      /\ \A c \in level : \A d \in Preds(c) : d \in DOMAIN distance \/ d \in new
  <2>1. \A c \in level : Preds(c) \subseteq Configs
    BY <1>2, <1>3, KnownParts, PredsTyped
  <2>2. ASSUME NEW c \in new PROVE c \notin DOMAIN distance /\ \E d \in level : c \in Preds(d)
    <3>1. \E d \in level : c \in Preds(d)
      OBVIOUS
    <3>2. c \in DOMAIN distance => distance[c] > next
      OBVIOUS
    <3> HIDE DEF next
    <3>3. QED
      BY <1>4, <3>1, <3>2
  <2>3. \A c \in level : \A d \in Preds(c) : d \in DOMAIN distance \/ d \in new
    OBVIOUS
  <2> HIDE DEF new
  <2>4. new \cap DOMAIN distance = {}
    BY <2>2
  <2>5. new \subseteq Configs
    BY <2>1, <2>2
  <2>6. QED
    BY <2>3, <2>4, <2>5
<1> HIDE DEF new, next
<1>6. /\ distance' \in Known /\ DOMAIN distance' = new \cup DOMAIN distance
      /\ \A c \in new : distance'[c] = next
      /\ \A c \in DOMAIN distance : distance'[c] = distance[c]
  <2> DEFINE g == Recorded(distance, new, next)
  <2>1. /\ g \in Known /\ DOMAIN g = new \cup DOMAIN distance
        /\ \A c \in new : g[c] = next
        /\ \A c \in DOMAIN distance : c \notin new => g[c] = distance[c]
    <3>1. distance \in Known /\ new \in SUBSET Configs /\ next \in Nat
      BY <1>2, <1>4, <1>5
    <3>2. IsRecorded(g, distance, new, next)
      BY <3>1, RecordedTyped
    <3> HIDE DEF g
    <3>3. QED
      BY <3>2 DEF IsRecorded
  <2>2. distance' = g
    BY <1>1
  <2> HIDE DEF g
  <2>3. \A c \in DOMAIN distance : c \notin new
    BY <1>5
  <2>4. \A c \in DOMAIN distance : g[c] = distance[c]
    BY <2>1, <2>3
  <2>5. QED
    BY <2>1, <2>2, <2>4
<1>7. LevelTyped'
  <2>1. \A c \in DOMAIN distance' : distance'[c] <= next
    BY <1>4, <1>6
  <2>2. QED
    BY <1>1, <1>4, <1>6, <2>1 DEF LevelTyped
<1>8. \A c \in Bottoms : c \in DOMAIN distance' /\ distance'[c] = 0
  BY <1>2, <1>6
<1>9. ASSUME NEW c \in DOMAIN distance' \ level', NEW d \in Preds(c)
      PROVE  d \in DOMAIN distance' /\ distance'[d] <= distance'[c] + 1
  <2>1. c \in DOMAIN distance /\ distance'[c] = distance[c]
    BY <1>1, <1>6
  <2>2. CASE c \in level
    <3>1. distance[c] + 1 = next
      BY <1>2, <2>2 DEF next
    <3>2. CASE d \in new
      <4>1. d \in DOMAIN distance' /\ distance'[d] = next
        BY <1>6, <3>2
      <4>2. QED
        BY <1>4, <2>1, <3>1, <4>1
    <3>3. CASE d \in DOMAIN distance
      BY <1>4, <1>6, <2>1, <3>1, <3>3
    <3>4. QED
      BY <1>5, <2>2, <3>2, <3>3
  <2>3. CASE c \notin level
    <3>1. d \in DOMAIN distance /\ distance[d] <= distance[c] + 1
      BY <1>2, <2>1, <2>3
    <3>2. QED
      BY <1>6, <2>1, <3>1
  <2>4. QED
    BY <2>2, <2>3
<1>10. Bottoms' = Bottoms /\ \A c : Preds(c)' = Preds(c)
  BY <1>1, SamePreds
<1>11. QED
  BY <1>1, <1>7, <1>8, <1>9, <1>10 DEF LevelInv

LEMMA LevelNext == SearchInv /\ LevelInv /\ [Next]_vars => LevelInv'
<1> SUFFICES ASSUME SearchInv, LevelInv, [Next]_vars, op = "compute_unbounded" PROVE LevelInv'
  BY DEF LevelInv, Next, vars, given, Reach, ReachEnd, ReachEndUnbounded, VisitAny, Visit, SweepEnd, Level, LevelsEnd
<1>1. CASE Level
  BY <1>1, LevelHolds
<1>2. CASE ReachEnd \/ VisitAny \/ SweepEnd
  <2>1. pc # "sweep"
    BY DEF SearchInv
  <2>2. QED
    BY <1>2, <2>1 DEF ReachEnd, VisitAny, Visit, SweepEnd
<1>3. CASE Reach \/ ReachEndUnbounded \/ LevelsEnd \/ UNCHANGED vars
  <2>1. m' = m /\ h' = h /\ op' = op /\ distance' = distance /\ level' = level /\ dist' = dist
    BY <1>3 DEF Reach, ReachEndUnbounded, LevelsEnd, vars, given, leveled
  <2>2. Bottoms' = Bottoms /\ \A c : Preds(c)' = Preds(c)
    BY <2>1, SamePreds
  <2>3. LevelTyped' <=> LevelTyped
    BY <2>1 DEF LevelTyped
  <2>4. pc' # "levels" => level = {}
    BY <1>3 DEF Reach, ReachEndUnbounded, LevelsEnd, vars, LevelInv
  <2>5. QED
    BY <2>1, <2>2, <2>3, <2>4 DEF LevelInv
<1>4. QED
  BY <1>1, <1>2, <1>3 DEF Next

LEMMA LevelAlways == Spec => []LevelInv
<1>1. Init => LevelInv
  BY LevelInit
<1>2. SearchInv /\ LevelInv /\ [Next]_vars => LevelInv'
  BY LevelNext
<1>3. QED
  BY <1>1, <1>2, SearchAlways, PTL DEF Spec

LEMMA InvNear == SearchInv /\ LevelInv => NeverTooFar
<1> DEFINE ends == {d \in reachable : d[1] \in m.accepting /\ d[2] = <<m.bottom>>}
           before == LeadingTo(ends)
<1> SUFFICES ASSUME SearchInv, LevelInv, op = "compute_unbounded", pc = "done"
             PROVE  \A k \in 0..Cardinality(reachable) : \A c \in before[k] : c \in DOMAIN distance /\ distance[c] <= k
  BY DEF NeverTooFar, ComputedUnbounded
<1>1. /\ distance \in Known /\ level = {}
      /\ \A c \in Bottoms : c \in DOMAIN distance /\ distance[c] = 0
      /\ \A c \in DOMAIN distance : \A d \in Preds(c) : d \in DOMAIN distance /\ distance[d] <= distance[c] + 1
  BY DEF LevelInv, LevelTyped
<1>2. Setting /\ reachable \subseteq Configs /\ \A c \in reachable : Fits(c)
  BY DEF SearchInv, SearchTyped
<1>3. ends \subseteq reachable /\ ends \subseteq Bottoms
  <2>1. ASSUME NEW d \in ends PROVE d \in Bottoms
    <3>1. d = <<d[1], d[2]>>
      BY <1>2 DEF Configs
    <3>2. QED
      BY <3>1 DEF Bottoms
  <2>2. QED
    BY <2>1
<1> HIDE DEF ends
<1>4. before[0] = ends /\ \A k \in Nat : before[k + 1] = Before(before[k])
  BY <1>3, LeadingSteps
<1> HIDE DEF before
<1> DEFINE T == {k \in Nat : \A c \in before[k] : c \in DOMAIN distance /\ distance[c] <= k}
<1>5. 0 \in T
  BY <1>1, <1>3, <1>4
<1>6. ASSUME NEW k \in Nat, k \in T PROVE k + 1 \in T
  <2> SUFFICES ASSUME NEW c \in before[k + 1] PROVE c \in DOMAIN distance /\ distance[c] <= k + 1
    OBVIOUS
  <2>1. c \in reachable
    BY <1>4 DEF Before
  <2>2. PICK d \in ToSet(MovesOf(c)) : d \in before[k]
    BY <1>4 DEF Before
  <2>3. d \in DOMAIN distance /\ distance[d] <= k
    BY <1>6, <2>2
  <2>4. c \in Preds(d)
    BY <1>2, <2>1, <2>2, PredOfMove
  <2>5. c \in DOMAIN distance /\ distance[c] <= distance[d] + 1
    BY <1>1, <2>3, <2>4
  <2>6. distance[c] \in Nat /\ distance[d] \in Nat
    BY <1>1, <2>3, <2>5, KnownParts
  <2>7. QED
    BY <2>3, <2>5, <2>6
<1> HIDE DEF T
<1>7. Nat \subseteq T
  BY <1>5, <1>6, Induction
<1>8. 0..Cardinality(reachable) \subseteq Nat
  OBVIOUS
<1>9. QED
  BY <1>7, <1>8 DEF T

\* compute_unbounded's distance of a configuration is never more than the
\* length of a path to the bottom marker in an accepting state, and there is
\* none without one that such a path leads from.
THEOREM DistancesNeverTooFar == Spec => []NeverTooFar
<1>1. SearchInv /\ LevelInv => NeverTooFar
  BY InvNear
<1>2. QED
  BY <1>1, SearchAlways, LevelAlways, PTL
=============================================================================
