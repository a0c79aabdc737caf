------------------------- MODULE DisplacementProofs -------------------------
(***************************************************************************)
(* What a displacement is, for every machine and every list of sequences:  *)
(* the pairs that the paths of the machine join, one configuration at each *)
(* input boundary.  Paths are put together at a boundary, so displacements *)
(* compose.                                                                *)
(***************************************************************************)
EXTENDS Displacement, SharedLemmas
LOCAL INSTANCE SequencesExt

----------------------------------------------------------------------------
(* The members of sequences.                                               *)

LEMMA Members ==
  ASSUME NEW S, NEW s \in Seq(S)
  PROVE  /\ Len(s) \in Nat /\ DOMAIN s = 1..Len(s)
         /\ ToSet(s) = {s[i] : i \in 1..Len(s)} /\ ToSet(s) \subseteq S
<1>1. s \in Seq(S)
  OBVIOUS
<1>2. /\ Len(s) \in Nat /\ DOMAIN s = 1..Len(s)
      /\ ElementsOf(s) = {s[i] : i \in 1..Len(s)} /\ ElementsOf(s) \subseteq S
  BY <1>1, Elements, ZenonT(60)
<1>3. ElementsOf(s) = ToSet(s)
  BY DEF ElementsOf, ToSet
<1>4. QED
  BY <1>2, <1>3

LEMMA BothMembers ==
  ASSUME NEW S, NEW s \in Seq(S), NEW t \in Seq(S)
  PROVE  s \o t \in Seq(S) /\ ToSet(s \o t) = ToSet(s) \cup ToSet(t)
<1>1. s \in Seq(S) /\ t \in Seq(S)
  OBVIOUS
<1>2. s \o t \in Seq(S) /\ ElementsOf(s \o t) = ElementsOf(s) \cup ElementsOf(t)
  BY <1>1, ElementsOfConcat, ZenonT(60)
<1>3. \A u : ElementsOf(u) = ToSet(u)
  BY DEF ElementsOf, ToSet
<1>4. QED
  BY <1>2, <1>3

LEMMA OneMember ==
  ASSUME NEW S, NEW x \in S
  PROVE  /\ <<x>> \in Seq(S) /\ ToSet(<<x>>) = {x}
         /\ <<>> \in Seq(S) /\ ToSet(<<>>) = {}
  BY ElementsOfOne DEF ElementsOf, ToSet

LEMMA OneMore ==
  ASSUME NEW S, NEW s \in Seq(S), NEW x \in S
  PROVE  Append(s, x) \in Seq(S) /\ ToSet(Append(s, x)) = ToSet(s) \cup {x}
<1>1. s \in Seq(S) /\ x \in S
  OBVIOUS
<1>2. Append(s, x) \in Seq(S) /\ ElementsOf(Append(s, x)) = ElementsOf(s) \cup {x}
  BY <1>1, ElementsOfMore, ZenonT(60)
<1>3. \A u : ElementsOf(u) = ToSet(u)
  BY DEF ElementsOf, ToSet
<1>4. QED
  BY <1>2, <1>3

LEMMA JoinedMembers ==
  ASSUME NEW S, NEW z \in Seq(Seq(S))
  PROVE  /\ FlattenSeq(z) \in Seq(S)
         /\ ToSet(FlattenSeq(z)) = UNION {ToSet(z[k]) : k \in 1..Len(z)}
<1>1. FlattenSeq(z) = Joined(z)
  BY DEF FlattenSeq, Joined
<1>2. Joined(z) \in Seq(S) /\ ElementsOf(Joined(z)) = UNION {ElementsOf(z[k]) : k \in 1..Len(z)}
  BY ElementsOfJoined
<1>3. \A s : ElementsOf(s) = ToSet(s)
  BY DEF ElementsOf, ToSet
<1>4. QED
  BY <1>1, <1>2, <1>3
----------------------------------------------------------------------------
(* The lists of the loops.                                                 *)

LEMMA Fields ==
  ASSUME m \in Machines
  PROVE  /\ m.trans \in Seq(Transition) /\ Len(m.trans) \in Nat /\ DOMAIN m.trans = 1..Len(m.trans)
         /\ \A j \in 1..Len(m.trans) :
              /\ m.trans[j] \in Transition
              /\ m.trans[j].next_q \in Nat /\ m.trans[j].push \in Seq(Nat)
         /\ m.inputs \in Nat /\ m.states \in Nat
         /\ <<m.start, <<m.bottom>>>> \in Configs
<1>1. /\ m.trans \in Seq(Transition) /\ m.inputs \in Nat /\ m.states \in Nat
      /\ m.start \in Nat /\ m.bottom \in Nat
  BY MachinesAssumption
<1>2. /\ Len(m.trans) \in Nat /\ DOMAIN m.trans = 1..Len(m.trans)
      /\ \A j \in 1..Len(m.trans) : m.trans[j] \in Transition
  BY <1>1
<1>3. \A t \in Transition : t.next_q \in Nat /\ t.push \in Seq(Nat)
  BY DEF Transition
<1>4. <<m.bottom>> \in Seq(Nat)
  BY <1>1
<1>5. QED
  BY <1>1, <1>2, <1>3, <1>4 DEF Configs

Moved(c, t) == <<t.next_q, AfterMove(c[2], t.push)>>

LEMMA MovedTyped ==
  ASSUME NEW c \in Configs, NEW t, t.next_q \in Nat, t.push \in Seq(Nat)
  PROVE  Moved(c, t) \in Configs
<1> DEFINE rest == IF c[2] = <<>> THEN <<>> ELSE Tail(c[2])
<1>1. c[2] \in Seq(Nat)
  BY DEF Configs
<1>2. rest \in Seq(Nat)
  BY <1>1
<1> HIDE DEF rest
<1>3. t.push \o rest \in Seq(Nat)
  BY <1>2
<1>4. QED
  BY <1>3 DEF Moved, Configs, AfterMove, rest

\* The moves are those of the machine, whatever their order.
LEMMA MovesTyped ==
  ASSUME m \in Machines, NEW c \in Configs, NEW inputs
  PROVE  Moves(c, inputs) \in Seq(Configs)
<1> DEFINE row == [j \in 1..Len(m.trans) |->
                     IF Applies(m.trans[j], c, inputs) THEN <<Moved(c, m.trans[j])>> ELSE <<>>]
<1>1. Moves(c, inputs) = FlattenSeq(row)
  BY Fields DEF Moves, Moved
<1>2. \A j \in 1..Len(m.trans) : row[j] \in Seq(Configs)
  <2>1. \A d \in Configs : <<d>> \in Seq(Configs)
    BY OneMember
  <2>2. <<>> \in Seq(Configs)
    BY EmptySeq
  <2>3. ASSUME NEW j \in 1..Len(m.trans) PROVE Moved(c, m.trans[j]) \in Configs
    BY Fields, MovedTyped
  <2>4. QED
    BY <2>1, <2>2, <2>3
<1>3. row \in Seq(Seq(Configs))
  <2>1. Len(m.trans) \in Nat
    BY Fields
  <2>2. row \in [1..Len(m.trans) -> Seq(Configs)]
    BY <1>2
  <2>3. QED
    BY <2>1, <2>2
<1> HIDE DEF row
<1>4. QED
  BY <1>1, <1>3, JoinedMembers

LEMMA AllMovesMembers ==
  ASSUME m \in Machines, NEW list \in Seq(Configs), NEW inputs
  PROVE  /\ AllMoves(list, inputs) \in Seq(Configs)
         /\ ToSet(AllMoves(list, inputs)) = UNION {ToSet(Moves(c, inputs)) : c \in ToSet(list)}
<1> DEFINE rows == [j \in 1..Len(list) |-> Moves(list[j], inputs)]
<1>1. /\ Len(list) \in Nat /\ DOMAIN list = 1..Len(list) /\ \A j \in 1..Len(list) : list[j] \in Configs
      /\ ToSet(list) = {list[j] : j \in 1..Len(list)}
  <2>1. Len(list) \in Nat /\ DOMAIN list = 1..Len(list) /\ \A j \in 1..Len(list) : list[j] \in Configs
    OBVIOUS
  <2>2. QED
    BY <2>1 DEF ToSet
<1>2. AllMoves(list, inputs) = FlattenSeq(rows)
  BY <1>1 DEF AllMoves
<1>3. \A j \in 1..Len(list) : rows[j] = Moves(list[j], inputs) /\ rows[j] \in Seq(Configs)
  BY <1>1, MovesTyped
<1>4. rows \in Seq(Seq(Configs)) /\ Len(rows) = Len(list)
  BY <1>1, <1>3
<1> HIDE DEF rows
<1>5. /\ FlattenSeq(rows) \in Seq(Configs)
      /\ ToSet(FlattenSeq(rows)) = UNION {ToSet(rows[k]) : k \in 1..Len(rows)}
  BY <1>4, JoinedMembers
<1>6. {ToSet(rows[k]) : k \in 1..Len(rows)} = {ToSet(Moves(c, inputs)) : c \in ToSet(list)}
  BY <1>1, <1>3, <1>4
<1>7. QED
  BY <1>2, <1>5, <1>6

LEMMA KeptMembers ==
  ASSUME NEW found \in Seq(Configs)
  PROVE  /\ Kept(found) \in Seq(Configs)
         /\ ToSet(Kept(found)) = {c \in ToSet(found) : Shallow(c)}
<1> DEFINE rows == [j \in 1..Len(found) |-> IF Shallow(found[j]) THEN <<found[j]>> ELSE <<>>]
<1>1. /\ Len(found) \in Nat /\ DOMAIN found = 1..Len(found)
      /\ \A j \in 1..Len(found) : found[j] \in Configs
      /\ ToSet(found) = {found[j] : j \in 1..Len(found)}
  <2>1. Len(found) \in Nat /\ DOMAIN found = 1..Len(found) /\ \A j \in 1..Len(found) : found[j] \in Configs
    OBVIOUS
  <2>2. QED
    BY <2>1 DEF ToSet
<1>2. Kept(found) = FlattenSeq(rows)
  BY <1>1 DEF Kept
<1>3. ASSUME NEW j \in 1..Len(found)
      PROVE  /\ rows[j] \in Seq(Configs)
             /\ ToSet(rows[j]) = IF Shallow(found[j]) THEN {found[j]} ELSE {}
  <2>1. found[j] \in Configs
    BY <1>1
  <2>2. <<found[j]>> \in Seq(Configs) /\ ToSet(<<found[j]>>) = {found[j]}
        /\ <<>> \in Seq(Configs) /\ ToSet(<<>>) = {}
    BY <2>1, OneMember
  <2>3. QED
    BY <2>2
<1>4. rows \in Seq(Seq(Configs)) /\ Len(rows) = Len(found)
  BY <1>1, <1>3
<1> HIDE DEF rows
<1>5. /\ FlattenSeq(rows) \in Seq(Configs)
      /\ ToSet(FlattenSeq(rows)) = UNION {ToSet(rows[k]) : k \in 1..Len(rows)}
  BY <1>4, JoinedMembers
<1>6. UNION {ToSet(rows[k]) : k \in 1..Len(rows)} = {c \in ToSet(found) : Shallow(c)}
  BY <1>1, <1>3, <1>4
<1>7. QED
  BY <1>2, <1>5, <1>6

NoTwice(s) == \A i, j \in 1..Len(s) : s[i] = s[j] => i = j
Extends(s, t) == Len(t) <= Len(s) /\ \A j \in 1..Len(t) : s[j] = t[j]

\* What a loop appends is what it had not seen, each once, behind what stood
\* there.
LEMMA AppendNewMembers ==
  ASSUME NEW list \in Seq(Configs), NEW found \in Seq(Configs)
  PROVE  LET all == AppendNew(list, found)
         IN /\ all \in Seq(Configs) /\ ToSet(all) = ToSet(list) \cup ToSet(found)
            /\ Extends(all, list) /\ (NoTwice(list) => NoTwice(all))
<1> DEFINE n == Len(found)
           S == Seq(Configs)
           next(s, d) == IF d \in ToSet(s) THEN s ELSE Append(s, d)
           Is(f) == f = [k \in 0..n |-> IF k = 0 THEN list ELSE next(f[k - 1], found[k])]
           more == CHOOSE f : Is(f)
<1>1. n \in Nat /\ \A k \in 1..n : found[k] \in Configs
  OBVIOUS
<1>2. AppendNew(list, found) = more[n]
  BY DEF AppendNew
<1>3. \A s \in S : \A d \in Configs : next(s, d) \in S
  BY OneMore
<1>4. \E f \in [0..n -> S] : Is(f)
  <2> DEFINE step == [p \in S \X Configs |-> next(p[1], p[2])]
  <2> HIDE DEF S, next
  <2>1. step \in [S \X Configs -> S]
    BY <1>3
  <2>2. \A s \in S : \A d \in Configs : step[<<s, d>>] = next(s, d)
    OBVIOUS
  <2> HIDE DEF step
  <2>3. list \in S
    BY DEF S
  <2>4. ScanOver(S, found, list, step)
    BY <2>1, <2>3, ScanFrom
  <2>5. PICK f \in [0..n -> S] :
          f = [k \in 0..n |-> IF k = 0 THEN list ELSE step[<<f[k - 1], found[k]>>]]
    BY <2>4 DEF ScanOver
  <2>6. ASSUME NEW k \in 0..n, k # 0 PROVE step[<<f[k - 1], found[k]>>] = next(f[k - 1], found[k])
    <3>1. k - 1 \in 0..n /\ k \in 1..n
      BY <1>1, <2>6
    <3>2. f[k - 1] \in S /\ found[k] \in Configs
      BY <1>1, <2>5, <3>1
    <3>3. QED
      BY <2>2, <3>2
  <2>7. ASSUME NEW k \in 0..n PROVE f[k] = IF k = 0 THEN list ELSE next(f[k - 1], found[k])
    BY <2>5, <2>6
  <2>8. f = [k \in 0..n |-> f[k]]
    BY <2>5
  <2>9. f = [k \in 0..n |-> IF k = 0 THEN list ELSE next(f[k - 1], found[k])]
    BY <2>7, <2>8
  <2>10. QED
    BY <2>9
<1>5. Is(more)
  <2> HIDE DEF Is
  <2>1. QED
    BY <1>4
<1> HIDE DEF more
<1>6. /\ more[0] = list
      /\ \A k \in 0..n : k + 1 <= n => more[k + 1] = next(more[k], found[k + 1])
  <2>1. \A k \in 0..n : more[k] = IF k = 0 THEN list ELSE next(more[k - 1], found[k])
    BY <1>5
  <2>2. more[0] = list
    BY <1>1, <2>1
  <2>3. ASSUME NEW k \in 0..n, k + 1 <= n PROVE more[k + 1] = next(more[k], found[k + 1])
    <3>1. k + 1 \in 0..n /\ k + 1 # 0 /\ (k + 1) - 1 = k
      BY <1>1, <2>3
    <3> HIDE DEF next
    <3>2. QED
      BY <2>1, <3>1
  <2>4. QED
    BY <2>2, <2>3
<1> DEFINE Good(k) ==
             /\ more[k] \in S /\ ToSet(more[k]) = ToSet(list) \cup {found[i] : i \in 1..k}
             /\ Extends(more[k], list) /\ (NoTwice(list) => NoTwice(more[k]))
           T == {k \in Nat : k <= n => Good(k)}
<1>7. 0 \in T
  <2>1. {found[i] : i \in 1..0} = {}
    OBVIOUS
  <2>2. Extends(list, list)
    BY DEF Extends
  <2>3. QED
    BY <1>6, <2>1, <2>2
<1>8. ASSUME NEW k \in Nat, k \in T PROVE k + 1 \in T
  <2> SUFFICES ASSUME k + 1 <= n PROVE Good(k + 1)
    OBVIOUS
  <2> DEFINE s == more[k]
             d == found[k + 1]
             u == Append(s, d)
  <2>1. k \in 0..n /\ k <= n /\ k + 1 \in 1..n
    BY <1>1
  <2>2. Good(k)
    BY <1>8, <2>1
  <2>3. more[k + 1] = next(s, d)
    BY <1>6, <2>1
  <2>4. d \in Configs
    BY <1>1, <2>1
  <2>5. {found[i] : i \in 1..(k + 1)} = {found[i] : i \in 1..k} \cup {d}
    <3>1. 1..(k + 1) = 1..k \cup {k + 1}
      BY <1>8
    <3>2. QED
      BY <3>1
  <2>6. /\ s \in S /\ ToSet(s) = ToSet(list) \cup {found[i] : i \in 1..k}
        /\ Extends(s, list) /\ (NoTwice(list) => NoTwice(s))
    BY <2>2
  <2> HIDE DEF d, T
  <2>7. CASE d \in ToSet(s)
    <3>1. more[k + 1] = s
      BY <2>3, <2>7
    <3>2. ToSet(s) = ToSet(list) \cup {found[i] : i \in 1..(k + 1)}
      BY <2>5, <2>6, <2>7
    <3> HIDE DEF s
    <3>3. QED
      BY <2>6, <3>1, <3>2
  <2>8. CASE d \notin ToSet(s)
    <3>1. more[k + 1] = u
      BY <2>3, <2>8
    <3> HIDE DEF s
    <3>2. /\ u \in S /\ ToSet(u) = ToSet(s) \cup {d}
      BY <2>4, <2>6, OneMore
    <3>3. /\ Len(s) \in Nat /\ Len(u) = Len(s) + 1 /\ u[Len(s) + 1] = d
          /\ \A i \in 1..Len(s) : u[i] = s[i]
      BY <2>4, <2>6
    <3>4. ToSet(s) = {s[i] : i \in 1..Len(s)}
      BY <2>6 DEF ToSet
    <3>5. Len(list) \in Nat
      OBVIOUS
    <3> HIDE DEF u
    <3>6. Extends(u, list)
      <4>1. Len(list) <= Len(s) /\ \A j \in 1..Len(list) : s[j] = list[j]
        BY <2>6 DEF Extends
      <4>2. QED
        BY <3>3, <3>5, <4>1 DEF Extends
    <3>7. ASSUME NoTwice(list) PROVE NoTwice(u)
      <4>1. \A i, j \in 1..Len(s) : s[i] = s[j] => i = j
        BY <2>6, <3>7 DEF NoTwice
      <4>2. \A i \in 1..Len(s) : u[i] # d
        BY <2>8, <3>3, <3>4
      <4>3. \A i \in 1..Len(u) : i \in 1..Len(s) \/ i = Len(s) + 1
        BY <3>3
      <4>4. QED
        BY <3>3, <4>1, <4>2, <4>3 DEF NoTwice
    <3>8. ToSet(u) = ToSet(list) \cup {found[i] : i \in 1..(k + 1)}
      BY <2>5, <2>6, <3>2
    <3>9. QED
      BY <3>1, <3>2, <3>6, <3>7, <3>8
  <2>9. QED
    BY <2>7, <2>8
<1> HIDE DEF T
<1>9. Nat \subseteq T
  BY <1>7, <1>8, Induction
<1>10. Good(n)
  BY <1>1, <1>9 DEF T
<1>11. ToSet(found) = {found[i] : i \in 1..n}
  BY <1>1 DEF ToSet
<1>12. QED
  BY <1>2, <1>10, <1>11

----------------------------------------------------------------------------
(* The paths of the machine.                                               *)

\* The moves as relations, one for each input.
Edges(inputs) == {p \in Configs \X Configs : p[2] \in ToSet(Moves(p[1], inputs))}
Net == [eps |-> Edges(EpsOnly), on |-> [a \in Nat |-> Edges({a})]]

EpsClosed(net, Y) == \A p \in net.eps : p[1] \in Y => p[2] \in Y
\* The least set that holds X and every epsilon move from it.
EpsStar(net, X) ==
  {d \in Configs : \A Y \in SUBSET Configs : X \subseteq Y /\ EpsClosed(net, Y) => d \in Y}
\* One input, after any number of epsilon moves.
Reads(net, c, a) == {d \in Configs : \E e \in EpsStar(net, {c}) : <<e, d>> \in net.on[a]}
\* A path holds the configuration at each input boundary.
IsPath(net, f, s, n) ==
  /\ f \in [0..n -> Configs]
  /\ \A j \in 1..n : f[j] \in Reads(net, f[j - 1], s[j])
Leads(net, c, s, n) == {d \in Configs : \E f : IsPath(net, f, s, n) /\ f[0] = c /\ f[n] = d}

LEMMA StarLeast ==
  ASSUME NEW net, net.eps \in SUBSET (Configs \X Configs), NEW X \in SUBSET Configs
  PROVE  /\ X \subseteq EpsStar(net, X) /\ EpsStar(net, X) \subseteq Configs
         /\ EpsClosed(net, EpsStar(net, X))
         /\ \A Y \in SUBSET Configs : X \subseteq Y /\ EpsClosed(net, Y) => EpsStar(net, X) \subseteq Y
<1>1. X \subseteq EpsStar(net, X) /\ EpsStar(net, X) \subseteq Configs
  BY DEF EpsStar
<1>2. ASSUME NEW p \in net.eps, p[1] \in EpsStar(net, X) PROVE p[2] \in EpsStar(net, X)
  <2>1. p[2] \in Configs
    OBVIOUS
  <2>2. ASSUME NEW Y \in SUBSET Configs, X \subseteq Y, EpsClosed(net, Y) PROVE p[2] \in Y
    <3>1. p[1] \in Y
      BY <1>2, <2>2 DEF EpsStar
    <3>2. QED
      BY <2>2, <3>1 DEF EpsClosed
  <2>3. QED
    BY <2>1, <2>2 DEF EpsStar
<1>3. \A Y \in SUBSET Configs : X \subseteq Y /\ EpsClosed(net, Y) => EpsStar(net, X) \subseteq Y
  BY DEF EpsStar
<1>4. QED
  BY <1>1, <1>2, <1>3 DEF EpsClosed

\* A configuration is in the closure of a set when one of its members leads
\* there.
LEMMA StarOfEach ==
  ASSUME NEW net, net.eps \in SUBSET (Configs \X Configs), NEW X \in SUBSET Configs
  PROVE  EpsStar(net, X) = UNION {EpsStar(net, {c}) : c \in X}
<1> DEFINE Y == UNION {EpsStar(net, {c}) : c \in X}
<1>1. ASSUME NEW c \in X
      PROVE  /\ c \in EpsStar(net, {c}) /\ EpsStar(net, {c}) \subseteq Configs
             /\ EpsClosed(net, EpsStar(net, {c}))
             /\ EpsStar(net, {c}) \subseteq EpsStar(net, X)
  <2>1. {c} \in SUBSET Configs
    OBVIOUS
  <2>2. /\ {c} \subseteq EpsStar(net, {c}) /\ EpsStar(net, {c}) \subseteq Configs
        /\ EpsClosed(net, EpsStar(net, {c}))
        /\ \A Z \in SUBSET Configs : {c} \subseteq Z /\ EpsClosed(net, Z) => EpsStar(net, {c}) \subseteq Z
    BY <2>1, StarLeast
  <2>3. /\ X \subseteq EpsStar(net, X) /\ EpsStar(net, X) \subseteq Configs
        /\ EpsClosed(net, EpsStar(net, X))
    BY StarLeast
  <2>4. QED
    BY <2>2, <2>3
<1>2. Y \in SUBSET Configs /\ X \subseteq Y /\ Y \subseteq EpsStar(net, X)
  BY <1>1
<1>3. EpsClosed(net, Y)
  BY <1>1 DEF EpsClosed
<1> HIDE DEF Y
<1>4. EpsStar(net, X) \subseteq Y
  BY <1>2, <1>3, StarLeast
<1>5. QED
  BY <1>2, <1>4 DEF Y

\* A set that holds X and is closed, and holds nothing else, is the closure.
LEMMA StarReached ==
  ASSUME NEW net, net.eps \in SUBSET (Configs \X Configs), NEW X \in SUBSET Configs,
         NEW Y \in SUBSET Configs, X \subseteq Y, Y \subseteq EpsStar(net, X), EpsClosed(net, Y)
  PROVE  Y = EpsStar(net, X)
  BY StarLeast

LEMMA LeadsNowhere ==
  ASSUME NEW net, NEW c \in Configs, NEW s
  PROVE  Leads(net, c, s, 0) = {c}
<1> DEFINE f == [j \in 0..0 |-> c]
<1>1. f[0] = c /\ IsPath(net, f, s, 0)
  BY DEF IsPath
<1>2. c \in Leads(net, c, s, 0)
  <2> HIDE DEF f
  <2>1. QED
    BY <1>1 DEF Leads
<1>3. QED
  BY <1>2 DEF Leads

\* One input more is one more boundary.
LEMMA LeadsOn ==
  ASSUME NEW net, NEW c \in Configs, NEW s, NEW n \in Nat
  PROVE  Leads(net, c, s, n + 1) = UNION {Reads(net, e, s[n + 1]) : e \in Leads(net, c, s, n)}
<1>1. ASSUME NEW d \in Leads(net, c, s, n + 1)
      PROVE  \E e \in Leads(net, c, s, n) : d \in Reads(net, e, s[n + 1])
  <2>1. PICK f : IsPath(net, f, s, n + 1) /\ f[0] = c /\ f[n + 1] = d
    BY DEF Leads
  <2> DEFINE g == [j \in 0..n |-> f[j]]
  <2>2. /\ \A j \in 0..n : g[j] = f[j] /\ g[j] \in Configs
        /\ \A j \in 1..n : f[j] \in Reads(net, f[j - 1], s[j])
        /\ f[n + 1] \in Reads(net, f[n], s[n + 1])
    <3>1. f \in [0..(n + 1) -> Configs] /\ \A j \in 1..(n + 1) : f[j] \in Reads(net, f[j - 1], s[j])
      BY <2>1 DEF IsPath
    <3>2. n + 1 \in 1..(n + 1) /\ (n + 1) - 1 = n
      OBVIOUS
    <3>3. (\A j \in 0..n : j \in 0..(n + 1)) /\ \A j \in 1..n : j \in 1..(n + 1)
      OBVIOUS
    <3>4. QED
      BY <3>1, <3>2, <3>3
  <2>3. g \in [0..n -> Configs]
    BY <2>2
  <2>4. \A j \in 1..n : g[j] \in Reads(net, g[j - 1], s[j])
    <3>1. \A j \in 1..n : j \in 0..n /\ j - 1 \in 0..n
      OBVIOUS
    <3> HIDE DEF g
    <3>2. QED
      BY <2>2, <3>1
  <2>5. g[0] = c /\ g[n] = f[n] /\ f[n] \in Configs
    <3>1. 0 \in 0..n /\ n \in 0..n
      OBVIOUS
    <3> HIDE DEF g
    <3>2. QED
      BY <2>1, <2>2, <3>1
  <2> HIDE DEF g
  <2>6. f[n] \in Leads(net, c, s, n)
    BY <2>3, <2>4, <2>5 DEF Leads, IsPath
  <2>7. QED
    BY <2>1, <2>2, <2>6
<1>2. ASSUME NEW e \in Leads(net, c, s, n), NEW d \in Reads(net, e, s[n + 1])
      PROVE  d \in Leads(net, c, s, n + 1)
  <2>1. PICK f : IsPath(net, f, s, n) /\ f[0] = c /\ f[n] = e
    BY DEF Leads
  <2> DEFINE g == [j \in 0..(n + 1) |-> IF j <= n THEN f[j] ELSE d]
  <2>2. d \in Configs
    BY DEF Reads
  <2>3. (\A j \in 0..n : g[j] = f[j] /\ f[j] \in Configs) /\ g[n + 1] = d
    BY <2>1 DEF IsPath
  <2>4. \A j \in 0..(n + 1) : j \in 0..n \/ j = n + 1
    OBVIOUS
  <2>5. g \in [0..(n + 1) -> Configs]
    <3>1. \A j \in 0..(n + 1) : g[j] \in Configs
      <4> HIDE DEF g
      <4>1. QED
        BY <2>2, <2>3, <2>4
    <3>2. QED
      BY <3>1
  <2>6. g[0] = c
    <3>1. 0 \in 0..n
      OBVIOUS
    <3> HIDE DEF g
    <3>2. QED
      BY <2>1, <2>3, <3>1
  <2>7. \A j \in 1..(n + 1) : g[j] \in Reads(net, g[j - 1], s[j])
    <3>1. ASSUME NEW j \in 1..n PROVE g[j] \in Reads(net, g[j - 1], s[j])
      <4>1. j \in 0..n /\ j - 1 \in 0..n
        OBVIOUS
      <4>2. g[j] = f[j] /\ g[j - 1] = f[j - 1]
        <5> HIDE DEF g
        <5>1. QED
          BY <2>3, <4>1
      <4>3. f[j] \in Reads(net, f[j - 1], s[j])
        BY <2>1 DEF IsPath
      <4> HIDE DEF g
      <4>4. QED
        BY <4>2, <4>3
    <3>2. n \in 0..n /\ (n + 1) - 1 = n
      OBVIOUS
    <3>3. g[n + 1] \in Reads(net, g[(n + 1) - 1], s[n + 1])
      <4> HIDE DEF g
      <4>1. QED
        BY <1>2, <2>1, <2>3, <3>2
    <3>4. \A j \in 1..(n + 1) : j \in 1..n \/ j = n + 1
      OBVIOUS
    <3> HIDE DEF g
    <3>5. QED
      BY <3>1, <3>3, <3>4
  <2> HIDE DEF g
  <2>8. QED
    BY <2>2, <2>3, <2>5, <2>6, <2>7 DEF Leads, IsPath
<1>3. QED
  BY <1>1, <1>2

\* A sequence that cannot be read to some boundary cannot be read further.
LEMMA LeadsEnded ==
  ASSUME NEW net, NEW c \in Configs, NEW s, NEW n \in Nat, NEW k \in 0..n, Leads(net, c, s, k) = {}
  PROVE  Leads(net, c, s, n) = {}
<1> SUFFICES ASSUME NEW d \in Leads(net, c, s, n) PROVE FALSE
  OBVIOUS
<1>1. PICK f : IsPath(net, f, s, n) /\ f[0] = c /\ f[n] = d
  BY DEF Leads
<1> DEFINE g == [j \in 0..k |-> f[j]]
<1>2. \A j \in 0..k : g[j] = f[j] /\ f[j] \in Configs
  BY <1>1 DEF IsPath
<1>3. g \in [0..k -> Configs]
  BY <1>2
<1>4. 0 \in 0..k /\ k \in 0..k
  OBVIOUS
<1>5. ASSUME NEW j \in 1..k PROVE g[j] \in Reads(net, g[j - 1], s[j])
  <2>1. j \in 1..n /\ j \in 0..k /\ j - 1 \in 0..k
    OBVIOUS
  <2>2. f[j] \in Reads(net, f[j - 1], s[j])
    BY <1>1, <2>1 DEF IsPath
  <2> HIDE DEF g
  <2>3. QED
    BY <1>2, <2>1, <2>2
<1>6. g[0] = c /\ g[k] \in Configs
  <2> HIDE DEF g
  <2>1. QED
    BY <1>1, <1>2, <1>4
<1> HIDE DEF g
<1>7. g[k] \in Leads(net, c, s, k)
  BY <1>3, <1>5, <1>6 DEF Leads, IsPath
<1>8. QED
  BY <1>7

Through(net, c, u, v) ==
  Leads(net, c, u \o v, Len(u \o v)) = UNION {Leads(net, d, v, Len(v)) : d \in Leads(net, c, u, Len(u))}

\* A path through u and then v is a path through the two, one after the other.
LEMMA LeadsThrough ==
  ASSUME NEW net, NEW c \in Configs, NEW u \in Seq(Nat), NEW v \in Seq(Nat)
  PROVE  Through(net, c, u, v)
<1> DEFINE w == u \o v
           k == Len(u)
           L == Leads(net, c, u, k)
           T == {n \in Nat : n <= Len(v) =>
                   Leads(net, c, w, k + n) = UNION {Leads(net, d, v, n) : d \in L}}
<1>0. \A s : \A i \in Nat :
        Leads(net, c, s, i + 1) = UNION {Reads(net, e, s[i + 1]) : e \in Leads(net, c, s, i)}
  BY LeadsOn
<1>1. /\ k \in Nat /\ Len(v) \in Nat /\ Len(w) = k + Len(v)
      /\ \A j \in 1..k : w[j] = u[j]
      /\ \A j \in 1..Len(v) : w[k + j] = v[j]
  <2>1. Len(u) \in Nat /\ Len(v) \in Nat /\ Len(u \o v) = Len(u) + Len(v)
    OBVIOUS
  <2>2. \A j \in 1..Len(u) : (u \o v)[j] = u[j]
    OBVIOUS
  <2>3. \A j \in 1..Len(v) : (u \o v)[Len(u) + j] = v[j]
    BY <2>1
  <2>4. QED
    BY <2>1, <2>2, <2>3
<1>2. L \subseteq Configs
  BY DEF Leads
<1> HIDE DEF w, k
<1>3. Leads(net, c, w, k) = L
  <2>1. \A f : IsPath(net, f, w, k) <=> IsPath(net, f, u, k)
    BY <1>1 DEF IsPath
  <2>2. QED
    BY <2>1 DEF Leads
<1> HIDE DEF L
<1>4. 0 \in T
  <2>1. k + 0 = k
    BY <1>1
  <2>2. \A d \in L : Leads(net, d, v, 0) = {d}
    BY <1>2, LeadsNowhere
  <2>3. UNION {Leads(net, d, v, 0) : d \in L} = L
    BY <2>2
  <2>4. QED
    BY <1>3, <2>1, <2>3
<1>5. ASSUME NEW n \in Nat, n \in T PROVE n + 1 \in T
  <2> SUFFICES ASSUME n + 1 <= Len(v)
               PROVE  Leads(net, c, w, k + (n + 1)) = UNION {Leads(net, d, v, n + 1) : d \in L}
    OBVIOUS
  <2> HIDE DEF T
  <2>1. n <= Len(v) /\ n + 1 \in 1..Len(v) /\ k + n \in Nat /\ k + (n + 1) = (k + n) + 1
    <3>1. k \in Nat /\ Len(v) \in Nat
      BY <1>1
    <3> DEFINE l == Len(v)
    <3> HIDE DEF l
    <3>2. QED
      BY <3>1
  <2>2. w[(k + n) + 1] = v[n + 1]
    BY <1>1, <2>1
  <2>3. Leads(net, c, w, k + n) = UNION {Leads(net, d, v, n) : d \in L}
    BY <1>5, <2>1 DEF T
  <2>4. Leads(net, c, w, (k + n) + 1)
          = UNION {Reads(net, e, w[(k + n) + 1]) : e \in Leads(net, c, w, k + n)}
    <3>1. \A i \in Nat : Leads(net, c, w, i + 1) = UNION {Reads(net, e, w[i + 1]) : e \in Leads(net, c, w, i)}
      BY <1>0
    <3>2. k + n \in Nat
      BY <2>1
    <3>3. QED
      BY <3>1, <3>2
  <2>5. \A d \in L : Leads(net, d, v, n + 1)
                       = UNION {Reads(net, e, v[n + 1]) : e \in Leads(net, d, v, n)}
    <3>1. ASSUME NEW d \in L
          PROVE  \A i \in Nat : Leads(net, d, v, i + 1) = UNION {Reads(net, e, v[i + 1]) : e \in Leads(net, d, v, i)}
      <4>1. d \in Configs
        BY <1>2
      <4>2. QED
        BY <4>1, LeadsOn
    <3>2. QED
      BY <3>1
  <2>6. UNION {Reads(net, e, v[n + 1]) : e \in UNION {Leads(net, d, v, n) : d \in L}}
          = UNION {UNION {Reads(net, e, v[n + 1]) : e \in Leads(net, d, v, n)} : d \in L}
    OBVIOUS
  <2>7. QED
    BY <2>1, <2>2, <2>3, <2>4, <2>5, <2>6
<1> HIDE DEF T
<1>6. Len(v) \in T
  BY <1>1, <1>4, <1>5, Induction
<1>7. QED
  BY <1>1, <1>6 DEF Through, T, w, k, L

LEMMA NetMoves ==
  ASSUME m \in Machines
  PROVE  /\ Net.eps \in SUBSET (Configs \X Configs)
         /\ \A c \in Configs : ToSet(Moves(c, EpsOnly)) = {d \in Configs : <<c, d>> \in Net.eps}
         /\ \A c \in Configs : \A a \in Nat :
              ToSet(Moves(c, {a})) = {d \in Configs : <<c, d>> \in Net.on[a]}
<1>1. Net.eps = Edges(EpsOnly) /\ \A a \in Nat : Net.on[a] = Edges({a})
  BY DEF Net
<1>2. ASSUME NEW inputs, NEW c \in Configs
      PROVE  ToSet(Moves(c, inputs)) = {d \in Configs : <<c, d>> \in Edges(inputs)}
  <2>1. Moves(c, inputs) \in Seq(Configs)
    BY MovesTyped
  <2>2. ToSet(Moves(c, inputs)) \subseteq Configs
    BY <2>1, Members
  <2>3. \A d \in Configs : <<c, d>> \in Edges(inputs) <=> d \in ToSet(Moves(c, inputs))
    BY DEF Edges
  <2>4. QED
    BY <2>2, <2>3
<1>3. Edges(EpsOnly) \in SUBSET (Configs \X Configs)
  BY DEF Edges
<1>4. QED
  BY <1>1, <1>2, <1>3

\* A list that the closure has gone through, read on one input.
LEMMA ReadFromStar ==
  ASSUME m \in Machines, NEW L \in SUBSET Configs, NEW a \in Nat
  PROVE  UNION {ToSet(Moves(e, {a})) : e \in EpsStar(Net, L)} = UNION {Reads(Net, c, a) : c \in L}
<1>1. Net.eps \in SUBSET (Configs \X Configs)
  BY NetMoves
<1>2. EpsStar(Net, L) = UNION {EpsStar(Net, {c}) : c \in L} /\ EpsStar(Net, L) \subseteq Configs
  BY <1>1, StarOfEach, StarLeast
<1>3. \A e \in EpsStar(Net, L) : ToSet(Moves(e, {a})) = {d \in Configs : <<e, d>> \in Net.on[a]}
  BY <1>2, NetMoves
<1>4. \A c \in L : Reads(Net, c, a) = {d \in Configs : \E e \in EpsStar(Net, {c}) : <<e, d>> \in Net.on[a]}
  BY DEF Reads
<1>5. ASSUME NEW d
      PROVE  (\E e \in EpsStar(Net, L) : d \in ToSet(Moves(e, {a}))) <=> \E c \in L : d \in Reads(Net, c, a)
  <2>1. ASSUME NEW e \in EpsStar(Net, L), d \in ToSet(Moves(e, {a}))
        PROVE  \E c \in L : d \in Reads(Net, c, a)
    <3>1. PICK c \in L : e \in EpsStar(Net, {c})
      BY <1>2
    <3>2. d \in Configs /\ <<e, d>> \in Net.on[a]
      BY <1>3, <2>1
    <3>3. QED
      BY <1>4, <3>1, <3>2
  <2>2. ASSUME NEW c \in L, d \in Reads(Net, c, a)
        PROVE  \E e \in EpsStar(Net, L) : d \in ToSet(Moves(e, {a}))
    <3>1. PICK e \in EpsStar(Net, {c}) : d \in Configs /\ <<e, d>> \in Net.on[a]
      BY <1>4, <2>2
    <3>2. e \in EpsStar(Net, L)
      BY <1>2
    <3>3. QED
      BY <1>3, <3>1, <3>2
  <2>3. QED
    BY <2>1, <2>2
<1>6. QED
  BY <1>5
----------------------------------------------------------------------------
(* The loops.                                                              *)

Typed ==
  /\ m \in Machines /\ words \in Seq(Seq(Nat))
  /\ pc \in {"reach", "walk", "group", "done"}
  /\ inConfigs \in Seq(Configs)
  /\ at \in [word : Nat, config : Nat, read : Nat]
  /\ closed \in Seq(Configs) /\ scanned \in 0..Len(closed)
  /\ rels \in [1..Len(words) -> Seq(Configs \X Configs)]

Cursor ==
  /\ pc = "reach" => at.config \in 1..Len(inConfigs)
  /\ pc = "walk" =>
       /\ at.word \in 1..(Len(words) + 1) /\ at.config \in 1..Len(inConfigs)
       /\ at.word <= Len(words) => at.read \in 0..Len(Word)

LEMMA WordTyped ==
  ASSUME Typed
  PROVE  /\ Len(words) \in Nat /\ DOMAIN words = 1..Len(words)
         /\ \A w \in 1..Len(words) : words[w] \in Seq(Nat) /\ Len(words[w]) \in Nat
         /\ Len(inConfigs) \in Nat /\ \A k \in 1..Len(inConfigs) : inConfigs[k] \in Configs
         /\ Len(closed) \in Nat /\ \A j \in 1..Len(closed) : closed[j] \in Configs
<1>1. words \in Seq(Seq(Nat)) /\ inConfigs \in Seq(Configs) /\ closed \in Seq(Configs)
  BY DEF Typed
<1>2. Len(words) \in Nat /\ DOMAIN words = 1..Len(words) /\ \A w \in 1..Len(words) : words[w] \in Seq(Nat)
  BY <1>1
<1>3. \A s \in Seq(Nat) : Len(s) \in Nat
  OBVIOUS
<1>4. Len(inConfigs) \in Nat /\ \A k \in 1..Len(inConfigs) : inConfigs[k] \in Configs
  BY <1>1
<1>5. Len(closed) \in Nat /\ \A j \in 1..Len(closed) : closed[j] \in Configs
  BY <1>1
<1>6. QED
  BY <1>2, <1>3, <1>4, <1>5

\* What an expansion appends.
LEMMA Expanded ==
  ASSUME Typed, scanned < Len(closed), NEW kept, NEW next,
         next = AppendNew(closed, kept),
         kept \in {Moves(closed[scanned + 1], EpsOnly), Kept(Moves(closed[scanned + 1], EpsOnly))}
  PROVE  /\ kept \in Seq(Configs) /\ next \in Seq(Configs)
         /\ ToSet(next) = ToSet(closed) \cup ToSet(kept)
         /\ Extends(next, closed) /\ scanned + 1 \in 0..Len(next)
         /\ scanned + 1 \in 1..Len(closed)
<1>1. /\ m \in Machines /\ closed \in Seq(Configs) /\ scanned \in 0..Len(closed)
      /\ Len(closed) \in Nat /\ \A j \in 1..Len(closed) : closed[j] \in Configs
  BY WordTyped DEF Typed
<1>2. scanned + 1 \in 1..Len(closed)
  BY <1>1
<1>3. Moves(closed[scanned + 1], EpsOnly) \in Seq(Configs)
  BY <1>1, <1>2, MovesTyped
<1>4. kept \in Seq(Configs)
  BY <1>3, KeptMembers
<1>5. next \in Seq(Configs) /\ ToSet(next) = ToSet(closed) \cup ToSet(kept) /\ Extends(next, closed)
  BY <1>1, <1>4, AppendNewMembers
<1>6. Len(closed) <= Len(next) /\ Len(next) \in Nat
  BY <1>5 DEF Extends
<1>7. QED
  BY <1>1, <1>2, <1>4, <1>5, <1>6

LEMMA CursorAt ==
  ASSUME NEW w \in Nat, NEW c \in Nat, NEW n \in Nat
  PROVE  /\ At(w, c, n) \in [word : Nat, config : Nat, read : Nat]
         /\ At(w, c, n).word = w /\ At(w, c, n).config = c /\ At(w, c, n).read = n
  BY DEF At

LEMMA StartTyped == Init => Typed /\ Cursor
<1> SUFFICES ASSUME Init PROVE Typed /\ Cursor
  OBVIOUS
<1>1. m \in Machines /\ words \in Calls(m) /\ pc = "reach" /\ scanned = 0 /\ closed = inConfigs
      /\ inConfigs = <<<<m.start, <<m.bottom>>>>>> /\ at = At(1, 1, 0)
      /\ rels = [w \in DOMAIN words |-> <<>>]
  BY DEF Init
<1>2. words \in Seq(Seq(Nat))
  BY <1>1, CallsAssumption
<1> DEFINE c == <<m.start, <<m.bottom>>>>
<1>3. c \in Configs
  BY <1>1, Fields
<1> HIDE DEF c
<1>4. <<c>> \in Seq(Configs) /\ Len(<<c>>) = 1
  BY <1>3
<1>5. inConfigs \in Seq(Configs) /\ Len(inConfigs) = 1
  BY <1>1, <1>4 DEF c
<1>6. rels \in [1..Len(words) -> Seq(Configs \X Configs)]
  <2>1. <<>> \in Seq(Configs \X Configs)
    OBVIOUS
  <2>2. DOMAIN words = 1..Len(words)
    BY <1>2
  <2>3. QED
    BY <1>1, <2>1, <2>2
<1>7. at \in [word : Nat, config : Nat, read : Nat] /\ at.config = 1
  BY <1>1, CursorAt
<1>8. scanned \in 0..Len(closed)
  BY <1>1, <1>5
<1>9. QED
  BY <1>1, <1>2, <1>5, <1>6, <1>7, <1>8 DEF Typed, Cursor

\* A new list holds what the loop starts it with.
LEMMA OneConfig ==
  ASSUME NEW c \in Configs
  PROVE  <<c>> \in Seq(Configs) /\ 0 \in 0..Len(<<c>>) /\ ToSet(<<c>>) = {c}
<1>1. <<c>> \in Seq(Configs) /\ Len(<<c>>) = 1
  OBVIOUS
<1>2. ToSet(<<c>>) = {c}
  BY OneMember
<1>3. QED
  BY <1>1, <1>2

LEMMA ReachCloseTyped ==
  ASSUME Typed, Cursor, ReachClose
  PROVE  Typed' /\ Cursor'
<1> DEFINE kept == Kept(Moves(closed[scanned + 1], EpsOnly))
<1>1. /\ pc = "reach" /\ scanned < Len(closed) /\ closed' = AppendNew(closed, kept)
      /\ scanned' = scanned + 1
      /\ UNCHANGED <<m, words, pc, inConfigs, at, rels, groups>>
  BY DEF ReachClose
<1>2. closed' \in Seq(Configs) /\ scanned + 1 \in 0..Len(closed')
  BY <1>1, Expanded
<1> HIDE DEF kept
<1>3. Typed'
  BY <1>1, <1>2 DEF Typed
<1>4. Cursor'
  BY <1>1 DEF Cursor
<1>5. QED
  BY <1>3, <1>4

\* What reading from the closure adds to the in-configurations.
LEMMA InConfigsGrow ==
  ASSUME Typed, Cursor, ReachRead
  PROVE  /\ pc = "reach" /\ scanned = Len(closed)
         /\ inConfigs' \in Seq(Configs) /\ Len(inConfigs') \in Nat
         /\ Extends(inConfigs', inConfigs)
         /\ ToSet(inConfigs') = ToSet(inConfigs) \cup
              {d \in UNION {ToSet(Moves(c, Inputs)) : c \in ToSet(closed)} : Shallow(d)}
         /\ NoTwice(inConfigs) => NoTwice(inConfigs')
         /\ scanned' = 0 /\ UNCHANGED <<m, words, rels, groups>>
         /\ \/ /\ at.config + 1 \in 1..Len(inConfigs') /\ pc' = "reach" /\ at' = At(1, at.config + 1, 0)
               /\ closed' = <<inConfigs'[at.config + 1]>>
            \/ /\ pc' = "walk" /\ at' = At(1, 1, 0) /\ closed' = <<inConfigs'[1]>>
               /\ at.config = Len(inConfigs')
         /\ at.config \in 1..Len(inConfigs) /\ 1 \in 1..Len(inConfigs')
<1> DEFINE moves == AllMoves(closed, Inputs)
<1>1. /\ pc = "reach" /\ scanned = Len(closed) /\ inConfigs' = AppendNew(inConfigs, Kept(moves))
      /\ scanned' = 0 /\ UNCHANGED <<m, words, rels, groups>>
      /\ IF at.config < Len(inConfigs')
         THEN at' = At(1, at.config + 1, 0) /\ closed' = <<inConfigs'[at.config + 1]>> /\ UNCHANGED pc
         ELSE at' = At(1, 1, 0) /\ closed' = <<inConfigs'[1]>> /\ pc' = "walk"
  BY DEF ReachRead
<1>2. /\ m \in Machines /\ inConfigs \in Seq(Configs) /\ closed \in Seq(Configs)
      /\ Len(inConfigs) \in Nat
      /\ at.config \in 1..Len(inConfigs)
  BY <1>1, WordTyped DEF Typed, Cursor
<1>3. moves \in Seq(Configs) /\ ToSet(moves) = UNION {ToSet(Moves(c, Inputs)) : c \in ToSet(closed)}
  BY <1>2, AllMovesMembers
<1> HIDE DEF moves
<1>4. Kept(moves) \in Seq(Configs) /\ ToSet(Kept(moves)) = {d \in ToSet(moves) : Shallow(d)}
  BY <1>3, KeptMembers
<1>5. /\ inConfigs' \in Seq(Configs) /\ ToSet(inConfigs') = ToSet(inConfigs) \cup ToSet(Kept(moves))
      /\ Extends(inConfigs', inConfigs) /\ (NoTwice(inConfigs) => NoTwice(inConfigs'))
  BY <1>1, <1>2, <1>4, AppendNewMembers
<1>6. Len(inConfigs') \in Nat /\ Len(inConfigs) <= Len(inConfigs')
  BY <1>5 DEF Extends
<1>7. /\ at.config < Len(inConfigs') => at.config + 1 \in 1..Len(inConfigs')
      /\ ~(at.config < Len(inConfigs')) => at.config = Len(inConfigs')
      /\ 1 \in 1..Len(inConfigs')
  BY <1>2, <1>6
<1>8. ToSet(inConfigs') = ToSet(inConfigs) \cup
        {d \in UNION {ToSet(Moves(c, Inputs)) : c \in ToSet(closed)} : Shallow(d)}
  BY <1>3, <1>4, <1>5
<1>9. \/ /\ at.config + 1 \in 1..Len(inConfigs') /\ pc' = "reach" /\ at' = At(1, at.config + 1, 0)
         /\ closed' = <<inConfigs'[at.config + 1]>>
      \/ /\ pc' = "walk" /\ at' = At(1, 1, 0) /\ closed' = <<inConfigs'[1]>>
         /\ at.config = Len(inConfigs')
  BY <1>1, <1>7
<1>10. QED
  BY <1>1, <1>2, <1>5, <1>6, <1>7, <1>8, <1>9

LEMMA ReachReadTyped ==
  ASSUME Typed, Cursor, ReachRead
  PROVE  Typed' /\ Cursor'
<1>1. /\ pc = "reach" /\ inConfigs' \in Seq(Configs) /\ Len(inConfigs') \in Nat
      /\ scanned' = 0 /\ UNCHANGED <<m, words, rels, groups>>
      /\ \/ /\ at.config + 1 \in 1..Len(inConfigs') /\ pc' = "reach" /\ at' = At(1, at.config + 1, 0)
            /\ closed' = <<inConfigs'[at.config + 1]>>
         \/ pc' = "walk" /\ at' = At(1, 1, 0) /\ closed' = <<inConfigs'[1]>>
      /\ 1 \in 1..Len(inConfigs') /\ at.config \in Nat
  BY InConfigsGrow DEF Typed
<1>2. \A k \in 1..Len(inConfigs') : inConfigs'[k] \in Configs
  BY <1>1
<1>3. closed' \in Seq(Configs) /\ scanned' \in 0..Len(closed')
  BY <1>1, <1>2, OneConfig
<1>4. /\ at' \in [word : Nat, config : Nat, read : Nat]
      /\ at'.word = 1 /\ at'.config \in 1..Len(inConfigs') /\ at'.read = 0
  <2>1. at.config + 1 \in Nat /\ 1 \in Nat /\ 0 \in Nat
    BY <1>1
  <2>2. /\ At(1, 1, 0) \in [word : Nat, config : Nat, read : Nat]
        /\ At(1, 1, 0).word = 1 /\ At(1, 1, 0).config = 1 /\ At(1, 1, 0).read = 0
    BY <2>1, CursorAt
  <2>3. /\ At(1, at.config + 1, 0) \in [word : Nat, config : Nat, read : Nat]
        /\ At(1, at.config + 1, 0).word = 1 /\ At(1, at.config + 1, 0).config = at.config + 1
        /\ At(1, at.config + 1, 0).read = 0
    BY <2>1, CursorAt
  <2>4. QED
    BY <1>1, <2>2, <2>3
<1>5. Typed'
  BY <1>1, <1>3, <1>4 DEF Typed
<1>6. /\ Len(words) \in Nat /\ \A w \in 1..Len(words) : Len(words[w]) \in Nat
  BY WordTyped
<1>7. /\ 1 \in 1..(Len(words') + 1)
      /\ 1 <= Len(words') => 0 \in 0..Len(words'[1])
  BY <1>1, <1>6
<1>8. Cursor'
  BY <1>1, <1>4, <1>7 DEF Cursor, Word
<1>9. QED
  BY <1>5, <1>8

LEMMA NetSame ==
  ASSUME m' = m
  PROVE  Net' = Net
  BY DEF Net, Edges, Moves, Applies, EpsOnly, EpsInput, TopOf, AfterMove, Configs

LEMMA WalkFacts ==
  ASSUME Typed, Cursor, pc = "walk", at.word <= Len(words)
  PROVE  /\ at.word \in 1..Len(words) /\ Word = words[at.word] /\ Word \in Seq(Nat) /\ Len(Word) \in Nat
         /\ at.read \in 0..Len(Word) /\ at.read \in Nat
         /\ at.config \in 1..Len(inConfigs) /\ inConfigs[at.config] \in Configs
         /\ m \in Machines /\ closed \in Seq(Configs) /\ scanned \in 0..Len(closed)
<1>1. /\ at.word \in 1..(Len(words) + 1) /\ at.config \in 1..Len(inConfigs)
      /\ at.read \in 0..Len(Word)
      /\ m \in Machines /\ closed \in Seq(Configs) /\ scanned \in 0..Len(closed)
  BY DEF Typed, Cursor
<1>2. /\ Len(words) \in Nat /\ \A w \in 1..Len(words) : words[w] \in Seq(Nat) /\ Len(words[w]) \in Nat
      /\ \A k \in 1..Len(inConfigs) : inConfigs[k] \in Configs
  BY WordTyped
<1>3. at.word \in 1..Len(words)
  BY <1>1, <1>2
<1>4. Word \in Seq(Nat) /\ Len(Word) \in Nat
  BY <1>2, <1>3 DEF Word
<1>5. at.read \in Nat
  BY <1>1, <1>4
<1>6. QED
  BY <1>1, <1>2, <1>3, <1>4, <1>5 DEF Word

LEMMA WalkCloseTyped ==
  ASSUME Typed, Cursor, WalkClose
  PROVE  Typed' /\ Cursor'
<1> DEFINE found == Moves(closed[scanned + 1], EpsOnly)
<1>1. /\ pc = "walk" /\ scanned < Len(closed) /\ closed' = AppendNew(closed, found)
      /\ scanned' = scanned + 1 /\ UNCHANGED <<m, words, pc, inConfigs, groups, at, rels>>
  BY DEF WalkClose, Walking
<1>2. closed' \in Seq(Configs) /\ scanned + 1 \in 0..Len(closed')
  BY <1>1, Expanded
<1> HIDE DEF found
<1>3. Typed'
  BY <1>1, <1>2 DEF Typed
<1>4. Cursor'
  BY <1>1 DEF Cursor, Word
<1>5. QED
  BY <1>3, <1>4

LEMMA OnInputMembers ==
  ASSUME Typed, Cursor, pc = "walk", at.word <= Len(words), at.read < Len(Word)
  PROVE  /\ OnInput \in Seq(Configs)
         /\ ToSet(OnInput) = UNION {ToSet(Moves(c, {Word[at.read + 1]})) : c \in ToSet(closed)}
         /\ NoTwice(OnInput)
         /\ at.read + 1 \in 0..Len(Word) /\ Word[at.read + 1] \in Nat
<1>1. /\ m \in Machines /\ closed \in Seq(Configs) /\ Word \in Seq(Nat)
      /\ Len(Word) \in Nat /\ at.read \in 0..Len(Word) /\ at.read \in Nat
  BY WalkFacts
<1>2. at.read + 1 \in 1..Len(Word) /\ at.read + 1 \in 0..Len(Word)
  BY <1>1
<1>3. Word[at.read + 1] \in Nat
  BY <1>1, <1>2
<1> DEFINE moves == AllMoves(closed, {Word[at.read + 1]})
<1>4. /\ moves \in Seq(Configs)
      /\ ToSet(moves) = UNION {ToSet(Moves(c, {Word[at.read + 1]})) : c \in ToSet(closed)}
  BY <1>1, AllMovesMembers
<1>5. OnInput = AppendNew(<<>>, moves)
  BY DEF OnInput
<1> HIDE DEF moves
<1>6. <<>> \in Seq(Configs) /\ ToSet(<<>>) = {} /\ NoTwice(<<>>)
  <2>1. <<>> \in Seq(Configs) /\ Len(<<>>) = 0
    OBVIOUS
  <2>2. ToSet(<<>>) = {}
    BY OneMember
  <2>3. 1..0 = {}
    OBVIOUS
  <2>4. QED
    BY <2>1, <2>2, <2>3 DEF NoTwice
<1>7. /\ AppendNew(<<>>, moves) \in Seq(Configs)
      /\ ToSet(AppendNew(<<>>, moves)) = ToSet(<<>>) \cup ToSet(moves)
      /\ NoTwice(AppendNew(<<>>, moves))
  BY <1>4, <1>6, AppendNewMembers
<1>8. QED
  BY <1>2, <1>3, <1>4, <1>5, <1>6, <1>7

LEMMA ReadOn ==
  ASSUME Typed, Cursor, WalkRead
  PROVE  /\ pc = "walk" /\ at.word <= Len(words) /\ at.read < Len(Word) /\ scanned = Len(closed)
         /\ closed' = OnInput /\ scanned' = 0
         /\ at' \in [word : Nat, config : Nat, read : Nat]
         /\ at'.word = at.word /\ at'.config = at.config /\ at'.read = at.read + 1
         /\ UNCHANGED <<m, words, pc, inConfigs, groups, rels>> /\ Word' = Word
<1>1. /\ pc = "walk" /\ at.word <= Len(words) /\ at.read < Len(Word) /\ scanned = Len(closed)
      /\ closed' = OnInput /\ scanned' = 0 /\ at' = [at EXCEPT !.read = @ + 1]
      /\ UNCHANGED <<m, words, pc, inConfigs, groups, rels>>
  BY DEF WalkRead, Walking
<1>2. at \in [word : Nat, config : Nat, read : Nat]
  BY DEF Typed
<1>3. /\ at' \in [word : Nat, config : Nat, read : Nat]
      /\ at'.word = at.word /\ at'.config = at.config /\ at'.read = at.read + 1
  BY <1>1, <1>2
<1>4. Word' = Word
  BY <1>1, <1>3 DEF Word
<1>5. QED
  BY <1>1, <1>3, <1>4

LEMMA WalkReadTyped ==
  ASSUME Typed, Cursor, WalkRead
  PROVE  Typed' /\ Cursor'
<1>1. /\ pc = "walk" /\ at.word <= Len(words) /\ at.read < Len(Word)
      /\ closed' = OnInput /\ scanned' = 0
      /\ at' \in [word : Nat, config : Nat, read : Nat]
      /\ at'.word = at.word /\ at'.config = at.config /\ at'.read = at.read + 1
      /\ UNCHANGED <<m, words, pc, inConfigs, groups, rels>> /\ Word' = Word
  BY ReadOn
<1>2. OnInput \in Seq(Configs) /\ at.read + 1 \in 0..Len(Word)
  BY <1>1, OnInputMembers
<1>3. scanned' \in 0..Len(closed')
  BY <1>1, <1>2
<1>4. Typed'
  BY <1>1, <1>2, <1>3 DEF Typed
<1>5. Cursor'
  BY <1>1, <1>2 DEF Cursor
<1>6. QED
  BY <1>4, <1>5

\* Where the next walk starts.
LEMMA NextStarts ==
  ASSUME Typed, Cursor, Walking, NextWalk
  PROVE  /\ pc = "walk" /\ at.word <= Len(words) /\ UNCHANGED <<m, words, pc, inConfigs, groups>>
         /\ at' \in [word : Nat, config : Nat, read : Nat] /\ at'.read = 0
         /\ at'.config \in 1..Len(inConfigs) /\ at'.word \in 1..(Len(words) + 1)
         /\ closed' = <<inConfigs[at'.config]>> /\ closed' \in Seq(Configs)
         /\ scanned' = 0 /\ scanned' \in 0..Len(closed')
         /\ \/ at'.word = at.word /\ at'.config = at.config + 1
            \/ at'.word = at.word + 1 /\ at'.config = 1 /\ at.config = Len(inConfigs)
<1>1. /\ pc = "walk" /\ at.word <= Len(words) /\ UNCHANGED <<m, words, pc, inConfigs, groups>>
      /\ at' = IF at.config < Len(inConfigs) THEN At(at.word, at.config + 1, 0) ELSE At(at.word + 1, 1, 0)
      /\ closed' = <<inConfigs[at'.config]>> /\ scanned' = 0
  BY DEF Walking, NextWalk
<1>2. /\ at.word \in 1..Len(words) /\ Len(words) \in Nat /\ at.config \in 1..Len(inConfigs)
      /\ Len(inConfigs) \in Nat /\ \A k \in 1..Len(inConfigs) : inConfigs[k] \in Configs
  BY <1>1, WalkFacts, WordTyped
<1>3. /\ at.config < Len(inConfigs) => at.config + 1 \in 1..Len(inConfigs)
      /\ ~(at.config < Len(inConfigs)) => at.config = Len(inConfigs)
      /\ 1 \in 1..Len(inConfigs) /\ at.word + 1 \in 1..(Len(words) + 1) /\ at.word \in 1..(Len(words) + 1)
      /\ at.config + 1 \in Nat /\ at.word + 1 \in Nat /\ at.word \in Nat /\ 0 \in Nat /\ 1 \in Nat
  BY <1>2
<1>4. /\ At(at.word, at.config + 1, 0) \in [word : Nat, config : Nat, read : Nat]
      /\ At(at.word, at.config + 1, 0).word = at.word
      /\ At(at.word, at.config + 1, 0).config = at.config + 1
      /\ At(at.word, at.config + 1, 0).read = 0
  <2>1. at.word \in Nat /\ at.config + 1 \in Nat /\ 0 \in Nat
    BY <1>3
  <2>2. QED
    BY <2>1 DEF At
<1>5. /\ At(at.word + 1, 1, 0) \in [word : Nat, config : Nat, read : Nat]
      /\ At(at.word + 1, 1, 0).word = at.word + 1
      /\ At(at.word + 1, 1, 0).config = 1
      /\ At(at.word + 1, 1, 0).read = 0
  <2>1. at.word + 1 \in Nat /\ 1 \in Nat /\ 0 \in Nat
    BY <1>3
  <2>2. QED
    BY <2>1 DEF At
<1>6. /\ at' \in [word : Nat, config : Nat, read : Nat] /\ at'.read = 0
      /\ at'.config \in 1..Len(inConfigs) /\ at'.word \in 1..(Len(words) + 1)
      /\ \/ at'.word = at.word /\ at'.config = at.config + 1
         \/ at'.word = at.word + 1 /\ at'.config = 1 /\ at.config = Len(inConfigs)
  <2>1. CASE at.config < Len(inConfigs)
    BY <1>1, <1>3, <1>4, <2>1
  <2>2. CASE ~(at.config < Len(inConfigs))
    BY <1>1, <1>3, <1>5, <2>2
  <2>3. QED
    BY <2>1, <2>2
<1>7. closed' \in Seq(Configs) /\ 0 \in 0..Len(closed')
  BY <1>1, <1>2, <1>6, OneConfig
<1>8. QED
  BY <1>1, <1>6, <1>7

LEMMA NextStartsTyped ==
  ASSUME Typed, Cursor, Walking, NextWalk, rels' \in [1..Len(words) -> Seq(Configs \X Configs)]
  PROVE  Typed' /\ Cursor'
<1>1. /\ pc = "walk" /\ at.word <= Len(words) /\ UNCHANGED <<m, words, pc, inConfigs, groups>>
      /\ at' \in [word : Nat, config : Nat, read : Nat] /\ at'.read = 0
      /\ at'.config \in 1..Len(inConfigs) /\ at'.word \in 1..(Len(words) + 1)
      /\ closed' \in Seq(Configs) /\ scanned' \in 0..Len(closed')
  BY NextStarts
<1>2. Typed'
  BY <1>1 DEF Typed
<1>3. at'.word <= Len(words) => at'.read \in 0..Len(words[at'.word])
  <2>1. Len(words) \in Nat /\ \A w \in 1..Len(words) : Len(words[w]) \in Nat
    BY WordTyped
  <2>2. SUFFICES ASSUME at'.word <= Len(words) PROVE at'.word \in 1..Len(words)
    BY <1>1, <2>1
  <2>3. QED
    BY <1>1, <2>1, <2>2
<1>4. Cursor'
  BY <1>1, <1>3 DEF Cursor, Word
<1>5. QED
  BY <1>2, <1>4

LEMMA WalkDivergeTyped ==
  ASSUME Typed, Cursor, WalkDiverge
  PROVE  Typed' /\ Cursor'
<1>1. Walking /\ NextWalk /\ rels' = rels
  BY DEF WalkDiverge
<1>2. rels' \in [1..Len(words) -> Seq(Configs \X Configs)]
  BY <1>1 DEF Typed
<1>3. QED
  BY <1>1, <1>2, NextStartsTyped

\* What a finished walk adds to its word's displacement.
LEMMA OutsAdded ==
  ASSUME Typed, Cursor, WalkEnd
  PROVE  /\ Walking /\ NextWalk /\ at.read = Len(Word)
         /\ rels' \in [1..Len(words) -> Seq(Configs \X Configs)]
         /\ \A w \in 1..Len(words) : w # at.word => rels'[w] = rels[w]
         /\ ToSet(rels'[at.word]) = ToSet(rels[at.word])
              \cup {p \in Configs \X Configs : p[1] = inConfigs[at.config] /\ p[2] \in ToSet(closed)}
<1> DEFINE c == inConfigs[at.config]
           outs == [j \in DOMAIN closed |-> <<c, closed[j]>>]
<1>1. /\ Walking /\ NextWalk /\ at.read = Len(Word)
      /\ rels' = [rels EXCEPT ![at.word] = @ \o outs] /\ pc = "walk" /\ at.word <= Len(words)
  BY DEF WalkEnd, Walking
<1>2. /\ at.word \in 1..Len(words) /\ c \in Configs
      /\ Len(closed) \in Nat /\ DOMAIN closed = 1..Len(closed)
      /\ \A j \in 1..Len(closed) : closed[j] \in Configs
      /\ ToSet(closed) = {closed[j] : j \in 1..Len(closed)}
      /\ rels \in [1..Len(words) -> Seq(Configs \X Configs)]
  <2>1. closed \in Seq(Configs)
    BY DEF Typed
  <2>2. at.word \in 1..Len(words) /\ c \in Configs
    BY <1>1, WalkFacts
  <2>3. Len(closed) \in Nat /\ DOMAIN closed = 1..Len(closed) /\ \A j \in 1..Len(closed) : closed[j] \in Configs
    BY <2>1
  <2>4. ToSet(closed) = {closed[j] : j \in 1..Len(closed)}
    BY <2>1, Members
  <2>5. QED
    BY <2>2, <2>3, <2>4 DEF Typed
<1> HIDE DEF c
<1>3. /\ outs \in Seq(Configs \X Configs) /\ Len(outs) = Len(closed)
      /\ \A j \in 1..Len(closed) : outs[j] = <<c, closed[j]>>
  BY <1>2
<1> HIDE DEF outs
<1>4. ToSet(outs) = {p \in Configs \X Configs : p[1] = c /\ p[2] \in ToSet(closed)}
  <2>1. ToSet(outs) = {outs[j] : j \in 1..Len(closed)}
    BY <1>3, Members
  <2>2. ASSUME NEW p \in ToSet(outs) PROVE p \in Configs \X Configs /\ p[1] = c /\ p[2] \in ToSet(closed)
    <3>1. PICK j \in 1..Len(closed) : p = <<c, closed[j]>>
      BY <1>3, <2>1
    <3>2. closed[j] \in Configs /\ closed[j] \in ToSet(closed)
      BY <1>2
    <3>3. QED
      BY <1>2, <3>1, <3>2
  <2>3. ASSUME NEW p \in Configs \X Configs, p[1] = c, p[2] \in ToSet(closed) PROVE p \in ToSet(outs)
    <3>1. PICK j \in 1..Len(closed) : p[2] = closed[j]
      BY <1>2, <2>3
    <3>2. p = <<c, closed[j]>>
      BY <2>3, <3>1
    <3>3. QED
      BY <1>3, <2>1, <3>2
  <2>4. QED
    BY <2>2, <2>3
<1>5. rels[at.word] \in Seq(Configs \X Configs)
  BY <1>2
<1>6. /\ rels[at.word] \o outs \in Seq(Configs \X Configs)
      /\ ToSet(rels[at.word] \o outs) = ToSet(rels[at.word]) \cup ToSet(outs)
  BY <1>3, <1>5, BothMembers
<1> DEFINE both == rels[at.word] \o outs
<1>7. rels' = [rels EXCEPT ![at.word] = both] /\ both \in Seq(Configs \X Configs)
  BY <1>1, <1>6
<1>8. ToSet(both) = ToSet(rels[at.word]) \cup ToSet(outs)
  BY <1>6
<1> HIDE DEF both
<1>9. /\ rels' \in [1..Len(words) -> Seq(Configs \X Configs)]
      /\ \A w \in 1..Len(words) : w # at.word => rels'[w] = rels[w]
      /\ rels'[at.word] = both
  BY <1>2, <1>7
<1>10. QED
  BY <1>1, <1>4, <1>8, <1>9 DEF c

LEMMA WalkEndTyped ==
  ASSUME Typed, Cursor, WalkEnd
  PROVE  Typed' /\ Cursor'
<1>1. Walking /\ NextWalk /\ rels' \in [1..Len(words) -> Seq(Configs \X Configs)]
  BY OutsAdded
<1>2. QED
  BY <1>1, NextStartsTyped

LEMMA GroupingTyped ==
  ASSUME Typed, Cursor, WalksDone \/ Group \/ Finish
  PROVE  Typed' /\ Cursor' /\ pc # "reach" /\ pc' \notin {"reach", "walk"}
         /\ UNCHANGED <<m, words, inConfigs, rels>>
<1>1. /\ UNCHANGED <<m, words, inConfigs, closed, scanned, rels>>
      /\ pc # "reach" /\ pc' \in {"group", "done"}
      /\ at' \in {At(1, 1, 0), At(at.word + 1, 1, 0), at}
  BY DEF WalksDone, Group, Finish
<1>2. at \in [word : Nat, config : Nat, read : Nat] /\ at.word \in Nat
  BY DEF Typed
<1>3. at' \in [word : Nat, config : Nat, read : Nat]
  <2>1. at.word + 1 \in Nat /\ 1 \in Nat /\ 0 \in Nat
    BY <1>2
  <2>2. /\ At(1, 1, 0) \in [word : Nat, config : Nat, read : Nat]
        /\ At(at.word + 1, 1, 0) \in [word : Nat, config : Nat, read : Nat]
    BY <2>1, CursorAt
  <2>3. QED
    BY <1>1, <1>2, <2>2
<1>4. Typed'
  BY <1>1, <1>3 DEF Typed
<1>5. pc' \notin {"reach", "walk"}
  BY <1>1
<1>6. Cursor'
  BY <1>5 DEF Cursor
<1>7. QED
  BY <1>1, <1>4, <1>5, <1>6

----------------------------------------------------------------------------
(* A walk follows the paths.                                               *)

Frontier == Leads(Net, inConfigs[at.config], Word, at.read)

\* The worklist holds the frontier, and of its closure what has been found.
OnPaths ==
  pc = "walk" /\ at.word <= Len(words) =>
    /\ Frontier \subseteq ToSet(closed) /\ ToSet(closed) \subseteq EpsStar(Net, Frontier)
    /\ scanned = 0 => ToSet(closed) = Frontier
    /\ at.read = Len(Word) => scanned = 0
    /\ \A j \in 1..scanned : \A d \in Configs : <<closed[j], d>> \in Net.eps => d \in ToSet(closed)

LEMMA FrontierTyped ==
  ASSUME Typed
  PROVE  Frontier \in SUBSET Configs /\ (m \in Machines /\ Net.eps \in SUBSET (Configs \X Configs))
<1>1. m \in Machines
  BY DEF Typed
<1>2. QED
  BY <1>1, NetMoves DEF Frontier, Leads

\* The first list of a walk is its frontier.
LEMMA OneIsFrontier ==
  ASSUME Typed', Cursor', pc' = "walk", closed' = <<inConfigs'[at'.config]>>, scanned' = 0, at'.read = 0
  PROVE  OnPaths'
<1> DEFINE c == inConfigs'[at'.config]
<1>1. c \in Configs
  <2>1. inConfigs' \in Seq(Configs) /\ at'.config \in 1..Len(inConfigs')
    BY DEF Typed, Cursor
  <2>2. QED
    BY <2>1
<1>2. Frontier' = Leads(Net', c, Word', 0)
  BY DEF Frontier
<1>3. m' \in Machines
  BY DEF Typed
<1> HIDE DEF c
<1>4. Leads(Net', c, Word', 0) = {c}
  BY <1>1, LeadsNowhere
<1>5. closed' = <<c>>
  BY DEF c
<1>6. ToSet(closed') = {c}
  BY <1>1, <1>5, OneMember
<1>7. Frontier' = {c}
  BY <1>2, <1>4
<1>8. Frontier' \subseteq EpsStar(Net', Frontier')
  <2>1. {c} \subseteq EpsStar(Net', {c})
    BY <1>1 DEF EpsStar
  <2>2. QED
    BY <1>7, <2>1
<1>9. 1..0 = {}
  OBVIOUS
<1>10. QED
  BY <1>6, <1>7, <1>8, <1>9 DEF OnPaths

LEMMA WalkClosePaths ==
  ASSUME Typed, Cursor, OnPaths, WalkClose
  PROVE  OnPaths'
<1> DEFINE c == closed[scanned + 1]
           found == Moves(c, EpsOnly)
<1>1. /\ pc = "walk" /\ at.word <= Len(words) /\ at.read < Len(Word)
      /\ scanned < Len(closed) /\ closed' = AppendNew(closed, found)
      /\ scanned' = scanned + 1 /\ UNCHANGED <<m, words, pc, inConfigs, groups, at, rels>>
  BY DEF WalkClose, Walking
<1>2. /\ closed' \in Seq(Configs) /\ ToSet(closed') = ToSet(closed) \cup ToSet(found)
      /\ Extends(closed', closed) /\ scanned + 1 \in 1..Len(closed)
  BY <1>1, Expanded
<1>3. /\ Len(closed) \in Nat /\ closed \in Seq(Configs) /\ scanned \in 0..Len(closed)
      /\ \A j \in 1..Len(closed) : closed[j] \in Configs
      /\ ToSet(closed) = {closed[j] : j \in 1..Len(closed)}
  <2>1. closed \in Seq(Configs) /\ scanned \in 0..Len(closed)
    BY DEF Typed
  <2>2. ToSet(closed) = {closed[j] : j \in 1..Len(closed)}
    BY <2>1, Members
  <2>3. QED
    BY <2>1, <2>2, WordTyped
<1>4. c \in Configs /\ c \in ToSet(closed)
  BY <1>2, <1>3
<1>5. ToSet(found) = {d \in Configs : <<c, d>> \in Net.eps}
  <2>1. m \in Machines
    BY DEF Typed
  <2> HIDE DEF c
  <2>2. QED
    BY <1>4, <2>1, NetMoves
<1>6. Net' = Net /\ Word' = Word /\ Frontier' = Frontier
  <2>1. Net' = Net
    BY <1>1, NetSame
  <2>2. Word' = Word
    BY <1>1 DEF Word
  <2>3. QED
    BY <1>1, <2>1, <2>2 DEF Frontier
<1>7. /\ Frontier \subseteq ToSet(closed) /\ ToSet(closed) \subseteq EpsStar(Net, Frontier)
      /\ \A j \in 1..scanned : \A d \in Configs : <<closed[j], d>> \in Net.eps => d \in ToSet(closed)
  BY <1>1 DEF OnPaths
<1>8. EpsClosed(Net, EpsStar(Net, Frontier))
  BY FrontierTyped, StarLeast
<1> HIDE DEF found
<1>9. ToSet(found) \subseteq EpsStar(Net, Frontier)
  <2>1. c \in EpsStar(Net, Frontier)
    BY <1>4, <1>7
  <2> HIDE DEF c
  <2>2. ASSUME NEW d \in ToSet(found) PROVE d \in EpsStar(Net, Frontier)
    <3>1. <<c, d>> \in Net.eps
      BY <1>5
    <3> DEFINE p == <<c, d>>
    <3>2. p \in Net.eps /\ p[1] = c /\ p[2] = d
      BY <3>1
    <3> HIDE DEF p
    <3>3. QED
      BY <1>8, <2>1, <3>2 DEF EpsClosed
  <2>3. QED
    BY <2>2
<1>10. /\ Frontier \subseteq ToSet(closed') /\ ToSet(closed') \subseteq EpsStar(Net, Frontier)
  BY <1>2, <1>7, <1>9
<1>11. ASSUME NEW j \in 1..(scanned + 1), NEW d \in Configs, <<closed'[j], d>> \in Net.eps
       PROVE  d \in ToSet(closed')
  <2>1. j \in 1..Len(closed) /\ (j \in 1..scanned \/ j = scanned + 1)
    BY <1>2, <1>3
  <2>2. closed'[j] = closed[j]
    BY <1>2, <2>1 DEF Extends
  <2>3. CASE j \in 1..scanned
    BY <1>2, <1>7, <1>11, <2>2, <2>3
  <2>4. CASE j = scanned + 1
    <3>1. closed'[j] = c
      BY <2>2, <2>4
    <3> HIDE DEF c
    <3>2. QED
      BY <1>2, <1>5, <1>11, <3>1
  <2>5. QED
    BY <2>1, <2>3, <2>4
<1>12. scanned + 1 # 0
  BY <1>3
<1>13. at.read # Len(Word)
  BY <1>1
<1>14. QED
  BY <1>1, <1>6, <1>10, <1>11, <1>12, <1>13 DEF OnPaths

\* The whole worklist expanded is the closure of the frontier.
LEMMA ClosedIsStar ==
  ASSUME Typed, OnPaths, pc = "walk", at.word <= Len(words), scanned = Len(closed)
  PROVE  ToSet(closed) = EpsStar(Net, Frontier)
<1>1. /\ Frontier \subseteq ToSet(closed) /\ ToSet(closed) \subseteq EpsStar(Net, Frontier)
      /\ \A j \in 1..Len(closed) : \A d \in Configs : <<closed[j], d>> \in Net.eps => d \in ToSet(closed)
  BY DEF OnPaths
<1>2. ToSet(closed) = {closed[j] : j \in 1..Len(closed)} /\ ToSet(closed) \subseteq Configs
  <2>1. closed \in Seq(Configs)
    BY DEF Typed
  <2>2. QED
    BY <2>1, Members
<1>3. Frontier \in SUBSET Configs /\ Net.eps \in SUBSET (Configs \X Configs)
  BY FrontierTyped
<1>4. ASSUME NEW p \in Net.eps, p[1] \in ToSet(closed) PROVE p[2] \in ToSet(closed)
  <2>1. p[1] \in Configs /\ p[2] \in Configs /\ p = <<p[1], p[2]>>
    BY <1>3
  <2>2. PICK j \in 1..Len(closed) : p[1] = closed[j]
    BY <1>2, <1>4
  <2>3. <<closed[j], p[2]>> \in Net.eps
    BY <2>1, <2>2
  <2>4. QED
    BY <1>1, <2>1, <2>3
<1>5. EpsClosed(Net, ToSet(closed))
  BY <1>4 DEF EpsClosed
<1>6. QED
  BY <1>1, <1>2, <1>3, <1>5, StarReached

\* Reading the next input leads to the next frontier.
LEMMA OnInputIsNext ==
  ASSUME Typed, Cursor, OnPaths, pc = "walk", at.word <= Len(words), at.read < Len(Word),
         scanned = Len(closed)
  PROVE  ToSet(OnInput) = Leads(Net, inConfigs[at.config], Word, at.read + 1)
<1> DEFINE a == Word[at.read + 1]
<1>1. /\ m \in Machines /\ at.read \in Nat /\ inConfigs[at.config] \in Configs
  BY WalkFacts
<1>2. /\ ToSet(OnInput) = UNION {ToSet(Moves(e, {a})) : e \in ToSet(closed)} /\ a \in Nat
  BY OnInputMembers
<1>3. ToSet(closed) = EpsStar(Net, Frontier) /\ Frontier \in SUBSET Configs
  BY ClosedIsStar, FrontierTyped
<1>4. Leads(Net, inConfigs[at.config], Word, at.read + 1)
        = UNION {Reads(Net, e, a) : e \in Leads(Net, inConfigs[at.config], Word, at.read)}
  BY <1>1, LeadsOn
<1> HIDE DEF a
<1>5. UNION {ToSet(Moves(e, {a})) : e \in EpsStar(Net, Frontier)} = UNION {Reads(Net, e, a) : e \in Frontier}
  BY <1>1, <1>2, <1>3, ReadFromStar
<1>6. QED
  BY <1>2, <1>3, <1>4, <1>5 DEF Frontier

LEMMA WalkReadPaths ==
  ASSUME Typed, Cursor, OnPaths, WalkRead
  PROVE  OnPaths'
<1>1. /\ pc = "walk" /\ at.word <= Len(words) /\ at.read < Len(Word) /\ scanned = Len(closed)
      /\ closed' = OnInput /\ scanned' = 0
      /\ at'.config = at.config /\ at'.read = at.read + 1
      /\ UNCHANGED <<m, words, pc, inConfigs, groups, rels>> /\ Word' = Word
  BY ReadOn
<1>2. Net' = Net
  BY <1>1, NetSame
<1>3. Frontier' = Leads(Net, inConfigs[at.config], Word, at.read + 1)
  BY <1>1, <1>2 DEF Frontier
<1>4. ToSet(closed') = Frontier'
  BY <1>1, <1>3, OnInputIsNext
<1>5. Frontier' \subseteq EpsStar(Net, Frontier')
  <2>1. Frontier' \subseteq Configs
    BY <1>3 DEF Leads
  <2>2. QED
    BY <2>1 DEF EpsStar
<1>6. 1..0 = {}
  OBVIOUS
<1>7. QED
  BY <1>1, <1>2, <1>4, <1>5, <1>6 DEF OnPaths

----------------------------------------------------------------------------
(* A displacement is what the walks so far have found.                     *)

Walked(w, k) ==
  \/ pc \in {"group", "done"}
  \/ pc = "walk" /\ (w < at.word \/ (w = at.word /\ k < at.config))
LeadsTo(p, w) == p[2] \in Leads(Net, p[1], words[w], Len(words[w]))
Displaced(w) ==
  {p \in Configs \X Configs : \E k \in 1..Len(inConfigs) :
     Walked(w, k) /\ p[1] = inConfigs[k] /\ LeadsTo(p, w)}
RelsExact == \A w \in 1..Len(words) : ToSet(rels[w]) = Displaced(w)

LEMMA StartExact ==
  ASSUME Init
  PROVE  OnPaths /\ RelsExact
<1>1. pc = "reach" /\ rels = [w \in DOMAIN words |-> <<>>] /\ words \in Calls(m) /\ m \in Machines
  BY DEF Init
<1>2. words \in Seq(Seq(Nat))
  BY <1>1, CallsAssumption
<1>3. DOMAIN words = 1..Len(words)
  BY <1>2
<1>4. ToSet(<<>>) = {}
  BY OneMember
<1>5. \A w \in 1..Len(words) : ToSet(rels[w]) = {}
  BY <1>1, <1>3, <1>4
<1>6. \A w \in 1..Len(words) : Displaced(w) = {}
  BY <1>1 DEF Displaced, Walked
<1>7. QED
  BY <1>1, <1>5, <1>6 DEF OnPaths, RelsExact

LEMMA DisplacedSame ==
  ASSUME m' = m, words' = words, inConfigs' = inConfigs, rels' = rels, RelsExact,
         \A w \in 1..Len(words) : \A k \in 1..Len(inConfigs) : Walked(w, k)' <=> Walked(w, k)
  PROVE  RelsExact'
<1>1. Net' = Net
  BY NetSame
<1>2. \A w \in 1..Len(words) : Displaced(w)' = Displaced(w)
  BY <1>1 DEF Displaced, LeadsTo, Configs
<1>3. QED
  BY <1>2 DEF RelsExact

\* A finished walk counts.
LEMMA DisplacedMore ==
  ASSUME Typed, Cursor, Walking, NextWalk,
         NEW w \in 1..Len(words)
  PROVE  Displaced(w)' = Displaced(w) \cup
           {p \in Configs \X Configs :
              w = at.word /\ p[1] = inConfigs[at.config] /\ LeadsTo(p, w)}
<1>1. /\ pc = "walk" /\ at.word <= Len(words) /\ UNCHANGED <<m, words, pc, inConfigs, groups>>
      /\ \/ at'.word = at.word /\ at'.config = at.config + 1
         \/ at'.word = at.word + 1 /\ at'.config = 1 /\ at.config = Len(inConfigs)
  BY NextStarts
<1>2. /\ at.word \in 1..Len(words) /\ Len(words) \in Nat /\ at.config \in 1..Len(inConfigs)
      /\ Len(inConfigs) \in Nat
  BY <1>1, WalkFacts, WordTyped
<1>3. ASSUME NEW k \in 1..Len(inConfigs)
      PROVE  Walked(w, k)' <=> Walked(w, k) \/ (w = at.word /\ k = at.config)
  <2>1. /\ Walked(w, k)' <=> (w < at'.word \/ (w = at'.word /\ k < at'.config))
        /\ Walked(w, k) <=> (w < at.word \/ (w = at.word /\ k < at.config))
    BY <1>1 DEF Walked
  <2>2. at.word \in Nat /\ at.config \in Nat /\ w \in Nat /\ k \in Nat /\ 1 <= k /\ k <= Len(inConfigs)
    BY <1>2
  <2>3. CASE at'.word = at.word /\ at'.config = at.config + 1
    BY <2>1, <2>2, <2>3
  <2>4. CASE at'.word = at.word + 1 /\ at'.config = 1 /\ at.config = Len(inConfigs)
    BY <2>1, <2>2, <2>4
  <2>5. QED
    BY <1>1, <2>3, <2>4
<1>4. Net' = Net
  BY <1>1, NetSame
<1>5. \A p : LeadsTo(p, w)' <=> LeadsTo(p, w)
  BY <1>1, <1>4 DEF LeadsTo
<1>6. Displaced(w)' = {p \in Configs \X Configs : \E k \in 1..Len(inConfigs) :
         (Walked(w, k) \/ (w = at.word /\ k = at.config)) /\ p[1] = inConfigs[k] /\ LeadsTo(p, w)}
  BY <1>1, <1>3, <1>5 DEF Displaced, Configs
<1>7. QED
  BY <1>2, <1>6 DEF Displaced

LEMMA WalkEndExact ==
  ASSUME Typed, Cursor, OnPaths, RelsExact, WalkEnd
  PROVE  RelsExact'
<1>1. /\ Walking /\ NextWalk /\ at.read = Len(Word)
      /\ \A w \in 1..Len(words) : w # at.word => rels'[w] = rels[w]
      /\ ToSet(rels'[at.word]) = ToSet(rels[at.word])
           \cup {p \in Configs \X Configs : p[1] = inConfigs[at.config] /\ p[2] \in ToSet(closed)}
  BY OutsAdded
<1>2. pc = "walk" /\ at.word <= Len(words) /\ words' = words
  BY <1>1 DEF Walking
<1>3. ToSet(closed) = Leads(Net, inConfigs[at.config], Word, Len(Word))
  BY <1>1, <1>2 DEF OnPaths, Frontier
<1>4. \A p \in Configs \X Configs :
        p[1] = inConfigs[at.config] => (p[2] \in ToSet(closed) <=> LeadsTo(p, at.word))
  BY <1>3 DEF LeadsTo, Word
<1>5. ASSUME NEW w \in 1..Len(words) PROVE ToSet(rels'[w]) = Displaced(w)'
  <2>1. ToSet(rels[w]) = Displaced(w)
    BY DEF RelsExact
  <2>2. Displaced(w)' = Displaced(w) \cup
          {p \in Configs \X Configs : w = at.word /\ p[1] = inConfigs[at.config] /\ LeadsTo(p, w)}
    BY <1>1, DisplacedMore
  <2>3. CASE w # at.word
    BY <1>1, <2>1, <2>2, <2>3
  <2>4. CASE w = at.word
    <3>1. {p \in Configs \X Configs : w = at.word /\ p[1] = inConfigs[at.config] /\ LeadsTo(p, w)}
            = {p \in Configs \X Configs : p[1] = inConfigs[at.config] /\ p[2] \in ToSet(closed)}
      BY <1>4, <2>4
    <3>2. QED
      BY <1>1, <2>1, <2>2, <2>4, <3>1
  <2>5. QED
    BY <2>3, <2>4
<1>6. QED
  BY <1>2, <1>5 DEF RelsExact

LEMMA WalkDivergeExact ==
  ASSUME Typed, Cursor, OnPaths, RelsExact, WalkDiverge
  PROVE  RelsExact'
<1>1. /\ Walking /\ NextWalk /\ at.read < Len(Word) /\ scanned = Len(closed)
      /\ OnInput = <<>> /\ rels' = rels
      /\ pc = "walk" /\ at.word <= Len(words) /\ words' = words
  BY DEF WalkDiverge, Walking
<1>2. /\ at.read \in Nat /\ Len(Word) \in Nat /\ inConfigs[at.config] \in Configs
      /\ at.word \in 1..Len(words)
  BY <1>1, WalkFacts
<1>3. ToSet(OnInput) = {}
  BY <1>1, OneMember
<1>4. Leads(Net, inConfigs[at.config], Word, at.read + 1) = {}
  BY <1>1, <1>3, OnInputIsNext
<1>5. at.read + 1 \in 0..Len(Word)
  BY <1>1, <1>2
<1>6. Leads(Net, inConfigs[at.config], Word, Len(Word)) = {}
  BY <1>2, <1>4, <1>5, LeadsEnded
<1>7. ASSUME NEW w \in 1..Len(words) PROVE ToSet(rels'[w]) = Displaced(w)'
  <2>1. ToSet(rels[w]) = Displaced(w)
    BY DEF RelsExact
  <2>2. Displaced(w)' = Displaced(w) \cup
          {p \in Configs \X Configs : w = at.word /\ p[1] = inConfigs[at.config] /\ LeadsTo(p, w)}
    BY <1>1, DisplacedMore
  <2>3. {p \in Configs \X Configs : w = at.word /\ p[1] = inConfigs[at.config] /\ LeadsTo(p, w)} = {}
    BY <1>6 DEF LeadsTo, Word
  <2>4. QED
    BY <1>1, <2>1, <2>2, <2>3
<1>8. QED
  BY <1>1, <1>7 DEF RelsExact

LEMMA WalksDoneExact ==
  ASSUME Typed, Cursor, RelsExact, WalksDone
  PROVE  RelsExact'
<1>1. /\ pc = "walk" /\ at.word > Len(words) /\ pc' = "group"
      /\ UNCHANGED <<m, words, inConfigs, closed, scanned, rels, groups>>
  BY DEF WalksDone
<1>2. at.word \in Nat /\ Len(words) \in Nat
  BY WordTyped DEF Typed
<1>3. \A w \in 1..Len(words) : w < at.word
  BY <1>1, <1>2
<1>4. \A w \in 1..Len(words) : \A k \in 1..Len(inConfigs) : Walked(w, k)' <=> Walked(w, k)
  BY <1>1, <1>3 DEF Walked
<1>5. QED
  BY <1>1, <1>4, DisplacedSame

LEMMA OtherExact ==
  ASSUME Typed, Cursor, RelsExact, WalkClose \/ WalkRead \/ Group \/ Finish \/ UNCHANGED vars
  PROVE  RelsExact'
<1>1. UNCHANGED <<m, words, inConfigs, rels>>
  BY DEF WalkClose, WalkRead, Walking, Group, Finish, vars
<1>2. \/ UNCHANGED <<pc, at>>
      \/ UNCHANGED pc /\ at' = [at EXCEPT !.read = @ + 1]
      \/ pc = "group" /\ pc' \in {"group", "done"}
  BY DEF WalkClose, WalkRead, Walking, Group, Finish, vars
<1>3. at \in [word : Nat, config : Nat, read : Nat]
  BY DEF Typed
<1>4. \A w \in 1..Len(words) : \A k \in 1..Len(inConfigs) : Walked(w, k)' <=> Walked(w, k)
  <2>1. CASE UNCHANGED <<pc, at>>
    BY <2>1 DEF Walked
  <2>2. CASE UNCHANGED pc /\ at' = [at EXCEPT !.read = @ + 1]
    <3>1. at'.word = at.word /\ at'.config = at.config
      BY <1>3, <2>2
    <3>2. QED
      BY <2>2, <3>1 DEF Walked
  <2>3. CASE pc = "group" /\ pc' \in {"group", "done"}
    BY <2>3 DEF Walked
  <2>4. QED
    BY <1>2, <2>1, <2>2, <2>3
<1>5. QED
  BY <1>1, <1>4, DisplacedSame

\* Before the walks begin nothing is joined.
LEMMA ReachExact ==
  ASSUME Typed, Cursor, Typed', RelsExact, ReachClose \/ ReachRead
  PROVE  RelsExact'
<1>1. pc = "reach" /\ UNCHANGED <<words, rels>> /\ (pc' = "reach" \/ (pc' = "walk" /\ at' = At(1, 1, 0)))
  <2>1. CASE ReachClose
    BY <2>1 DEF ReachClose
  <2>2. CASE ReachRead
    BY <2>2, InConfigsGrow
  <2>3. QED
    BY <2>1, <2>2
<1>2. \A w \in 1..Len(words) : ToSet(rels[w]) = {}
  BY <1>1 DEF RelsExact, Displaced, Walked
<1>3. \A w \in 1..Len(words) : \A k \in 1..Len(inConfigs') : ~Walked(w, k)'
  <2>1. Len(words) \in Nat /\ Len(inConfigs') \in Nat
    <3>1. inConfigs' \in Seq(Configs)
      BY DEF Typed
    <3>2. QED
      BY <3>1, WordTyped
  <2>2. At(1, 1, 0).word = 1 /\ At(1, 1, 0).config = 1
    BY DEF At
  <2>3. \A w \in 1..Len(words) : \A k \in 1..Len(inConfigs') : ~(w < 1) /\ ~(k < 1)
    BY <2>1
  <2>4. QED
    BY <1>1, <2>2, <2>3 DEF Walked
<1>4. \A w \in 1..Len(words) : Displaced(w)' = {}
  BY <1>1, <1>3 DEF Displaced
<1>5. QED
  BY <1>1, <1>2, <1>4 DEF RelsExact

DisplacementInv == Typed /\ Cursor /\ OnPaths /\ RelsExact

LEMMA GroupingPaths ==
  ASSUME pc' \notin {"reach", "walk"}
  PROVE  OnPaths'
  BY DEF OnPaths

LEMMA DisplacementInductive ==
  ASSUME DisplacementInv, [Next]_vars
  PROVE  DisplacementInv'
<1>1. Typed /\ Cursor /\ OnPaths /\ RelsExact
  BY DEF DisplacementInv
<1>2. CASE ReachClose
  <2>1. Typed' /\ Cursor'
    BY <1>1, <1>2, ReachCloseTyped
  <2>2. OnPaths'
    BY <1>2 DEF ReachClose, OnPaths
  <2>3. RelsExact'
    BY <1>1, <1>2, <2>1, ReachExact
  <2>4. QED
    BY <2>1, <2>2, <2>3 DEF DisplacementInv
<1>3. CASE ReachRead
  <2>1. Typed' /\ Cursor'
    BY <1>1, <1>3, ReachReadTyped
  <2>2. OnPaths'
    <3>1. \/ pc' = "reach"
          \/ pc' = "walk" /\ at' = At(1, 1, 0) /\ closed' = <<inConfigs'[1]>> /\ scanned' = 0
      BY <1>1, <1>3, InConfigsGrow
    <3>2. CASE pc' = "reach"
      BY <3>2 DEF OnPaths
    <3>3. CASE pc' = "walk" /\ at' = At(1, 1, 0) /\ closed' = <<inConfigs'[1]>> /\ scanned' = 0
      <4>1. at'.config = 1 /\ at'.read = 0
        BY <3>3 DEF At
      <4>2. QED
        BY <2>1, <3>3, <4>1, OneIsFrontier
    <3>4. QED
      BY <3>1, <3>2, <3>3
  <2>3. RelsExact'
    BY <1>1, <1>3, <2>1, ReachExact
  <2>4. QED
    BY <2>1, <2>2, <2>3 DEF DisplacementInv
<1>4. CASE WalkClose
  <2>1. Typed' /\ Cursor'
    BY <1>1, <1>4, WalkCloseTyped
  <2>2. OnPaths' /\ RelsExact'
    BY <1>1, <1>4, WalkClosePaths, OtherExact
  <2>3. QED
    BY <2>1, <2>2 DEF DisplacementInv
<1>5. CASE WalkRead
  <2>1. Typed' /\ Cursor'
    BY <1>1, <1>5, WalkReadTyped
  <2>2. OnPaths' /\ RelsExact'
    BY <1>1, <1>5, WalkReadPaths, OtherExact
  <2>3. QED
    BY <2>1, <2>2 DEF DisplacementInv
<1>6. ASSUME Walking, NextWalk, Typed', Cursor' PROVE OnPaths'
  <2>1. /\ pc' = "walk" /\ closed' = <<inConfigs'[at'.config]>> /\ scanned' = 0 /\ at'.read = 0
    BY <1>1, <1>6, NextStarts
  <2>2. QED
    BY <1>6, <2>1, OneIsFrontier
<1>7. CASE WalkDiverge
  <2>1. Typed' /\ Cursor'
    BY <1>1, <1>7, WalkDivergeTyped
  <2>2. OnPaths'
    BY <1>6, <1>7, <2>1 DEF WalkDiverge
  <2>3. RelsExact'
    BY <1>1, <1>7, WalkDivergeExact
  <2>4. QED
    BY <2>1, <2>2, <2>3 DEF DisplacementInv
<1>8. CASE WalkEnd
  <2>1. Typed' /\ Cursor'
    BY <1>1, <1>8, WalkEndTyped
  <2>2. OnPaths'
    BY <1>6, <1>8, <2>1 DEF WalkEnd
  <2>3. RelsExact'
    BY <1>1, <1>8, WalkEndExact
  <2>4. QED
    BY <2>1, <2>2, <2>3 DEF DisplacementInv
<1>9. CASE WalksDone \/ Group \/ Finish
  <2>1. Typed' /\ Cursor' /\ OnPaths'
    BY <1>1, <1>9, GroupingTyped, GroupingPaths
  <2>2. RelsExact'
    BY <1>1, <1>9, WalksDoneExact, OtherExact
  <2>3. QED
    BY <2>1, <2>2 DEF DisplacementInv
<1>10. CASE UNCHANGED vars
  <2>1. /\ m' = m /\ words' = words /\ pc' = pc /\ inConfigs' = inConfigs /\ at' = at
        /\ closed' = closed /\ scanned' = scanned /\ rels' = rels
    BY <1>10 DEF vars
  <2>2. Net' = Net /\ Word' = Word
    BY <2>1, NetSame DEF Word
  <2>3. Typed' /\ Cursor'
    BY <1>1, <2>1, <2>2 DEF Typed, Cursor
  <2>4. OnPaths'
    BY <1>1, <2>1, <2>2 DEF OnPaths, Frontier
  <2>5. RelsExact'
    BY <1>1, <1>10, OtherExact
  <2>6. QED
    BY <2>3, <2>4, <2>5 DEF DisplacementInv
<1>11. CASE Returned
  BY <1>10, <1>11 DEF Returned
<1>12. QED
  BY <1>2, <1>3, <1>4, <1>5, <1>7, <1>8, <1>9, <1>10, <1>11 DEF Next

LEMMA Invariantly == Spec => []DisplacementInv
<1>1. Init => DisplacementInv
  BY StartTyped, StartExact DEF DisplacementInv
<1>2. DisplacementInv /\ [Next]_vars => DisplacementInv'
  BY DisplacementInductive
<1>3. QED
  BY <1>1, <1>2, PTL DEF Spec

\* What a displacement holds once the walks are done.
DisplacementIsWalks ==
  pc \in {"group", "done"} =>
    \A w \in 1..Len(words) :
      ToSet(rels[w]) = {p \in Configs \X Configs : p[1] \in ToSet(inConfigs) /\ LeadsTo(p, w)}

LEMMA WalksAreDisplaced ==
  ASSUME DisplacementInv
  PROVE  DisplacementIsWalks
<1> SUFFICES ASSUME pc \in {"group", "done"}, NEW w \in 1..Len(words)
             PROVE  ToSet(rels[w]) = {p \in Configs \X Configs : p[1] \in ToSet(inConfigs) /\ LeadsTo(p, w)}
  BY DEF DisplacementIsWalks
<1>1. ToSet(rels[w]) = Displaced(w)
  BY DEF DisplacementInv, RelsExact
<1>2. ToSet(inConfigs) = {inConfigs[k] : k \in 1..Len(inConfigs)}
  <2>1. inConfigs \in Seq(Configs)
    BY DEF DisplacementInv, Typed
  <2>2. QED
    BY <2>1, Members
<1>3. \A k \in 1..Len(inConfigs) : Walked(w, k)
  BY DEF Walked
<1>4. Displaced(w) = {p \in Configs \X Configs : p[1] \in ToSet(inConfigs) /\ LeadsTo(p, w)}
  BY <1>2, <1>3 DEF Displaced
<1>5. QED
  BY <1>1, <1>4

\* The displacements returned, for every machine and all sequences: from each
\* in-configuration exactly what the paths of the machine that read the
\* sequence end at (displacement_from, displacement_many).
THEOREM DisplacementsAreWalks == Spec => []DisplacementIsWalks
<1>1. DisplacementInv => DisplacementIsWalks
  BY WalksAreDisplaced
<1>2. QED
  BY <1>1, Invariantly, PTL

\* Where the sequence x leads from c.
Outcomes(c, x) == Leads(Net, c, words[x], Len(words[x]))
\* The sequence x leads where u and then v do.
Chained(x, u, v) ==
  \A c \in Configs : \A e : e \in Outcomes(c, x) <=> \E d \in Outcomes(c, u) : e \in Outcomes(d, v)

LEMMA OutcomesThrough ==
  ASSUME Typed, NEW u \in 1..Len(words), NEW v \in 1..Len(words), NEW x \in 1..Len(words),
         words[x] = words[u] \o words[v]
  PROVE  Chained(x, u, v)
<1> DEFINE s == words[u]
           t == words[v]
<1>1. s \in Seq(Nat) /\ t \in Seq(Nat)
  BY WordTyped
<1> HIDE DEF s, t
<1>2. words[x] = s \o t
  BY DEF s, t
<1>3. ASSUME NEW c \in Configs
      PROVE  Leads(Net, c, s \o t, Len(s \o t)) = UNION {Leads(Net, d, t, Len(t)) : d \in Leads(Net, c, s, Len(s))}
  <2>1. Through(Net, c, s, t)
    BY <1>1, <1>3, LeadsThrough
  <2>2. QED
    BY <2>1 DEF Through
<1>4. ASSUME NEW c \in Configs, NEW e
      PROVE  e \in Leads(Net, c, s \o t, Len(s \o t))
               <=> \E d \in Leads(Net, c, s, Len(s)) : e \in Leads(Net, d, t, Len(t))
  BY <1>3, <1>4
<1>5. QED
  BY <1>2, <1>4 DEF Chained, Outcomes, s, t

LEMMA WalksCompose ==
  ASSUME Typed, DisplacementIsWalks
  PROVE  ComposeExact
<1> SUFFICES ASSUME pc = "done", NEW u \in DOMAIN words, NEW v \in DOMAIN words, NEW w \in DOMAIN words,
                    words[w] = words[u] \o words[v]
             PROVE  LET joined == Compose(rels[u], rels[v])
                    IN /\ joined \subseteq ToSet(rels[w])
                       /\ (\A p \in ToSet(rels[u]) : p[2] \in ToSet(inConfigs)) => joined = ToSet(rels[w])
  BY DEF ComposeExact
<1> DEFINE I == ToSet(inConfigs)
           L(c, x) == Leads(Net, c, words[x], Len(words[x]))
           R(x) == {p \in Configs \X Configs : p[1] \in I /\ p[2] \in L(p[1], x)}
<1>1. /\ u \in 1..Len(words) /\ v \in 1..Len(words) /\ w \in 1..Len(words)
      /\ words[u] \in Seq(Nat) /\ words[v] \in Seq(Nat)
  BY WordTyped
<1>2. ToSet(rels[u]) = R(u) /\ ToSet(rels[v]) = R(v) /\ ToSet(rels[w]) = R(w)
  BY <1>1 DEF DisplacementIsWalks, LeadsTo
<1>3. \A c \in Configs : \A e : e \in L(c, w) <=> \E d \in L(c, u) : e \in L(d, v)
  <2>1. Chained(w, u, v)
    BY <1>1, OutcomesThrough
  <2>2. QED
    BY <2>1 DEF Chained, Outcomes
<1> HIDE DEF I, L
<1> DEFINE J == Compose(rels[u], rels[v])
<1>4. J = {<<y[1][1], y[2][2]>> : y \in {x \in R(u) \X R(v) : x[1][2] = x[2][1]}}
  BY <1>2 DEF Compose
<1>5. ASSUME NEW q \in J PROVE q \in R(w)
  <2>1. PICK p \in R(u), r \in R(v) : p[2] = r[1] /\ q = <<p[1], r[2]>>
    <3> HIDE DEF R, J
    <3>1. PICK y \in {x \in R(u) \X R(v) : x[1][2] = x[2][1]} : q = <<y[1][1], y[2][2]>>
      BY <1>4
    <3>2. y[1] \in R(u) /\ y[2] \in R(v) /\ y[1][2] = y[2][1]
      OBVIOUS
    <3>3. QED
      BY <3>1, <3>2
  <2>2. /\ p[1] \in Configs /\ p[2] \in Configs /\ r[2] \in Configs
        /\ p[1] \in I /\ p[2] \in L(p[1], u) /\ r[2] \in L(p[2], v)
    BY <2>1
  <2>3. r[2] \in L(p[1], w)
    BY <1>3, <2>2
  <2>4. q \in Configs \X Configs /\ q[1] = p[1] /\ q[2] = r[2]
    BY <2>1, <2>2
  <2>5. QED
    BY <2>2, <2>3, <2>4
<1>6. ASSUME \A p \in R(u) : p[2] \in I, NEW q \in R(w) PROVE q \in J
  <2>1. /\ q \in Configs \X Configs /\ q[1] \in Configs /\ q[2] \in Configs /\ q = <<q[1], q[2]>>
        /\ q[1] \in I /\ q[2] \in L(q[1], w)
    OBVIOUS
  <2>2. PICK d \in L(q[1], u) : q[2] \in L(d, v)
    BY <1>3, <2>1
  <2>3. d \in Configs
    BY <2>2 DEF L, Leads
  <2> DEFINE p == <<q[1], d>>
             r == <<d, q[2]>>
             y == <<p, r>>
  <2>4. p \in R(u) /\ p[1] = q[1] /\ p[2] = d
    BY <2>1, <2>2, <2>3
  <2>5. d \in I
    <3> HIDE DEF R, p
    <3>1. QED
      BY <1>6, <2>4
  <2>6. r \in R(v) /\ r[1] = d /\ r[2] = q[2]
    BY <2>1, <2>2, <2>3, <2>5
  <2> HIDE DEF R, p, r
  <2>7. y \in R(u) \X R(v) /\ y[1][2] = y[2][1] /\ <<y[1][1], y[2][2]>> = q
    BY <2>1, <2>4, <2>6
  <2> HIDE DEF y, J
  <2>8. QED
    BY <1>4, <2>7
<1> HIDE DEF R, J
<1>7. J \subseteq ToSet(rels[w]) /\ ((\A p \in ToSet(rels[u]) : p[2] \in I) => J = ToSet(rels[w]))
  BY <1>2, <1>5, <1>6
<1>8. QED
  BY <1>7 DEF J, I

\* Displacements compose: what two sequences do, one after the other, is what
\* their concatenation does, unless the first leads out of the
\* in-configurations, and nothing is joined that it does not do
\* (displacement_compose).
THEOREM ComposeAlwaysExact == Spec => []ComposeExact
<1>1. DisplacementInv => ComposeExact
  BY WalksAreDisplaced, WalksCompose DEF DisplacementInv
<1>2. QED
  BY <1>1, Invariantly, PTL

----------------------------------------------------------------------------
(* The in-configurations.                                                  *)

\* The moves that reachable_in_configs keeps.
ShallowEdges(inputs) == {p \in Edges(inputs) : Shallow(p[2])}
ShallowNet == [eps |-> ShallowEdges(EpsOnly), on |-> ShallowEdges(Inputs)]
StartConfig == <<m.start, <<m.bottom>>>>

ReadsFrom(net, c) == {d \in Configs : \E e \in EpsStar(net, {c}) : <<e, d>> \in net.on}
\* The least set that holds first and all that is read from its members.
Stands(net, first) ==
  {d \in Configs : \A Y \in SUBSET Configs :
     first \in Y /\ (\A c \in Y : ReadsFrom(net, c) \subseteq Y) => d \in Y}

\* Behind the cursor all is read; the worklist is the closure of the entry at it.
BoundariesFound ==
  /\ NoTwice(inConfigs) /\ Len(inConfigs) >= 1 /\ inConfigs[1] = StartConfig
  /\ ToSet(inConfigs) \subseteq Stands(ShallowNet, StartConfig)
  /\ \A k \in 1..Len(inConfigs) : pc # "reach" \/ k < at.config =>
       ReadsFrom(ShallowNet, inConfigs[k]) \subseteq ToSet(inConfigs)
ClosesOne ==
  pc = "reach" =>
    /\ inConfigs[at.config] \in ToSet(closed)
    /\ ToSet(closed) \subseteq EpsStar(ShallowNet, {inConfigs[at.config]})
    /\ \A j \in 1..scanned : \A d \in Configs :
         <<closed[j], d>> \in ShallowNet.eps => d \in ToSet(closed)

LEMMA ShallowNetSame ==
  ASSUME m' = m
  PROVE  ShallowNet' = ShallowNet /\ StartConfig' = StartConfig
<1>1. StartConfig' = StartConfig
  BY DEF StartConfig
<1>2. \A inputs : Edges(inputs)' = Edges(inputs)
  BY DEF Edges, Moves, Applies, TopOf, AfterMove, Configs
<1>3. EpsOnly' = EpsOnly /\ Inputs' = Inputs
  BY DEF EpsOnly, EpsInput, Inputs
<1>4. ShallowNet' = ShallowNet
  BY <1>2, <1>3 DEF ShallowNet, ShallowEdges, Shallow
<1>5. QED
  BY <1>1, <1>4

LEMMA ShallowMoves ==
  ASSUME m \in Machines
  PROVE  /\ ShallowNet.eps \in SUBSET (Configs \X Configs)
         /\ \A c \in Configs :
              /\ {d \in ToSet(Moves(c, EpsOnly)) : Shallow(d)} = {d \in Configs : <<c, d>> \in ShallowNet.eps}
              /\ {d \in ToSet(Moves(c, Inputs)) : Shallow(d)} = {d \in Configs : <<c, d>> \in ShallowNet.on}
<1>1. ShallowNet.eps = ShallowEdges(EpsOnly) /\ ShallowNet.on = ShallowEdges(Inputs)
  BY DEF ShallowNet
<1>2. ASSUME NEW inputs, NEW c \in Configs
      PROVE  {d \in ToSet(Moves(c, inputs)) : Shallow(d)} = {d \in Configs : <<c, d>> \in ShallowEdges(inputs)}
  <2>1. Moves(c, inputs) \in Seq(Configs)
    BY MovesTyped
  <2>2. ToSet(Moves(c, inputs)) \subseteq Configs
    BY <2>1, Members
  <2>3. ASSUME NEW d \in Configs
        PROVE  <<c, d>> \in ShallowEdges(inputs) <=> d \in ToSet(Moves(c, inputs)) /\ Shallow(d)
    <3> DEFINE p == <<c, d>>
    <3>1. p \in Configs \X Configs /\ p[1] = c /\ p[2] = d
      OBVIOUS
    <3> HIDE DEF p
    <3>2. p \in ShallowEdges(inputs) <=> d \in ToSet(Moves(c, inputs)) /\ Shallow(d)
      BY <3>1 DEF ShallowEdges, Edges
    <3>3. QED
      BY <3>2 DEF p
  <2>4. QED
    BY <2>2, <2>3
<1>3. ShallowEdges(EpsOnly) \in SUBSET (Configs \X Configs)
  BY DEF ShallowEdges, Edges
<1>4. QED
  BY <1>1, <1>2, <1>3

LEMMA StartBoundaries ==
  ASSUME Init
  PROVE  BoundariesFound /\ ClosesOne
<1>1. /\ m \in Machines /\ pc = "reach" /\ at = At(1, 1, 0) /\ closed = inConfigs /\ scanned = 0
      /\ inConfigs = <<StartConfig>>
  BY DEF Init, StartConfig
<1>2. StartConfig \in Configs
  BY <1>1, Fields DEF StartConfig
<1>3. Len(inConfigs) = 1 /\ inConfigs[1] = StartConfig /\ ToSet(inConfigs) = {StartConfig}
  BY <1>1, <1>2, OneMember
<1>4. at.config = 1
  BY <1>1 DEF At
<1>5. NoTwice(inConfigs)
  BY <1>3 DEF NoTwice
<1>6. {StartConfig} \subseteq Stands(ShallowNet, StartConfig)
  BY <1>2 DEF Stands
<1>7. {StartConfig} \subseteq EpsStar(ShallowNet, {StartConfig})
  BY <1>2 DEF EpsStar
<1>8. 1..0 = {} /\ \A k \in 1..1 : ~(k < 1)
  OBVIOUS
<1>9. BoundariesFound
  BY <1>1, <1>3, <1>4, <1>5, <1>6, <1>8 DEF BoundariesFound
<1>10. ClosesOne
  BY <1>1, <1>3, <1>4, <1>7, <1>8 DEF ClosesOne
<1>11. QED
  BY <1>9, <1>10

LEMMA ReachCloseBoundaries ==
  ASSUME Typed, Cursor, BoundariesFound, ClosesOne, ReachClose
  PROVE  BoundariesFound' /\ ClosesOne'
<1> DEFINE c == closed[scanned + 1]
           found == Kept(Moves(c, EpsOnly))
           X == {inConfigs[at.config]}
<1>1. /\ pc = "reach" /\ scanned < Len(closed) /\ closed' = AppendNew(closed, found)
      /\ scanned' = scanned + 1 /\ UNCHANGED <<m, words, pc, inConfigs, at, rels, groups>>
  BY DEF ReachClose
<1>2. /\ closed' \in Seq(Configs) /\ ToSet(closed') = ToSet(closed) \cup ToSet(found)
      /\ Extends(closed', closed) /\ scanned + 1 \in 1..Len(closed)
  BY <1>1, Expanded
<1>3. /\ m \in Machines /\ Len(closed) \in Nat /\ scanned \in 0..Len(closed)
      /\ \A j \in 1..Len(closed) : closed[j] \in Configs
      /\ ToSet(closed) = {closed[j] : j \in 1..Len(closed)}
      /\ X \in SUBSET Configs
  <2>1. closed \in Seq(Configs) /\ scanned \in 0..Len(closed) /\ m \in Machines
    BY DEF Typed
  <2>2. ToSet(closed) = {closed[j] : j \in 1..Len(closed)}
    BY <2>1, Members
  <2>3. X \in SUBSET Configs
    BY <1>1, WordTyped DEF Cursor
  <2>4. QED
    BY <2>1, <2>2, <2>3, WordTyped
<1>4. c \in Configs /\ c \in ToSet(closed)
  BY <1>2, <1>3
<1>5. ToSet(found) = {d \in Configs : <<c, d>> \in ShallowNet.eps}
  <2> HIDE DEF c
  <2>1. Moves(c, EpsOnly) \in Seq(Configs)
    BY <1>3, <1>4, MovesTyped
  <2>2. ToSet(found) = {d \in ToSet(Moves(c, EpsOnly)) : Shallow(d)}
    BY <2>1, KeptMembers
  <2>3. QED
    BY <1>3, <1>4, <2>2, ShallowMoves
<1>6. ShallowNet' = ShallowNet /\ StartConfig' = StartConfig
  BY <1>1, ShallowNetSame
<1>7. /\ inConfigs[at.config] \in ToSet(closed) /\ ToSet(closed) \subseteq EpsStar(ShallowNet, X)
      /\ \A j \in 1..scanned : \A d \in Configs : <<closed[j], d>> \in ShallowNet.eps => d \in ToSet(closed)
  BY <1>1 DEF ClosesOne
<1>8. EpsClosed(ShallowNet, EpsStar(ShallowNet, X))
  BY <1>3, ShallowMoves, StarLeast
<1> HIDE DEF found, X
<1>9. ToSet(found) \subseteq EpsStar(ShallowNet, X)
  <2>1. c \in EpsStar(ShallowNet, X)
    BY <1>4, <1>7
  <2> HIDE DEF c
  <2>2. ASSUME NEW d \in ToSet(found) PROVE d \in EpsStar(ShallowNet, X)
    <3> DEFINE p == <<c, d>>
    <3>1. p \in ShallowNet.eps /\ p[1] = c /\ p[2] = d
      BY <1>5
    <3> HIDE DEF p
    <3>2. QED
      BY <1>8, <2>1, <3>1 DEF EpsClosed
  <2>3. QED
    BY <2>2
<1>10. inConfigs[at.config] \in ToSet(closed') /\ ToSet(closed') \subseteq EpsStar(ShallowNet, X)
  BY <1>2, <1>7, <1>9
<1>11. ASSUME NEW j \in 1..(scanned + 1), NEW d \in Configs, <<closed'[j], d>> \in ShallowNet.eps
       PROVE  d \in ToSet(closed')
  <2>1. j \in 1..Len(closed) /\ (j \in 1..scanned \/ j = scanned + 1)
    BY <1>2, <1>3
  <2>2. closed'[j] = closed[j]
    BY <1>2, <2>1 DEF Extends
  <2>3. CASE j \in 1..scanned
    BY <1>2, <1>7, <1>11, <2>2, <2>3
  <2>4. CASE j = scanned + 1
    <3>1. closed'[j] = c
      BY <2>2, <2>4
    <3> HIDE DEF c
    <3>2. QED
      BY <1>2, <1>5, <1>11, <3>1
  <2>5. QED
    BY <2>1, <2>3, <2>4
<1>12. ClosesOne'
  BY <1>1, <1>6, <1>10, <1>11 DEF ClosesOne, X
<1>13. BoundariesFound'
  BY <1>1, <1>6 DEF BoundariesFound
<1>14. QED
  BY <1>12, <1>13

\* The worklist expanded, its moves are all that is read from the entry.
LEMMA ReadFromEntry ==
  ASSUME Typed, Cursor, ClosesOne, pc = "reach", scanned = Len(closed)
  PROVE  {d \in UNION {ToSet(Moves(e, Inputs)) : e \in ToSet(closed)} : Shallow(d)}
           = ReadsFrom(ShallowNet, inConfigs[at.config])
<1> DEFINE X == {inConfigs[at.config]}
<1>1. m \in Machines /\ closed \in Seq(Configs)
  BY DEF Typed
<1>2. X \in SUBSET Configs
  BY WordTyped DEF Cursor
<1>3. ShallowNet.eps \in SUBSET (Configs \X Configs)
  BY <1>1, ShallowMoves
<1>4. ToSet(closed) = {closed[j] : j \in 1..Len(closed)} /\ ToSet(closed) \subseteq Configs
  BY <1>1, Members
<1>5. /\ X \subseteq ToSet(closed) /\ ToSet(closed) \subseteq EpsStar(ShallowNet, X)
      /\ \A j \in 1..Len(closed) : \A d \in Configs :
           <<closed[j], d>> \in ShallowNet.eps => d \in ToSet(closed)
  BY DEF ClosesOne
<1> HIDE DEF X
<1>6. ASSUME NEW p \in ShallowNet.eps, p[1] \in ToSet(closed) PROVE p[2] \in ToSet(closed)
  <2>1. p[1] \in Configs /\ p[2] \in Configs /\ p = <<p[1], p[2]>>
    BY <1>3
  <2>2. PICK j \in 1..Len(closed) : p[1] = closed[j]
    BY <1>4, <1>6
  <2>3. <<closed[j], p[2]>> \in ShallowNet.eps
    BY <2>1, <2>2
  <2>4. QED
    BY <1>5, <2>1, <2>3
<1>7. EpsClosed(ShallowNet, ToSet(closed))
  BY <1>6 DEF EpsClosed
<1>8. ToSet(closed) = EpsStar(ShallowNet, X)
  BY <1>2, <1>3, <1>4, <1>5, <1>7, StarReached
<1>9. \A e \in ToSet(closed) : {d \in ToSet(Moves(e, Inputs)) : Shallow(d)}
                                 = {d \in Configs : <<e, d>> \in ShallowNet.on}
  BY <1>1, <1>4, ShallowMoves
<1>10. ReadsFrom(ShallowNet, inConfigs[at.config])
         = {d \in Configs : \E e \in ToSet(closed) : <<e, d>> \in ShallowNet.on}
  BY <1>8 DEF ReadsFrom, X
<1>11. ASSUME NEW d
       PROVE  (\E e \in ToSet(closed) : d \in ToSet(Moves(e, Inputs)) /\ Shallow(d))
                <=> d \in Configs /\ \E e \in ToSet(closed) : <<e, d>> \in ShallowNet.on
  <2>1. \A e \in ToSet(closed) : d \in ToSet(Moves(e, Inputs)) /\ Shallow(d)
                                   <=> d \in Configs /\ <<e, d>> \in ShallowNet.on
    BY <1>9
  <2>2. QED
    BY <2>1
<1>12. QED
  BY <1>10, <1>11

LEMMA StandsClosed ==
  ASSUME NEW net, NEW first, NEW c \in Stands(net, first)
  PROVE  ReadsFrom(net, c) \subseteq Stands(net, first)
<1> SUFFICES ASSUME NEW d \in ReadsFrom(net, c) PROVE d \in Stands(net, first)
  OBVIOUS
<1>1. d \in Configs
  BY DEF ReadsFrom
<1>2. ASSUME NEW Y \in SUBSET Configs, first \in Y, \A e \in Y : ReadsFrom(net, e) \subseteq Y
      PROVE  d \in Y
  <2>1. c \in Y
    BY <1>2 DEF Stands
  <2>2. QED
    BY <1>2, <2>1
<1>3. QED
  BY <1>1, <1>2 DEF Stands

LEMMA ReachReadBoundaries ==
  ASSUME Typed, Cursor, BoundariesFound, ClosesOne, ReachRead, Typed', Cursor'
  PROVE  BoundariesFound' /\ ClosesOne'
<1>1. /\ pc = "reach" /\ scanned = Len(closed)
      /\ inConfigs' \in Seq(Configs) /\ Len(inConfigs') \in Nat
      /\ Extends(inConfigs', inConfigs)
      /\ ToSet(inConfigs') = ToSet(inConfigs) \cup
           {d \in UNION {ToSet(Moves(e, Inputs)) : e \in ToSet(closed)} : Shallow(d)}
      /\ (NoTwice(inConfigs) => NoTwice(inConfigs'))
      /\ scanned' = 0 /\ UNCHANGED <<m, words, rels, groups>>
      /\ \/ /\ at.config + 1 \in 1..Len(inConfigs') /\ pc' = "reach" /\ at' = At(1, at.config + 1, 0)
            /\ closed' = <<inConfigs'[at.config + 1]>>
         \/ /\ pc' = "walk" /\ at' = At(1, 1, 0) /\ closed' = <<inConfigs'[1]>>
            /\ at.config = Len(inConfigs')
      /\ at.config \in 1..Len(inConfigs) /\ 1 \in 1..Len(inConfigs')
  BY InConfigsGrow
<1>2. ShallowNet' = ShallowNet /\ StartConfig' = StartConfig
  BY <1>1, ShallowNetSame
<1> DEFINE c == inConfigs[at.config]
           read == ReadsFrom(ShallowNet, c)
<1>3. ToSet(inConfigs') = ToSet(inConfigs) \cup read
  BY <1>1, ReadFromEntry
<1>4. /\ inConfigs \in Seq(Configs) /\ Len(inConfigs) \in Nat
      /\ \A k \in 1..Len(inConfigs) : inConfigs[k] \in Configs
      /\ ToSet(inConfigs) = {inConfigs[k] : k \in 1..Len(inConfigs)}
      /\ ToSet(inConfigs) \subseteq Configs
  <2>1. inConfigs \in Seq(Configs)
    BY DEF Typed
  <2>2. QED
    BY <2>1, Members, WordTyped
<1>5. /\ Len(inConfigs) <= Len(inConfigs')
      /\ \A k \in 1..Len(inConfigs) : inConfigs'[k] = inConfigs[k]
  BY <1>1 DEF Extends
<1>6. /\ NoTwice(inConfigs) /\ Len(inConfigs) >= 1 /\ inConfigs[1] = StartConfig
      /\ ToSet(inConfigs) \subseteq Stands(ShallowNet, StartConfig)
      /\ \A k \in 1..Len(inConfigs) : k < at.config =>
           ReadsFrom(ShallowNet, inConfigs[k]) \subseteq ToSet(inConfigs)
  BY <1>1 DEF BoundariesFound
<1>7. /\ NoTwice(inConfigs') /\ Len(inConfigs') >= 1 /\ inConfigs'[1] = StartConfig
  <2>1. 1 \in 1..Len(inConfigs)
    BY <1>4, <1>6
  <2>2. QED
    BY <1>1, <1>4, <1>5, <1>6, <2>1
<1>8. ToSet(inConfigs') \subseteq Stands(ShallowNet, StartConfig)
  <2>1. c \in Stands(ShallowNet, StartConfig)
    BY <1>1, <1>4, <1>6
  <2> HIDE DEF c
  <2>2. QED
    BY <1>3, <1>6, <2>1, StandsClosed
<1>9. ASSUME NEW k \in 1..Len(inConfigs'), k <= at.config
      PROVE  ReadsFrom(ShallowNet, inConfigs'[k]) \subseteq ToSet(inConfigs')
  <2>1. k \in 1..Len(inConfigs) /\ (k < at.config \/ k = at.config)
    BY <1>1, <1>4, <1>9
  <2>2. inConfigs'[k] = inConfigs[k]
    BY <1>5, <2>1
  <2>3. CASE k < at.config
    BY <1>3, <1>6, <2>1, <2>2, <2>3
  <2>4. CASE k = at.config
    BY <1>3, <2>2, <2>4
  <2>5. QED
    BY <2>1, <2>3, <2>4
<1>10. \A k \in 1..Len(inConfigs') : pc' # "reach" \/ k < at'.config => k <= at.config
  <2>1. At(1, at.config + 1, 0).config = at.config + 1
    BY DEF At
  <2>2. at.config \in Nat
    BY <1>1, <1>4
  <2>3. CASE pc' = "reach" /\ at' = At(1, at.config + 1, 0)
    BY <2>1, <2>2, <2>3
  <2>4. CASE at.config = Len(inConfigs')
    BY <1>1, <2>4
  <2>5. QED
    BY <1>1, <2>3, <2>4
<1> HIDE DEF c, read
<1>11. BoundariesFound'
  BY <1>2, <1>7, <1>8, <1>9, <1>10 DEF BoundariesFound
<1>12. ASSUME pc' = "reach" PROVE ClosesOne'
  <2> DEFINE e == inConfigs'[at'.config]
  <2>1. at'.config = at.config + 1 /\ closed' = <<inConfigs'[at'.config]>>
    BY <1>1, <1>12 DEF At
  <2>2. e \in Configs
    <3>1. \A k \in 1..Len(inConfigs') : inConfigs'[k] \in Configs
      BY <1>1
    <3>2. at'.config \in 1..Len(inConfigs')
      BY <1>12 DEF Cursor
    <3>3. QED
      BY <3>1, <3>2
  <2> HIDE DEF e
  <2>3. closed' = <<e>>
    BY <2>1 DEF e
  <2>4. ToSet(closed') = {e}
    BY <2>2, <2>3, OneMember
  <2>5. {e} \subseteq EpsStar(ShallowNet, {e})
    BY <2>2 DEF EpsStar
  <2>6. 1..0 = {}
    OBVIOUS
  <2>7. QED
    BY <1>1, <1>2, <2>4, <2>5, <2>6 DEF ClosesOne, e
<1>13. ClosesOne'
  BY <1>12 DEF ClosesOne
<1>14. QED
  BY <1>11, <1>13

\* The walks read the in-configurations only.
LEMMA LaterBoundaries ==
  ASSUME BoundariesFound, ClosesOne, m' = m, inConfigs' = inConfigs, pc # "reach", pc' # "reach"
  PROVE  BoundariesFound' /\ ClosesOne'
<1>1. ShallowNet' = ShallowNet /\ StartConfig' = StartConfig
  BY ShallowNetSame
<1>2. QED
  BY <1>1 DEF BoundariesFound, ClosesOne

BoundaryInv == Typed /\ Cursor /\ BoundariesFound /\ ClosesOne

LEMMA BoundaryInductive ==
  ASSUME BoundaryInv, Typed', Cursor', [Next]_vars
  PROVE  BoundaryInv'
<1>1. Typed /\ Cursor /\ BoundariesFound /\ ClosesOne
  BY DEF BoundaryInv
<1>2. CASE ReachClose
  BY <1>1, <1>2, ReachCloseBoundaries DEF BoundaryInv
<1>3. CASE ReachRead
  BY <1>1, <1>3, ReachReadBoundaries DEF BoundaryInv
<1>4. CASE WalkClose \/ WalkRead \/ WalkDiverge \/ WalkEnd
  <2>1. m' = m /\ inConfigs' = inConfigs /\ pc # "reach" /\ pc' # "reach"
    BY <1>4 DEF WalkClose, WalkRead, WalkDiverge, WalkEnd, Walking
  <2>2. QED
    BY <1>1, <2>1, LaterBoundaries DEF BoundaryInv
<1>5. CASE WalksDone \/ Group \/ Finish
  <2>1. m' = m /\ inConfigs' = inConfigs /\ pc # "reach" /\ pc' # "reach"
    BY <1>1, <1>5, GroupingTyped
  <2>2. QED
    BY <1>1, <2>1, LaterBoundaries DEF BoundaryInv
<1>6. CASE UNCHANGED vars
  <2>1. /\ m' = m /\ pc' = pc /\ inConfigs' = inConfigs /\ at' = at
        /\ closed' = closed /\ scanned' = scanned
    BY <1>6 DEF vars
  <2>2. ShallowNet' = ShallowNet /\ StartConfig' = StartConfig
    BY <2>1, ShallowNetSame
  <2>3. BoundariesFound' /\ ClosesOne'
    BY <1>1, <2>1, <2>2 DEF BoundariesFound, ClosesOne
  <2>4. QED
    BY <2>3 DEF BoundaryInv
<1>7. CASE Returned
  BY <1>6, <1>7 DEF Returned
<1>8. QED
  BY <1>2, <1>3, <1>4, <1>5, <1>6, <1>7 DEF Next

\* What reachable_in_configs returns.
BoundariesAreReached ==
  pc # "reach" =>
    NoTwice(inConfigs) /\ ToSet(inConfigs) = Stands(ShallowNet, StartConfig)

LEMMA BoundariesAllFound ==
  ASSUME BoundaryInv
  PROVE  BoundariesAreReached
<1> SUFFICES ASSUME pc # "reach"
             PROVE  NoTwice(inConfigs) /\ ToSet(inConfigs) = Stands(ShallowNet, StartConfig)
  BY DEF BoundariesAreReached
<1>1. /\ NoTwice(inConfigs) /\ Len(inConfigs) >= 1 /\ inConfigs[1] = StartConfig
      /\ ToSet(inConfigs) \subseteq Stands(ShallowNet, StartConfig)
      /\ \A k \in 1..Len(inConfigs) : ReadsFrom(ShallowNet, inConfigs[k]) \subseteq ToSet(inConfigs)
  BY DEF BoundaryInv, BoundariesFound
<1>2. /\ Len(inConfigs) \in Nat /\ ToSet(inConfigs) = {inConfigs[k] : k \in 1..Len(inConfigs)}
      /\ ToSet(inConfigs) \subseteq Configs
  <2>1. inConfigs \in Seq(Configs)
    BY DEF BoundaryInv, Typed
  <2>2. QED
    BY <2>1, Members
<1>3. StartConfig \in ToSet(inConfigs)
  <2>1. 1 \in 1..Len(inConfigs)
    BY <1>1, <1>2
  <2>2. QED
    BY <1>1, <1>2, <2>1
<1>4. \A c \in ToSet(inConfigs) : ReadsFrom(ShallowNet, c) \subseteq ToSet(inConfigs)
  BY <1>1, <1>2
<1>5. Stands(ShallowNet, StartConfig) \subseteq ToSet(inConfigs)
  BY <1>2, <1>3, <1>4 DEF Stands
<1>6. QED
  BY <1>1, <1>5

\* The in-configurations, for every machine: each once, the start and all that
\* is read within the cap from one of them, and nothing else
\* (reachable_in_configs).
THEOREM InConfigsAreReached == Spec => []BoundariesAreReached
<1>1. Init => BoundaryInv
  BY StartTyped, StartBoundaries DEF BoundaryInv
<1>2. BoundaryInv /\ DisplacementInv' /\ [Next]_vars => BoundaryInv'
  <2>1. DisplacementInv' => Typed' /\ Cursor'
    BY DEF DisplacementInv
  <2>2. QED
    BY <2>1, BoundaryInductive
<1>3. BoundaryInv => BoundariesAreReached
  BY BoundariesAllFound
<1>4. QED
  BY <1>1, <1>2, <1>3, Invariantly, PTL DEF Spec

----------------------------------------------------------------------------
(* The groups.                                                             *)

Grouped == {w \in 1..Len(words) : pc = "done" \/ (pc = "group" /\ w < at.word)}
First(k) == groups[k][1]

GroupsHoldEquals ==
  /\ pc = "group" => at.word \in 1..(Len(words) + 1)
  /\ pc \in {"reach", "walk"} => groups = <<>>
  /\ groups \in Seq(Seq(Nat))
  /\ \A k \in 1..Len(groups) :
       Len(groups[k]) >= 1 /\ \A w \in ToSet(groups[k]) : w \in Grouped /\ rels[w] = rels[First(k)]
  /\ \A w \in Grouped : \E k \in 1..Len(groups) : w \in ToSet(groups[k])
  /\ \A k, l \in 1..Len(groups) : rels[First(k)] = rels[First(l)] => k = l

LEMMA StartGroups ==
  ASSUME Init
  PROVE  GroupsHoldEquals
<1>1. pc = "reach" /\ groups = <<>>
  BY DEF Init
<1>2. <<>> \in Seq(Seq(Nat)) /\ Len(<<>>) = 0 /\ 1..0 = {}
  OBVIOUS
<1>3. Grouped = {}
  BY <1>1 DEF Grouped
<1>4. QED
  BY <1>1, <1>2, <1>3 DEF GroupsHoldEquals

LEMMA GroupMembers ==
  ASSUME Typed, GroupsHoldEquals
  PROVE  /\ Len(groups) \in Nat /\ DOMAIN groups = 1..Len(groups)
         /\ \A k \in 1..Len(groups) :
              /\ groups[k] \in Seq(Nat) /\ 1 \in 1..Len(groups[k]) /\ First(k) \in ToSet(groups[k])
              /\ First(k) \in Nat
<1>1. groups \in Seq(Seq(Nat)) /\ \A k \in 1..Len(groups) : Len(groups[k]) >= 1
  BY DEF GroupsHoldEquals
<1>2. Len(groups) \in Nat /\ DOMAIN groups = 1..Len(groups) /\ \A k \in 1..Len(groups) : groups[k] \in Seq(Nat)
  BY <1>1
<1>3. ASSUME NEW k \in 1..Len(groups)
      PROVE  1 \in 1..Len(groups[k]) /\ groups[k][1] \in ToSet(groups[k]) /\ groups[k][1] \in Nat
  <2> DEFINE g == groups[k]
  <2>1. g \in Seq(Nat) /\ Len(g) >= 1
    BY <1>1, <1>2
  <2> HIDE DEF g
  <2>2. Len(g) \in Nat /\ ToSet(g) = {g[i] : i \in 1..Len(g)} /\ ToSet(g) \subseteq Nat
    BY <2>1, Members
  <2>3. 1 \in 1..Len(g)
    BY <2>1, <2>2
  <2>4. g[1] \in ToSet(g) /\ g[1] \in Nat
    BY <2>2, <2>3
  <2>5. QED
    BY <2>3, <2>4 DEF g
<1>4. QED
  BY <1>2, <1>3 DEF First

\* A new list of its own.
LEMMA GroupAlone ==
  ASSUME Typed, GroupsHoldEquals, Group, SameAs(at.word) = {}
  PROVE  GroupsHoldEquals'
<1> DEFINE n == at.word
           g == <<n>>
           last == Len(groups) + 1
<1>1. /\ pc = "group" /\ n <= Len(words) /\ groups' = Append(groups, g) /\ at' = At(n + 1, 1, 0)
      /\ UNCHANGED <<m, words, pc, inConfigs, closed, scanned, rels>>
  BY DEF Group
<1>2. /\ Len(groups) \in Nat /\ DOMAIN groups = 1..Len(groups) /\ groups \in Seq(Seq(Nat))
      /\ \A k \in 1..Len(groups) : groups[k] \in Seq(Nat) /\ First(k) \in ToSet(groups[k])
  BY GroupMembers DEF GroupsHoldEquals
<1>3. n \in 1..Len(words) /\ n \in Nat /\ Len(words) \in Nat /\ n + 1 \in 1..(Len(words) + 1)
  <2>1. n \in 1..(Len(words) + 1) /\ Len(words) \in Nat
    BY <1>1, WordTyped DEF GroupsHoldEquals
  <2>2. QED
    BY <1>1, <2>1
<1>4. g \in Seq(Nat) /\ Len(g) = 1 /\ g[1] = n /\ ToSet(g) = {n}
  <2>1. n \in Nat
    BY <1>3
  <2> HIDE DEF n
  <2>2. QED
    BY <2>1, OneMember
<1>5. at'.word = n + 1
  BY <1>1 DEF At
<1> HIDE DEF g
<1>6. /\ groups' \in Seq(Seq(Nat)) /\ Len(groups') = last /\ groups'[last] = g
      /\ \A k \in 1..Len(groups) : groups'[k] = groups[k]
  BY <1>1, <1>2, <1>4
<1> HIDE DEF n
<1>7. Grouped' = Grouped \cup {n}
  <2>1. \A w \in 1..Len(words) : w < n + 1 <=> w < n \/ w = n
    BY <1>3
  <2>2. Grouped' = {w \in 1..Len(words) : w < n + 1} /\ Grouped = {w \in 1..Len(words) : w < n}
    BY <1>1, <1>5 DEF Grouped, n
  <2>3. QED
    BY <1>3, <2>1, <2>2
<1>8. \A k \in 1..Len(groups) : groups'[k][1] = First(k)
  BY <1>6 DEF First
<1>9. groups'[last][1] = n
  BY <1>4, <1>6
<1>10. \A k \in 1..Len(groups) : rels[First(k)] # rels[n]
  BY <1>2 DEF SameAs, First, n
<1>11. \A k \in 1..Len(groups') : k \in 1..Len(groups) \/ k = last
  BY <1>2, <1>6
<1>12. last \in 1..Len(groups') /\ \A k \in 1..Len(groups) : k \in 1..Len(groups')
  BY <1>2, <1>6
<1>13. /\ \A k \in 1..Len(groups) :
            Len(groups[k]) >= 1 /\ \A w \in ToSet(groups[k]) : w \in Grouped /\ rels[w] = rels[First(k)]
       /\ \A w \in Grouped : \E k \in 1..Len(groups) : w \in ToSet(groups[k])
       /\ \A k, l \in 1..Len(groups) : rels[First(k)] = rels[First(l)] => k = l
  BY DEF GroupsHoldEquals
<1> HIDE DEF last
<1>14. ASSUME NEW k \in 1..Len(groups')
       PROVE  Len(groups'[k]) >= 1 /\ \A w \in ToSet(groups'[k]) : w \in Grouped' /\ rels[w] = rels[groups'[k][1]]
  <2>1. CASE k \in 1..Len(groups)
    <3>1. groups'[k] = groups[k] /\ groups'[k][1] = First(k)
      BY <1>6, <1>8, <2>1
    <3>2. Len(groups[k]) >= 1 /\ \A w \in ToSet(groups[k]) : w \in Grouped /\ rels[w] = rels[First(k)]
      BY <1>13, <2>1
    <3>3. QED
      BY <1>7, <3>1, <3>2
  <2>2. CASE k = last
    <3>1. groups'[k] = g /\ groups'[k][1] = n
      BY <1>6, <1>9, <2>2
    <3>2. Len(g) >= 1 /\ ToSet(g) = {n}
      BY <1>4
    <3>3. QED
      BY <1>7, <3>1, <3>2
  <2>3. QED
    BY <1>11, <2>1, <2>2
<1>15. ASSUME NEW w \in Grouped' PROVE \E k \in 1..Len(groups') : w \in ToSet(groups'[k])
  <2>1. CASE w \in Grouped
    <3>1. PICK k \in 1..Len(groups) : w \in ToSet(groups[k])
      BY <1>13, <2>1
    <3>2. k \in 1..Len(groups') /\ groups'[k] = groups[k]
      BY <1>6, <1>12
    <3>3. QED
      BY <3>1, <3>2
  <2>2. CASE w = n
    <3>1. w \in ToSet(groups'[last])
      BY <1>4, <1>6, <2>2
    <3>2. QED
      BY <1>12, <3>1
  <2>3. QED
    BY <1>7, <2>1, <2>2
<1>16. ASSUME NEW k \in 1..Len(groups'), NEW l \in 1..Len(groups'), rels[groups'[k][1]] = rels[groups'[l][1]]
       PROVE  k = l
  <2>1. CASE k \in 1..Len(groups) /\ l \in 1..Len(groups)
    BY <1>8, <1>13, <1>16, <2>1
  <2>2. CASE k = last /\ l \in 1..Len(groups)
    BY <1>8, <1>9, <1>10, <1>16, <2>2
  <2>3. CASE k \in 1..Len(groups) /\ l = last
    BY <1>8, <1>9, <1>10, <1>16, <2>3
  <2>4. QED
    BY <1>11, <2>1, <2>2, <2>3
<1>17. pc' = "group" /\ at'.word \in 1..(Len(words') + 1) /\ rels' = rels
  BY <1>1, <1>3, <1>5 DEF n
<1>18. groups' \in Seq(Seq(Nat))
  BY <1>6
<1>19. QED
  BY <1>14, <1>15, <1>16, <1>17, <1>18 DEF GroupsHoldEquals, First

\* The list of the sequences with this displacement, one longer.
LEMMA GroupJoined ==
  ASSUME Typed, GroupsHoldEquals, Group, SameAs(at.word) # {}
  PROVE  GroupsHoldEquals'
<1> DEFINE n == at.word
           Least(k) == k \in SameAs(at.word) /\ \A l \in SameAs(at.word) : k <= l
           f == CHOOSE k \in SameAs(at.word) : \A l \in SameAs(at.word) : k <= l
           g == Append(groups[f], n)
<1>1. /\ pc = "group" /\ n <= Len(words) /\ groups' = [groups EXCEPT ![f] = g] /\ at' = At(n + 1, 1, 0)
      /\ UNCHANGED <<m, words, pc, inConfigs, closed, scanned, rels>>
  BY DEF Group
<1>2. /\ Len(groups) \in Nat /\ DOMAIN groups = 1..Len(groups) /\ groups \in Seq(Seq(Nat))
      /\ \A k \in 1..Len(groups) : groups[k] \in Seq(Nat) /\ First(k) \in ToSet(groups[k]) /\ 1 \in 1..Len(groups[k])
  BY GroupMembers DEF GroupsHoldEquals
<1>3. n \in 1..Len(words) /\ n \in Nat /\ Len(words) \in Nat /\ n + 1 \in 1..(Len(words) + 1)
  <2>1. n \in 1..(Len(words) + 1) /\ Len(words) \in Nat
    BY <1>1, WordTyped DEF GroupsHoldEquals
  <2>2. QED
    BY <1>1, <2>1
<1>4. /\ \A k \in 1..Len(groups) :
            Len(groups[k]) >= 1 /\ \A w \in ToSet(groups[k]) : w \in Grouped /\ rels[w] = rels[First(k)]
      /\ \A w \in Grouped : \E k \in 1..Len(groups) : w \in ToSet(groups[k])
      /\ \A k, l \in 1..Len(groups) : rels[First(k)] = rels[First(l)] => k = l
  BY DEF GroupsHoldEquals
<1>5. f \in SameAs(at.word)
  <2>1. PICK k \in SameAs(at.word) : TRUE
    OBVIOUS
  <2>2. \A l \in SameAs(at.word) : l = k
    BY <1>2, <1>4 DEF SameAs, First
  <2>3. k \in Nat
    BY <1>2 DEF SameAs
  <2>4. \A l \in SameAs(at.word) : k <= l
    BY <2>2, <2>3
  <2>5. QED
    BY <2>4
<1>6. f \in 1..Len(groups) /\ rels[First(f)] = rels[n]
  BY <1>2, <1>5 DEF SameAs, First
<1>7. at'.word = n + 1
  BY <1>1 DEF At
<1> HIDE DEF f
<1>8. /\ g \in Seq(Nat) /\ Len(g) >= 1 /\ g[1] = First(f) /\ ToSet(g) = ToSet(groups[f]) \cup {n}
  <2> DEFINE s == groups[f]
  <2>1. s \in Seq(Nat) /\ n \in Nat /\ 1 \in 1..Len(s)
    BY <1>2, <1>3, <1>6
  <2> HIDE DEF s, n
  <2>2. Append(s, n) \in Seq(Nat) /\ ToSet(Append(s, n)) = ToSet(s) \cup {n}
    BY <2>1, OneMore
  <2>3. Len(Append(s, n)) = Len(s) + 1 /\ Len(s) \in Nat /\ Append(s, n)[1] = s[1]
    BY <2>1
  <2>4. Len(Append(s, n)) >= 1
    BY <2>3
  <2>5. QED
    BY <2>2, <2>3, <2>4 DEF s, First
<1> HIDE DEF g
<1>9. /\ groups' \in Seq(Seq(Nat)) /\ Len(groups') = Len(groups) /\ groups'[f] = g
      /\ \A k \in 1..Len(groups) : k # f => groups'[k] = groups[k]
  BY <1>1, <1>2, <1>6, <1>8
<1> HIDE DEF n
<1>10. Grouped' = Grouped \cup {n}
  <2>1. \A w \in 1..Len(words) : w < n + 1 <=> w < n \/ w = n
    BY <1>3
  <2>2. Grouped' = {w \in 1..Len(words) : w < n + 1} /\ Grouped = {w \in 1..Len(words) : w < n}
    BY <1>1, <1>7 DEF Grouped, n
  <2>3. QED
    BY <1>3, <2>1, <2>2
<1>11. \A k \in 1..Len(groups) : groups'[k][1] = First(k)
  <2>1. ASSUME NEW k \in 1..Len(groups) PROVE groups'[k][1] = groups[k][1]
    <3>1. CASE k = f
      BY <1>8, <1>9, <3>1 DEF First
    <3>2. CASE k # f
      BY <1>9, <3>2
    <3>3. QED
      BY <3>1, <3>2
  <2>2. QED
    BY <2>1 DEF First
<1>12. ASSUME NEW k \in 1..Len(groups)
       PROVE  Len(groups'[k]) >= 1 /\ \A w \in ToSet(groups'[k]) : w \in Grouped' /\ rels[w] = rels[First(k)]
  <2>1. CASE k = f
    BY <1>4, <1>6, <1>8, <1>9, <1>10, <2>1
  <2>2. CASE k # f
    BY <1>4, <1>9, <1>10, <2>2
  <2>3. QED
    BY <2>1, <2>2
<1>13. ASSUME NEW w \in Grouped' PROVE \E k \in 1..Len(groups) : w \in ToSet(groups'[k])
  <2>1. CASE w \in Grouped
    <3>1. PICK k \in 1..Len(groups) : w \in ToSet(groups[k])
      BY <1>4, <2>1
    <3>2. ToSet(groups[k]) \subseteq ToSet(groups'[k])
      BY <1>8, <1>9
    <3>3. QED
      BY <3>1, <3>2
  <2>2. CASE w = n
    BY <1>6, <1>8, <1>9, <2>2
  <2>3. QED
    BY <1>10, <2>1, <2>2
<1>14. pc' = "group" /\ at'.word \in 1..(Len(words') + 1) /\ rels' = rels
  BY <1>1, <1>3, <1>7 DEF n
<1>15. groups' \in Seq(Seq(Nat)) /\ Len(groups') = Len(groups)
  BY <1>9
<1>16. ASSUME NEW k \in 1..Len(groups'), NEW l \in 1..Len(groups'), rels[groups'[k][1]] = rels[groups'[l][1]]
       PROVE  k = l
  BY <1>4, <1>11, <1>15, <1>16
<1>17. ASSUME NEW k \in 1..Len(groups')
       PROVE  Len(groups'[k]) >= 1 /\ \A w \in ToSet(groups'[k]) : w \in Grouped' /\ rels[w] = rels[groups'[k][1]]
  BY <1>11, <1>12, <1>15
<1>18. ASSUME NEW w \in Grouped' PROVE \E k \in 1..Len(groups') : w \in ToSet(groups'[k])
  BY <1>13, <1>15
<1>19. QED
  BY <1>14, <1>15, <1>16, <1>17, <1>18 DEF GroupsHoldEquals, First

LEMMA UngroupedYet ==
  ASSUME GroupsHoldEquals, pc \in {"reach", "walk"}, groups' = groups, pc' \in {"reach", "walk"}
  PROVE  GroupsHoldEquals'
<1>1. groups = <<>>
  BY DEF GroupsHoldEquals
<1>2. Grouped' = {}
  BY DEF Grouped
<1>3. <<>> \in Seq(Seq(Nat)) /\ Len(<<>>) = 0 /\ 1..0 = {}
  OBVIOUS
<1>4. QED
  BY <1>1, <1>2, <1>3 DEF GroupsHoldEquals

LEMMA GroupsStay ==
  ASSUME GroupsHoldEquals, groups' = groups, rels' = rels, Grouped' = Grouped,
         pc' = "group" => at'.word \in 1..(Len(words') + 1),
         pc' \notin {"reach", "walk"}
  PROVE  GroupsHoldEquals'
  BY DEF GroupsHoldEquals, First

GroupInv == Typed /\ GroupsHoldEquals

LEMMA GroupInductive ==
  ASSUME GroupInv, Cursor, Typed', [Next]_vars
  PROVE  GroupInv'
<1>1. Typed /\ GroupsHoldEquals
  BY DEF GroupInv
<1>2. CASE ReachClose \/ ReachRead
  <2>1. pc \in {"reach", "walk"} /\ groups' = groups /\ pc' \in {"reach", "walk"}
    BY <1>2 DEF ReachClose, ReachRead
  <2>2. QED
    BY <1>1, <2>1, UngroupedYet DEF GroupInv
<1>3. CASE WalkClose \/ WalkRead \/ WalkDiverge \/ WalkEnd
  <2>1. pc \in {"reach", "walk"} /\ groups' = groups /\ pc' \in {"reach", "walk"}
    BY <1>3 DEF WalkClose, WalkRead, WalkDiverge, WalkEnd, Walking
  <2>2. QED
    BY <1>1, <2>1, UngroupedYet DEF GroupInv
<1>4. CASE WalksDone
  <2>1. /\ pc = "walk" /\ pc' = "group" /\ at' = At(1, 1, 0) /\ groups' = groups /\ rels' = rels
        /\ words' = words
    BY <1>4 DEF WalksDone
  <2>2. at'.word = 1
    BY <2>1 DEF At
  <2>3. Len(words) \in Nat
    BY <1>1, WordTyped
  <2>4. Grouped = {} /\ Grouped' = {}
    <3>1. \A w \in 1..Len(words) : ~(w < 1)
      BY <2>3
    <3>2. QED
      BY <2>1, <2>2, <3>1 DEF Grouped
  <2>5. at'.word \in 1..(Len(words') + 1)
    BY <2>1, <2>2, <2>3
  <2>6. QED
    BY <1>1, <2>1, <2>4, <2>5, GroupsStay DEF GroupInv
<1>5. CASE Group
  BY <1>1, <1>5, GroupAlone, GroupJoined DEF GroupInv
<1>6. CASE Finish
  <2>1. /\ pc = "group" /\ at.word > Len(words) /\ pc' = "done" /\ groups' = groups /\ rels' = rels
        /\ words' = words
    BY <1>6 DEF Finish
  <2>2. Len(words) \in Nat /\ at.word \in Nat
    BY <1>1, WordTyped DEF Typed
  <2>3. Grouped' = Grouped
    <3>1. \A w \in 1..Len(words) : w < at.word
      BY <2>1, <2>2
    <3>2. QED
      BY <2>1, <3>1 DEF Grouped
  <2>4. QED
    BY <1>1, <2>1, <2>3, GroupsStay DEF GroupInv
<1>7. CASE UNCHANGED vars
  <2>1. /\ words' = words /\ pc' = pc /\ at' = at /\ rels' = rels /\ groups' = groups
    BY <1>7 DEF vars
  <2>2. Grouped' = Grouped
    BY <2>1 DEF Grouped
  <2>3. QED
    BY <1>1, <2>1, <2>2 DEF GroupInv, GroupsHoldEquals, First
<1>8. CASE Returned
  BY <1>7, <1>8 DEF Returned
<1>9. QED
  BY <1>2, <1>3, <1>4, <1>5, <1>6, <1>7, <1>8 DEF Next

LEMMA EqualsGrouped ==
  ASSUME GroupInv
  PROVE  pc = "done" => GroupedByList
<1> SUFFICES ASSUME pc = "done", NEW v \in 1..Len(words), NEW w \in 1..Len(words)
             PROVE  /\ rels[v] = rels[w] => \E k \in 1..Len(groups) : Common(v, w) = {k}
                    /\ rels[v] # rels[w] => Common(v, w) = {}
  BY DEF GroupedByList
<1>1. /\ \A k \in 1..Len(groups) : \A x \in ToSet(groups[k]) : rels[x] = rels[First(k)]
      /\ \A x \in 1..Len(words) : \E k \in 1..Len(groups) : x \in ToSet(groups[k])
      /\ \A k, l \in 1..Len(groups) : rels[First(k)] = rels[First(l)] => k = l
  <2>1. Grouped = 1..Len(words)
    BY DEF Grouped
  <2>2. QED
    BY <2>1 DEF GroupInv, GroupsHoldEquals
<1>2. ASSUME rels[v] = rels[w] PROVE \E k \in 1..Len(groups) : Common(v, w) = {k}
  <2>1. PICK k \in 1..Len(groups) : v \in ToSet(groups[k])
    BY <1>1
  <2>2. PICK l \in 1..Len(groups) : w \in ToSet(groups[l])
    BY <1>1
  <2>3. k = l
    BY <1>1, <1>2, <2>1, <2>2
  <2>4. ASSUME NEW i \in Common(v, w) PROVE i = k
    <3>1. i \in 1..Len(groups) /\ v \in ToSet(groups[i])
      BY DEF Common
    <3>2. QED
      BY <1>1, <2>1, <3>1
  <2>5. k \in Common(v, w)
    BY <2>1, <2>2, <2>3 DEF Common
  <2>6. QED
    BY <2>4, <2>5
<1>3. ASSUME rels[v] # rels[w] PROVE Common(v, w) = {}
  BY <1>1, <1>3 DEF Common
<1>4. QED
  BY <1>2, <1>3

LEMMA OutcomesAgree ==
  ASSUME Typed, DisplacementIsWalks, pc = "done", NEW v \in 1..Len(words), NEW w \in 1..Len(words),
         ToSet(rels[v]) = ToSet(rels[w])
  PROVE  \A c \in ToSet(inConfigs) : Outcomes(c, v) = Outcomes(c, w)
<1> DEFINE I == ToSet(inConfigs)
           R(x) == {p \in Configs \X Configs : p[1] \in I /\ p[2] \in Outcomes(p[1], x)}
<1>1. R(v) = R(w)
  BY DEF DisplacementIsWalks, LeadsTo, Outcomes
<1>2. I \subseteq Configs
  <2>1. inConfigs \in Seq(Configs)
    BY DEF Typed
  <2>2. QED
    BY <2>1, Members
<1>3. \A c, x : Outcomes(c, x) \subseteq Configs
  BY DEF Outcomes, Leads
<1>4. ASSUME NEW c \in I, NEW d \in Configs, NEW x
      PROVE  d \in Outcomes(c, x) <=> <<c, d>> \in R(x)
  <2> DEFINE p == <<c, d>>
  <2>1. p \in Configs \X Configs /\ p[1] = c /\ p[2] = d
    BY <1>2, <1>4
  <2> HIDE DEF p
  <2>2. p \in R(x) <=> p[1] \in I /\ p[2] \in Outcomes(p[1], x)
    BY <2>1
  <2>3. QED
    BY <1>4, <2>1, <2>2 DEF p
<1> HIDE DEF R, I
<1>5. ASSUME NEW c \in I PROVE Outcomes(c, v) = Outcomes(c, w)
  <2>1. \A d \in Configs : d \in Outcomes(c, v) <=> d \in Outcomes(c, w)
    BY <1>1, <1>4, <1>5
  <2>2. Outcomes(c, v) \subseteq Configs /\ Outcomes(c, w) \subseteq Configs
    BY <1>3
  <2>3. QED
    BY <2>1, <2>2
<1>6. QED
  BY <1>5 DEF I

\* Words with the same outcomes have the same displacement.
LEMMA SameOutcomes ==
  ASSUME DisplacementIsWalks, pc = "done", NEW x \in 1..Len(words), NEW y \in 1..Len(words),
         \A c \in ToSet(inConfigs) : Outcomes(c, x) = Outcomes(c, y)
  PROVE  ToSet(rels[x]) = ToSet(rels[y])
<1> DEFINE R(z) == {p \in Configs \X Configs : p[1] \in ToSet(inConfigs) /\ p[2] \in Outcomes(p[1], z)}
<1>1. ToSet(rels[x]) = R(x) /\ ToSet(rels[y]) = R(y)
  BY DEF DisplacementIsWalks, LeadsTo, Outcomes
<1>2. QED
  BY <1>1

LEMMA EqualsInterchange ==
  ASSUME Typed, DisplacementIsWalks, pc = "done", NEW v \in 1..Len(words), NEW w \in 1..Len(words),
         ToSet(rels[v]) = ToSet(rels[w])
  PROVE  Interchangeable(v, w)
<1> DEFINE I == ToSet(inConfigs)
<1>1. DOMAIN words = 1..Len(words)
  BY WordTyped
<1> SUFFICES ASSUME NEW u \in 1..Len(words), NEW x \in 1..Len(words), NEW y \in 1..Len(words),
                    \/ SameBehind(v, w, u, x, y)
                    \/ SameBefore(v, w, u, x, y) /\ \A p \in ToSet(rels[u]) : p[2] \in I
             PROVE  ToSet(rels[x]) = ToSet(rels[y])
  BY <1>1 DEF Interchangeable
<1>2. I \subseteq Configs
  <2>1. inConfigs \in Seq(Configs)
    BY DEF Typed
  <2>2. QED
    BY <2>1, Members
<1>3. \A c \in I : Outcomes(c, v) = Outcomes(c, w)
  BY OutcomesAgree
<1> HIDE DEF I
<1>4. CASE SameBehind(v, w, u, x, y)
  <2>1. ASSUME NEW c \in I PROVE Outcomes(c, x) = Outcomes(c, y)
    <3>1. Chained(x, v, u)
      BY <1>4, OutcomesThrough DEF SameBehind
    <3>2. Chained(y, w, u)
      BY <1>4, OutcomesThrough DEF SameBehind
    <3>3. c \in Configs /\ Outcomes(c, v) = Outcomes(c, w)
      BY <1>2, <1>3, <2>1
    <3>4. \A e : e \in Outcomes(c, x) <=> e \in Outcomes(c, y)
      BY <3>1, <3>2, <3>3 DEF Chained
    <3>5. Outcomes(c, x) \subseteq Configs /\ Outcomes(c, y) \subseteq Configs
      BY DEF Outcomes, Leads
    <3>6. QED
      BY <3>4, <3>5
  <2>2. QED
    BY <2>1, SameOutcomes DEF I
<1>5. CASE SameBefore(v, w, u, x, y) /\ \A p \in ToSet(rels[u]) : p[2] \in I
  <2>1. ASSUME NEW c \in I PROVE Outcomes(c, x) = Outcomes(c, y)
    <3>1. Chained(x, u, v)
      BY <1>5, OutcomesThrough DEF SameBefore
    <3>2. Chained(y, u, w)
      BY <1>5, OutcomesThrough DEF SameBefore
    <3>3. Outcomes(c, u) \subseteq I
      <4>1. ASSUME NEW d \in Outcomes(c, u) PROVE d \in I
        <5>1. d \in Configs
          BY <4>1 DEF Outcomes, Leads
        <5>2. <<c, d>> \in ToSet(rels[u])
          <6>1. ToSet(rels[u])
                  = {p \in Configs \X Configs : p[1] \in I /\ p[2] \in Outcomes(p[1], u)}
            BY DEF DisplacementIsWalks, LeadsTo, Outcomes, I
          <6>2. QED
            BY <1>2, <2>1, <4>1, <5>1, <6>1
        <5>3. QED
          BY <1>5, <5>2
      <4>2. QED
        BY <4>1
    <3>4. \A e : e \in Outcomes(c, x) <=> e \in Outcomes(c, y)
      BY <1>2, <1>3, <2>1, <3>1, <3>2, <3>3 DEF Chained
    <3>5. Outcomes(c, x) \subseteq Configs /\ Outcomes(c, y) \subseteq Configs
      BY DEF Outcomes, Leads
    <3>6. QED
      BY <3>4, <3>5
  <2>2. QED
    BY <2>1, SameOutcomes DEF I
<1>6. QED
  BY <1>4, <1>5 DEF I

\* The partition returned, for every machine and all sequences: two sequences
\* share a group, and then one only, exactly when their displacements are the
\* same list, and then either may stand in the other's place in any sequence
\* displaced with them (displacement_partition).
THEOREM PartitionAlwaysExact == Spec => []PartitionExact
<1>1. Init => GroupInv
  BY StartTyped, StartGroups DEF GroupInv
<1>2. GroupInv /\ DisplacementInv /\ DisplacementInv' /\ [Next]_vars => GroupInv'
  <2>1. DisplacementInv => Cursor
    BY DEF DisplacementInv
  <2>2. DisplacementInv' => Typed'
    BY DEF DisplacementInv
  <2>3. QED
    BY <2>1, <2>2, GroupInductive
<1>3. GroupInv /\ DisplacementInv => PartitionExact
  <2> SUFFICES ASSUME GroupInv, DisplacementInv, pc = "done" PROVE
                 /\ GroupedByList
                 /\ \A v, w \in DOMAIN words : Common(v, w) # {} => Interchangeable(v, w)
    BY DEF PartitionExact
  <2>1. GroupedByList
    BY EqualsGrouped
  <2>2. Typed /\ DisplacementIsWalks
    BY WalksAreDisplaced DEF DisplacementInv
  <2>3. ASSUME NEW v \in DOMAIN words, NEW w \in DOMAIN words, Common(v, w) # {}
        PROVE  Interchangeable(v, w)
    <3>1. v \in 1..Len(words) /\ w \in 1..Len(words)
      BY <2>2, WordTyped
    <3>2. rels[v] = rels[w]
      BY <2>1, <2>3, <3>1 DEF GroupedByList
    <3>3. QED
      BY <2>2, <3>1, <3>2, EqualsInterchange
  <2>4. QED
    BY <2>1, <2>3
<1>4. QED
  BY <1>1, <1>2, <1>3, Invariantly, PTL DEF Spec
=============================================================================
