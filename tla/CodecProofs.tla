---------------------------- MODULE CodecProofs ----------------------------
(***************************************************************************)
(* How machines are built and shipped, for every field that new is given,  *)
(* every cut and every change of one word.                                 *)
(***************************************************************************)
EXTENDS Codec, SharedLemmas
LOCAL INSTANCE SequencesExt

----------------------------------------------------------------------------
(* Records kept, records written and words counted, as spreads.            *)

Keeping(S, K) == [t \in S |-> IF t \in K THEN <<t>> ELSE <<>>]
Recording == [t \in Transition |-> RecordWords(t)]
Strokes == [n \in Nat |-> [k \in 1..n |-> 0]]

Stream(s) == Spread(Recording, s)
\* The sum of some words.
Total(s) == Len(Spread(Strokes, s))

LEMMA KeptSpread ==
  ASSUME NEW S, NEW K, NEW s \in Seq(S)
  PROVE  Keeping(S, K) \in [S -> Seq(S)] /\ Kept(s, K) = Spread(Keeping(S, K), s)
<1>1. Keeping(S, K) \in [S -> Seq(S)]
  BY DEF Keeping
<1>2. Len(s) \in Nat /\ DOMAIN s = 1..Len(s) /\ \A j \in 1..Len(s) : s[j] \in S
  OBVIOUS
<1> DEFINE parts == [j \in 1..Len(s) |-> IF s[j] \in K THEN <<s[j]>> ELSE <<>>]
           spread == [j \in 1..Len(s) |-> Keeping(S, K)[s[j]]]
<1>3. parts = spread
  <2>1. \A j \in 1..Len(s) : Keeping(S, K)[s[j]] = IF s[j] \in K THEN <<s[j]>> ELSE <<>>
    BY <1>2 DEF Keeping
  <2>2. QED
    BY <2>1
<1>4. Kept(s, K) = FlattenSeq(parts)
  BY <1>2 DEF Kept
<1>5. FlattenSeq(parts) = Joined(parts)
  BY DEF FlattenSeq, Joined
<1>6. QED
  BY <1>1, <1>3, <1>4, <1>5 DEF Spread

LEMMA KeptBoth ==
  ASSUME NEW S, NEW K, NEW x \in Seq(S), NEW y \in Seq(S)
  PROVE  Kept(x \o y, K) = Kept(x, K) \o Kept(y, K) /\ Kept(x, K) \in Seq(S)
<1> DEFINE g == Keeping(S, K)
<1>1. g \in [S -> Seq(S)] /\ x \o y \in Seq(S)
  BY KeptSpread, ConcatProperties
<1>2. Kept(x \o y, K) = Spread(g, x \o y) /\ Kept(x, K) = Spread(g, x) /\ Kept(y, K) = Spread(g, y)
  BY <1>1, KeptSpread
<1> HIDE DEF g
<1>3. Spread(g, x \o y) = Spread(g, x) \o Spread(g, y) /\ Spread(g, x) \in Seq(S)
  BY <1>1, SpreadBoth
<1>4. QED
  BY <1>2, <1>3

LEMMA KeptTyped ==
  ASSUME NEW S, NEW K, NEW x \in Seq(S)
  PROVE  Kept(x, K) \in Seq(S)
<1>1. Kept(x \o x, K) = Kept(x, K) \o Kept(x, K) /\ Kept(x, K) \in Seq(S)
  BY KeptBoth
<1>2. QED
  BY <1>1

LEMMA KeptOne ==
  ASSUME NEW S, NEW K, NEW t \in S
  PROVE  Kept(<<t>>, K) = (IF t \in K THEN <<t>> ELSE <<>>) /\ Kept(<<>>, K) = <<>>
<1> DEFINE g == Keeping(S, K)
<1>1. g \in [S -> Seq(S)] /\ <<t>> \in Seq(S) /\ <<>> \in Seq(S)
  <2>1. <<t>> \in Seq(S) /\ <<>> \in Seq(S)
    OBVIOUS
  <2>2. QED
    BY <2>1, KeptSpread
<1>2. Kept(<<t>>, K) = Spread(g, <<t>>) /\ Kept(<<>>, K) = Spread(g, <<>>)
  BY <1>1, KeptSpread
<1>3. g[t] = IF t \in K THEN <<t>> ELSE <<>>
  BY DEF Keeping
<1> HIDE DEF g
<1>4. Spread(g, <<t>>) = g[t] /\ Spread(g, <<>>) = <<>>
  BY <1>1, SpreadOne
<1>5. QED
  BY <1>2, <1>3, <1>4

LEMMA KeptNone ==
  ASSUME NEW S, NEW K, NEW s \in Seq(S), \A j \in 1..Len(s) : s[j] \notin K
  PROVE  Kept(s, K) = <<>>
<1> DEFINE P == {x \in Seq(S) : (\A j \in 1..Len(x) : x[j] \notin K) => Kept(x, K) = <<>>}
<1>1. <<>> \in P
  <2>1. Kept(<<>>, K) = <<>>
    BY KeptSpread, SpreadOne, EmptySeq DEF Kept, FlattenSeq
  <2>2. QED
    BY <2>1, EmptySeq
<1>2. ASSUME NEW a \in S, NEW t \in Seq(S), t \in P PROVE <<a>> \o t \in P
  <2> DEFINE x == <<a>> \o t
  <2>1. /\ x \in Seq(S) /\ Len(x) = Len(t) + 1 /\ x[1] = a
        /\ \A j \in 1..Len(t) : j + 1 \in 1..Len(x) /\ x[j + 1] = t[j]
        /\ 1 \in 1..Len(x) /\ <<a>> \in Seq(S)
    OBVIOUS
  <2>2. ASSUME \A j \in 1..Len(x) : x[j] \notin K PROVE Kept(x, K) = <<>>
    <3>1. a \notin K
      BY <2>1, <2>2
    <3>2. \A j \in 1..Len(t) : t[j] \notin K
      <4> HIDE DEF x
      <4>1. QED
        BY <2>1, <2>2
    <3>3. Kept(t, K) = <<>>
      BY <1>2, <3>2
    <3>4. Kept(x, K) = Kept(<<a>>, K) \o Kept(t, K)
      BY <2>1, KeptBoth, ZenonT(60)
    <3>5. Kept(<<a>>, K) = <<>>
      BY <3>1, KeptOne
    <3>6. QED
      BY <3>3, <3>4, <3>5
  <2>3. QED
    BY <2>1, <2>2
<1> HIDE DEF P
<1>3. Seq(S) \subseteq P
  BY <1>1, <1>2, FrontInduction
<1>4. QED
  BY <1>3 DEF P

LEMMA KeptSame ==
  ASSUME NEW S, NEW s \in Seq(S), NEW K, NEW L, \A j \in 1..Len(s) : s[j] \in K <=> s[j] \in L
  PROVE  Kept(s, K) = Kept(s, L)
<1>1. DOMAIN s = 1..Len(s)
  OBVIOUS
<1>2. [j \in DOMAIN s |-> IF s[j] \in K THEN <<s[j]>> ELSE <<>>]
        = [j \in DOMAIN s |-> IF s[j] \in L THEN <<s[j]>> ELSE <<>>]
  BY <1>1
<1>3. QED
  BY <1>2 DEF Kept

LEMMA RecordTyped == Recording \in [Transition -> Seq(Nat)]
<1>1. ASSUME NEW t \in Transition PROVE RecordWords(t) \in Seq(Nat)
  <2>1. t.push \in Seq(Nat) /\ <<t.q, t.a, t.top, t.next_q, Len(t.push)>> \in Seq(Nat)
    BY DEF Transition
  <2>2. QED
    BY <2>1, ConcatProperties DEF RecordWords
<1>2. QED
  BY <1>1 DEF Recording

LEMMA StreamBoth ==
  ASSUME NEW x \in Seq(Transition), NEW y \in Seq(Transition)
  PROVE  Stream(x \o y) = Stream(x) \o Stream(y) /\ Stream(x) \in Seq(Nat)
<1> DEFINE S == Transition
           T == Nat
           g == Recording
<1>1. g \in [S -> Seq(T)] /\ x \in Seq(S) /\ y \in Seq(S)
  BY RecordTyped
<1> HIDE DEF S, T, g
<1>2. Spread(g, x \o y) = Spread(g, x) \o Spread(g, y) /\ Spread(g, x) \in Seq(T)
  BY <1>1, SpreadBoth
<1>3. QED
  BY <1>2 DEF Stream, g, T

LEMMA NoStream == Stream(<<>>) = <<>>
<1>1. Spread(Recording, <<>>) = Joined(<<>>)
  BY DEF Spread
<1>2. QED
  BY <1>1, JoinEmpty DEF Stream

LEMMA StreamOne ==
  ASSUME NEW t \in Transition
  PROVE  Stream(<<t>>) = RecordWords(t) /\ Stream(<<>>) = <<>> /\ RecordWords(t) \in Seq(Nat)
<1>1. Recording[t] = RecordWords(t)
  BY DEF Recording
<1>2. Spread(Recording, <<t>>) = Recording[t] /\ Spread(Recording, <<>>) = <<>> /\ Recording[t] \in Seq(Nat)
  BY RecordTyped, SpreadOne
<1>3. QED
  BY <1>1, <1>2 DEF Stream

LEMMA StreamOfMachine ==
  ASSUME NEW x, x.trans \in Seq(Transition)
  PROVE  TransitionWords(x) = Stream(x.trans)
<1> DEFINE s == x.trans
           records == [j \in 1..Len(s) |-> RecordWords(s[j])]
<1>1. s \in Seq(Transition) /\ DOMAIN s = 1..Len(s) /\ \A j \in 1..Len(s) : s[j] \in Transition
  OBVIOUS
<1>2. TransitionWords(x) = FlattenSeq(records)
  BY <1>1 DEF TransitionWords
<1>3. records = [j \in 1..Len(s) |-> Recording[s[j]]]
  BY <1>1 DEF Recording
<1>4. FlattenSeq(records) = Joined(records)
  BY DEF FlattenSeq, Joined
<1>5. QED
  BY <1>2, <1>3, <1>4 DEF Stream, Spread

LEMMA StrokesTyped == Strokes \in [Nat -> Seq({0})]
<1>1. ASSUME NEW n \in Nat PROVE [k \in 1..n |-> 0] \in Seq({0})
  OBVIOUS
<1>2. QED
  BY <1>1 DEF Strokes

LEMMA StrokesSpread ==
  ASSUME NEW x \in Seq(Nat), NEW y \in Seq(Nat)
  PROVE  /\ Spread(Strokes, x \o y) = Spread(Strokes, x) \o Spread(Strokes, y)
         /\ Spread(Strokes, x) \in Seq({0})
<1> DEFINE S == Nat
           T == {0}
           g == Strokes
<1>1. g \in [S -> Seq(T)] /\ x \in Seq(S) /\ y \in Seq(S)
  BY StrokesTyped
<1> HIDE DEF S, T, g
<1>2. Spread(g, x \o y) = Spread(g, x) \o Spread(g, y) /\ Spread(g, x) \in Seq(T)
  BY <1>1, SpreadBoth
<1>3. QED
  BY <1>2 DEF g, T

LEMMA TotalBoth ==
  ASSUME NEW x \in Seq(Nat), NEW y \in Seq(Nat)
  PROVE  Total(x \o y) = Total(x) + Total(y) /\ Total(x) \in Nat
<1> DEFINE a == Spread(Strokes, x)
           b == Spread(Strokes, y)
<1>1. Spread(Strokes, x \o y) = a \o b /\ a \in Seq({0}) /\ b \in Seq({0})
  BY StrokesSpread
<1> HIDE DEF a, b
<1>2. Len(a \o b) = Len(a) + Len(b) /\ Len(a) \in Nat
  BY <1>1, ConcatProperties, LenProperties
<1>3. QED
  BY <1>1, <1>2 DEF a, b, Total

LEMMA TotalOne ==
  ASSUME NEW n \in Nat
  PROVE  Total(<<n>>) = n
<1>1. Spread(Strokes, <<n>>) = Strokes[n]
  BY StrokesTyped, SpreadOne
<1>2. Len([k \in 1..n |-> 0]) = n
  OBVIOUS
<1>3. QED
  BY <1>1, <1>2 DEF Total, Strokes
----------------------------------------------------------------------------
(* Types.                                                                  *)

Typed ==
  /\ side \in {"sender", "receiver"}
  /\ m \in MachineFields /\ todo \in Seq(Transition)
  /\ words \in Seq(Nat) /\ pos \in Nat /\ pos <= Len(words)

LEMMA FieldsOf ==
  ASSUME NEW x \in MachineFields
  PROVE  /\ x.states \in Nat /\ x.inputs \in Nat /\ x.syms \in Nat /\ x.start \in Nat /\ x.bottom \in Nat
         /\ x.trans \in Seq(Transition) /\ x.accepting \in Seq(Nat)
         /\ x.prov.of \in Seq(Nat)
         /\ x.prov = Absent \/ x.prov.some
<1>1. /\ x.states \in Nat /\ x.inputs \in Nat /\ x.syms \in Nat /\ x.start \in Nat /\ x.bottom \in Nat
      /\ x.trans \in Seq(Transition) /\ x.accepting \in Seq(Nat)
      /\ x.prov \in {Absent} \cup [some : {TRUE}, of : Seq(Nat)]
  BY DEF MachineFields
<1>2. ASSUME x.prov \in [some : {TRUE}, of : Seq(Nat)] PROVE x.prov.some /\ x.prov.of \in Seq(Nat)
  <2>1. x.prov.some \in {TRUE} /\ x.prov.of \in Seq(Nat)
    BY <1>2
  <2>2. QED
    BY <2>1
<1>3. Absent.of \in Seq(Nat)
  BY DEF Absent
<1>4. QED
  BY <1>1, <1>2, <1>3

LEMMA OtherTransitions ==
  ASSUME NEW x \in MachineFields, NEW s \in Seq(Transition)
  PROVE  [x EXCEPT !.trans = s] \in MachineFields /\ [x EXCEPT !.trans = s].trans = s
BY DEF MachineFields

LEMMA InsertedTyped ==
  ASSUME NEW s \in Seq(Transition), NEW t \in Transition, NEW k \in 1..(Len(s) + 1)
  PROVE  Inserted(s, t, k) \in Seq(Transition)
<1> DEFINE front == SubSeq(s, 1, k - 1)
           back == SubSeq(s, k, Len(s))
<1>1. front \in Seq(Transition) /\ back \in Seq(Transition) /\ Inserted(s, t, k) = (front \o <<t>>) \o back
  BY InsertedSplit, ZenonT(60)
<1>2. <<t>> \in Seq(Transition)
  OBVIOUS
<1> HIDE DEF front, back
<1>3. front \o <<t>> \in Seq(Transition)
  BY <1>1, <1>2, ConcatProperties
<1>4. QED
  BY <1>1, <1>3, ConcatProperties

\* The parts of the words of a machine, all of them words.
LEMMA EncodedParts ==
  ASSUME NEW x \in MachineFields
  PROVE  LET header == <<x.states, x.inputs, x.syms, Len(x.trans), Len(x.accepting), x.start, x.bottom>>
             suffix == IF x.prov.some THEN <<1>> \o x.prov.of ELSE <<0>>
         IN /\ Encode(x) = ((header \o x.accepting) \o Stream(x.trans)) \o suffix
            /\ header \in Seq(Nat) /\ x.accepting \in Seq(Nat) /\ Stream(x.trans) \in Seq(Nat)
            /\ suffix \in Seq(Nat) /\ Len(suffix) >= 1
            /\ Encode(x) \in Seq(Nat)
<1> DEFINE header == <<x.states, x.inputs, x.syms, Len(x.trans), Len(x.accepting), x.start, x.bottom>>
           suffix == IF x.prov.some THEN <<1>> \o x.prov.of ELSE <<0>>
           stream == Stream(x.trans)
           accepting == x.accepting
<1>1. Encode(x) = ((header \o accepting) \o stream) \o suffix
  BY FieldsOf, StreamOfMachine DEF Encode, PodWords
<1>2. header \in Seq(Nat)
  <2>1. Len(x.trans) \in Nat /\ Len(x.accepting) \in Nat
    BY FieldsOf, LenProperties
  <2>2. QED
    BY <2>1, FieldsOf
<1>3. accepting \in Seq(Nat) /\ stream \in Seq(Nat)
  BY FieldsOf, StreamBoth
<1>4. suffix \in Seq(Nat) /\ Len(suffix) >= 1
  <2>1. CASE x.prov.some
    <3> DEFINE of == x.prov.of
    <3>1. of \in Seq(Nat) /\ <<1>> \in Seq(Nat) /\ Len(<<1>>) = 1
      BY <2>1, FieldsOf
    <3> HIDE DEF of
    <3>2. <<1>> \o of \in Seq(Nat) /\ Len(<<1>> \o of) = 1 + Len(of) /\ Len(of) \in Nat
      BY <3>1, ConcatProperties, LenProperties
    <3>3. QED
      BY <2>1, <3>2 DEF of
  <2>2. CASE ~x.prov.some
    BY <2>2
  <2>3. QED
    BY <2>1, <2>2
<1> HIDE DEF header, suffix, stream, accepting
<1>5. ((header \o accepting) \o stream) \o suffix \in Seq(Nat)
  <2>1. header \o accepting \in Seq(Nat)
    BY <1>2, <1>3, ConcatProperties
  <2>2. (header \o accepting) \o stream \in Seq(Nat)
    BY <1>3, <2>1, ConcatProperties
  <2>3. QED
    BY <1>4, <2>2, ConcatProperties
<1>6. QED
  BY <1>1, <1>2, <1>3, <1>4, <1>5 DEF header, suffix, stream, accepting

LEMMA TypedInit == Init => Typed
<1> SUFFICES ASSUME Init PROVE Typed
  OBVIOUS
<1>1. sent \in MachineFields
  BY GivenAssumption DEF Init
<1>2. <<>> \in Seq(Transition) /\ <<>> \in Seq(Nat) /\ Len(<<>>) = 0
  OBVIOUS
<1>3. m \in MachineFields
  BY <1>1, <1>2, OtherTransitions DEF Init
<1>4. QED
  BY <1>1, <1>2, <1>3, FieldsOf DEF Init, Typed

LEMMA TypedSort == Typed /\ SortIn => Typed'
<1> SUFFICES ASSUME Typed, SortIn PROVE Typed'
  OBVIOUS
<1>1. m.trans \in Seq(Transition) /\ m \in MachineFields /\ todo \in Seq(Transition)
  BY FieldsOf DEF Typed
<1>2. Head(todo) \in Transition /\ Tail(todo) \in Seq(Transition)
  BY <1>1 DEF SortIn
<1>3. PICK p \in 1..(Len(m.trans) + 1) : m' = [m EXCEPT !.trans = Inserted(@, Head(todo), p)]
  BY DEF SortIn
<1>4. Inserted(m.trans, Head(todo), p) \in Seq(Transition)
  BY <1>1, <1>2, InsertedTyped
<1>5. m' \in MachineFields
  BY <1>1, <1>3, <1>4, OtherTransitions
<1>6. QED
  BY <1>2, <1>5 DEF Typed, SortIn

\* What a read finds.
LEMMA WordTyped ==
  ASSUME Typed, NEW n \in Nat, Has(n)
  PROVE  \A i \in 1..n : Word(i) \in Nat
<1>1. words \in Seq(Nat) /\ pos \in Nat /\ pos + n <= Len(words) /\ Len(words) \in Nat
  BY LenProperties DEF Typed, Has
<1>2. ASSUME NEW i \in 1..n PROVE Word(i) \in Nat
  <2>1. pos + i \in 1..Len(words)
    BY <1>1
  <2>2. QED
    BY <1>1, <2>1, ElementOfSeq DEF Word
<1>3. QED
  BY <1>2

LEMMA WordsTyped ==
  ASSUME Typed, NEW i \in Nat, NEW j \in Nat, i >= 1, j <= Len(words)
  PROVE  SubSeq(words, i, j) \in Seq(Nat)
BY DEF Typed
LEMMA TypedRead ==
  ASSUME Typed, ReadHeader \/ ReadAccepting \/ ReadTransition \/ ReadSuffix
  PROVE  Typed'
<1>0. m \in MachineFields /\ todo \in Seq(Transition) /\ words \in Seq(Nat) /\ Len(words) \in Nat /\ pos \in Nat
  BY LenProperties DEF Typed
<1>1. CASE ReadHeader
  <2>1. Has(7) /\ pos' = 7 /\ words' = words /\ side' = side /\ todo' = <<>> /\ pos = 0
        /\ m' = [states |-> Word(1), inputs |-> Word(2), syms |-> Word(3), trans |-> <<>>,
                 accepting |-> <<>>, start |-> Word(6), bottom |-> Word(7), prov |-> Absent]
    BY <1>1 DEF ReadHeader, HeaderLen
  <2>2. \A i \in 1..7 : Word(i) \in Nat
    BY <2>1, WordTyped
  <2>3. <<>> \in Seq(Transition) /\ <<>> \in Seq(Nat)
    OBVIOUS
  <2>4. Word(1) \in Nat /\ Word(2) \in Nat /\ Word(3) \in Nat /\ Word(6) \in Nat /\ Word(7) \in Nat
    BY <2>2
  <2>5. m' \in MachineFields
    BY <2>1, <2>3, <2>4 DEF MachineFields
  <2>6. QED
    BY <1>0, <2>1, <2>3, <2>5 DEF Typed, Has
<1>2. CASE ReadAccepting
  <2>1. Has(1) /\ pos' = pos + 1 /\ words' = words /\ side' = side /\ todo' = todo
        /\ m' = [m EXCEPT !.accepting = Append(@, Word(1))]
    BY <1>2 DEF ReadAccepting
  <2>2. Word(1) \in Nat
    BY <2>1, WordTyped
  <2>3. Append(m.accepting, Word(1)) \in Seq(Nat)
    BY <1>0, <2>2, FieldsOf
  <2>4. m' \in MachineFields
    BY <1>0, <2>1, <2>3 DEF MachineFields
  <2>5. QED
    BY <1>0, <2>1, <2>4 DEF Typed, Has
<1>3. CASE ReadTransition
  <2> DEFINE n == Word(5)
             push == SubSeq(words, pos + 6, pos + 5 + n)
             record == [q |-> Word(1), a |-> Word(2), top |-> Word(3), next_q |-> Word(4), push |-> push]
  <2>1. /\ Has(5) /\ Has(5 + n) /\ pos' = pos + 5 + n /\ UNCHANGED <<words, side, m>>
        /\ todo' = Append(todo, record)
    BY <1>3 DEF ReadTransition
  <2>2. \A i \in 1..5 : Word(i) \in Nat
    BY <2>1, WordTyped
  <2>3. n \in Nat /\ pos + 5 + n <= Len(words)
    BY <1>0, <2>1, <2>2 DEF Has
  <2>4. push \in Seq(Nat)
    BY <1>0, <2>3, WordsTyped
  <2>5. record \in Transition
    <3>1. Word(1) \in Nat /\ Word(2) \in Nat /\ Word(3) \in Nat /\ Word(4) \in Nat
      BY <2>2
    <3> HIDE DEF push
    <3>2. QED
      BY <2>4, <3>1 DEF Transition
  <2> HIDE DEF n, push, record
  <2>6. todo' \in Seq(Transition)
    BY <1>0, <2>1, <2>5
  <2>7. QED
    BY <1>0, <2>1, <2>3, <2>6 DEF Typed
<1>4. CASE ReadSuffix
  <2> DEFINE of == SubSeq(words, pos + 2, pos + SuffixLen)
  <2>1. /\ Has(SuffixLen) /\ pos' = pos + SuffixLen /\ UNCHANGED <<words, side, todo>>
        /\ m' = IF Word(1) # 1 THEN m ELSE [m EXCEPT !.prov = [some |-> TRUE, of |-> of]]
    BY <1>4 DEF ReadSuffix
  <2>2. SuffixLen \in Nat
    BY <1>0, FieldsOf DEF SuffixLen
  <2>3. pos + SuffixLen <= Len(words)
    BY <2>1 DEF Has
  <2>4. of \in Seq(Nat)
    BY <1>0, <2>2, <2>3, WordsTyped
  <2> HIDE DEF of
  <2>5. m' \in MachineFields
    BY <1>0, <2>1, <2>4 DEF MachineFields
  <2>6. QED
    BY <1>0, <2>1, <2>2, <2>3, <2>5 DEF Typed
<1>5. QED
  BY <1>1, <1>2, <1>3, <1>4

LEMMA TypedArrival ==
  ASSUME Typed, pos = 0, Deliver \/ DeliverCut \/ DeliverChanged
  PROVE  Typed'
<1> DEFINE code == Encode(m)
<1>1. code \in Seq(Nat) /\ m \in MachineFields
  BY EncodedParts DEF Typed
<1> HIDE DEF code
<1>2. Len(code) \in Nat
  BY <1>1, LenProperties
<1>3. words' \in Seq(Nat) /\ side' = "receiver" /\ UNCHANGED <<m, todo, pos>>
  <2>1. CASE Deliver
    BY <1>1, <2>1 DEF Deliver, Arrives, code
  <2>2. CASE DeliverCut
    <3>1. PICK n \in 0..(Len(code) - 1) : Arrives(SubSeq(code, 1, n), "cut")
      BY <2>2 DEF DeliverCut, code
    <3>2. SubSeq(code, 1, n) \in Seq(Nat)
      BY <1>1, <1>2
    <3>3. QED
      BY <3>1, <3>2 DEF Arrives
  <2>3. CASE DeliverChanged
    <3>1. PICK i \in 1..Len(code), w \in 0..MaxWord : Arrives([code EXCEPT ![i] = w], "changed")
      BY <2>3 DEF DeliverChanged, code
    <3>2. w \in Nat
      BY MaxWordAssumption
    <3>3. [code EXCEPT ![i] = w] \in Seq(Nat)
      BY <1>1, <3>2
    <3>4. QED
      BY <3>1, <3>3 DEF Arrives
  <2>4. QED
    BY <2>1, <2>2, <2>3
<1>4. Len(words') \in Nat
  BY <1>3, LenProperties
<1>5. QED
  BY <1>3, <1>4 DEF Typed
----------------------------------------------------------------------------
(* What new and from_bitvec have built so far.                             *)

States == 0..(m.states - 1)

\* The index is exact on the first n transitions, and a state that has none
\* among them has its row, of no length, at the end of the array.
IndexedTo(n) ==
  /\ Indexed(m.trans, n, States, offsets, counts)
  /\ \A q \in States : counts[q] = 0 => offsets[q] = Len(m.trans)
\* What is to be indexed is the rest of the array.
Indexing ==
  /\ Len(todo) <= Len(m.trans)
  /\ \A j \in 1..Len(todo) : todo[j] = m.trans[Len(m.trans) - Len(todo) + j]
  /\ IndexedTo(Len(m.trans) - Len(todo))

Built ==
  /\ pc \in {"sort", "index", "send", "done"} => SortedByKey(m.trans)
  /\ pc = "index" => Indexing
  /\ pc \in {"send", "done"} => IndexedTo(Len(m.trans)) /\ InBounds(m)

\* Who is at work.
Sides ==
  /\ side = "sender" => pos = 0
  /\ pc = "send" => side = "sender"
  /\ pc \in {"read", "done"} => side = "receiver"
  /\ pc = "read" /\ pos # 0 => m.trans = <<>>

LEMMA ValidateEffect ==
  ASSUME ValidateBounds
  PROVE  /\ pc = "index" /\ todo = <<>> /\ pc' \in {"refused", "send", "done"}
         /\ pc' \in {"send", "done"} => InBounds(m)
         /\ pc' = "send" => side = "sender"
         /\ pc' = "done" => side # "sender"
         /\ UNCHANGED <<side, m, todo, offsets, counts, sent, words, fault, pos>>
<1>1. pc' = IF ~InBounds(m) THEN "refused" ELSE IF side = "sender" THEN "send" ELSE "done"
  BY DEF ValidateBounds
<1>2. QED
  BY <1>1 DEF ValidateBounds

LEMMA SidesStep == Typed /\ Sides /\ [Next]_vars => Sides'
<1> SUFFICES ASSUME Typed, Sides, [Next]_vars PROVE Sides'
  OBVIOUS
<1>1. CASE SortIn \/ BeginIndex \/ IndexRecord
  BY <1>1 DEF SortIn, BeginIndex, IndexRecord, Sides
<1>2. CASE ValidateBounds
  <2>1. /\ pc' \in {"refused", "send", "done"} /\ UNCHANGED <<side, m, pos>>
        /\ pc' = "send" => side = "sender"
        /\ pc' = "done" => side # "sender"
    BY <1>2, ValidateEffect
  <2>2. QED
    BY <2>1 DEF Sides, Typed
<1>3. CASE Deliver \/ DeliverCut \/ DeliverChanged
  BY <1>3 DEF Deliver, DeliverCut, DeliverChanged, Arrives, Sides
<1>4. CASE ReadHeader
  <2>1. pc = "read" /\ pc' = pc /\ side' = side /\ m'.trans = <<>>
    BY <1>4 DEF ReadHeader
  <2>2. QED
    BY <2>1 DEF Sides
<1>5. CASE ReadAccepting
  <2>1. pc = "read" /\ pc' = pc /\ side' = side /\ m'.trans = m.trans /\ pos # 0
    BY <1>5 DEF ReadAccepting, AcceptingDue, HeaderLen, Typed, MachineFields
  <2>2. QED
    BY <2>1 DEF Sides
<1>6. CASE ReadTransition
  <2>1. pc = "read" /\ pc' = pc /\ side' = side /\ m' = m /\ pos # 0
    BY <1>6 DEF ReadTransition, TransitionDue, HeaderLen
  <2>2. QED
    BY <2>1 DEF Sides
<1>7. CASE ReadSuffix
  BY <1>7 DEF ReadSuffix, Sides
<1>8. CASE Truncated
  BY <1>8 DEF Truncated, Sides
<1>9. CASE Finished \/ UNCHANGED vars
  BY <1>9 DEF Finished, vars, Sides
<1>10. QED
  BY <1>1, <1>2, <1>3, <1>4, <1>5, <1>6, <1>7, <1>8, <1>9 DEF Next

LEMMA TypedStep == Typed /\ Sides /\ [Next]_vars => Typed'
<1> SUFFICES ASSUME Typed, Sides, [Next]_vars PROVE Typed'
  OBVIOUS
<1>1. CASE SortIn
  BY <1>1, TypedSort
<1>2. CASE BeginIndex
  BY <1>2, FieldsOf DEF BeginIndex, Typed
<1>3. CASE IndexRecord
  <2>1. Tail(todo) \in Seq(Transition)
    BY <1>3 DEF IndexRecord, Typed
  <2>2. QED
    BY <1>3, <2>1 DEF IndexRecord, Typed
<1>4. CASE ValidateBounds \/ Truncated \/ Finished \/ UNCHANGED vars
  BY <1>4 DEF ValidateBounds, Truncated, Finished, vars, Typed
<1>5. CASE Deliver \/ DeliverCut \/ DeliverChanged
  <2>1. pos = 0
    BY <1>5 DEF Deliver, DeliverCut, DeliverChanged, Arrives, Sides
  <2>2. QED
    BY <1>5, <2>1, TypedArrival
<1>6. CASE ReadHeader \/ ReadAccepting \/ ReadTransition \/ ReadSuffix
  BY <1>6, TypedRead
<1>7. QED
  BY <1>1, <1>2, <1>3, <1>4, <1>5, <1>6 DEF Next

LEMMA BuiltSort == Typed /\ Built /\ SortIn => Built'
<1> SUFFICES ASSUME Typed, Built, SortIn PROVE Built'
  OBVIOUS
<1>1. m.trans \in Seq(Transition) /\ m \in MachineFields /\ Head(todo) \in Transition
  BY FieldsOf DEF Typed, SortIn
<1>2. PICK p \in 1..(Len(m.trans) + 1) :
        /\ SortPosition(m.trans, Head(todo), p)
        /\ m' = [m EXCEPT !.trans = Inserted(@, Head(todo), p)]
  BY DEF SortIn
<1>3. m'.trans = Inserted(m.trans, Head(todo), p)
  BY <1>1, <1>2 DEF MachineFields
<1>4. SortedByKey(m.trans) /\ pc' = "sort"
  BY DEF Built, SortIn
<1>5. SortedByKey(Inserted(m.trans, Head(todo), p))
  BY <1>1, <1>2, <1>4, InsertedSorted
<1>6. QED
  BY <1>3, <1>4, <1>5 DEF Built

LEMMA BuiltIndex == Typed /\ Built /\ (BeginIndex \/ IndexRecord) => Built'
<1> SUFFICES ASSUME Typed, Built, BeginIndex \/ IndexRecord PROVE Built'
  OBVIOUS
<1> DEFINE s == m.trans
<1>1. s \in Seq(Transition) /\ Len(s) \in Nat /\ m' = m /\ pc' = "index" /\ SortedByKey(s) /\ States' = States
  BY FieldsOf, LenProperties DEF Typed, BeginIndex, IndexRecord, Built, States
<1>2. CASE BeginIndex
  <2>1. /\ todo' = s /\ offsets' = [q \in States |-> Len(s)] /\ counts' = [q \in States |-> 0]
    BY <1>2 DEF BeginIndex, States
  <2>2. Len(s) - Len(s) = 0 /\ \A j \in 1..Len(s) : 0 + j = j
    BY <1>1
  <2> HIDE DEF s
  <2>3. Indexed(s, 0, States, offsets', counts')
    BY <1>1, <2>1 DEF Indexed, ExactRows
  <2>4. IndexedTo(0)'
    BY <1>1, <2>1, <2>3 DEF IndexedTo, s
  <2>5. Indexing'
    BY <1>1, <2>1, <2>2, <2>4 DEF Indexing, s
  <2>6. QED
    BY <1>1, <2>5 DEF Built, s
<1>3. CASE IndexRecord
  <2> DEFINE n == Len(s) - Len(todo)
  <2>1. /\ Len(todo) <= Len(s) /\ \A j \in 1..Len(todo) : todo[j] = s[n + j]
        /\ Indexed(s, n, States, offsets, counts)
        /\ \A q \in States : counts[q] = 0 => offsets[q] = Len(s)
    BY <1>3 DEF Built, IndexRecord, Indexing, IndexedTo
  <2>2. /\ todo # <<>> /\ todo \in Seq(Transition) /\ todo' = Tail(todo)
        /\ offsets' = NextOffsets(offsets, counts, n, Head(todo)) /\ counts' = NextCounts(counts, Head(todo))
    BY <1>3 DEF IndexRecord, Typed
  <2>3. /\ Len(todo) \in Nat /\ Len(todo) >= 1 /\ Head(todo) = todo[1] /\ Len(Tail(todo)) = Len(todo) - 1
        /\ \A j \in 1..(Len(todo) - 1) : Tail(todo)[j] = todo[j + 1]
    BY <2>2
  <2> HIDE DEF s
  <2>4. /\ n \in Nat /\ n < Len(s) /\ Head(todo) = s[n + 1] /\ Len(todo') <= Len(s)
        /\ Len(s) - Len(todo') = n + 1
    BY <1>1, <2>1, <2>2, <2>3
  <2>5. Indexed(s, n + 1, States, offsets', counts')
    BY <1>1, <2>1, <2>2, <2>4, IndexedOneMore
  <2>6. \A j \in 1..Len(todo') : todo'[j] = s[(n + 1) + j]
    <3> SUFFICES ASSUME NEW j \in 1..(Len(todo) - 1) PROVE Tail(todo)[j] = s[(n + 1) + j]
      BY <2>2, <2>3
    <3>1. j + 1 \in 1..Len(todo) /\ n + (j + 1) = (n + 1) + j
      BY <2>3, <2>4
    <3>2. QED
      BY <2>1, <2>3, <3>1
  <2>7. \A q \in States : counts'[q] = 0 => offsets'[q] = Len(s)
    <3> SUFFICES ASSUME NEW q \in States, counts'[q] = 0 PROVE offsets'[q] = Len(s)
      OBVIOUS
    <3>1. offsets \in [States -> Nat] /\ counts \in [States -> Nat]
      BY <2>1 DEF Indexed
    <3>2. q # Head(todo).q
      BY <2>2, <3>1 DEF NextCounts
    <3>3. counts'[q] = counts[q] /\ offsets'[q] = offsets[q]
      BY <2>2, <3>1, <3>2 DEF NextCounts, NextOffsets
    <3>4. QED
      BY <2>1, <3>3
  <2> HIDE DEF n
  <2>8. /\ Len(todo') <= Len(s) /\ \A j \in 1..Len(todo') : todo'[j] = s[Len(s) - Len(todo') + j]
        /\ Indexed(s, Len(s) - Len(todo'), States, offsets', counts')
    BY <2>4, <2>5, <2>6
  <2>9. Indexing'
    <3>1. m' = m /\ States' = States
      BY <1>1
    <3>2. QED
      BY <3>1, <2>7, <2>8 DEF Indexing, IndexedTo, s
  <2>10. QED
    BY <1>1, <2>9 DEF Built, s
<1>4. QED
  BY <1>2, <1>3

LEMMA BuiltValidate == Typed /\ Built /\ ValidateBounds => Built'
<1> SUFFICES ASSUME Typed, Built, ValidateBounds PROVE Built'
  OBVIOUS
<1>1. /\ pc = "index" /\ todo = <<>> /\ pc' \in {"refused", "send", "done"}
      /\ pc' \in {"send", "done"} => InBounds(m)
      /\ UNCHANGED <<m, offsets, counts>>
  BY ValidateEffect
<1>2. m.trans \in Seq(Transition) /\ Len(m.trans) \in Nat
  BY FieldsOf, LenProperties DEF Typed
<1>3. Len(todo) = 0 /\ Len(m.trans) - 0 = Len(m.trans)
  BY <1>1, <1>2
<1>4. SortedByKey(m.trans) /\ IndexedTo(Len(m.trans))
  BY <1>1, <1>3 DEF Built, Indexing
<1>5. IndexedTo(Len(m.trans))' /\ InBounds(m)' = InBounds(m)
  BY <1>1, <1>4 DEF IndexedTo, States, Indexed, ExactRows, Row
<1>6. QED
  BY <1>1, <1>4, <1>5 DEF Built

LEMMA BuiltStep == Typed /\ Sides /\ Built /\ [Next]_vars => Built'
<1> SUFFICES ASSUME Typed, Sides, Built, [Next]_vars PROVE Built'
  OBVIOUS
<1>1. CASE SortIn
  BY <1>1, BuiltSort
<1>2. CASE BeginIndex \/ IndexRecord
  BY <1>2, BuiltIndex
<1>3. CASE ValidateBounds
  BY <1>3, BuiltValidate
<1>4. CASE Deliver \/ DeliverCut \/ DeliverChanged \/ ReadHeader \/ ReadAccepting \/ ReadTransition \/ Truncated
  <2>1. pc' \in {"read", "refused"}
    <3>1. CASE Deliver \/ DeliverCut \/ DeliverChanged
      BY <3>1 DEF Deliver, DeliverCut, DeliverChanged, Arrives
    <3>2. CASE ReadHeader \/ ReadAccepting \/ ReadTransition \/ Truncated
      BY <3>2 DEF ReadHeader, ReadAccepting, ReadTransition, Truncated
    <3>3. QED
      BY <1>4, <3>1, <3>2
  <2>2. QED
    BY <2>1 DEF Built
<1>5. CASE ReadSuffix
  <2>1. pc = "read" /\ pc' = "sort" /\ pos # 0
    BY <1>5 DEF ReadSuffix, SuffixDue, HeaderLen
  <2>2. m'.trans = m.trans
    BY <1>5 DEF ReadSuffix, Typed, MachineFields
  <2>3. m'.trans = <<>>
    BY <2>1, <2>2 DEF Sides
  <2>4. SortedByKey(m'.trans)
    BY <2>3 DEF SortedByKey
  <2>5. QED
    BY <2>1, <2>4 DEF Built
<1>6. CASE Finished \/ UNCHANGED vars
  BY <1>6 DEF Finished, vars, Built, Indexing, IndexedTo, States, Indexed, ExactRows, Row
<1>7. QED
  BY <1>1, <1>2, <1>3, <1>4, <1>5, <1>6 DEF Next

BuildInv == Typed /\ Sides /\ Built

LEMMA BuildInit == Init => BuildInv
<1> SUFFICES ASSUME Init PROVE BuildInv
  OBVIOUS
<1>1. m.trans = <<>> /\ Sides
  BY OtherTransitions, GivenAssumption DEF Init, MachineFields, Sides
<1>2. QED
  BY <1>1, TypedInit DEF BuildInv, Init, Built, SortedByKey

LEMMA BuildNext == BuildInv /\ [Next]_vars => BuildInv'
BY TypedStep, SidesStep, BuiltStep DEF BuildInv

LEMMA BuildAlways == Spec => []BuildInv
BY BuildInit, BuildNext, PTL DEF Spec
----------------------------------------------------------------------------
(* Lookups.                                                                *)

Key(q, a, top) == {t \in Transition : t.q = q /\ t.a = a /\ t.top = top}

\* An array is put together from three pieces of it.
LEMMA ThreePieces ==
  ASSUME NEW S, NEW s \in Seq(S), NEW i \in Nat, NEW j \in Nat, i <= j, j <= Len(s)
  PROVE  /\ SubSeq(s, 1, i) \in Seq(S) /\ SubSeq(s, i + 1, j) \in Seq(S)
         /\ SubSeq(s, j + 1, Len(s)) \in Seq(S)
         /\ s = (SubSeq(s, 1, i) \o SubSeq(s, i + 1, j)) \o SubSeq(s, j + 1, Len(s))
<1> DEFINE front == SubSeq(s, 1, i)
           row == SubSeq(s, i + 1, j)
           back == SubSeq(s, j + 1, Len(s))
           two == front \o row
           all == two \o back
<1>1. Len(s) \in Nat
  OBVIOUS
<1>2. /\ front \in Seq(S) /\ Len(front) = i /\ \A k \in 1..i : front[k] = s[k]
      /\ row \in Seq(S) /\ Len(row) = j - i /\ \A k \in 1..(j - i) : row[k] = s[i + k]
  OBVIOUS
<1>3. back \in Seq(S) /\ Len(back) = Len(s) - j /\ \A k \in 1..(Len(s) - j) : back[k] = s[j + k]
  OBVIOUS
<1> HIDE DEF front, row, back
<1>4. /\ two \in Seq(S) /\ Len(two) = j
      /\ \A k \in 1..j : two[k] = IF k <= i THEN front[k] ELSE row[k - i]
  <2>1. /\ two \in Seq(S) /\ Len(two) = Len(front) + Len(row)
        /\ \A k \in 1..(Len(front) + Len(row)) : two[k] = IF k <= Len(front) THEN front[k] ELSE row[k - Len(front)]
    <3>1. front \in Seq(S) /\ row \in Seq(S)
      BY <1>2
    <3>2. QED
      BY <3>1, ConcatProperties, ZenonT(60)
  <2>2. Len(front) + Len(row) = j
    BY <1>2
  <2>3. QED
    BY <1>2, <2>1, <2>2
<1> HIDE DEF two
<1>5. /\ all \in Seq(S) /\ Len(all) = Len(s)
      /\ \A k \in 1..Len(s) : all[k] = IF k <= j THEN two[k] ELSE back[k - j]
  <2>1. /\ all \in Seq(S) /\ Len(all) = Len(two) + Len(back)
        /\ \A k \in 1..(Len(two) + Len(back)) : all[k] = IF k <= Len(two) THEN two[k] ELSE back[k - Len(two)]
    BY <1>3, <1>4, ConcatProperties
  <2>2. Len(two) + Len(back) = Len(s)
    BY <1>1, <1>3, <1>4
  <2>3. QED
    BY <1>4, <2>1, <2>2
<1> HIDE DEF all
<1>6. \A k \in 1..Len(s) : all[k] = s[k]
  <2> SUFFICES ASSUME NEW k \in 1..Len(s) PROVE all[k] = s[k]
    OBVIOUS
  <2>1. CASE k <= i
    BY <1>2, <1>4, <1>5, <2>1
  <2>2. CASE k > i /\ k <= j
    <3>1. k - i \in 1..(j - i) /\ i + (k - i) = k /\ k \in 1..j /\ ~(k <= i)
      BY <2>2
    <3>2. two[k] = row[k - i]
      BY <1>4, <3>1
    <3>3. row[k - i] = s[i + (k - i)]
      BY <1>2, <3>1
    <3>4. all[k] = two[k]
      BY <1>5, <2>2
    <3>5. QED
      BY <3>1, <3>2, <3>3, <3>4
  <2>3. CASE k > j
    <3>1. k - j \in 1..(Len(s) - j) /\ j + (k - j) = k /\ ~(k <= j)
      BY <1>1, <2>3
    <3>2. QED
      BY <1>3, <1>5, <3>1
  <2>4. QED
    BY <2>1, <2>2, <2>3
<1>7. all = s
  <2>1. all = [k \in 1..Len(s) |-> all[k]] /\ s = [k \in 1..Len(s) |-> s[k]]
    BY <1>5
  <2>2. QED
    BY <1>6, <2>1
<1>8. s = (front \o row) \o back
  BY <1>7 DEF all, two
<1>9. QED
  BY <1>2, <1>3, <1>8 DEF front, row, back

\* What is kept of a sequence is what is kept of a piece of it, where nothing
\* else is to be kept.
LEMMA KeptPiece ==
  ASSUME NEW S, NEW K, NEW s \in Seq(S), NEW i \in Nat, NEW j \in Nat, i <= j, j <= Len(s),
         \A k \in 1..Len(s) : k \notin (i + 1)..j => s[k] \notin K
  PROVE  Kept(s, K) = Kept(SubSeq(s, i + 1, j), K)
<1> DEFINE front == SubSeq(s, 1, i)
           row == SubSeq(s, i + 1, j)
           back == SubSeq(s, j + 1, Len(s))
           two == front \o row
<1>1. Len(s) \in Nat
  OBVIOUS
<1>2. front \in Seq(S) /\ row \in Seq(S) /\ back \in Seq(S) /\ s = two \o back
  BY ThreePieces, ZenonT(60)
<1>3. Len(front) = i /\ \A k \in 1..i : front[k] = s[k]
  OBVIOUS
<1>4. Len(back) = Len(s) - j /\ \A k \in 1..(Len(s) - j) : back[k] = s[j + k]
  OBVIOUS
<1> HIDE DEF front, row, back
<1>5. front \in Seq(S) /\ row \in Seq(S) /\ back \in Seq(S) /\ two \in Seq(S)
  <2>1. front \in Seq(S) /\ row \in Seq(S) /\ back \in Seq(S)
    BY <1>2
  <2>2. QED
    BY <2>1, ConcatProperties
<1> HIDE DEF two
<1>6. Kept(front, K) = <<>>
  <2>1. ASSUME NEW k \in 1..Len(front) PROVE front[k] \notin K
    <3>1. k \in 1..i /\ k \in 1..Len(s) /\ k \notin (i + 1)..j
      BY <1>1, <1>3
    <3>2. front[k] = s[k]
      BY <1>3, <3>1
    <3>3. QED
      BY <3>1, <3>2
  <2>2. front \in Seq(S)
    BY <1>2
  <2>3. QED
    BY <2>1, <2>2, KeptNone
<1>7. Kept(back, K) = <<>>
  <2>1. ASSUME NEW k \in 1..Len(back) PROVE back[k] \notin K
    <3>1. k \in 1..(Len(s) - j) /\ j + k \in 1..Len(s) /\ j + k \notin (i + 1)..j
      BY <1>1, <1>4
    <3>2. QED
      BY <1>4, <3>1
  <2>2. back \in Seq(S)
    BY <1>2
  <2>3. QED
    BY <2>1, <2>2, KeptNone
<1>8. Kept(two \o back, K) = Kept(two, K) \o Kept(back, K) /\ Kept(two, K) \in Seq(S)
  BY <1>5, KeptBoth, ZenonT(60)
<1>9. Kept(front \o row, K) = Kept(front, K) \o Kept(row, K) /\ Kept(front, K) \in Seq(S)
  BY <1>5, KeptBoth, ZenonT(60)
<1>10. Kept(row, K) \in Seq(S)
  BY <1>5, KeptTyped, ZenonT(60)
<1> DEFINE kept == Kept(row, K)
<1>11. Kept(s, K) = (<<>> \o kept) \o <<>> /\ kept \in Seq(S)
  BY <1>2, <1>6, <1>7, <1>8, <1>9, <1>10 DEF two
<1> HIDE DEF kept
<1>12. (<<>> \o kept) \o <<>> = kept
  BY <1>11, ConcatEmptySeq
<1>13. QED
  BY <1>11, <1>12 DEF kept, row

LEMMA FilterKeeps ==
  ASSUME NEW x \in MachineFields, NEW q, NEW a, NEW top
  PROVE  ByFilter(x, q, a, top) = Kept(x.trans, Key(q, a, top))
<1> DEFINE s == x.trans
           K == {t \in ToSet(s) : t.q = q /\ t.a = a /\ t.top = top}
<1>1. s \in Seq(Transition)
  BY FieldsOf
<1>2. \A j \in 1..Len(s) : s[j] \in Transition /\ s[j] \in ToSet(s)
  BY <1>1, ElementOfSeq DEF ToSet
<1>3. \A j \in 1..Len(s) : s[j] \in K <=> s[j] \in Key(q, a, top)
  BY <1>2 DEF Key
<1> HIDE DEF K, s
<1>4. Kept(s, K) = Kept(s, Key(q, a, top))
  BY <1>1, <1>3, KeptSame
<1>5. QED
  BY <1>4 DEF ByFilter, K, s

\* Through an exact index the row of a state gives what a scan of the whole
\* array gives.
LEMMA RowKeeps ==
  ASSUME NEW x \in MachineFields, NEW Q, NEW o, NEW c, Indexed(x.trans, Len(x.trans), Q, o, c),
         NEW q \in Q, NEW a, NEW top
  PROVE  ByRow(x, o, c, q, a, top) = Kept(x.trans, Key(q, a, top))
<1> DEFINE s == x.trans
           row == SubSeq(s, o[q] + 1, o[q] + c[q])
           K == {t \in ToSet(row) : t.a = a /\ t.top = top}
           L == Key(q, a, top)
<1>1. s \in Seq(Transition) /\ Len(s) \in Nat /\ o[q] \in Nat /\ c[q] \in Nat
      /\ \A j \in 1..Len(s) : s[j] \in Transition
  BY FieldsOf, ElementsTyped DEF Indexed
<1>2. ByRow(x, o, c, q, a, top) = Kept(row, K)
  BY DEF ByRow
<1>3. Indexed(s, Len(s), Q, o, c)
  OBVIOUS
<1> HIDE DEF s
<1>4. CASE c[q] = 0
  <2>1. row = <<>>
    BY <1>1, <1>4
  <2>2. \A j \in 1..Len(s) : s[j] \notin L
    BY <1>1, <1>3, <1>4 DEF Indexed, Key
  <2>3. Kept(s, L) = <<>>
    BY <1>1, <2>2, KeptNone
  <2>4. Kept(row, K) = <<>>
    <3>1. <<>> \in Seq(Transition) /\ Len(<<>>) = 0
      OBVIOUS
    <3>2. \A j \in 1..Len(<<>>) : <<>>[j] \notin K
      OBVIOUS
    <3> HIDE DEF K
    <3>3. Kept(<<>>, K) = <<>>
      BY <3>1, <3>2, KeptNone
    <3>4. QED
      BY <2>1, <3>3
  <2>5. QED
    BY <1>2, <2>3, <2>4 DEF s
<1>5. CASE c[q] # 0
  <2> DEFINE S == Transition
             i == o[q]
             j == o[q] + c[q]
  <2>1. i \in Nat /\ j \in Nat /\ i <= j /\ j <= Len(s) /\ c[q] > 0 /\ s \in Seq(S)
    BY <1>1, <1>3, <1>5 DEF Indexed
  <2>2. \A k \in 1..Len(s) : s[k].q = q <=> k \in (i + 1)..j
    <3>1. DOMAIN c = Q
      BY <1>3 DEF Indexed
    <3>2. QED
      BY <1>3, <2>1, <3>1 DEF Indexed, ExactRows, Row
  <2>3. row = SubSeq(s, i + 1, j)
    OBVIOUS
  <2> HIDE DEF S, i, j, row
  <2>4. \A k \in 1..Len(s) : k \notin (i + 1)..j => s[k] \notin L
    BY <2>2 DEF Key
  <2>5. \A k \in 1..Len(row) : row[k] \in Transition /\ row[k].q = q /\ row[k] \in ToSet(row)
    <3> SUFFICES ASSUME NEW k \in 1..Len(row)
                 PROVE  row[k] \in Transition /\ row[k].q = q /\ row[k] \in ToSet(row)
      OBVIOUS
    <3>1. Len(SubSeq(s, i + 1, j)) = j - i /\ SubSeq(s, i + 1, j) \in Seq(S)
          /\ \A n \in 1..(j - i) : SubSeq(s, i + 1, j)[n] = s[i + n]
      BY <1>1, <2>1
    <3>2. k \in 1..(j - i) /\ i + k \in 1..Len(s) /\ i + k \in (i + 1)..j
      BY <1>1, <2>1, <2>3, <3>1
    <3>3. row[k] = s[i + k] /\ s[i + k].q = q /\ s[i + k] \in Transition
      BY <1>1, <2>2, <2>3, <3>1, <3>2
    <3>4. row[k] \in ToSet(row)
      <4>1. DOMAIN row = 1..Len(row)
        BY <2>3, <3>1
      <4>2. QED
        BY <4>1 DEF ToSet
    <3>5. QED
      BY <3>3, <3>4
  <2>6. \A k \in 1..Len(row) : row[k] \in K <=> row[k] \in L
    BY <2>5 DEF Key
  <2>7. row \in Seq(S)
    BY <1>1, <2>1, <2>3
  <2> HIDE DEF K, L
  <2>8. Kept(s, L) = Kept(SubSeq(s, i + 1, j), L)
    BY <2>1, <2>4, KeptPiece
  <2>9. Kept(row, K) = Kept(row, L)
    BY <2>6, <2>7, KeptSame
  <2>10. QED
    BY <1>2, <2>3, <2>8, <2>9 DEF s, L
<1>6. QED
  BY <1>4, <1>5

\* Three sequences of transitions are joined in either order.
LEMMA TransitionsThree ==
  ASSUME NEW x \in Seq(Transition), NEW y \in Seq(Transition), NEW z \in Seq(Transition)
  PROVE  (x \o y) \o z = x \o (y \o z)
BY ConcatThree, SMTT(40)

\* The sort does not change what is found under a key, nor its order.
LEMMA SortKeeps ==
  ASSUME NEW s \in Seq(Transition), NEW t \in Transition, NEW p, SortPosition(s, t, p),
         NEW rest \in Seq(Transition), NEW q, NEW a, NEW top
  PROVE  Kept(Inserted(s, t, p) \o rest, Key(q, a, top)) = Kept(s \o (<<t>> \o rest), Key(q, a, top))
<1> DEFINE S == Transition
           K == Key(q, a, top)
           f == SubSeq(s, 1, p - 1)
           b == SubSeq(s, p, Len(s))
           one == <<t>>
           ins == Inserted(s, t, p)
           ft == f \o one
           tr == one \o rest
<1>1. p \in 1..(Len(s) + 1) /\ Len(s) \in Nat
  BY DEF SortPosition
<1>2. f \in Seq(S) /\ b \in Seq(S) /\ s = f \o b /\ ins = (f \o one) \o b
  BY <1>1, InsertedSplit, ZenonT(60)
<1>3. one \in Seq(S) /\ ins \in Seq(S) /\ rest \in Seq(S) /\ s \in Seq(S)
  BY <1>1, InsertedTyped
<1>4. t \in K => Kept(b, K) = <<>>
  <2> SUFFICES ASSUME t \in K PROVE Kept(b, K) = <<>>
    OBVIOUS
  <2>1. /\ Len(b) = Len(s) - p + 1
        /\ \A j \in 1..(Len(s) - p + 1) : b[j] = s[p + j - 1]
    BY <1>1
  <2>2. \A j \in p..Len(s) : s[j] \notin K
    <3> SUFFICES ASSUME NEW j \in p..Len(s), s[j] \in K PROVE FALSE
      OBVIOUS
    <3>1. ~KeyLE(s[j], t)
      BY DEF SortPosition
    <3>2. s[j].q = t.q /\ s[j].a = t.a /\ s[j].top = t.top /\ t.top \in Nat
      BY DEF Key, Transition
    <3>3. QED
      BY <3>1, <3>2 DEF KeyLE
  <2>3. \A j \in 1..Len(b) : b[j] \notin K
    <3> SUFFICES ASSUME NEW j \in 1..Len(b) PROVE b[j] \notin K
      OBVIOUS
    <3> HIDE DEF b, K
    <3>1. j \in 1..(Len(s) - p + 1) /\ p + j - 1 \in p..Len(s)
      BY <1>1, <2>1
    <3>2. QED
      BY <2>1, <2>2, <3>1
  <2> HIDE DEF b, K, S
  <2>4. QED
    BY <1>2, <2>3, KeptNone
<1>5. t \notin K => Kept(one, K) = <<>>
  BY KeptOne
<1> HIDE DEF S, K, f, b, one, ins
<1>0. \A x, y \in Seq(S) : Kept(x \o y, K) = Kept(x, K) \o Kept(y, K) /\ Kept(x, K) \in Seq(S)
  BY KeptBoth
<1>6. ft \in Seq(S) /\ tr \in Seq(S)
  BY <1>2, <1>3, ConcatProperties
<1>7. Kept(f \o one, K) = Kept(f, K) \o Kept(one, K) /\ Kept(f, K) \in Seq(S)
  <2>1. f \in Seq(S) /\ one \in Seq(S)
    BY <1>2, <1>3
  <2>2. QED
    BY <2>1, <1>0
<1>8. Kept(one \o rest, K) = Kept(one, K) \o Kept(rest, K) /\ Kept(one, K) \in Seq(S)
  BY <1>3, <1>0
<1>9. Kept(f \o b, K) = Kept(f, K) \o Kept(b, K) /\ Kept(f, K) \in Seq(S)
  BY <1>2, <1>0
<1> HIDE DEF ft, tr
<1>10. Kept(ft \o b, K) = Kept(ft, K) \o Kept(b, K) /\ Kept(ft, K) \in Seq(S)
  <2>1. ft \in Seq(S) /\ b \in Seq(S)
    BY <1>2, <1>6
  <2>2. QED
    BY <2>1, <1>0
<1>11. Kept(ins \o rest, K) = Kept(ins, K) \o Kept(rest, K) /\ Kept(ins, K) \in Seq(S)
  BY <1>3, <1>0
<1>12. Kept(s \o tr, K) = Kept(s, K) \o Kept(tr, K) /\ Kept(s, K) \in Seq(S)
  <2>1. s \in Seq(S) /\ tr \in Seq(S)
    BY <1>3, <1>6
  <2>2. QED
    BY <2>1, <1>0
<1>13. Kept(b, K) \in Seq(S)
  BY <1>2, KeptTyped
<1>14. Kept(rest, K) \in Seq(S)
  BY <1>3, KeptTyped
<1> DEFINE F == Kept(f, K)
           B == Kept(b, K)
           O == Kept(one, K)
           R == Kept(rest, K)
<1>15. Kept(ins \o rest, K) = ((F \o O) \o B) \o R
  BY <1>2, <1>7, <1>10, <1>11 DEF ft
<1>16. Kept(s \o tr, K) = (F \o B) \o (O \o R)
  BY <1>2, <1>8, <1>9, <1>12 DEF tr
<1>17. F \in Seq(S) /\ B \in Seq(S) /\ O \in Seq(S) /\ R \in Seq(S) /\ (B = <<>> \/ O = <<>>)
  BY <1>4, <1>5, <1>7, <1>8, <1>13, <1>14
<1> HIDE DEF F, B, O, R
<1>18. ((F \o O) \o B) \o R = (F \o B) \o (O \o R)
  <2>1. CASE B = <<>>
    <3>1. F \o O \in Seq(S)
      BY <1>17, ConcatProperties
    <3>2. (F \o O) \o <<>> = F \o O /\ F \o <<>> = F
      BY <1>17, <3>1, ConcatEmptySeq
    <3>3. (F \o O) \o R = F \o (O \o R)
      <4>1. F \in Seq(S) /\ O \in Seq(S) /\ R \in Seq(S)
        BY <1>17
      <4>2. QED
        BY <4>1, TransitionsThree
    <3>4. QED
      BY <2>1, <3>2, <3>3
  <2>2. CASE O = <<>>
    <3>1. F \o <<>> = F /\ <<>> \o R = R
      BY <1>17, ConcatEmptySeq
    <3>2. QED
      BY <2>2, <3>1
  <2>3. QED
    BY <1>17, <2>1, <2>2
<1>19. QED
  BY <1>15, <1>16, <1>18 DEF ins, tr, one, K

\* What new has done to the fields that it was given.
Reordered ==
  side = "sender" =>
    /\ sent \in MachineFields /\ m = [sent EXCEPT !.trans = m.trans]
    /\ pc = "sort" => \A q, a, top \in Nat : Kept(m.trans \o todo, Key(q, a, top)) = Kept(sent.trans, Key(q, a, top))
    /\ pc \in {"index", "send"} => \A q, a, top \in Nat : Kept(m.trans, Key(q, a, top)) = Kept(sent.trans, Key(q, a, top))

LEMMA ReorderedInit == Init => Reordered
<1> SUFFICES ASSUME Init PROVE Reordered
  OBVIOUS
<1>1. sent \in MachineFields /\ m = [sent EXCEPT !.trans = <<>>] /\ todo = sent.trans /\ pc = "sort"
  BY GivenAssumption DEF Init
<1>2. m.trans = <<>>
  BY <1>1, OtherTransitions DEF MachineFields
<1>3. <<>> \o sent.trans = sent.trans
  BY <1>1, FieldsOf, ConcatEmptySeq
<1>4. QED
  BY <1>1, <1>2, <1>3 DEF Reordered

LEMMA ReorderedSort == Typed /\ Reordered /\ SortIn => Reordered'
<1> SUFFICES ASSUME Typed, Reordered, SortIn, side = "sender" PROVE Reordered'
  BY DEF Reordered, SortIn
<1>1. m.trans \in Seq(Transition) /\ m \in MachineFields /\ todo \in Seq(Transition) /\ todo # <<>>
  BY FieldsOf DEF Typed, SortIn
<1> DEFINE t == Head(todo)
           rest == Tail(todo)
           s == m.trans
<1>2. t \in Transition /\ rest \in Seq(Transition) /\ todo = <<t>> \o rest
  BY <1>1
<1>3. PICK p : /\ SortPosition(s, t, p)
               /\ m' = [m EXCEPT !.trans = Inserted(@, t, p)]
  BY DEF SortIn
<1>4. p \in 1..(Len(s) + 1)
  BY <1>3 DEF SortPosition
<1>5. Inserted(s, t, p) \in Seq(Transition)
  BY <1>1, <1>2, <1>4, InsertedTyped
<1>6. m'.trans = Inserted(s, t, p) /\ m' = [m EXCEPT !.trans = m'.trans]
  BY <1>1, <1>3 DEF MachineFields
<1>7. sent \in MachineFields /\ m = [sent EXCEPT !.trans = m.trans] /\ pc = "sort" /\ pc' = "sort" /\ sent' = sent
  BY DEF Reordered, SortIn
<1>8. m' = [sent EXCEPT !.trans = m'.trans]
  BY <1>6, <1>7 DEF MachineFields
<1>9. todo' = rest
  BY DEF SortIn
<1> HIDE DEF t, rest, s
<1>10. ASSUME NEW q \in Nat, NEW a \in Nat, NEW top \in Nat
       PROVE  Kept(m'.trans \o todo', Key(q, a, top)) = Kept(sent.trans, Key(q, a, top))
  <2>1. Kept(m.trans \o todo, Key(q, a, top)) = Kept(sent.trans, Key(q, a, top))
    BY <1>7 DEF Reordered
  <2>2. Kept(Inserted(s, t, p) \o rest, Key(q, a, top)) = Kept(s \o (<<t>> \o rest), Key(q, a, top))
    BY <1>1, <1>2, <1>3, SortKeeps DEF s
  <2>3. QED
    BY <1>2, <1>6, <1>9, <2>1, <2>2 DEF s
<1>11. QED
  BY <1>7, <1>8, <1>10 DEF Reordered

LEMMA ReorderedStep == Typed /\ Sides /\ Reordered /\ [Next]_vars => Reordered'
<1> SUFFICES ASSUME Typed, Sides, Reordered, [Next]_vars PROVE Reordered'
  OBVIOUS
<1>1. CASE SortIn
  BY <1>1, ReorderedSort
<1>2. CASE BeginIndex
  <2>1. /\ pc = "sort" /\ todo = <<>> /\ pc' = "index" /\ UNCHANGED <<side, m, sent>>
    BY <1>2 DEF BeginIndex
  <2>2. m.trans \o <<>> = m.trans
    BY FieldsOf, ConcatEmptySeq DEF Typed
  <2>3. QED
    BY <2>1, <2>2 DEF Reordered
<1>3. CASE IndexRecord
  BY <1>3 DEF IndexRecord, Reordered
<1>4. CASE ValidateBounds
  <2>1. pc = "index" /\ pc' \in {"refused", "send", "done"} /\ pc' # "sort" /\ pc' # "index"
    BY <1>4, ValidateEffect
  <2>2. UNCHANGED <<side, m, sent>>
    BY <1>4, ValidateEffect
  <2>3. QED
    BY <2>1, <2>2 DEF Reordered
<1>5. CASE Deliver \/ DeliverCut \/ DeliverChanged
  <2>1. side' # "sender"
    BY <1>5 DEF Deliver, DeliverCut, DeliverChanged, Arrives
  <2>2. QED
    BY <2>1 DEF Reordered
<1>6. CASE ReadHeader \/ ReadAccepting \/ ReadTransition \/ ReadSuffix \/ Truncated
  <2>1. pc = "read" /\ side' = side
    BY <1>6 DEF ReadHeader, ReadAccepting, ReadTransition, ReadSuffix, Truncated
  <2>2. side' # "sender"
    BY <2>1 DEF Sides
  <2>3. QED
    BY <2>2 DEF Reordered
<1>7. CASE Finished \/ UNCHANGED vars
  BY <1>7 DEF Finished, vars, Reordered
<1>8. QED
  BY <1>1, <1>2, <1>3, <1>4, <1>5, <1>6, <1>7 DEF Next

LEMMA ReorderedMeans == BuildInv /\ Reordered => LookupsPreserved
<1> SUFFICES ASSUME BuildInv, Reordered, pc = "send",
                    NEW q \in 0..(m.states - 1), NEW a \in 0..m.inputs, NEW top \in 0..(m.syms - 1)
             PROVE  ByRow(m, offsets, counts, q, a, top) = ByFilter(sent, q, a, top)
  BY DEF LookupsPreserved
<1>1. m \in MachineFields /\ sent \in MachineFields /\ Indexed(m.trans, Len(m.trans), States, offsets, counts)
  BY DEF BuildInv, Typed, Sides, Built, IndexedTo, Reordered
<1>2. q \in States /\ q \in Nat /\ a \in Nat /\ top \in Nat
  BY <1>1, FieldsOf DEF States
<1>3. Kept(m.trans, Key(q, a, top)) = Kept(sent.trans, Key(q, a, top))
  BY <1>2 DEF BuildInv, Sides, Reordered
<1>4. ByRow(m, offsets, counts, q, a, top) = Kept(m.trans, Key(q, a, top))
  BY <1>1, <1>2, RowKeeps
<1>5. ByFilter(sent, q, a, top) = Kept(sent.trans, Key(q, a, top))
  BY <1>1, FilterKeeps
<1>6. QED
  BY <1>3, <1>4, <1>5

\* Whatever fields new is given, in whatever order, a lookup through the index
\* of the machine it returns finds the transitions that were given for its
\* key, in the order in which they were given.
THEOREM LookupsAlwaysPreserved == Spec => []LookupsPreserved
<1>1. Init => Reordered
  BY ReorderedInit
<1>2. BuildInv /\ Reordered /\ [Next]_vars => Reordered'
  BY ReorderedStep DEF BuildInv
<1>3. QED
  BY <1>1, <1>2, BuildAlways, ReorderedMeans, PTL DEF Spec
----------------------------------------------------------------------------
(* What is accepted can be run.                                            *)

\* A filter finds transitions of the array.
LEMMA FilterInside ==
  ASSUME NEW x \in MachineFields, NEW q, NEW a, NEW top
  PROVE  ToSet(ByFilter(x, q, a, top)) \subseteq ToSet(x.trans)
<1> DEFINE s == x.trans
           S == ToSet(s)
           K == {t \in ToSet(s) : t.q = q /\ t.a = a /\ t.top = top}
<1>1. s \in Seq(S)
  <2>1. s \in Seq(Transition) /\ DOMAIN s = 1..Len(s) /\ Len(s) \in Nat
    BY FieldsOf, LenProperties
  <2>2. \A j \in 1..Len(s) : s[j] \in S
    BY <2>1 DEF ToSet
  <2>3. s \in [1..Len(s) -> S]
    BY <2>1, <2>2
  <2> HIDE DEF S, s
  <2>4. QED
    BY <2>1, <2>3
<1> HIDE DEF S
<1>2. Kept(s, K) \in Seq(S)
  <2> HIDE DEF s, K
  <2>1. QED
    BY <1>1, KeptTyped
<1> HIDE DEF s, K
<1>3. ToSet(Kept(s, K)) \subseteq S
  BY <1>2, LenProperties, ElementOfSeq DEF ToSet
<1>4. QED
  BY <1>3 DEF ByFilter, S, s, K

LEMMA TableInside ==
  ASSUME NEW x \in MachineFields, InBounds(x), NEW q \in 0..(x.states - 1), NEW top \in 0..(x.syms - 1)
  PROVE  TablePairs(x, q, top) \subseteq (0..(x.states - 1)) \X (0..(x.syms - 1))
<1> DEFINE R == (0..(x.states - 1)) \X (0..(x.syms - 1))
           All == SUBSET R
           first == {<<q, top>>}
           Moved(P) == UNION {{<<t.next_q, IF t.push = <<>> THEN p[2] ELSE Head(t.push)>> :
                                 t \in ToSet(ByFilter(x, p[1], x.inputs, p[2]))} : p \in P}
           step == [y \in Nat \X All |-> y[2] \cup Moved(y[2])]
           Is(f) == f = [n \in Nat |-> IF n = 0 THEN first ELSE f[n - 1] \cup Moved(f[n - 1])]
<1>1. x.states \in Nat /\ x.syms \in Nat /\ x.trans \in Seq(Transition)
  BY FieldsOf
<1>2. ASSUME NEW P \in All PROVE Moved(P) \in All
  <2> SUFFICES ASSUME NEW p \in P, NEW t \in ToSet(ByFilter(x, p[1], x.inputs, p[2]))
               PROVE  <<t.next_q, IF t.push = <<>> THEN p[2] ELSE Head(t.push)>> \in R
    OBVIOUS
  <2>1. t \in ToSet(x.trans)
    BY FilterInside
  <2>2. t \in Transition
    BY <1>1, <2>1, ElementsTyped DEF ToSet
  <2>3. t.next_q < x.states /\ \A s \in ToSet(t.push) : s < x.syms
    BY <2>1 DEF InBounds
  <2>4. t.next_q \in Nat /\ t.push \in Seq(Nat)
    BY <2>2 DEF Transition
  <2>5. t.push # <<>> => Head(t.push) \in 0..(x.syms - 1)
    <3> DEFINE push == t.push
    <3>1. push \in Seq(Nat)
      BY <2>4
    <3> HIDE DEF push
    <3>2. push # <<>> => Head(push) \in Nat /\ Head(push) \in ToSet(push)
      <4>1. push # <<>> => 1 \in DOMAIN push /\ Head(push) = push[1] /\ push[1] \in Nat
        BY <3>1
      <4>2. QED
        BY <4>1 DEF ToSet
    <3>3. \A y \in ToSet(push) : y < x.syms
      BY <2>3 DEF push
    <3>4. ASSUME push # <<>> PROVE Head(push) \in 0..(x.syms - 1)
      <4> DEFINE h == Head(push)
      <4>1. h \in Nat /\ h < x.syms
        BY <3>2, <3>3, <3>4
      <4>2. x.syms \in Nat
        BY <1>1
      <4> HIDE DEF h
      <4>3. h \in 0..(x.syms - 1)
        BY <4>1, <4>2
      <4>4. QED
        BY <4>3 DEF h
    <3>5. QED
      BY <3>4 DEF push
  <2>6. p[2] \in 0..(x.syms - 1)
    OBVIOUS
  <2>7. t.next_q \in 0..(x.states - 1)
    BY <1>1, <2>3, <2>4
  <2> DEFINE to == t.next_q
             below == IF t.push = <<>> THEN p[2] ELSE Head(t.push)
  <2>8. below \in 0..(x.syms - 1)
    BY <2>5, <2>6
  <2> HIDE DEF to, below
  <2>9. <<to, below>> \in R
    BY <2>7, <2>8 DEF to
  <2>10. QED
    BY <2>9 DEF to, below
<1>3. first \in All
  OBVIOUS
<1>4. step \in [Nat \X All -> All]
  <2> HIDE DEF Moved, All
  <2>1. ASSUME NEW y \in Nat \X All PROVE y[2] \cup Moved(y[2]) \in All
    <3>1. y[2] \in All
      OBVIOUS
    <3>2. Moved(y[2]) \in All
      BY <1>2, <3>1
    <3>3. QED
      BY <3>1, <3>2 DEF All
  <2>2. QED
    BY <2>1
<1>5. PICK f : f \in [Nat -> All] /\ f[0] = first /\ \A n \in Nat : f[n + 1] = step[<<n, f[n]>>]
  <2> HIDE DEF All, first, step
  <2>1. HasRecursive(All, first, step)
    BY <1>3, <1>4, Recursion
  <2>2. QED
    BY <2>1 DEF HasRecursive, Recursive
<1>6. Is(f)
  <2> HIDE DEF Moved, All, first
  <2>1. \A n \in Nat : f[n + 1] = f[n] \cup Moved(f[n])
    BY <1>5
  <2>2. ASSUME NEW n \in Nat PROVE f[n] = IF n = 0 THEN first ELSE f[n - 1] \cup Moved(f[n - 1])
    <3>1. CASE n = 0
      BY <1>5, <3>1
    <3>2. CASE n # 0
      <4>1. n - 1 \in Nat /\ (n - 1) + 1 = n
        BY <3>2
      <4>2. QED
        BY <2>1, <3>2, <4>1
    <3>3. QED
      BY <3>1, <3>2
  <2>3. QED
    BY <1>5, <2>2
<1> DEFINE chosen == CHOOSE h : Is(h)
<1>7. Is(chosen)
  <2> HIDE DEF Is
  <2>1. QED
    BY <1>6
<1>8. \A n \in Nat : chosen[n] \in All
  <2> DEFINE T == {n \in Nat : chosen[n] \in All}
  <2>0. \A n \in Nat : chosen[n] = IF n = 0 THEN first ELSE chosen[n - 1] \cup Moved(chosen[n - 1])
    <3> HIDE DEF chosen, Moved, first
    <3>1. QED
      BY <1>7
  <2> HIDE DEF chosen, Moved, first, All
  <2>1. 0 \in T
    BY <1>3, <2>0
  <2>2. ASSUME NEW n \in Nat, n \in T PROVE n + 1 \in T
    <3>1. n + 1 \in Nat /\ n + 1 # 0 /\ (n + 1) - 1 = n
      OBVIOUS
    <3>2. chosen[n + 1] = chosen[n] \cup Moved(chosen[n])
      BY <2>0, <3>1
    <3>3. chosen[n] \in All /\ Moved(chosen[n]) \in All
      BY <1>2, <2>2
    <3>4. chosen[n + 1] \in All
      BY <3>2, <3>3 DEF All
    <3>5. QED
      BY <3>1, <3>4
  <2> HIDE DEF T
  <2>3. Nat \subseteq T
    BY <2>1, <2>2, Induction
  <2>4. QED
    BY <2>3 DEF T
<1>9. x.states * x.syms \in Nat
  BY <1>1
<1>10. TablePairs(x, q, top) = chosen[x.states * x.syms]
  BY DEF TablePairs
<1>11. QED
  BY <1>8, <1>9, <1>10

LEMMA PhasesInside ==
  ASSUME NEW x \in MachineFields, InBounds(x), x.prov.some
  PROVE  x.prov.of \in [1..x.states -> 0..(x.states - 1)]
<1> DEFINE of == x.prov.of
<1>1. Len(of) = x.states /\ (\A n \in ToSet(of) : n < x.states) /\ x.states \in Nat /\ of \in Seq(Nat)
  BY FieldsOf DEF InBounds
<1> HIDE DEF of
<1>2. \A j \in 1..Len(of) : of[j] \in ToSet(of) /\ of[j] \in Nat
  BY <1>1 DEF ToSet
<1>3. \A j \in 1..Len(of) : of[j] \in 0..(x.states - 1)
  BY <1>1, <1>2
<1>4. of \in [1..Len(of) -> 0..(x.states - 1)]
  BY <1>1, <1>3
<1>5. QED
  BY <1>1, <1>4 DEF of

LEMMA BuiltIsUsable == BuildInv => AcceptedIsUsable
<1> SUFFICES ASSUME BuildInv, pc = "done" PROVE AcceptedIsUsable
  BY DEF AcceptedIsUsable
<1>1. m \in MachineFields /\ InBounds(m) /\ Indexed(m.trans, Len(m.trans), States, offsets, counts)
  BY DEF BuildInv, Typed, Built, IndexedTo
<1>2. ASSUME NEW q \in 0..(m.states - 1), NEW a \in 0..m.inputs, NEW top \in 0..(m.syms - 1)
      PROVE  /\ ByRow(m, offsets, counts, q, a, top) = ByFilter(m, q, a, top)
             /\ TablePairs(m, q, top) \subseteq (0..(m.states - 1)) \X (0..(m.syms - 1))
  <2>1. q \in States
    BY DEF States
  <2>2. ByRow(m, offsets, counts, q, a, top) = Kept(m.trans, Key(q, a, top))
    BY <1>1, <2>1, RowKeeps
  <2>3. ByFilter(m, q, a, top) = Kept(m.trans, Key(q, a, top))
    BY <1>1, FilterKeeps
  <2>4. QED
    BY <1>1, <2>2, <2>3, TableInside
<1>3. m.prov.some => m.prov.of \in [1..m.states -> 0..(m.states - 1)]
  BY <1>1, PhasesInside
<1>4. QED
  BY <1>2, <1>3 DEF AcceptedIsUsable

\* Whatever words arrive, what from_bitvec accepts can be run.
THEOREM AcceptedAlwaysUsable == Spec => []AcceptedIsUsable
BY BuildAlways, BuiltIsUsable, PTL
----------------------------------------------------------------------------
(* The words of a machine and the reader that takes them apart.            *)

\* Two sequences of words, one behind the other.
LEMMA WordsBoth ==
  ASSUME NEW x \in Seq(Nat), NEW y \in Seq(Nat)
  PROVE  /\ x \o y \in Seq(Nat) /\ Len(x \o y) = Len(x) + Len(y) /\ Len(x) \in Nat /\ Len(y) \in Nat
         /\ \A j \in 1..Len(x) : (x \o y)[j] = x[j]
         /\ \A j \in 1..Len(y) : (x \o y)[Len(x) + j] = y[j]
<1>1. /\ x \o y \in Seq(Nat) /\ Len(x \o y) = Len(x) + Len(y) /\ Len(x) \in Nat /\ Len(y) \in Nat
      /\ \A j \in 1..(Len(x) + Len(y)) : (x \o y)[j] = IF j <= Len(x) THEN x[j] ELSE y[j - Len(x)]
  BY ConcatProperties, LenProperties
<1> DEFINE z == x \o y
<1> HIDE DEF z
<1>2. ASSUME NEW j \in 1..Len(x) PROVE z[j] = x[j]
  BY <1>1 DEF z
<1>3. ASSUME NEW j \in 1..Len(y) PROVE z[Len(x) + j] = y[j]
  <2>1. Len(x) + j \in 1..(Len(x) + Len(y)) /\ ~(Len(x) + j <= Len(x)) /\ (Len(x) + j) - Len(x) = j
    BY <1>1
  <2>2. QED
    BY <1>1, <2>1 DEF z
<1>4. QED
  BY <1>1, <1>2, <1>3 DEF z

\* Sequences of words with the same elements are the same.
LEMMA WordsSame ==
  ASSUME NEW x \in Seq(Nat), NEW y \in Seq(Nat), Len(x) = Len(y), \A j \in 1..Len(x) : x[j] = y[j]
  PROVE  x = y
BY SeqEqual

\* Three sequences of words are joined in either order.
LEMMA WordsThree ==
  ASSUME NEW x \in Seq(Nat), NEW y \in Seq(Nat), NEW z \in Seq(Nat)
  PROVE  (x \o y) \o z = x \o (y \o z)
BY ConcatThree, SMTT(40)

LEMMA FirstWords ==
  ASSUME NEW w \in Seq(Nat), NEW n \in Nat, n <= Len(w)
  PROVE  SubSeq(w, 1, n) \in Seq(Nat) /\ Len(SubSeq(w, 1, n)) = n /\ \A j \in 1..n : SubSeq(w, 1, n)[j] = w[j]
OBVIOUS

\* The words of a push, read behind the five words at the front of a record.
LEMMA PushRead ==
  ASSUME NEW w \in Seq(Nat), NEW p \in Nat, NEW n \in Nat, p + 5 + n <= Len(w)
  PROVE  LET push == SubSeq(w, p + 6, p + 5 + n)
         IN push \in Seq(Nat) /\ Len(push) = n /\ \A j \in 1..n : push[j] = w[(p + 6) + j - 1]
OBVIOUS

\* What is read next goes behind what was read.
LEMMA ReadOn ==
  ASSUME NEW w \in Seq(Nat), NEW n \in Nat, NEW x \in Seq(Nat), n + Len(x) <= Len(w),
         \A j \in 1..Len(x) : w[n + j] = x[j]
  PROVE  SubSeq(w, 1, n + Len(x)) = SubSeq(w, 1, n) \o x
<1> DEFINE k == Len(x)
           front == SubSeq(w, 1, n)
           more == SubSeq(w, 1, n + k)
           both == front \o x
<1>1. k \in Nat /\ Len(w) \in Nat /\ n <= Len(w) /\ n + k <= Len(w)
  BY LenProperties
<1>2. front \in Seq(Nat) /\ Len(front) = n /\ \A j \in 1..n : front[j] = w[j]
  BY <1>1
<1> HIDE DEF k
<1>3. more \in Seq(Nat) /\ Len(more) = n + k /\ \A j \in 1..(n + k) : more[j] = w[j]
  BY <1>1
<1> HIDE DEF front, more
<1>4. /\ both \in Seq(Nat) /\ Len(both) = n + k /\ \A j \in 1..n : both[j] = front[j]
      /\ \A j \in 1..k : both[n + j] = x[j]
  BY <1>2, WordsBoth DEF k
<1> HIDE DEF both
<1>5. ASSUME NEW j \in 1..(n + k) PROVE more[j] = both[j]
  <2>1. CASE j <= n
    <3>1. j \in 1..n
      BY <2>1
    <3>2. QED
      BY <1>2, <1>3, <1>4, <3>1
  <2>2. CASE j > n
    <3>1. j - n \in 1..k /\ n + (j - n) = j
      BY <1>1, <2>2
    <3>2. both[n + (j - n)] = x[j - n] /\ w[n + (j - n)] = x[j - n]
      BY <1>4, <3>1 DEF k
    <3>3. QED
      BY <1>3, <3>1, <3>2
  <2>3. QED
    BY <2>1, <2>2
<1>6. more = both
  BY <1>3, <1>4, <1>5, WordsSame
<1>7. QED
  BY <1>6 DEF more, both, front, k

\* What comes before the flag: n transitions and k accepting states are said
\* to follow the header.
Header(x, n, k) == <<x.states, x.inputs, x.syms, n, k, x.start, x.bottom>>
FrontWords(x, n, k, s) == (Header(x, n, k) \o x.accepting) \o Stream(s)
Suffix(x) == IF x.prov.some THEN <<1>> \o x.prov.of ELSE <<0>>

LEMMA FrontParts ==
  ASSUME NEW x \in MachineFields, NEW n \in Nat, NEW k \in Nat, NEW s \in Seq(Transition)
  PROVE  /\ FrontWords(x, n, k, s) \in Seq(Nat) /\ Header(x, n, k) \in Seq(Nat)
         /\ Len(x.accepting) \in Nat /\ Len(Stream(s)) \in Nat /\ Stream(s) \in Seq(Nat)
         /\ Len(FrontWords(x, n, k, s)) = (7 + Len(x.accepting)) + Len(Stream(s))
         /\ \A j \in 1..7 : FrontWords(x, n, k, s)[j] = Header(x, n, k)[j]
         /\ \A j \in 1..Len(x.accepting) : FrontWords(x, n, k, s)[7 + j] = x.accepting[j]
         /\ \A j \in 1..Len(Stream(s)) : FrontWords(x, n, k, s)[(7 + Len(x.accepting)) + j] = Stream(s)[j]
<1> DEFINE h == Header(x, n, k)
           a == x.accepting
           b == Stream(s)
           ha == h \o a
           all == ha \o b
<1>1. h \in Seq(Nat) /\ Len(h) = 7
  BY FieldsOf DEF Header
<1>2. a \in Seq(Nat) /\ b \in Seq(Nat) /\ Len(a) \in Nat /\ Len(b) \in Nat
  BY FieldsOf, StreamBoth, LenProperties
<1> HIDE DEF h, a, b
<1>3. /\ ha \in Seq(Nat) /\ Len(ha) = 7 + Len(a)
      /\ \A j \in 1..7 : ha[j] = h[j]
      /\ \A j \in 1..Len(a) : ha[7 + j] = a[j]
  <2>1. /\ ha \in Seq(Nat) /\ Len(ha) = Len(h) + Len(a)
        /\ \A j \in 1..Len(h) : ha[j] = h[j]
        /\ \A j \in 1..Len(a) : ha[Len(h) + j] = a[j]
    BY <1>1, <1>2, WordsBoth
  <2>2. QED
    BY <1>1, <2>1
<1> HIDE DEF ha
<1>4. /\ all \in Seq(Nat) /\ Len(all) = Len(ha) + Len(b)
      /\ \A j \in 1..Len(ha) : all[j] = ha[j]
      /\ \A j \in 1..Len(b) : all[Len(ha) + j] = b[j]
  BY <1>2, <1>3, WordsBoth
<1>5. all = FrontWords(x, n, k, s)
  BY DEF FrontWords, all, ha, h, a, b
<1> HIDE DEF all
<1>6. \A j \in 1..7 : all[j] = h[j]
  <2>1. Len(a) \in Nat /\ Len(ha) = 7 + Len(a)
    BY <1>2, <1>3
  <2>2. \A j \in 1..7 : j \in 1..Len(ha)
    BY <2>1
  <2>3. QED
    BY <1>3, <1>4, <2>2
<1>7. \A j \in 1..Len(a) : all[7 + j] = a[j]
  <2> SUFFICES ASSUME NEW j \in 1..Len(a) PROVE all[7 + j] = a[j]
    OBVIOUS
  <2>1. 7 + j \in 1..Len(ha)
    <3>1. Len(a) \in Nat /\ Len(ha) = 7 + Len(a)
      BY <1>2, <1>3
    <3>2. QED
      BY <3>1
  <2>2. QED
    BY <1>3, <1>4, <2>1
<1>8. Len(all) = (7 + Len(a)) + Len(b) /\ \A j \in 1..Len(b) : all[(7 + Len(a)) + j] = b[j]
  BY <1>3, <1>4
<1>9. QED
  BY <1>1, <1>2, <1>4, <1>5, <1>6, <1>7, <1>8 DEF h, a, b

LEMMA FrontLength ==
  ASSUME NEW x \in MachineFields, NEW n \in Nat, NEW k \in Nat, NEW s \in Seq(Transition)
  PROVE  /\ Len(x.accepting) \in Nat /\ Len(Stream(s)) \in Nat
         /\ Len(FrontWords(x, n, k, s)) = (7 + Len(x.accepting)) + Len(Stream(s))
<1> DEFINE f == FrontWords(x, n, k, s)
           h == Header(x, n, k)
           b == Stream(s)
           a == x.accepting
<1>1. /\ f \in Seq(Nat) /\ h \in Seq(Nat)
      /\ Len(a) \in Nat /\ Len(b) \in Nat /\ b \in Seq(Nat)
      /\ Len(f) = (7 + Len(a)) + Len(b)
      /\ \A j \in 1..7 : f[j] = h[j]
      /\ \A j \in 1..Len(a) : f[7 + j] = a[j]
      /\ \A j \in 1..Len(b) : f[(7 + Len(a)) + j] = b[j]
  BY FrontParts
<1> HIDE DEF f, h, b, a
<1>2. Len(a) \in Nat /\ Len(b) \in Nat /\ Len(f) = (7 + Len(a)) + Len(b)
  BY <1>1
<1>3. QED
  BY <1>2 DEF f, b, a

LEMMA EncodedFront ==
  ASSUME NEW x \in MachineFields
  PROVE  /\ Encode(x) = FrontWords(x, Len(x.trans), Len(x.accepting), x.trans) \o Suffix(x)
         /\ Suffix(x) \in Seq(Nat) /\ Len(Suffix(x)) \in Nat /\ Len(Suffix(x)) >= 1
         /\ Encode(x) \in Seq(Nat)
<1>1. LET header == <<x.states, x.inputs, x.syms, Len(x.trans), Len(x.accepting), x.start, x.bottom>>
          suffix == IF x.prov.some THEN <<1>> \o x.prov.of ELSE <<0>>
      IN /\ Encode(x) = ((header \o x.accepting) \o Stream(x.trans)) \o suffix
         /\ header \in Seq(Nat) /\ x.accepting \in Seq(Nat) /\ Stream(x.trans) \in Seq(Nat)
         /\ suffix \in Seq(Nat) /\ Len(suffix) >= 1
         /\ Encode(x) \in Seq(Nat)
  BY EncodedParts
<1>2. QED
  BY <1>1, LenProperties DEF FrontWords, Header, Suffix

\* The words read so far are those of what was made of them.
Parsed ==
  pc = "read" /\ pos # 0 =>
    /\ pos >= 7
    /\ SubSeq(words, 1, pos) = FrontWords(m, words[4], words[5], todo)
    /\ m.prov = Absent
    /\ todo # <<>> => Len(m.accepting) = words[5]

LEMMA ParsedCounts ==
  ASSUME Typed, pos >= 7
  PROVE  words[4] \in Nat /\ words[5] \in Nat /\ Len(words) \in Nat
BY DEF Typed

LEMMA ParsedHeader == Typed /\ ReadHeader => Parsed'
<1> SUFFICES ASSUME Typed, ReadHeader PROVE Parsed'
  OBVIOUS
<1>1. /\ pos = 0 /\ Has(7) /\ pos' = 7 /\ words' = words /\ todo' = <<>>
      /\ m' = [states |-> Word(1), inputs |-> Word(2), syms |-> Word(3), trans |-> <<>>,
               accepting |-> <<>>, start |-> Word(6), bottom |-> Word(7), prov |-> Absent]
  BY DEF ReadHeader, HeaderLen
<1>2. words \in Seq(Nat) /\ Len(words) \in Nat /\ 7 <= Len(words)
  BY <1>1, LenProperties DEF Typed, Has
<1>3. ASSUME NEW i \in 1..7 PROVE Word(i) = words[i] /\ words[i] \in Nat
  <2>1. i \in 1..Len(words) /\ 0 + i = i
    BY <1>2
  <2>2. Word(i) = words[i]
    BY <1>1, <2>1 DEF Word
  <2>3. words[i] \in Nat
    BY <1>2, <2>1
  <2>4. QED
    BY <2>2, <2>3
<1> DEFINE h == Header(m', words[4], words[5])
<1>4. h = <<words[1], words[2], words[3], words[4], words[5], words[6], words[7]>>
  BY <1>1, <1>3 DEF Header
<1>5. h \in Seq(Nat) /\ Len(h) = 7 /\ \A j \in 1..7 : h[j] = words[j]
  <2>1. words[1] \in Nat /\ words[2] \in Nat /\ words[3] \in Nat /\ words[4] \in Nat /\ words[5] \in Nat
        /\ words[6] \in Nat /\ words[7] \in Nat
    BY <1>3
  <2>2. h \in Seq(Nat) /\ Len(h) = 7
    BY <1>4, <2>1
  <2>3. \A j \in 1..7 : h[j] = words[j]
    <3>1. h[1] = words[1] /\ h[2] = words[2] /\ h[3] = words[3] /\ h[4] = words[4] /\ h[5] = words[5]
          /\ h[6] = words[6] /\ h[7] = words[7]
      BY <1>4
    <3>2. \A j \in 1..7 : j = 1 \/ j = 2 \/ j = 3 \/ j = 4 \/ j = 5 \/ j = 6 \/ j = 7
      OBVIOUS
    <3> HIDE DEF h
    <3>3. QED
      BY <3>1, <3>2
  <2>4. QED
    BY <2>2, <2>3
<1> HIDE DEF h
<1>6. SubSeq(words, 1, 7) = h
  <2> DEFINE front == SubSeq(words, 1, 7)
  <2>1. front \in Seq(Nat) /\ Len(front) = 7 /\ \A j \in 1..7 : front[j] = words[j]
    BY <1>2, FirstWords
  <2> HIDE DEF front
  <2>2. front = h
    BY <1>5, <2>1, WordsSame
  <2>3. QED
    BY <2>2 DEF front
<1>7. FrontWords(m', words[4], words[5], <<>>) = h
  <2>1. m'.accepting = <<>>
    BY <1>1
  <2>2. Stream(<<>>) = <<>>
    BY NoStream
  <2>3. (h \o <<>>) \o <<>> = h
    BY <1>5, ConcatEmptySeq
  <2>4. QED
    BY <2>1, <2>2, <2>3 DEF FrontWords, h
<1>8. m'.prov = Absent
  BY <1>1
<1>9. QED
  BY <1>1, <1>6, <1>7, <1>8 DEF Parsed

LEMMA ParsedAccepting == Typed /\ Parsed /\ ReadAccepting => Parsed'
<1> SUFFICES ASSUME Typed, Parsed, ReadAccepting PROVE Parsed'
  OBVIOUS
<1> DEFINE w == Word(1)
           h == Header(m, words[4], words[5])
           a == m.accepting
<1>1. /\ pc = "read" /\ pos >= 7 /\ Len(a) < words[5] /\ Has(1)
      /\ m' = [m EXCEPT !.accepting = Append(@, w)] /\ pos' = pos + 1 /\ UNCHANGED <<words, todo>>
  BY DEF ReadAccepting, AcceptingDue, HeaderLen
<1>2. words \in Seq(Nat) /\ pos \in Nat /\ m \in MachineFields /\ a \in Seq(Nat) /\ Len(a) \in Nat
      /\ pos + 1 <= Len(words)
  BY <1>1, FieldsOf, LenProperties DEF Typed, Has
<1>3. pos # 0 /\ words[4] \in Nat /\ words[5] \in Nat
  BY <1>1, <1>2, ParsedCounts
<1>4. todo = <<>> /\ m.prov = Absent /\ SubSeq(words, 1, pos) = FrontWords(m, words[4], words[5], todo)
  <2>1. /\ m.prov = Absent /\ SubSeq(words, 1, pos) = FrontWords(m, words[4], words[5], todo)
        /\ todo # <<>> => Len(m.accepting) = words[5]
    BY <1>1, <1>3 DEF Parsed
  <2>2. Len(m.accepting) \in Nat /\ Len(m.accepting) < words[5]
    BY <1>1, <1>2
  <2>3. Len(m.accepting) # words[5]
    BY <1>3, <2>2
  <2>4. QED
    BY <2>1, <2>3
<1>5. w \in Nat /\ w = words[pos + 1]
  BY <1>1, WordTyped DEF Word
<1>6. h \in Seq(Nat)
  BY <1>2, <1>3, FieldsOf DEF Header
<1>7. /\ m'.accepting = Append(a, w) /\ m'.prov = m.prov /\ Header(m', words[4], words[5]) = h
  BY <1>1, <1>2 DEF MachineFields, Header
<1> HIDE DEF w, h, a
<1>8. h \o a \in Seq(Nat) /\ (h \o a) \o <<>> = h \o a
  <2>1. h \o a \in Seq(Nat)
    BY <1>2, <1>6, WordsBoth
  <2>2. QED
    BY <2>1, ConcatEmptySeq
<1>9. SubSeq(words, 1, pos) = h \o a
  BY <1>4, <1>8, NoStream DEF FrontWords, h, a
<1>10. SubSeq(words, 1, pos + 1) = (h \o a) \o <<w>>
  <2> DEFINE x == <<w>>
  <2>1. x \in Seq(Nat) /\ Len(x) = 1 /\ x[1] = words[pos + 1]
    BY <1>5
  <2> HIDE DEF x
  <2>2. \A j \in 1..Len(x) : words[pos + j] = x[j]
    BY <2>1
  <2>3. SubSeq(words, 1, pos + Len(x)) = SubSeq(words, 1, pos) \o x
    BY <1>2, <2>1, <2>2, ReadOn
  <2>4. QED
    BY <1>9, <2>1, <2>3 DEF x
<1>11. (h \o a) \o <<w>> = h \o Append(a, w) /\ h \o Append(a, w) \in Seq(Nat)
  <2>1. <<w>> \in Seq(Nat) /\ Append(a, w) = a \o <<w>> /\ Append(a, w) \in Seq(Nat)
    BY <1>2, <1>5
  <2>2. (h \o a) \o <<w>> = h \o (a \o <<w>>)
    <3> DEFINE x == <<w>>
    <3>1. h \in Seq(Nat) /\ a \in Seq(Nat) /\ x \in Seq(Nat)
      BY <1>2, <1>6, <2>1
    <3> HIDE DEF x
    <3>2. (h \o a) \o x = h \o (a \o x)
      BY <3>1, WordsThree
    <3>3. QED
      BY <3>2 DEF x
  <2>3. QED
    BY <1>6, <2>1, <2>2, WordsBoth
<1>12. FrontWords(m', words[4], words[5], <<>>) = h \o Append(a, w)
  BY <1>7, <1>11, ConcatEmptySeq, NoStream DEF FrontWords
<1>13. pos + 1 >= 7
  BY <1>1, <1>2
<1>14. QED
  BY <1>1, <1>4, <1>7, <1>10, <1>11, <1>12, <1>13 DEF Parsed

LEMMA RecordParts ==
  ASSUME NEW t \in Transition
  PROVE  LET r == RecordWords(t)
             n == Len(t.push)
         IN /\ r \in Seq(Nat) /\ n \in Nat /\ Len(r) = 5 + n /\ t.push \in Seq(Nat)
            /\ r[1] = t.q /\ r[2] = t.a /\ r[3] = t.top /\ r[4] = t.next_q /\ r[5] = n
            /\ \A j \in 1..n : r[5 + j] = t.push[j]
<1> DEFINE f == <<t.q, t.a, t.top, t.next_q, Len(t.push)>>
           b == t.push
           r == f \o b
<1>1. b \in Seq(Nat) /\ Len(b) \in Nat /\ t.q \in Nat /\ t.a \in Nat /\ t.top \in Nat /\ t.next_q \in Nat
  BY LenProperties DEF Transition
<1>2. /\ f \in Seq(Nat) /\ Len(f) = 5
      /\ f[1] = t.q /\ f[2] = t.a /\ f[3] = t.top /\ f[4] = t.next_q /\ f[5] = Len(b)
  BY <1>1
<1>3. r = RecordWords(t)
  BY DEF RecordWords
<1> HIDE DEF f, b
<1>4. /\ r \in Seq(Nat) /\ Len(r) = Len(f) + Len(b)
      /\ \A j \in 1..Len(f) : r[j] = f[j]
      /\ \A j \in 1..Len(b) : r[Len(f) + j] = b[j]
  BY <1>1, <1>2, WordsBoth
<1> HIDE DEF r
<1>5. r[1] = f[1] /\ r[2] = f[2] /\ r[3] = f[3] /\ r[4] = f[4] /\ r[5] = f[5]
  <2>1. \A j \in 1..5 : r[j] = f[j]
    BY <1>2, <1>4
  <2>2. QED
    BY <2>1
<1>6. Len(r) = 5 + Len(b) /\ \A j \in 1..Len(b) : r[5 + j] = b[j]
  BY <1>2, <1>4
<1>7. QED
  BY <1>1, <1>2, <1>3, <1>4, <1>5, <1>6 DEF b

\* The record that is read at a position is written as the words there.
LEMMA RecordRead ==
  ASSUME NEW w \in Seq(Nat), NEW p \in Nat, NEW n \in Nat, n = w[p + 5], p + 5 + n <= Len(w)
  PROVE  LET t == [q |-> w[p + 1], a |-> w[p + 2], top |-> w[p + 3], next_q |-> w[p + 4],
                   push |-> SubSeq(w, p + 6, p + 5 + n)]
         IN /\ t \in Transition /\ Len(RecordWords(t)) = 5 + n
            /\ \A j \in 1..(5 + n) : w[p + j] = RecordWords(t)[j]
<1> DEFINE push == SubSeq(w, p + 6, p + 5 + n)
           t == [q |-> w[p + 1], a |-> w[p + 2], top |-> w[p + 3], next_q |-> w[p + 4], push |-> push]
           r == RecordWords(t)
<1>1. w[p + 1] \in Nat /\ w[p + 2] \in Nat /\ w[p + 3] \in Nat /\ w[p + 4] \in Nat
  <2>1. Len(w) \in Nat /\ p + 1 \in 1..Len(w) /\ p + 2 \in 1..Len(w) /\ p + 3 \in 1..Len(w) /\ p + 4 \in 1..Len(w)
    OBVIOUS
  <2>2. \A j \in 1..Len(w) : w[j] \in Nat
    OBVIOUS
  <2>3. QED
    BY <2>1, <2>2
<1>2. push \in Seq(Nat) /\ Len(push) = n /\ \A j \in 1..n : push[j] = w[(p + 6) + j - 1]
  BY PushRead
<1> HIDE DEF push
<1>3. t \in Transition
  BY <1>1, <1>2 DEF Transition
<1>4. /\ r \in Seq(Nat) /\ Len(r) = 5 + n
      /\ r[1] = w[p + 1] /\ r[2] = w[p + 2] /\ r[3] = w[p + 3] /\ r[4] = w[p + 4] /\ r[5] = n
      /\ \A j \in 1..n : r[5 + j] = push[j]
  <2>1. /\ t.q = w[p + 1] /\ t.a = w[p + 2] /\ t.top = w[p + 3] /\ t.next_q = w[p + 4] /\ t.push = push
    OBVIOUS
  <2> HIDE DEF t
  <2>2. LET rr == RecordWords(t)
            nn == Len(t.push)
        IN /\ rr \in Seq(Nat) /\ nn \in Nat /\ Len(rr) = 5 + nn /\ t.push \in Seq(Nat)
           /\ rr[1] = t.q /\ rr[2] = t.a /\ rr[3] = t.top /\ rr[4] = t.next_q /\ rr[5] = nn
           /\ \A j \in 1..nn : rr[5 + j] = t.push[j]
    BY <1>3, RecordParts
  <2>3. QED
    BY <1>2, <2>1, <2>2
<1> HIDE DEF r, t
<1>5. ASSUME NEW j \in 1..(5 + n) PROVE w[p + j] = r[j]
  <2>1. CASE j \in 1..5
    <3>1. j = 1 \/ j = 2 \/ j = 3 \/ j = 4 \/ j = 5
      BY <2>1
    <3>2. QED
      BY <1>4, <3>1
  <2>2. CASE j \notin 1..5
    <3>1. j - 5 \in 1..n /\ 5 + (j - 5) = j /\ (p + 6) + (j - 5) - 1 = p + j
      BY <2>2
    <3>2. r[5 + (j - 5)] = push[j - 5] /\ push[j - 5] = w[(p + 6) + (j - 5) - 1]
      BY <1>2, <1>4, <3>1
    <3>3. QED
      BY <3>1, <3>2
  <2>3. QED
    BY <2>1, <2>2
<1>6. QED
  BY <1>3, <1>4, <1>5 DEF r, t, push

LEMMA StreamAppend ==
  ASSUME NEW s \in Seq(Transition), NEW t \in Transition
  PROVE  Stream(Append(s, t)) = Stream(s) \o RecordWords(t) /\ Stream(s) \in Seq(Nat)
<1>1. Append(s, t) = s \o <<t>> /\ <<t>> \in Seq(Transition)
  OBVIOUS
<1>2. Stream(s \o <<t>>) = Stream(s) \o Stream(<<t>>) /\ Stream(s) \in Seq(Nat)
  BY <1>1, StreamBoth
<1>3. Stream(<<t>>) = RecordWords(t)
  BY StreamOne
<1>4. QED
  BY <1>1, <1>2, <1>3

LEMMA ParsedTransition == Typed /\ Parsed /\ ReadTransition => Parsed'
<1> SUFFICES ASSUME Typed, Parsed, ReadTransition PROVE Parsed'
  OBVIOUS
<1> DEFINE n == Word(5)
           t == [q |-> words[pos + 1], a |-> words[pos + 2], top |-> words[pos + 3], next_q |-> words[pos + 4],
                 push |-> SubSeq(words, pos + 6, pos + 5 + n)]
           x == RecordWords(t)
           f == Header(m, words[4], words[5]) \o m.accepting
<1>1. /\ pc = "read" /\ pos >= 7 /\ Len(m.accepting) = words[5] /\ Has(5) /\ Has(5 + n)
      /\ todo' = Append(todo, t) /\ pos' = pos + 5 + n /\ UNCHANGED <<words, m, pc>>
  BY DEF ReadTransition, TransitionDue, HeaderLen, Word
<1>2. words \in Seq(Nat) /\ pos \in Nat /\ m \in MachineFields /\ todo \in Seq(Transition)
  BY DEF Typed
<1>3. pos # 0 /\ words[4] \in Nat /\ words[5] \in Nat
  BY <1>1, <1>2, ParsedCounts
<1>4. m.prov = Absent /\ SubSeq(words, 1, pos) = FrontWords(m, words[4], words[5], todo)
  BY <1>1, <1>3 DEF Parsed
<1>5. n \in Nat /\ n = words[pos + 5] /\ pos + 5 + n <= Len(words)
  <2>1. \A i \in 1..5 : Word(i) \in Nat
    BY <1>1, WordTyped
  <2>2. n \in Nat
    BY <2>1
  <2>3. n = words[pos + 5]
    BY DEF Word
  <2>4. pos + (5 + n) <= Len(words)
    <3> HIDE DEF n
    <3>1. QED
      BY <1>1 DEF Has
  <2> HIDE DEF n
  <2>5. pos + 5 + n = pos + (5 + n)
    BY <1>2, <2>2
  <2>6. QED
    BY <2>2, <2>3, <2>4, <2>5
<1> HIDE DEF n
<1>6. /\ t \in Transition /\ Len(x) = 5 + n
      /\ \A j \in 1..(5 + n) : words[pos + j] = x[j]
  <2>1. words \in Seq(Nat) /\ pos \in Nat
    BY <1>2
  <2>2. LET tt == [q |-> words[pos + 1], a |-> words[pos + 2], top |-> words[pos + 3], next_q |-> words[pos + 4],
                   push |-> SubSeq(words, pos + 6, pos + 5 + n)]
        IN /\ tt \in Transition /\ Len(RecordWords(tt)) = 5 + n
           /\ \A j \in 1..(5 + n) : words[pos + j] = RecordWords(tt)[j]
    BY <1>5, <2>1, RecordRead, ZenonT(60)
  <2>3. QED
    BY <2>2
<1> HIDE DEF t
<1>7. x \in Seq(Nat)
  BY <1>6, StreamOne
<1> HIDE DEF x
<1>8. SubSeq(words, 1, pos + Len(x)) = SubSeq(words, 1, pos) \o x
  <2>1. pos + Len(x) <= Len(words) /\ \A j \in 1..Len(x) : words[pos + j] = x[j]
    BY <1>2, <1>5, <1>6
  <2>2. QED
    BY <1>2, <1>7, <2>1, ReadOn
<1>9. pos' = pos + Len(x)
  <2>1. pos' = pos + 5 + n /\ Len(x) = 5 + n /\ pos \in Nat /\ n \in Nat
    BY <1>1, <1>2, <1>5, <1>6
  <2>2. QED
    BY <2>1
<1>10. Stream(todo') = Stream(todo) \o x /\ Stream(todo) \in Seq(Nat)
  BY <1>1, <1>2, <1>6, StreamAppend DEF x
<1>11. f \in Seq(Nat)
  <2>1. m.accepting \in Seq(Nat) /\ Header(m, words[4], words[5]) \in Seq(Nat)
    BY <1>2, <1>3, FieldsOf DEF Header
  <2>2. QED
    BY <2>1, WordsBoth
<1> DEFINE b == Stream(todo)
<1>12. SubSeq(words, 1, pos') = (f \o b) \o x /\ FrontWords(m, words[4], words[5], todo') = f \o (b \o x) /\ b \in Seq(Nat)
  BY <1>4, <1>8, <1>9, <1>10 DEF FrontWords
<1> HIDE DEF f, b
<1>13. (f \o b) \o x = f \o (b \o x)
  <2>1. f \in Seq(Nat) /\ b \in Seq(Nat) /\ x \in Seq(Nat)
    BY <1>7, <1>11, <1>12
  <2>2. QED
    BY <2>1, WordsThree
<1>14. pos' >= 7
  BY <1>1, <1>2, <1>5
<1>15. QED
  BY <1>1, <1>4, <1>12, <1>13, <1>14 DEF Parsed

LEMMA ParsedStep == Typed /\ Sides /\ Parsed /\ [Next]_vars => Parsed'
<1> SUFFICES ASSUME Typed, Sides, Parsed, [Next]_vars PROVE Parsed'
  OBVIOUS
<1>1. CASE SortIn \/ BeginIndex \/ IndexRecord \/ ReadSuffix \/ Truncated
  BY <1>1 DEF SortIn, BeginIndex, IndexRecord, ReadSuffix, Truncated, Parsed
<1>2. CASE ValidateBounds
  <2>1. pc' # "read"
    BY <1>2, ValidateEffect
  <2>2. QED
    BY <2>1 DEF Parsed
<1>3. CASE Deliver \/ DeliverCut \/ DeliverChanged
  <2>1. pos' = 0
    BY <1>3 DEF Deliver, DeliverCut, DeliverChanged, Arrives, Sides
  <2>2. QED
    BY <2>1 DEF Parsed
<1>4. CASE ReadHeader
  BY <1>4, ParsedHeader
<1>5. CASE ReadAccepting
  BY <1>5, ParsedAccepting
<1>6. CASE ReadTransition
  BY <1>6, ParsedTransition
<1>7. CASE Finished \/ UNCHANGED vars
  BY <1>7 DEF Finished, vars, Parsed
<1>8. QED
  BY <1>1, <1>2, <1>3, <1>4, <1>5, <1>6, <1>7 DEF Next

LEMMA CodeParts ==
  ASSUME NEW x \in MachineFields
  PROVE  LET code == Encode(x)
             h == Header(x, Len(x.trans), Len(x.accepting))
             n == Len(x.accepting)
             b == Stream(x.trans)
             k == (7 + n) + Len(b)
         IN /\ code \in Seq(Nat) /\ n \in Nat /\ Len(b) \in Nat /\ Len(x.trans) \in Nat
            /\ Len(Suffix(x)) \in Nat /\ Len(Suffix(x)) >= 1 /\ Suffix(x) \in Seq(Nat)
            /\ Len(code) = k + Len(Suffix(x))
            /\ \A j \in 1..7 : code[j] = h[j]
            /\ \A j \in 1..n : code[7 + j] = x.accepting[j]
            /\ \A j \in 1..Len(b) : code[(7 + n) + j] = b[j]
            /\ \A j \in 1..Len(Suffix(x)) : code[k + j] = Suffix(x)[j]
            /\ SubSeq(code, 1, k) = FrontWords(x, Len(x.trans), n, x.trans)
<1> DEFINE s == x.trans
           a == x.accepting
           n == Len(a)
           h == Header(x, Len(s), n)
           b == Stream(s)
           f == FrontWords(x, Len(s), n, s)
           e == Suffix(x)
           code == f \o e
           k == (7 + n) + Len(b)
<1>1. Len(s) \in Nat /\ n \in Nat /\ s \in Seq(Transition)
  BY FieldsOf, LenProperties
<1>2. /\ f \in Seq(Nat) /\ Len(b) \in Nat /\ Len(f) = (7 + n) + Len(b)
      /\ \A j \in 1..7 : f[j] = h[j]
      /\ \A j \in 1..n : f[7 + j] = a[j]
      /\ \A j \in 1..Len(b) : f[(7 + n) + j] = b[j]
  <2> DEFINE c == Len(s)
             d == n
  <2>1. c \in Nat /\ d \in Nat /\ s \in Seq(Transition)
    BY <1>1
  <2> HIDE DEF c, d, s
  <2>2. /\ FrontWords(x, c, d, s) \in Seq(Nat) /\ Header(x, c, d) \in Seq(Nat)
        /\ Len(x.accepting) \in Nat /\ Len(Stream(s)) \in Nat /\ Stream(s) \in Seq(Nat)
        /\ Len(FrontWords(x, c, d, s)) = (7 + Len(x.accepting)) + Len(Stream(s))
        /\ \A j \in 1..7 : FrontWords(x, c, d, s)[j] = Header(x, c, d)[j]
        /\ \A j \in 1..Len(x.accepting) : FrontWords(x, c, d, s)[7 + j] = x.accepting[j]
        /\ \A j \in 1..Len(Stream(s)) : FrontWords(x, c, d, s)[(7 + Len(x.accepting)) + j] = Stream(s)[j]
    BY <2>1, FrontParts
  <2>3. QED
    BY <2>2 DEF c, d
<1>3. e \in Seq(Nat) /\ Len(e) \in Nat /\ Len(e) >= 1 /\ Encode(x) = code
  BY EncodedFront
<1> HIDE DEF f, e, h, b, a, s, n
<1>4. /\ code \in Seq(Nat) /\ Len(code) = Len(f) + Len(e)
      /\ \A j \in 1..Len(f) : code[j] = f[j]
      /\ \A j \in 1..Len(e) : code[Len(f) + j] = e[j]
  BY <1>2, <1>3, WordsBoth
<1> HIDE DEF code
<1>5. k \in Nat /\ Len(f) = k
  BY <1>1, <1>2
<1>6. \A j \in 1..7 : code[j] = h[j]
  <2>1. ASSUME NEW j \in 1..7 PROVE code[j] = h[j]
    <3>1. n \in Nat /\ Len(b) \in Nat /\ Len(f) = (7 + n) + Len(b)
      BY <1>1, <1>2
    <3>2. j \in 1..Len(f)
      BY <3>1
    <3>3. code[j] = f[j]
      BY <1>4, <3>2
    <3>4. QED
      BY <1>2, <3>3
  <2>2. QED
    BY <2>1
<1>7. \A j \in 1..n : code[7 + j] = a[j]
  <2>1. \A j \in 1..n : 7 + j \in 1..Len(f)
    BY <1>1, <1>2
  <2>2. QED
    BY <1>2, <1>4, <2>1
<1>8. \A j \in 1..Len(b) : code[(7 + n) + j] = b[j]
  <2>1. \A j \in 1..Len(b) : (7 + n) + j \in 1..Len(f)
    BY <1>1, <1>2
  <2>2. QED
    BY <1>2, <1>4, <2>1
<1>9. SubSeq(code, 1, k) = f
  <2> DEFINE p == SubSeq(code, 1, k)
  <2> HIDE DEF k
  <2>1. k <= Len(code) /\ Len(f) = k
    BY <1>3, <1>4, <1>5
  <2>2. p \in Seq(Nat) /\ Len(p) = k /\ \A j \in 1..k : p[j] = code[j]
    BY <1>4, <1>5, <2>1, FirstWords
  <2> HIDE DEF p
  <2>3. \A j \in 1..Len(p) : p[j] = f[j]
    BY <1>4, <2>1, <2>2
  <2>4. p = f
    BY <1>2, <2>1, <2>2, <2>3, WordsSame
  <2>5. QED
    BY <2>4 DEF p
<1>10. Len(code) = k + Len(e) /\ \A j \in 1..Len(e) : code[k + j] = e[j]
  BY <1>4, <1>5
<1> HIDE DEF k
<1>11. QED
  BY <1>1, <1>2, <1>3, <1>4, <1>6, <1>7, <1>8, <1>9, <1>10 DEF f, e, h, b, a, s, n, code, k

----------------------------------------------------------------------------
(* What arrives.                                                           *)

ExactIndex(x, o, c) ==
  /\ Indexed(x.trans, Len(x.trans), 0..(x.states - 1), o, c)
  /\ \A q \in 0..(x.states - 1) : c[q] = 0 => o[q] = Len(x.trans)

\* The machine that was sent, and what the words are of its words.
Shipped ==
  side = "receiver" =>
    LET code == Encode(sent.machine)
    IN /\ sent = [machine |-> sent.machine, offsets |-> sent.offsets, counts |-> sent.counts]
       /\ sent.machine \in MachineFields /\ SortedByKey(sent.machine.trans) /\ InBounds(sent.machine)
       /\ ExactIndex(sent.machine, sent.offsets, sent.counts)
       /\ fault \in {"none", "cut", "changed"}
       /\ fault = "none" => words = code
       /\ fault = "cut" => \E n \in 0..(Len(code) - 1) : words = SubSeq(code, 1, n)
       /\ fault = "changed" =>
            \E i \in 1..Len(code), w \in 0..MaxWord : code[i] # w /\ words = [code EXCEPT ![i] = w]

LEMMA ShippedArrival ==
  ASSUME BuildInv, Deliver \/ DeliverCut \/ DeliverChanged
  PROVE  Shipped'
<1>1. /\ m \in MachineFields /\ SortedByKey(m.trans) /\ InBounds(m) /\ ExactIndex(m, offsets, counts)
  <2>1. pc = "send"
    BY DEF Deliver, DeliverCut, DeliverChanged, Arrives
  <2>2. QED
    BY <2>1 DEF BuildInv, Typed, Built, IndexedTo, ExactIndex, States
<1>2. ASSUME NEW what, NEW why, Arrives(what, why)
      PROVE  /\ sent' = [machine |-> m, offsets |-> offsets, counts |-> counts]
             /\ words' = what /\ fault' = why /\ side' = "receiver"
  BY <1>2 DEF Arrives
<1> DEFINE new == [machine |-> m, offsets |-> offsets, counts |-> counts]
<1>3. new.machine = m /\ new.offsets = offsets /\ new.counts = counts
  OBVIOUS
<1>4. /\ sent' = new
      /\ \/ fault' = "none" /\ words' = Encode(m)
         \/ fault' = "cut" /\ \E n \in 0..(Len(Encode(m)) - 1) : words' = SubSeq(Encode(m), 1, n)
         \/ fault' = "changed" /\ \E i \in 1..Len(Encode(m)), w \in 0..MaxWord :
                                  Encode(m)[i] # w /\ words' = [Encode(m) EXCEPT ![i] = w]
  <2>1. CASE Deliver
    BY <1>2, <2>1 DEF Deliver
  <2>2. CASE DeliverCut
    <3>1. PICK n \in 0..(Len(Encode(m)) - 1) : Arrives(SubSeq(Encode(m), 1, n), "cut")
      BY <2>2 DEF DeliverCut
    <3>2. sent' = new /\ words' = SubSeq(Encode(m), 1, n) /\ fault' = "cut"
      BY <1>2, <3>1
    <3>3. QED
      BY <3>2
  <2>3. CASE DeliverChanged
    BY <1>2, <2>3 DEF DeliverChanged
  <2>4. QED
    BY <2>1, <2>2, <2>3
<1> HIDE DEF new
<1>5. sent'.machine = m /\ sent'.offsets = offsets /\ sent'.counts = counts
  BY <1>3, <1>4
<1>6. sent' = [machine |-> sent'.machine, offsets |-> sent'.offsets, counts |-> sent'.counts]
  BY <1>4, <1>5 DEF new
<1>7. QED
  BY <1>1, <1>4, <1>5, <1>6 DEF Shipped

LEMMA ShippedStep == BuildInv /\ Shipped /\ [Next]_vars => Shipped'
<1> SUFFICES ASSUME BuildInv, Shipped, [Next]_vars PROVE Shipped'
  OBVIOUS
<1>1. CASE Deliver \/ DeliverCut \/ DeliverChanged
  BY <1>1, ShippedArrival
<1>2. CASE UNCHANGED <<side, sent, words, fault>>
  BY <1>2 DEF Shipped
<1>3. CASE ValidateBounds
  BY <1>2, <1>3, ValidateEffect
<1>4. CASE SortIn \/ BeginIndex \/ IndexRecord
  BY <1>2, <1>4 DEF SortIn, BeginIndex, IndexRecord
<1>5. CASE ReadHeader \/ ReadAccepting \/ ReadTransition \/ ReadSuffix \/ Truncated
  BY <1>2, <1>5 DEF ReadHeader, ReadAccepting, ReadTransition, ReadSuffix, Truncated
<1>6. CASE Finished \/ UNCHANGED vars
  BY <1>2, <1>6 DEF Finished, vars
<1>7. QED
  BY <1>1, <1>3, <1>4, <1>5, <1>6 DEF Next

\* Where no word was changed, the words are the first ones of the machine's.
LEMMA FirstOnes ==
  ASSUME Shipped, side = "receiver", fault # "changed"
  PROVE  LET code == Encode(sent.machine)
         IN /\ Len(words) \in Nat /\ Len(code) \in Nat /\ Len(words) <= Len(code)
            /\ fault = "none" => Len(words) = Len(code)
            /\ fault = "cut" => Len(words) < Len(code)
            /\ \A j \in 1..Len(words) : words[j] = code[j]
<1> DEFINE code == Encode(sent.machine)
<1>1. code \in Seq(Nat) /\ fault \in {"none", "cut"}
  BY EncodedFront DEF Shipped
<1>2. Len(code) \in Nat
  BY <1>1, LenProperties
<1>3. fault = "none" => words = code
  BY DEF Shipped
<1>4. fault = "cut" => \E n \in 0..(Len(code) - 1) : words = SubSeq(code, 1, n)
  BY DEF Shipped
<1> HIDE DEF code
<1>5. CASE fault = "none"
  BY <1>2, <1>3, <1>5 DEF code
<1>6. CASE fault = "cut"
  <2>1. PICK n \in 0..(Len(code) - 1) : words = SubSeq(code, 1, n)
    BY <1>4, <1>6
  <2>2. n \in Nat /\ n <= Len(code) /\ n < Len(code)
    BY <1>2
  <2>3. Len(words) = n /\ \A j \in 1..n : words[j] = code[j]
    BY <1>1, <2>1, <2>2, FirstWords
  <2>4. QED
    BY <1>2, <1>6, <2>2, <2>3 DEF code
<1>7. QED
  BY <1>1, <1>5, <1>6

\* The words of a transition, found among those of the array.
LEMMA StreamAt ==
  ASSUME NEW s \in Seq(Transition), NEW f \in Seq(Transition), Len(f) < Len(s),
         \A j \in 1..Len(f) : f[j] = s[j]
  PROVE  LET t == s[Len(f) + 1]
             k == Len(Stream(f))
             x == RecordWords(t)
         IN /\ t \in Transition /\ k \in Nat /\ Len(x) \in Nat /\ k + Len(x) <= Len(Stream(s))
            /\ \A j \in 1..Len(x) : Stream(s)[k + j] = x[j]
<1> DEFINE n == Len(f)
           t == s[n + 1]
           r == SubSeq(s, n + 2, Len(s))
           g == Append(f, t)
           gr == g \o r
           x == RecordWords(t)
           a == Stream(f)
           ax == a \o x
           b == Stream(r)
           all == ax \o b
<1>1. n \in Nat /\ Len(s) \in Nat /\ n + 1 \in 1..Len(s) /\ t \in Transition
  BY LenProperties, ElementOfSeq
<1>2. r \in Seq(Transition) /\ Len(r) = Len(s) - (n + 1) /\ \A j \in 1..(Len(s) - (n + 1)) : r[j] = s[(n + 1) + j]
  BY <1>1
<1>3. g \in Seq(Transition) /\ Len(g) = n + 1 /\ \A j \in 1..(n + 1) : g[j] = s[j]
  <2>1. g \in Seq(Transition) /\ Len(g) = n + 1 /\ g[n + 1] = t /\ \A j \in 1..n : g[j] = f[j]
    BY <1>1
  <2> HIDE DEF g
  <2>2. \A j \in 1..(n + 1) : j = n + 1 \/ j \in 1..n
    BY <1>1
  <2>3. QED
    BY <2>1, <2>2
<1>4. s = gr
  <2> HIDE DEF g, r
  <2>1. /\ gr \in Seq(Transition) /\ Len(gr) = Len(g) + Len(r)
        /\ \A j \in 1..(Len(g) + Len(r)) : gr[j] = IF j <= Len(g) THEN g[j] ELSE r[j - Len(g)]
    BY <1>2, <1>3, ConcatProperties
  <2>2. Len(g) + Len(r) = Len(s)
    BY <1>1, <1>2, <1>3
  <2> HIDE DEF gr
  <2>3. ASSUME NEW j \in 1..Len(s) PROVE gr[j] = s[j]
    <3>1. gr[j] = IF j <= n + 1 THEN g[j] ELSE r[j - (n + 1)]
      BY <1>3, <2>1, <2>2, <2>3
    <3>2. CASE j <= n + 1
      BY <1>1, <1>3, <3>1, <3>2
    <3>3. CASE ~(j <= n + 1)
      <4>1. j - (n + 1) \in 1..(Len(s) - (n + 1)) /\ (n + 1) + (j - (n + 1)) = j
        BY <1>1, <3>3
      <4>2. QED
        BY <1>2, <3>1, <3>3, <4>1
    <3>4. QED
      BY <3>2, <3>3
  <2>4. gr = [j \in 1..Len(s) |-> gr[j]] /\ s = [j \in 1..Len(s) |-> s[j]]
    BY <2>1, <2>2
  <2>5. QED
    BY <2>3, <2>4
<1>5. Stream(g) = ax /\ a \in Seq(Nat) /\ x \in Seq(Nat)
  BY <1>1, StreamAppend, StreamOne
<1>6. Stream(gr) = Stream(g) \o Stream(r) /\ Stream(g) \in Seq(Nat)
  BY <1>2, <1>3, StreamBoth
<1>7. b \in Seq(Nat)
  BY <1>2, StreamBoth
<1> HIDE DEF g, r, gr, a, x, b
<1>8. /\ ax \in Seq(Nat) /\ Len(ax) = Len(a) + Len(x) /\ Len(a) \in Nat /\ Len(x) \in Nat
      /\ \A j \in 1..Len(x) : ax[Len(a) + j] = x[j]
  BY <1>5, WordsBoth
<1>9. Stream(s) = all
  BY <1>4, <1>5, <1>6 DEF b
<1> HIDE DEF ax
<1>10. /\ Len(all) = Len(ax) + Len(b) /\ Len(b) \in Nat
       /\ \A j \in 1..Len(ax) : all[j] = ax[j]
  BY <1>7, <1>8, WordsBoth
<1> HIDE DEF all
<1>11. ASSUME NEW j \in 1..Len(x) PROVE all[Len(a) + j] = x[j]
  <2>1. Len(a) + j \in 1..Len(ax)
    BY <1>8
  <2>2. QED
    BY <1>8, <1>10, <2>1
<1>12. Len(a) + Len(x) <= Len(all)
  BY <1>8, <1>10
<1>13. QED
  BY <1>1, <1>8, <1>9, <1>11, <1>12 DEF a, x

\* A record whose words stand at a position is read from there.
LEMMA RecordFound ==
  ASSUME NEW w \in Seq(Nat), NEW p \in Nat, NEW t \in Transition,
         p + 5 + Len(t.push) <= Len(w),
         \A j \in 1..Len(RecordWords(t)) : w[p + j] = RecordWords(t)[j]
  PROVE  /\ w[p + 5] = Len(t.push)
         /\ t = [q |-> w[p + 1], a |-> w[p + 2], top |-> w[p + 3], next_q |-> w[p + 4],
                 push |-> SubSeq(w, p + 6, p + 5 + w[p + 5])]
<1> DEFINE r == RecordWords(t)
           b == t.push
           n == Len(b)
           push == SubSeq(w, p + 6, p + 5 + n)
<1>1. /\ r \in Seq(Nat) /\ n \in Nat /\ Len(r) = 5 + n /\ b \in Seq(Nat)
      /\ r[1] = t.q /\ r[2] = t.a /\ r[3] = t.top /\ r[4] = t.next_q /\ r[5] = n
      /\ \A j \in 1..n : r[5 + j] = b[j]
  BY RecordParts
<1>2. \A j \in 1..Len(r) : w[p + j] = r[j]
  OBVIOUS
<1>3. t = [q |-> t.q, a |-> t.a, top |-> t.top, next_q |-> t.next_q, push |-> b]
  BY DEF Transition
<1> HIDE DEF r, b
<1>4. 1 \in 1..Len(r) /\ 2 \in 1..Len(r) /\ 3 \in 1..Len(r) /\ 4 \in 1..Len(r) /\ 5 \in 1..Len(r)
  BY <1>1
<1>5. w[p + 1] = t.q /\ w[p + 2] = t.a /\ w[p + 3] = t.top /\ w[p + 4] = t.next_q /\ w[p + 5] = n
  BY <1>1, <1>2, <1>4
<1>6. p + 5 + n <= Len(w) /\ Len(w) \in Nat
  BY LenProperties DEF b
<1>7. push = b
  <2> HIDE DEF n
  <2>1. push \in Seq(Nat) /\ Len(push) = n /\ \A j \in 1..n : push[j] = w[(p + 6) + j - 1]
    BY <1>1, <1>6, PushRead
  <2> HIDE DEF push
  <2>2. ASSUME NEW j \in 1..n PROVE push[j] = b[j]
    <3>1. 5 + j \in 1..Len(r) /\ (p + 6) + j - 1 = p + (5 + j)
      BY <1>1
    <3>2. QED
      BY <1>1, <1>2, <2>1, <3>1
  <2>3. Len(b) = n
    BY DEF n
  <2>4. QED
    BY <1>1, <2>1, <2>2, <2>3, WordsSame
<1>8. QED
  BY <1>3, <1>5, <1>7 DEF b

\* Where the reader stands.
LEMMA ParsedAt ==
  ASSUME Typed, Parsed, pc = "read", pos # 0
  PROVE  /\ words[4] \in Nat /\ words[5] \in Nat /\ pos >= 7 /\ pos <= Len(words) /\ Len(words) \in Nat
         /\ Len(m.accepting) \in Nat /\ Len(Stream(todo)) \in Nat
         /\ pos = (7 + Len(m.accepting)) + Len(Stream(todo))
<1>1. pos >= 7 /\ SubSeq(words, 1, pos) = FrontWords(m, words[4], words[5], todo)
  BY DEF Parsed
<1>2. words[4] \in Nat /\ words[5] \in Nat /\ Len(words) \in Nat
  BY <1>1, ParsedCounts
<1>3. words \in Seq(Nat) /\ pos \in Nat /\ pos <= Len(words) /\ m \in MachineFields /\ todo \in Seq(Transition)
  BY DEF Typed
<1>4. Len(SubSeq(words, 1, pos)) = pos
  BY <1>3, FirstWords
<1>5. /\ Len(m.accepting) \in Nat /\ Len(Stream(todo)) \in Nat
      /\ Len(FrontWords(m, words[4], words[5], todo)) = (7 + Len(m.accepting)) + Len(Stream(todo))
  BY <1>2, <1>3, FrontLength
<1>6. QED
  BY <1>1, <1>2, <1>3, <1>4, <1>5

----------------------------------------------------------------------------
(* Where no word was changed, what is read is the machine that was sent.   *)

BeginsWith(x, s) == Len(x) <= Len(s) /\ \A j \in 1..Len(x) : x[j] = s[j]
SameHeader(x, s) ==
  /\ x.states = s.states /\ x.inputs = s.inputs /\ x.syms = s.syms
  /\ x.start = s.start /\ x.bottom = s.bottom

\* So far.
Tracked ==
  side = "receiver" /\ fault # "changed" /\ pc = "read" /\ pos # 0 =>
    /\ SameHeader(m, sent.machine)
    /\ words[4] = Len(sent.machine.trans) /\ words[5] = Len(sent.machine.accepting)
    /\ BeginsWith(m.accepting, sent.machine.accepting) /\ BeginsWith(todo, sent.machine.trans)

Unchanged == BuildInv /\ Parsed /\ Shipped /\ Tracked /\ side = "receiver" /\ fault # "changed" /\ pc = "read"

LEMMA ShippedMachine ==
  ASSUME Shipped, side = "receiver"
  PROVE  /\ sent.machine \in MachineFields /\ SortedByKey(sent.machine.trans) /\ InBounds(sent.machine)
         /\ ExactIndex(sent.machine, sent.offsets, sent.counts)
BY DEF Shipped

\* Where the reader stands among the words of the machine.
LEMMA ReaderAt ==
  ASSUME Unchanged, pos # 0
  PROVE  LET s == sent.machine
             code == Encode(s)
             n == Len(m.accepting)
             k == Len(Stream(todo))
         IN /\ s \in MachineFields /\ pos \in Nat /\ pos = (7 + n) + k /\ n \in Nat /\ k \in Nat
            /\ words[4] = Len(s.trans) /\ words[5] = Len(s.accepting)
            /\ Len(s.trans) \in Nat /\ Len(s.accepting) \in Nat
            /\ n <= Len(s.accepting) /\ Len(todo) <= Len(s.trans)
            /\ \A j \in 1..n : m.accepting[j] = s.accepting[j]
            /\ \A j \in 1..Len(todo) : todo[j] = s.trans[j]
<1>1. Typed /\ Parsed /\ pc = "read" /\ side = "receiver"
  BY DEF Unchanged, BuildInv
<1>2. pos = (7 + Len(m.accepting)) + Len(Stream(todo)) /\ Len(m.accepting) \in Nat /\ Len(Stream(todo)) \in Nat
  BY <1>1, ParsedAt
<1>3. sent.machine \in MachineFields /\ pos \in Nat
  BY <1>1, ShippedMachine DEF Unchanged, Typed
<1>4. /\ words[4] = Len(sent.machine.trans) /\ words[5] = Len(sent.machine.accepting)
      /\ BeginsWith(m.accepting, sent.machine.accepting) /\ BeginsWith(todo, sent.machine.trans)
  BY DEF Unchanged, Tracked
<1>5. Len(sent.machine.trans) \in Nat /\ Len(sent.machine.accepting) \in Nat
  BY <1>3, FieldsOf, LenProperties
<1>6. QED
  BY <1>2, <1>3, <1>4, <1>5 DEF BeginsWith

\* The next accepting state is the machine's next one.
LEMMA AcceptingAhead ==
  ASSUME Unchanged, pos # 0, Len(m.accepting) < words[5]
  PROVE  LET code == Encode(sent.machine)
             n == Len(m.accepting)
         IN /\ todo = <<>> /\ pos = 7 + n /\ pos + 1 <= Len(code)
            /\ code[pos + 1] = sent.machine.accepting[n + 1]
<1> DEFINE s == sent.machine
           code == Encode(s)
           n == Len(m.accepting)
           z == Len(s.accepting)
           b == Stream(s.trans)
<1>1. /\ s \in MachineFields /\ pos \in Nat /\ pos = (7 + n) + Len(Stream(todo)) /\ n \in Nat
      /\ words[5] = z /\ z \in Nat
  BY ReaderAt
<1>2. todo = <<>>
  <2>1. todo # <<>> => n = words[5]
    BY DEF Unchanged, Parsed
  <2>2. n # words[5]
    BY <1>1
  <2>3. QED
    BY <2>1, <2>2
<1>3. pos = 7 + n
  <2>1. Len(Stream(todo)) = 0
    BY <1>2, NoStream
  <2>2. QED
    BY <1>1, <2>1
<1>4. /\ Len(b) \in Nat /\ Len(Suffix(s)) \in Nat
      /\ Len(code) = ((7 + z) + Len(b)) + Len(Suffix(s))
      /\ \A j \in 1..z : code[7 + j] = s.accepting[j]
  BY <1>1, CodeParts
<1> HIDE DEF code, b, z
<1>5. n + 1 \in 1..z /\ 7 + (n + 1) = pos + 1
  BY <1>1, <1>3
<1>6. pos + 1 <= Len(code)
  BY <1>1, <1>4, <1>5
<1>7. code[pos + 1] = s.accepting[n + 1]
  BY <1>4, <1>5
<1>8. QED
  BY <1>2, <1>3, <1>6, <1>7 DEF code

\* The next transition is the machine's next one.
LEMMA TransitionAhead ==
  ASSUME Unchanged, pos # 0, Len(m.accepting) = words[5], Len(todo) < words[4]
  PROVE  LET code == Encode(sent.machine)
             t == sent.machine.trans[Len(todo) + 1]
             x == RecordWords(t)
         IN /\ t \in Transition /\ Len(x) \in Nat /\ Len(x) = 5 + Len(t.push) /\ Len(t.push) \in Nat
            /\ x[5] = Len(t.push)
            /\ pos + Len(x) <= Len(code)
            /\ \A j \in 1..Len(x) : code[pos + j] = x[j]
<1> DEFINE s == sent.machine
           code == Encode(s)
           n == Len(m.accepting)
           z == Len(s.accepting)
           all == s.trans
           b == Stream(all)
           k == Len(Stream(todo))
           t == all[Len(todo) + 1]
           x == RecordWords(t)
<1>1. /\ s \in MachineFields /\ pos \in Nat /\ pos = (7 + n) + k /\ n \in Nat /\ k \in Nat
      /\ words[5] = z /\ z \in Nat /\ words[4] = Len(all)
      /\ \A j \in 1..Len(todo) : todo[j] = all[j]
  BY ReaderAt
<1>2. all \in Seq(Transition) /\ todo \in Seq(Transition)
  BY <1>1, FieldsOf DEF Unchanged, BuildInv, Typed
<1>3. /\ Len(b) \in Nat /\ Len(Suffix(s)) \in Nat
      /\ Len(code) = ((7 + z) + Len(b)) + Len(Suffix(s))
      /\ \A j \in 1..Len(b) : code[(7 + z) + j] = b[j]
  BY <1>1, CodeParts
<1> HIDE DEF code, all, n, z
<1>4. /\ t \in Transition /\ Len(x) \in Nat /\ k + Len(x) <= Len(b)
      /\ \A j \in 1..Len(x) : b[k + j] = x[j]
  BY <1>1, <1>2, StreamAt
<1>5. Len(x) = 5 + Len(t.push) /\ Len(t.push) \in Nat /\ x[5] = Len(t.push)
  BY <1>4, RecordParts
<1> HIDE DEF b, k, t, x
<1>6. n = z
  BY <1>1 DEF n
<1>7. pos + Len(x) <= Len(code)
  <2>1. pos = (7 + z) + k /\ z \in Nat /\ k \in Nat
    BY <1>1, <1>6
  <2>2. Len(x) \in Nat /\ Len(b) \in Nat /\ k + Len(x) <= Len(b)
    BY <1>3, <1>4
  <2>3. Len(Suffix(s)) \in Nat /\ Len(code) = ((7 + z) + Len(b)) + Len(Suffix(s))
    BY <1>3
  <2> HIDE DEF s
  <2>4. QED
    BY <2>1, <2>2, <2>3
<1>8. ASSUME NEW j \in 1..Len(x) PROVE code[pos + j] = x[j]
  <2>1. k + j \in 1..Len(b) /\ (7 + z) + (k + j) = pos + j
    BY <1>1, <1>3, <1>4, <1>6
  <2>2. code[(7 + z) + (k + j)] = b[k + j] /\ b[k + j] = x[j]
    BY <1>3, <1>4, <2>1
  <2>3. QED
    BY <2>1, <2>2
<1>9. QED
  BY <1>4, <1>5, <1>7, <1>8 DEF code, x, t, all

\* When the transitions are read, what is left is the flag and what follows it.
LEMMA SuffixAhead ==
  ASSUME Unchanged, pos # 0, Len(m.accepting) = words[5], Len(todo) = words[4]
  PROVE  LET code == Encode(sent.machine)
             x == Suffix(sent.machine)
         IN /\ m.accepting = sent.machine.accepting /\ todo = sent.machine.trans
            /\ Len(code) = pos + Len(x) /\ Len(x) \in Nat /\ Len(x) >= 1
            /\ \A j \in 1..Len(x) : code[pos + j] = x[j]
<1> DEFINE s == sent.machine
           code == Encode(s)
           x == Suffix(s)
           z == Len(s.accepting)
           b == Stream(s.trans)
           k == (7 + z) + Len(b)
<1>1. /\ s \in MachineFields /\ pos = (7 + Len(m.accepting)) + Len(Stream(todo))
      /\ words[5] = z /\ words[4] = Len(s.trans)
      /\ \A j \in 1..Len(m.accepting) : m.accepting[j] = s.accepting[j]
      /\ \A j \in 1..Len(todo) : todo[j] = s.trans[j]
  BY ReaderAt
<1>2. /\ s.accepting \in Seq(Nat) /\ m.accepting \in Seq(Nat)
      /\ s.trans \in Seq(Transition) /\ todo \in Seq(Transition)
  BY <1>1, FieldsOf DEF Unchanged, BuildInv, Typed
<1>3. m.accepting = s.accepting
  BY <1>1, <1>2, WordsSame
<1>4. todo = s.trans
  BY <1>1, <1>2, SeqEqual
<1>5. pos = k
  BY <1>1, <1>3, <1>4
<1>6. /\ Len(x) \in Nat /\ Len(x) >= 1 /\ Len(code) = k + Len(x)
      /\ \A j \in 1..Len(x) : code[k + j] = x[j]
  BY <1>1, CodeParts
<1> HIDE DEF code, x, k, s
<1>7. QED
  BY <1>3, <1>4, <1>5, <1>6 DEF code, x, s

LEMMA TrackedHeader ==
  ASSUME BuildInv, Shipped, side = "receiver", fault # "changed", ReadHeader
  PROVE  Tracked'
<1> DEFINE s == sent.machine
           code == Encode(s)
           h == Header(s, Len(s.trans), Len(s.accepting))
<1>1. /\ s \in MachineFields /\ pos = 0 /\ Has(7) /\ todo' = <<>>
      /\ m' = [states |-> Word(1), inputs |-> Word(2), syms |-> Word(3), trans |-> <<>>,
               accepting |-> <<>>, start |-> Word(6), bottom |-> Word(7), prov |-> Absent]
      /\ UNCHANGED <<words, sent>>
  BY ShippedMachine DEF ReadHeader, HeaderLen
<1>2. 7 <= Len(words) /\ Len(words) \in Nat /\ \A j \in 1..7 : Word(j) = words[j]
  BY <1>1, LenProperties DEF Has, Word, BuildInv, Typed
<1>3. \A j \in 1..Len(words) : words[j] = code[j]
  BY FirstOnes
<1>4. \A j \in 1..7 : code[j] = h[j]
  BY <1>1, CodeParts
<1> HIDE DEF code, h
<1>5. \A j \in 1..7 : words[j] = h[j] /\ Word(j) = h[j]
  <2>1. \A j \in 1..7 : j \in 1..Len(words)
    BY <1>2
  <2>2. QED
    BY <1>2, <1>3, <1>4, <2>1
<1>6. /\ h[1] = s.states /\ h[2] = s.inputs /\ h[3] = s.syms /\ h[4] = Len(s.trans)
      /\ h[5] = Len(s.accepting) /\ h[6] = s.start /\ h[7] = s.bottom
  BY DEF Header, h
<1>7. SameHeader(m', s)
  BY <1>1, <1>5, <1>6 DEF SameHeader
<1>8. words[4] = Len(s.trans) /\ words[5] = Len(s.accepting)
  BY <1>5, <1>6
<1>9. BeginsWith(<<>>, s.accepting) /\ BeginsWith(<<>>, s.trans)
  BY <1>1, FieldsOf, LenProperties DEF BeginsWith
<1>10. m'.accepting = <<>> /\ todo' = <<>>
  BY <1>1
<1> HIDE DEF s
<1>11. SameHeader(m', sent'.machine) /\ words'[4] = Len(sent'.machine.trans) /\ words'[5] = Len(sent'.machine.accepting)
       /\ BeginsWith(m'.accepting, sent'.machine.accepting) /\ BeginsWith(todo', sent'.machine.trans)
  BY <1>1, <1>7, <1>8, <1>9, <1>10 DEF s
<1>12. QED
  BY <1>11 DEF Tracked

LEMMA BeginsMore ==
  ASSUME NEW T, NEW x \in Seq(T), NEW s \in Seq(T), NEW e \in T, BeginsWith(x, s), Len(x) + 1 <= Len(s), e = s[Len(x) + 1]
  PROVE  BeginsWith(Append(x, e), s)
<1> DEFINE y == Append(x, e)
<1>1. Len(x) \in Nat /\ Len(y) = Len(x) + 1 /\ y[Len(x) + 1] = e /\ \A j \in 1..Len(x) : y[j] = x[j]
  OBVIOUS
<1> HIDE DEF y
<1>2. ASSUME NEW j \in 1..Len(y) PROVE y[j] = s[j]
  <2>1. j = Len(x) + 1 \/ j \in 1..Len(x)
    BY <1>1
  <2>2. QED
    BY <1>1, <2>1 DEF BeginsWith
<1>3. QED
  BY <1>1, <1>2 DEF BeginsWith, y

LEMMA TrackedAccepting ==
  ASSUME Unchanged, ReadAccepting
  PROVE  Tracked'
<1> DEFINE s == sent.machine
           code == Encode(s)
           a == m.accepting
<1>1. /\ pos >= 7 /\ Len(a) < words[5] /\ Has(1) /\ m' = [m EXCEPT !.accepting = Append(@, Word(1))]
      /\ UNCHANGED <<pc, side, todo, sent, words, fault>>
  BY DEF ReadAccepting, AcceptingDue, HeaderLen
<1>2. pos \in Nat /\ pos # 0 /\ m \in MachineFields /\ words \in Seq(Nat)
  BY <1>1 DEF Unchanged, BuildInv, Typed
<1>3. /\ s \in MachineFields /\ words[4] = Len(s.trans) /\ words[5] = Len(s.accepting)
      /\ SameHeader(m, s) /\ BeginsWith(a, s.accepting) /\ BeginsWith(todo, s.trans)
  BY <1>2, ReaderAt DEF Unchanged, Tracked
<1>4. /\ pos = 7 + Len(a) /\ pos + 1 <= Len(code) /\ code[pos + 1] = s.accepting[Len(a) + 1]
  BY <1>1, <1>2, AcceptingAhead
<1>5. /\ Len(words) \in Nat /\ \A j \in 1..Len(words) : words[j] = code[j]
  BY FirstOnes DEF Unchanged
<1>6. a \in Seq(Nat) /\ Len(a) \in Nat /\ s.accepting \in Seq(Nat) /\ Len(s.accepting) \in Nat
  BY <1>2, <1>3, FieldsOf, LenProperties
<1> DEFINE w == Word(1)
<1>7. w = s.accepting[Len(a) + 1]
  <2>1. pos + 1 \in 1..Len(words)
    BY <1>1, <1>2, <1>5 DEF Has
  <2>2. QED
    BY <1>4, <1>5, <2>1 DEF Word
<1>8. w \in Nat
  <2>1. Len(a) + 1 \in 1..Len(s.accepting)
    BY <1>1, <1>3, <1>6
  <2>2. QED
    BY <1>6, <1>7, <2>1, ElementOfSeq
<1> HIDE DEF w
<1>9. BeginsWith(Append(a, w), s.accepting)
  <2>1. Len(a) + 1 <= Len(s.accepting)
    BY <1>1, <1>3, <1>6
  <2>2. QED
    BY <1>3, <1>6, <1>7, <1>8, <2>1, BeginsMore
<1>10. m'.accepting = Append(a, w) /\ SameHeader(m', s)
  BY <1>1, <1>2, <1>3 DEF MachineFields, SameHeader, w
<1> HIDE DEF a, s
<1>11. QED
  BY <1>1, <1>3, <1>9, <1>10 DEF Tracked, s

\* What stands at the reader's position where a transition is due.
LEMMA TransitionRead ==
  ASSUME Unchanged, pos # 0, TransitionDue, Has(5)
  PROVE  LET t == sent.machine.trans[Len(todo) + 1]
         IN /\ t \in Transition /\ Word(5) = Len(t.push) /\ Len(t.push) \in Nat
            /\ pos + 5 + Len(t.push) <= Len(Encode(sent.machine))
            /\ Has(5 + Word(5)) =>
                 t = [q |-> Word(1), a |-> Word(2), top |-> Word(3), next_q |-> Word(4),
                      push |-> SubSeq(words, pos + 6, pos + 5 + Word(5))]
<1> DEFINE s == sent.machine
           code == Encode(s)
           t == s.trans[Len(todo) + 1]
           x == RecordWords(t)
           n == Len(t.push)
<1>1. Len(m.accepting) = words[5] /\ Len(todo) < words[4]
  BY DEF TransitionDue
<1>2. words \in Seq(Nat) /\ pos \in Nat /\ pos + 5 <= Len(words)
  BY DEF Unchanged, BuildInv, Typed, Has
<1>3. /\ t \in Transition /\ Len(x) = 5 + n /\ n \in Nat /\ x[5] = n
      /\ pos + Len(x) <= Len(code) /\ \A j \in 1..Len(x) : code[pos + j] = x[j]
  BY <1>1, TransitionAhead
<1>4. /\ Len(words) \in Nat /\ Len(code) \in Nat /\ \A j \in 1..Len(words) : words[j] = code[j]
  BY FirstOnes DEF Unchanged
<1> HIDE DEF code, t, x, n
<1>5. ASSUME NEW j \in 1..Len(x), pos + j <= Len(words) PROVE words[pos + j] = x[j]
  <2>1. pos + j \in 1..Len(words)
    BY <1>2, <1>3, <1>5
  <2>2. QED
    BY <1>3, <1>4, <2>1
<1>6. words[pos + 5] = n
  <2>1. 5 \in 1..Len(x)
    BY <1>3
  <2>2. QED
    BY <1>2, <1>3, <1>5, <2>1
<1>7. pos + 5 + n <= Len(code)
  BY <1>2, <1>3, <1>4
<1>8. ASSUME Has(5 + n)
      PROVE  t = [q |-> words[pos + 1], a |-> words[pos + 2], top |-> words[pos + 3], next_q |-> words[pos + 4],
                  push |-> SubSeq(words, pos + 6, pos + 5 + words[pos + 5])]
  <2>0. pos + 5 + n <= Len(words) /\ pos + Len(x) <= Len(words)
    <3>1. pos + (5 + n) <= Len(words)
      BY <1>8 DEF Has
    <3>2. QED
      BY <1>2, <1>3, <3>1
  <2>1. pos + 5 + Len(t.push) <= Len(words)
    BY <2>0 DEF n
  <2>2. \A j \in 1..Len(x) : words[pos + j] = x[j]
    <3> SUFFICES ASSUME NEW j \in 1..Len(x) PROVE words[pos + j] = x[j]
      OBVIOUS
    <3>1. pos + j <= Len(words)
      BY <1>2, <1>3, <1>4, <2>0
    <3>2. QED
      BY <1>5, <3>1
  <2>3. QED
    BY <1>2, <1>3, <2>1, <2>2, RecordFound DEF x
<1>9. QED
  BY <1>3, <1>6, <1>7, <1>8 DEF Word, code, t, n

LEMMA TrackedTransition ==
  ASSUME Unchanged, ReadTransition
  PROVE  Tracked'
<1> DEFINE s == sent.machine
           t == s.trans[Len(todo) + 1]
           new == [q |-> Word(1), a |-> Word(2), top |-> Word(3), next_q |-> Word(4),
                   push |-> SubSeq(words, pos + 6, pos + 5 + Word(5))]
<1>1. /\ pos >= 7 /\ TransitionDue /\ Has(5) /\ Has(5 + Word(5))
      /\ todo' = Append(todo, new) /\ UNCHANGED <<pc, side, m, sent, words, fault>>
  BY DEF ReadTransition, TransitionDue, HeaderLen
<1>2. pos \in Nat /\ pos # 0 /\ todo \in Seq(Transition)
  BY <1>1 DEF Unchanged, BuildInv, Typed
<1>3. /\ s \in MachineFields /\ words[4] = Len(s.trans) /\ words[5] = Len(s.accepting)
      /\ SameHeader(m, s) /\ BeginsWith(m.accepting, s.accepting) /\ BeginsWith(todo, s.trans)
  BY <1>2, ReaderAt DEF Unchanged, Tracked
<1>4. t \in Transition /\ t = new
  BY <1>1, <1>2, TransitionRead
<1> HIDE DEF new
<1>5. s.trans \in Seq(Transition) /\ Len(s.trans) \in Nat /\ Len(todo) \in Nat
  BY <1>2, <1>3, FieldsOf, LenProperties
<1>6. Len(todo) + 1 <= Len(s.trans)
  BY <1>1, <1>3, <1>5 DEF TransitionDue
<1>7. BeginsWith(Append(todo, t), s.trans)
  BY <1>2, <1>3, <1>4, <1>5, <1>6, BeginsMore
<1> HIDE DEF t
<1>8. todo' = Append(todo, t)
  BY <1>1, <1>4
<1> HIDE DEF s
<1>9. QED
  BY <1>1, <1>3, <1>7, <1>8 DEF Tracked, s

LEMMA TrackedStep ==
  ASSUME BuildInv, Parsed, Shipped, Tracked, [Next]_vars
  PROVE  Tracked'
<1>1. CASE SortIn \/ BeginIndex \/ IndexRecord \/ ReadSuffix \/ Truncated
  BY <1>1 DEF SortIn, BeginIndex, IndexRecord, ReadSuffix, Truncated, Tracked
<1>2. CASE ValidateBounds
  <2>1. pc' # "read"
    BY <1>2, ValidateEffect
  <2>2. QED
    BY <2>1 DEF Tracked
<1>3. CASE Deliver \/ DeliverCut \/ DeliverChanged
  <2>1. pos' = 0
    BY <1>3 DEF Deliver, DeliverCut, DeliverChanged, Arrives, BuildInv, Sides
  <2>2. QED
    BY <2>1 DEF Tracked
<1>4. CASE ReadHeader \/ ReadAccepting \/ ReadTransition
  <2>1. pc = "read" /\ UNCHANGED <<side, fault>>
    BY <1>4 DEF ReadHeader, ReadAccepting, ReadTransition
  <2>2. SUFFICES ASSUME side = "receiver", fault # "changed" PROVE Tracked'
    BY <2>1 DEF Tracked
  <2>3. Unchanged
    BY <2>1, <2>2 DEF Unchanged
  <2>4. QED
    BY <1>4, <2>2, <2>3, TrackedHeader, TrackedAccepting, TrackedTransition
<1>5. CASE Finished \/ UNCHANGED vars
  BY <1>5 DEF Finished, vars, Tracked
<1>6. QED
  BY <1>1, <1>2, <1>3, <1>4, <1>5 DEF Next

\* The flag and the provenance.
LEMMA SuffixParts ==
  ASSUME NEW s \in MachineFields, InBounds(s)
  PROVE  LET x == Suffix(s)
             of == s.prov.of
         IN /\ s.states \in Nat /\ of \in Seq(Nat)
            /\ s.prov.some =>
                 /\ s.prov = [some |-> TRUE, of |-> of] /\ Len(of) = s.states
                 /\ Len(x) = 1 + s.states /\ x[1] = 1 /\ \A j \in 1..s.states : x[1 + j] = of[j]
            /\ ~s.prov.some => s.prov = Absent /\ Len(x) = 1 /\ x[1] = 0
<1> DEFINE x == Suffix(s)
           of == s.prov.of
<1>1. s.states \in Nat /\ of \in Seq(Nat) /\ (s.prov = Absent \/ s.prov.some)
  BY FieldsOf
<1>2. s.prov.some => s.prov \in [some : {TRUE}, of : Seq(Nat)]
  <2>1. s.prov \in {Absent} \cup [some : {TRUE}, of : Seq(Nat)]
    BY DEF MachineFields
  <2>2. ~Absent.some
    BY DEF Absent
  <2>3. QED
    BY <2>1, <2>2
<1>3. s.prov.some => s.prov = [some |-> TRUE, of |-> of]
  BY <1>2
<1>4. s.prov.some => Len(of) = s.states
  BY DEF InBounds
<1>5. CASE s.prov.some
  <2> DEFINE one == <<1>>
  <2>1. one \in Seq(Nat) /\ Len(one) = 1 /\ one[1] = 1
    OBVIOUS
  <2>2. x = one \o of /\ of \in Seq(Nat)
    BY <1>1, <1>5 DEF Suffix
  <2> HIDE DEF one, of, x
  <2>3. /\ Len(x) = Len(one) + Len(of) /\ Len(of) \in Nat
        /\ \A j \in 1..Len(one) : x[j] = one[j]
        /\ \A j \in 1..Len(of) : x[Len(one) + j] = of[j]
    BY <2>1, <2>2, WordsBoth
  <2>4. Len(x) = 1 + s.states /\ x[1] = 1 /\ \A j \in 1..s.states : x[1 + j] = of[j]
    BY <1>4, <1>5, <2>1, <2>3
  <2>5. QED
    BY <1>1, <1>3, <1>4, <1>5, <2>4 DEF of, x
<1>6. CASE ~s.prov.some
  <2>1. Len(x) = 1 /\ x[1] = 0
    BY <1>6 DEF Suffix
  <2>2. QED
    BY <1>1, <1>6, <2>1
<1>7. QED
  BY <1>5, <1>6

LEMMA SuffixRead ==
  ASSUME Unchanged, pos # 0, SuffixDue
  PROVE  LET s == sent.machine
         IN /\ m.accepting = s.accepting /\ todo = s.trans /\ SameHeader(m, s) /\ m.prov = Absent
            /\ pos + 1 <= Len(Encode(s))
            /\ Has(1) => SuffixLen = Len(Suffix(s)) /\ Len(Encode(s)) = pos + SuffixLen
            /\ Has(SuffixLen) =>
                 /\ Has(1)
                 /\ s.prov = IF Word(1) # 1 THEN m.prov
                             ELSE [some |-> TRUE, of |-> SubSeq(words, pos + 2, pos + SuffixLen)]
<1> DEFINE s == sent.machine
           code == Encode(s)
           x == Suffix(s)
           of == s.prov.of
<1>1. Len(m.accepting) = words[5] /\ Len(todo) = words[4]
  BY DEF SuffixDue
<1>2. /\ m.accepting = s.accepting /\ todo = s.trans
      /\ Len(code) = pos + Len(x) /\ Len(x) \in Nat /\ Len(x) >= 1
      /\ \A j \in 1..Len(x) : code[pos + j] = x[j]
  BY <1>1, SuffixAhead
<1>3. /\ Len(words) \in Nat /\ Len(words) <= Len(code) /\ Len(code) \in Nat
      /\ \A j \in 1..Len(words) : words[j] = code[j]
  BY FirstOnes DEF Unchanged
<1>4. /\ words \in Seq(Nat) /\ pos \in Nat /\ SameHeader(m, s) /\ m.prov = Absent
      /\ s \in MachineFields /\ InBounds(s)
  BY ShippedMachine DEF Unchanged, BuildInv, Typed, Parsed, Tracked
<1>5. m.states = s.states
  BY <1>4 DEF SameHeader
<1>6. /\ s.states \in Nat /\ of \in Seq(Nat)
      /\ s.prov.some =>
           /\ s.prov = [some |-> TRUE, of |-> of] /\ Len(of) = s.states
           /\ Len(x) = 1 + s.states /\ x[1] = 1 /\ \A j \in 1..s.states : x[1 + j] = of[j]
      /\ ~s.prov.some => s.prov = Absent /\ Len(x) = 1 /\ x[1] = 0
  BY <1>4, SuffixParts
<1> HIDE DEF code, x, of
<1>7. ASSUME Has(1) PROVE Word(1) = x[1] /\ SuffixLen = Len(x)
  <2>1. pos + 1 \in 1..Len(words) /\ 1 \in 1..Len(x)
    BY <1>2, <1>3, <1>4, <1>7 DEF Has
  <2>2. Word(1) = x[1]
    BY <1>2, <1>3, <2>1 DEF Word
  <2>3. SuffixLen = IF Word(1) = 1 THEN 1 + m.states ELSE 1
    BY <1>7 DEF SuffixLen
  <2>4. QED
    BY <1>5, <1>6, <2>2, <2>3
<1>8. ASSUME Has(SuffixLen)
      PROVE  /\ Has(1)
             /\ s.prov = IF Word(1) # 1 THEN m.prov
                         ELSE [some |-> TRUE, of |-> SubSeq(words, pos + 2, pos + SuffixLen)]
  <2>1. Has(1)
    <3>1. SuffixLen = 1 \/ Has(1)
      BY DEF SuffixLen
    <3>2. QED
      BY <1>8, <3>1
  <2>2. Word(1) = x[1] /\ SuffixLen = Len(x)
    BY <1>7, <2>1
  <2>3. CASE ~s.prov.some
    BY <1>4, <1>5, <1>6, <2>1, <2>2, <2>3
  <2>4. CASE s.prov.some
    <3> DEFINE n == s.states
               piece == SubSeq(words, pos + 2, pos + SuffixLen)
    <3>1. Word(1) = 1 /\ SuffixLen = 1 + n /\ n \in Nat
      BY <1>5, <1>6, <2>2, <2>4
    <3> HIDE DEF n
    <3>2. pos + 1 + n <= Len(words)
      BY <1>3, <1>4, <1>8, <3>1 DEF Has
    <3>3. piece \in Seq(Nat) /\ Len(piece) = n /\ \A j \in 1..n : piece[j] = words[(pos + 2) + j - 1]
      BY <1>4, <3>1, <3>2
    <3> HIDE DEF piece
    <3>4. ASSUME NEW j \in 1..n PROVE piece[j] = of[j]
      <4>1. x[1 + j] = of[j]
        BY <1>6, <2>4 DEF n
      <4>2. pos \in Nat /\ j \in Nat /\ 1 <= j /\ j <= n /\ Len(words) \in Nat
        BY <1>3, <1>4, <3>1
      <4>3. (pos + 2) + j - 1 = pos + (1 + j)
        BY <4>2
      <4>4. pos + (1 + j) \in 1..Len(words)
        BY <3>1, <3>2, <4>2
      <4>5. Len(x) = 1 + n
        BY <2>2, <3>1
      <4>6. 1 + j \in 1..Len(x)
        BY <3>1, <4>2, <4>5
      <4>7. piece[j] = words[pos + (1 + j)]
        BY <3>3, <4>3
      <4>8. words[pos + (1 + j)] = x[1 + j]
        BY <1>2, <1>3, <4>4, <4>6
      <4>9. QED
        BY <4>1, <4>7, <4>8
    <3>5. Len(of) = n
      BY <1>6, <2>4 DEF n
    <3>6. piece = of
      BY <1>6, <3>3, <3>4, <3>5, WordsSame
    <3>7. QED
      BY <1>6, <2>1, <2>4, <3>1, <3>6 DEF piece
  <2>5. QED
    BY <2>3, <2>4
<1>9. pos + 1 <= Len(code)
  BY <1>2, <1>4
<1>10. Has(1) => SuffixLen = Len(x) /\ Len(code) = pos + SuffixLen
  BY <1>2, <1>7
<1>11. QED
  BY <1>2, <1>4, <1>8, <1>9, <1>10 DEF code, x

\* Afterwards.
Whole ==
  side = "receiver" /\ fault # "changed" /\ pc # "read" =>
    /\ fault = "cut" => pc = "refused"
    /\ fault # "cut" =>
         /\ pc \in {"sort", "index", "done"}
         /\ pc = "sort" => m = [sent.machine EXCEPT !.trans = m.trans] /\ m.trans \o todo = sent.machine.trans
         /\ pc \in {"index", "done"} => m = sent.machine

LEMMA SameMachine ==
  ASSUME NEW x \in MachineFields, NEW y \in MachineFields, SameHeader(x, y),
         x.trans = y.trans, x.accepting = y.accepting, x.prov = y.prov
  PROVE  x = y
BY DEF MachineFields, SameHeader

LEMMA WholeSuffix ==
  ASSUME Unchanged, ReadSuffix
  PROVE  Whole'
<1> DEFINE s == sent.machine
           bare == [s EXCEPT !.trans = <<>>]
           code == Encode(s)
<1>1. /\ SuffixDue /\ Has(SuffixLen) /\ pos >= 7 /\ pc' = "sort"
      /\ m' = IF Word(1) # 1 THEN m
              ELSE [m EXCEPT !.prov = [some |-> TRUE, of |-> SubSeq(words, pos + 2, pos + SuffixLen)]]
      /\ UNCHANGED <<side, todo, sent, words, fault>>
  BY DEF ReadSuffix, SuffixDue, HeaderLen
<1>2. pos \in Nat /\ pos # 0 /\ m \in MachineFields /\ m.trans = <<>> /\ m' \in MachineFields /\ s \in MachineFields
  <2>1. pos \in Nat /\ pos # 0 /\ m \in MachineFields
    BY <1>1 DEF Unchanged, BuildInv, Typed
  <2>2. m.trans = <<>>
    BY <2>1 DEF Unchanged, BuildInv, Sides
  <2>3. m' \in MachineFields
    BY TypedRead DEF Unchanged, BuildInv, Typed
  <2>4. QED
    BY <2>1, <2>2, <2>3, ShippedMachine DEF Unchanged
<1>3. /\ m.accepting = s.accepting /\ todo = s.trans /\ SameHeader(m, s) /\ Has(1)
      /\ Len(code) = pos + SuffixLen
      /\ s.prov = IF Word(1) # 1 THEN m.prov
                  ELSE [some |-> TRUE, of |-> SubSeq(words, pos + 2, pos + SuffixLen)]
  BY <1>1, <1>2, SuffixRead
<1>4. SameHeader(m', bare) /\ m'.accepting = bare.accepting /\ m'.trans = bare.trans /\ m'.prov = bare.prov
      /\ m'.trans = <<>>
  <2> DEFINE read == [some |-> TRUE, of |-> SubSeq(words, pos + 2, pos + SuffixLen)]
  <2>1. SameHeader(bare, s) /\ bare.accepting = s.accepting /\ bare.trans = <<>> /\ bare.prov = s.prov
    BY <1>2 DEF MachineFields, SameHeader
  <2>2. m' = IF Word(1) # 1 THEN m ELSE [m EXCEPT !.prov = read]
    BY <1>1
  <2>3. s.prov = IF Word(1) # 1 THEN m.prov ELSE read
    BY <1>3
  <2> HIDE DEF read, bare
  <2>4. SameHeader(m', m) /\ m'.accepting = m.accepting /\ m'.trans = m.trans /\ m'.prov = s.prov
    <3>1. CASE Word(1) # 1
      BY <2>2, <2>3, <3>1 DEF SameHeader
    <3>2. CASE Word(1) = 1
      <4>1. m' = [m EXCEPT !.prov = read] /\ s.prov = read
        BY <2>2, <2>3, <3>2
      <4>2. QED
        BY <1>2, <4>1 DEF MachineFields, SameHeader
    <3>3. QED
      BY <3>1, <3>2
  <2>5. QED
    BY <1>2, <1>3, <2>1, <2>4 DEF SameHeader
<1>5. bare \in MachineFields
  <2>1. <<>> \in Seq(Transition)
    OBVIOUS
  <2>2. QED
    BY <1>2, <2>1, OtherTransitions
<1> HIDE DEF bare
<1>6. m' = bare
  BY <1>2, <1>4, <1>5, SameMachine
<1>7. m' = [s EXCEPT !.trans = m'.trans]
  BY <1>4, <1>6 DEF bare
<1>8. m'.trans \o todo' = s.trans
  <2>1. s.trans \in Seq(Transition)
    BY <1>2, FieldsOf
  <2>2. <<>> \o s.trans = s.trans
    BY <2>1, ConcatEmptySeq
  <2>3. QED
    BY <1>1, <1>3, <1>4, <2>2
<1>9. fault # "cut"
  <2>1. Len(code) <= Len(words)
    BY <1>1, <1>3 DEF Has
  <2>2. Len(words) \in Nat /\ Len(code) \in Nat /\ (fault = "cut" => Len(words) < Len(code))
    BY FirstOnes DEF Unchanged
  <2>3. QED
    BY <2>1, <2>2
<1> HIDE DEF s
<1>10. QED
  BY <1>1, <1>7, <1>8, <1>9 DEF Whole, s

LEMMA WholeTruncated ==
  ASSUME Unchanged, Truncated
  PROVE  Whole'
<1> DEFINE code == Encode(sent.machine)
<1>1. pc' = "refused" /\ UNCHANGED <<side, fault>>
  BY DEF Truncated
<1>2. fault = "cut"
  <2> SUFFICES ASSUME fault # "cut" PROVE FALSE
    OBVIOUS
  <2>1. Len(words) = Len(code) /\ Len(code) \in Nat
    <3>1. fault = "none"
      BY DEF Unchanged, Shipped
    <3>2. QED
      BY <3>1, FirstOnes DEF Unchanged
  <2>2. pos \in Nat
    BY DEF Unchanged, BuildInv, Typed
  <2>3. CASE pos = 0 /\ ~Has(7)
    <3> DEFINE s == sent.machine
               n == Len(s.accepting)
               k == Len(Stream(s.trans))
               e == Len(Suffix(s))
    <3>1. s \in MachineFields
      BY ShippedMachine DEF Unchanged
    <3>2. n \in Nat /\ k \in Nat /\ e \in Nat /\ Len(code) = ((7 + n) + k) + e
      BY <3>1, CodeParts
    <3> HIDE DEF code, n, k, e
    <3>3. 7 <= Len(words)
      BY <2>1, <3>2
    <3>4. QED
      BY <2>3, <3>3 DEF Has
  <2>4. CASE AcceptingDue /\ ~Has(1)
    <3>1. pos # 0 /\ Len(m.accepting) < words[5]
      BY <2>2, <2>4 DEF AcceptingDue, HeaderLen
    <3>2. pos + 1 <= Len(code)
      BY <3>1, AcceptingAhead
    <3> HIDE DEF code
    <3>3. QED
      BY <2>1, <2>4, <3>2 DEF Has
  <2>5. CASE TransitionDue /\ ~(Has(5) /\ Has(5 + Word(5)))
    <3>1. pos # 0 /\ Len(m.accepting) = words[5] /\ Len(todo) < words[4]
      BY <2>2, <2>5 DEF TransitionDue, HeaderLen
    <3> DEFINE t == sent.machine.trans[Len(todo) + 1]
               n == Len(t.push)
               x == RecordWords(t)
    <3>2. /\ Len(x) \in Nat /\ Len(x) = 5 + n /\ n \in Nat /\ pos + Len(x) <= Len(code)
      BY <3>1, TransitionAhead
    <3> HIDE DEF code, x, n, t
    <3>3. pos + 5 <= Len(code) /\ pos + 5 + n <= Len(code)
      BY <2>1, <2>2, <3>2
    <3>4. Has(5)
      BY <2>1, <3>3 DEF Has
    <3>5. Word(5) = n
      BY <2>5, <3>1, <3>4, TransitionRead DEF n, t
    <3>6. Has(5 + Word(5))
      BY <2>1, <2>2, <3>2, <3>3, <3>5 DEF Has
    <3>7. QED
      BY <2>5, <3>4, <3>6
  <2>6. CASE SuffixDue /\ ~Has(SuffixLen)
    <3>1. pos # 0
      BY <2>2, <2>6 DEF SuffixDue, HeaderLen
    <3>2. /\ pos + 1 <= Len(code)
          /\ Has(1) => Len(code) = pos + SuffixLen
      BY <2>6, <3>1, SuffixRead
    <3> HIDE DEF code
    <3>3. Has(1)
      BY <2>1, <3>2 DEF Has
    <3>4. QED
      BY <2>1, <2>6, <3>2, <3>3 DEF Has
  <2>7. QED
    BY <2>3, <2>4, <2>5, <2>6 DEF Truncated, HeaderLen
<1>3. QED
  BY <1>1, <1>2 DEF Whole

\* One element behind a sequence, and between two.
LEMMA OneAppended ==
  ASSUME NEW S, NEW x \in Seq(S), NEW t \in S
  PROVE  x \o <<t>> = [j \in 1..(Len(x) + 1) |-> IF j < Len(x) + 1 THEN x[j] ELSE t]
<1> DEFINE one == <<t>>
           n == Len(x)
           xt == x \o one
<1>1. n \in Nat /\ one \in Seq(S) /\ Len(one) = 1 /\ one[1] = t
  OBVIOUS
<1> HIDE DEF one
<1>2. /\ xt \in Seq(S) /\ Len(xt) = n + 1
      /\ \A j \in 1..(n + 1) : xt[j] = IF j <= n THEN x[j] ELSE one[j - n]
  <2>1. /\ xt \in Seq(S) /\ Len(xt) = n + Len(one)
        /\ \A j \in 1..(n + Len(one)) : xt[j] = IF j <= n THEN x[j] ELSE one[j - n]
    BY <1>1, ConcatProperties
  <2>2. QED
    BY <1>1, <2>1
<1> HIDE DEF xt
<1>3. xt = [j \in 1..(n + 1) |-> xt[j]]
  BY <1>2
<1>4. \A j \in 1..(n + 1) : xt[j] = IF j < n + 1 THEN x[j] ELSE t
  <2> SUFFICES ASSUME NEW j \in 1..(n + 1) PROVE xt[j] = IF j < n + 1 THEN x[j] ELSE t
    OBVIOUS
  <2>1. CASE j = n + 1
    BY <1>1, <1>2, <2>1
  <2>2. CASE j # n + 1
    BY <1>1, <1>2, <2>2
  <2>3. QED
    BY <2>1, <2>2
<1>5. xt = [j \in 1..(n + 1) |-> IF j < n + 1 THEN x[j] ELSE t]
  BY <1>3, <1>4
<1>6. QED
  BY <1>5 DEF one, xt

LEMMA OneBetween ==
  ASSUME NEW S, NEW x \in Seq(S), NEW t \in S, NEW rest \in Seq(S)
  PROVE  (x \o <<t>>) \o rest = x \o (<<t>> \o rest)
<1>1. <<t>> \in Seq(S)
  OBVIOUS
<1>2. QED
  BY <1>1, ConcatThree

\* What is sorted already stays in its order.
LEMMA SortAppends ==
  ASSUME NEW x \in Seq(Transition), NEW y \in Seq(Transition), y # <<>>, SortedByKey(x \o y),
         NEW p, SortPosition(x, Head(y), p)
  PROVE  Inserted(x, Head(y), p) \o Tail(y) = x \o y
<1> DEFINE t == Head(y)
           rest == Tail(y)
           one == <<t>>
           s == x \o y
           xt == x \o one
           n == Len(x)
<1>1. n \in Nat /\ Len(y) \in Nat /\ Len(y) >= 1 /\ t = y[1] /\ t \in Transition
      /\ rest \in Seq(Transition) /\ one \in Seq(Transition) /\ y = one \o rest /\ Len(one) = 1 /\ one[1] = t
  OBVIOUS
<1> HIDE DEF t, rest, one
<1>2. /\ s \in Seq(Transition) /\ Len(s) = n + Len(y)
      /\ \A j \in 1..(n + Len(y)) : s[j] = IF j <= n THEN x[j] ELSE y[j - n]
  BY ConcatProperties
<1>3. SortedByKey(s)
  OBVIOUS
<1> HIDE DEF s
<1>4. s[n + 1] = t /\ n + 1 \in 1..Len(s) /\ \A j \in 1..n : s[j] = x[j] /\ j \in 1..Len(s)
  <2> HIDE DEF n
  <2>1. n + 1 \in 1..(n + Len(y)) /\ ~(n + 1 <= n) /\ (n + 1) - n = 1
    BY <1>1
  <2>2. s[n + 1] = t /\ n + 1 \in 1..Len(s)
    BY <1>1, <1>2, <2>1
  <2>3. \A j \in 1..n : j \in 1..(n + Len(y)) /\ j <= n
    BY <1>1
  <2>4. QED
    BY <1>2, <2>2, <2>3
<1>5. \A j \in 1..n : KeyLE(x[j], t)
  <2> SUFFICES ASSUME NEW j \in 1..n PROVE KeyLE(x[j], t)
    OBVIOUS
  <2>1. j < n + 1 /\ j \in 1..Len(s) /\ s[j] = x[j]
    BY <1>1, <1>4
  <2>2. KeyLE(s[j], s[n + 1])
    BY <1>3, <1>4, <2>1 DEF SortedByKey
  <2>3. QED
    BY <1>4, <2>1, <2>2
<1>6. p = n + 1
  <2>1. p \in 1..(n + 1) /\ \A j \in p..n : ~KeyLE(x[j], t)
    BY DEF SortPosition, t
  <2>2. ~(p \in 1..n)
    <3> SUFFICES ASSUME p \in 1..n PROVE FALSE
      OBVIOUS
    <3>1. p \in p..n
      BY <1>1
    <3>2. QED
      BY <1>5, <2>1, <3>1
  <2>3. QED
    BY <1>1, <2>1, <2>2
<1>7. Inserted(x, t, p) = xt
  <2>1. Inserted(x, t, p) = [j \in 1..(n + 1) |-> IF j < n + 1 THEN x[j] ELSE IF j = n + 1 THEN t ELSE x[j - 1]]
    BY <1>6 DEF Inserted
  <2>2. xt = [j \in 1..(n + 1) |-> IF j < n + 1 THEN x[j] ELSE t]
    <3>1. t \in Transition
      BY <1>1
    <3>2. x \o <<t>> = [j \in 1..(Len(x) + 1) |-> IF j < Len(x) + 1 THEN x[j] ELSE t]
      BY <3>1, OneAppended
    <3>3. QED
      BY <3>2 DEF one
  <2> HIDE DEF xt
  <2>3. \A j \in 1..(n + 1) : (IF j < n + 1 THEN x[j] ELSE IF j = n + 1 THEN t ELSE x[j - 1])
                               = (IF j < n + 1 THEN x[j] ELSE t)
    BY <1>1
  <2>4. QED
    BY <2>1, <2>2, <2>3
<1>8. xt \o rest = x \o (one \o rest)
  BY <1>1, OneBetween DEF one
<1>9. QED
  BY <1>1, <1>7, <1>8 DEF t, rest

LEMMA WholeSort ==
  ASSUME BuildInv, Shipped, Whole, SortIn, side = "receiver", fault # "changed"
  PROVE  Whole'
<1> DEFINE s == sent.machine
           t == Head(todo)
<1>1. pc = "sort" /\ todo # <<>> /\ pc' = "sort" /\ todo' = Tail(todo) /\ UNCHANGED <<side, sent, fault>>
  BY DEF SortIn
<1>2. fault # "cut" /\ m = [s EXCEPT !.trans = m.trans] /\ m.trans \o todo = s.trans
  BY <1>1 DEF Whole
<1>3. PICK p : SortPosition(m.trans, t, p) /\ m' = [m EXCEPT !.trans = Inserted(@, t, p)]
  BY DEF SortIn
<1>4. m \in MachineFields /\ m.trans \in Seq(Transition) /\ todo \in Seq(Transition) /\ s \in MachineFields
  BY FieldsOf, ShippedMachine DEF BuildInv, Typed
<1>5. SortedByKey(m.trans \o todo)
  BY <1>2, ShippedMachine
<1>6. Inserted(m.trans, t, p) \o Tail(todo) = m.trans \o todo
  BY <1>1, <1>3, <1>4, <1>5, SortAppends
<1>7. m'.trans = Inserted(m.trans, t, p) /\ m' = [m EXCEPT !.trans = m'.trans]
  BY <1>3, <1>4 DEF MachineFields
<1>8. m' = [s EXCEPT !.trans = m'.trans]
  BY <1>2, <1>4, <1>7 DEF MachineFields
<1>9. m'.trans \o todo' = s.trans
  BY <1>1, <1>2, <1>6, <1>7
<1> HIDE DEF s, t
<1>10. QED
  BY <1>1, <1>2, <1>8, <1>9 DEF Whole, s

LEMMA WholeStep ==
  ASSUME BuildInv, Parsed, Shipped, Tracked, Whole, [Next]_vars
  PROVE  Whole'
<1>1. CASE Deliver \/ DeliverCut \/ DeliverChanged
  <2>1. pc' = "read"
    BY <1>1 DEF Deliver, DeliverCut, DeliverChanged, Arrives
  <2>2. QED
    BY <2>1 DEF Whole
<1>2. CASE UNCHANGED <<pc, side, m, todo, sent, fault>>
  BY <1>2 DEF Whole
<1>3. CASE Finished \/ UNCHANGED vars
  BY <1>2, <1>3 DEF Finished, vars
<1>4. CASE ReadHeader \/ ReadAccepting \/ ReadTransition
  <2>1. pc' = "read"
    BY <1>4 DEF ReadHeader, ReadAccepting, ReadTransition
  <2>2. QED
    BY <2>1 DEF Whole
<1>5. ASSUME ~(Deliver \/ DeliverCut \/ DeliverChanged), ~UNCHANGED <<pc, side, m, todo, sent, fault>>,
             SortIn \/ BeginIndex \/ IndexRecord \/ ValidateBounds \/ ReadSuffix \/ Truncated
      PROVE  Whole'
  <2>1. UNCHANGED <<side, sent, fault>>
    BY <1>5, ValidateEffect DEF SortIn, BeginIndex, IndexRecord, ReadSuffix, Truncated
  <2> SUFFICES ASSUME side = "receiver", fault # "changed" PROVE Whole'
    BY <2>1 DEF Whole
  <2>2. CASE SortIn
    BY <2>2, WholeSort
  <2>3. CASE ReadSuffix \/ Truncated
    <3>1. Unchanged
      BY <2>3 DEF Unchanged, ReadSuffix, Truncated
    <3>2. QED
      BY <2>3, <3>1, WholeSuffix, WholeTruncated
  <2>4. CASE BeginIndex
    <3>1. pc = "sort" /\ todo = <<>> /\ pc' = "index" /\ m' = m
      BY <2>4 DEF BeginIndex
    <3>2. fault # "cut" /\ m = [sent.machine EXCEPT !.trans = m.trans] /\ m.trans \o todo = sent.machine.trans
      BY <3>1 DEF Whole
    <3>3. m.trans \in Seq(Transition) /\ sent.machine \in MachineFields
      BY FieldsOf, ShippedMachine DEF BuildInv, Typed
    <3>4. m.trans = sent.machine.trans
      BY <3>1, <3>2, <3>3, ConcatEmptySeq
    <3>5. m = sent.machine
      BY <3>2, <3>3, <3>4 DEF MachineFields
    <3>6. QED
      BY <2>1, <3>1, <3>2, <3>5 DEF Whole
  <2>5. CASE IndexRecord
    <3>1. pc = "index" /\ pc' = "index" /\ m' = m
      BY <2>5 DEF IndexRecord
    <3>2. QED
      BY <2>1, <3>1 DEF Whole
  <2>6. CASE ValidateBounds
    <3>1. /\ pc = "index" /\ m' = m
          /\ pc' = IF ~InBounds(m) THEN "refused" ELSE IF side = "sender" THEN "send" ELSE "done"
      BY <2>6 DEF ValidateBounds
    <3>2. fault # "cut" /\ m = sent.machine
      BY <3>1 DEF Whole
    <3>3. InBounds(m)
      BY <3>2, ShippedMachine
    <3>4. pc' = "done"
      BY <3>1, <3>3
    <3>5. QED
      BY <2>1, <3>1, <3>2, <3>4 DEF Whole
  <2>7. QED
    BY <1>5, <2>2, <2>3, <2>4, <2>5, <2>6
<1>6. QED
  BY <1>1, <1>2, <1>3, <1>4, <1>5 DEF Next

\* An exact index is the only one.
LEMMA IndexUnique ==
  ASSUME NEW x \in MachineFields, NEW o, NEW c, NEW o2, NEW c2, ExactIndex(x, o, c), ExactIndex(x, o2, c2)
  PROVE  o = o2 /\ c = c2
<1> DEFINE S == 0..(x.states - 1)
           s == x.trans
           n == Len(s)
<1>1. n \in Nat /\ s \in Seq(Transition)
  BY FieldsOf, LenProperties
<1>2. /\ o \in [S -> Nat] /\ c \in [S -> Nat] /\ o2 \in [S -> Nat] /\ c2 \in [S -> Nat]
      /\ \A q \in S : c[q] > 0 => o[q] + c[q] <= n
      /\ \A q \in S : c2[q] > 0 => o2[q] + c2[q] <= n
      /\ \A q \in S : c[q] > 0 => \A j \in 1..n : s[j].q = q <=> j \in (o[q] + 1)..(o[q] + c[q])
      /\ \A q \in S : c2[q] > 0 => \A j \in 1..n : s[j].q = q <=> j \in (o2[q] + 1)..(o2[q] + c2[q])
      /\ \A j \in 1..n : s[j].q \in S => c[s[j].q] > 0 /\ c2[s[j].q] > 0
      /\ \A q \in S : (c[q] = 0 => o[q] = n) /\ (c2[q] = 0 => o2[q] = n)
  BY DEF ExactIndex, Indexed, ExactRows, Row
<1> HIDE DEF S, s, n
<1>3. ASSUME NEW q \in S PROVE o[q] = o2[q] /\ c[q] = c2[q]
  <2> DEFINE a == o[q]
             b == a + c[q]
             a2 == o2[q]
             b2 == a2 + c2[q]
  <2>1. a \in Nat /\ b \in Nat /\ a2 \in Nat /\ b2 \in Nat /\ c[q] \in Nat /\ c2[q] \in Nat
    BY <1>2
  <2>2. CASE c[q] = 0 /\ c2[q] = 0
    BY <1>2, <2>2
  <2>3. CASE c[q] > 0 \/ c2[q] > 0
    <3>1. c[q] > 0 /\ c2[q] > 0
      <4>1. ASSUME c[q] > 0 PROVE c2[q] > 0
        <5>1. a + 1 \in 1..n /\ a + 1 \in (a + 1)..b
          BY <1>1, <1>2, <2>1, <4>1
        <5>2. s[a + 1].q = q
          BY <1>2, <4>1, <5>1
        <5>3. QED
          BY <1>2, <5>1, <5>2
      <4>2. ASSUME c2[q] > 0 PROVE c[q] > 0
        <5>1. a2 + 1 \in 1..n /\ a2 + 1 \in (a2 + 1)..b2
          BY <1>1, <1>2, <2>1, <4>2
        <5>2. s[a2 + 1].q = q
          BY <1>2, <4>2, <5>1
        <5>3. QED
          BY <1>2, <5>1, <5>2
      <4>3. QED
        BY <2>3, <4>1, <4>2
    <3>2. \A j \in 1..n : j \in (a + 1)..b <=> j \in (a2 + 1)..b2
      BY <1>2, <3>1
    <3>3. b <= n /\ b2 <= n /\ a < b /\ a2 < b2
      BY <1>2, <2>1, <3>1
    <3> HIDE DEF a, b, a2, b2
    <3>4. a + 1 \in (a2 + 1)..b2 /\ a2 + 1 \in (a + 1)..b /\ b \in (a2 + 1)..b2 /\ b2 \in (a + 1)..b
      <4>1. a + 1 \in 1..n /\ a2 + 1 \in 1..n /\ b \in 1..n /\ b2 \in 1..n
        BY <1>1, <2>1, <3>3
      <4>2. a + 1 \in (a + 1)..b /\ a2 + 1 \in (a2 + 1)..b2 /\ b \in (a + 1)..b /\ b2 \in (a2 + 1)..b2
        BY <2>1, <3>3
      <4>3. QED
        BY <3>2, <4>1, <4>2
    <3>5. a = a2 /\ b = b2
      BY <2>1, <3>4
    <3>6. QED
      BY <2>1, <3>5 DEF a, b, a2, b2
  <2>4. QED
    BY <2>1, <2>2, <2>3
<1>4. QED
  BY <1>2, <1>3

LEMMA WholeMeans ==
  ASSUME BuildInv, Shipped, Whole, pc \in {"done", "refused"}, side = "receiver"
  PROVE  /\ fault = "none" => pc = "done" /\ sent = [machine |-> m, offsets |-> offsets, counts |-> counts]
         /\ fault = "cut" => pc = "refused"
<1>1. fault = "cut" => pc = "refused"
  BY DEF Whole
<1>2. ASSUME fault = "none"
      PROVE  pc = "done" /\ sent = [machine |-> m, offsets |-> offsets, counts |-> counts]
  <2>1. pc = "done" /\ m = sent.machine
    BY <1>2 DEF Whole
  <2>2. m \in MachineFields /\ ExactIndex(m, offsets, counts)
    BY <2>1 DEF BuildInv, Typed, Built, IndexedTo, States, ExactIndex
  <2>3. ExactIndex(m, sent.offsets, sent.counts)
    BY <2>1, ShippedMachine
  <2>4. offsets = sent.offsets /\ counts = sent.counts
    BY <2>2, <2>3, IndexUnique
  <2>5. sent = [machine |-> sent.machine, offsets |-> sent.offsets, counts |-> sent.counts]
    BY DEF Shipped
  <2>6. QED
    BY <2>1, <2>4, <2>5
<1>3. QED
  BY <1>1, <1>2

----------------------------------------------------------------------------
(* Where a word was changed: the words that are read have the sum of the   *)
(* words of what is made of them, in whatever order it is sorted, and one  *)
(* changed word changes the sum.                                           *)

Size(s) == Len(Stream(s))
Sum(s) == Total(Stream(s))

LEMMA SizesBoth ==
  ASSUME NEW x \in Seq(Transition), NEW y \in Seq(Transition)
  PROVE  /\ Size(x \o y) = Size(x) + Size(y) /\ Sum(x \o y) = Sum(x) + Sum(y)
         /\ Size(x) \in Nat /\ Size(y) \in Nat /\ Sum(x) \in Nat /\ Sum(y) \in Nat
<1> DEFINE a == Stream(x)
           b == Stream(y)
<1>1. Stream(x \o y) = a \o b /\ a \in Seq(Nat) /\ b \in Seq(Nat)
  BY StreamBoth
<1> HIDE DEF a, b
<1>2. Len(a \o b) = Len(a) + Len(b) /\ Len(a) \in Nat /\ Len(b) \in Nat
  BY <1>1, WordsBoth
<1>3. Total(a \o b) = Total(a) + Total(b) /\ Total(a) \in Nat
  BY <1>1, TotalBoth
<1>4. Total(b) \in Nat
  BY <1>1, TotalBoth
<1>5. QED
  BY <1>1, <1>2, <1>3, <1>4 DEF Size, Sum, a, b

\* Sorting a record in changes neither the number of words nor their sum.
LEMMA SizesInserted ==
  ASSUME NEW x \in Seq(Transition), NEW t \in Transition, NEW rest \in Seq(Transition), NEW p \in 1..(Len(x) + 1)
  PROVE  LET now == x \o (<<t>> \o rest)
             then == Inserted(x, t, p) \o rest
         IN Len(then) = Len(now) /\ Size(then) = Size(now) /\ Sum(then) = Sum(now)
<1> DEFINE one == <<t>>
           f == SubSeq(x, 1, p - 1)
           b == SubSeq(x, p, Len(x))
           ins == Inserted(x, t, p)
           fb == f \o b
           ft == f \o one
           ftb == ft \o b
           tr == one \o rest
           now == x \o tr
           then == ins \o rest
<1>1. one \in Seq(Transition)
  OBVIOUS
<1>2. f \in Seq(Transition) /\ b \in Seq(Transition) /\ x = fb /\ ins = ftb
  BY InsertedSplit, ZenonT(60)
<1>3. ins \in Seq(Transition)
  BY InsertedTyped
<1> HIDE DEF one, f, b, ins
<1>4. ft \in Seq(Transition) /\ tr \in Seq(Transition)
  BY <1>1, <1>2, ConcatProperties
<1>5. /\ Size(fb) = Size(f) + Size(b) /\ Sum(fb) = Sum(f) + Sum(b)
      /\ Size(f) \in Nat /\ Size(b) \in Nat /\ Sum(f) \in Nat /\ Sum(b) \in Nat
  BY <1>2, SizesBoth
<1>6. /\ Size(ft) = Size(f) + Size(one) /\ Sum(ft) = Sum(f) + Sum(one)
      /\ Size(one) \in Nat /\ Sum(one) \in Nat
  BY <1>1, <1>2, SizesBoth
<1>7. Size(tr) = Size(one) + Size(rest) /\ Sum(tr) = Sum(one) + Sum(rest) /\ Size(rest) \in Nat /\ Sum(rest) \in Nat
  BY <1>1, SizesBoth
<1>8. Size(now) = Size(x) + Size(tr) /\ Sum(now) = Sum(x) + Sum(tr)
  BY <1>4, SizesBoth
<1>9. Size(then) = Size(ins) + Size(rest) /\ Sum(then) = Sum(ins) + Sum(rest)
  BY <1>3, SizesBoth
<1>10. Size(ftb) = Size(ft) + Size(b) /\ Sum(ftb) = Sum(ft) + Sum(b)
  BY <1>2, <1>4, SizesBoth
<1>11. Len(then) = Len(now)
  <2>1. Len(one) = 1 /\ Len(x) \in Nat /\ Len(rest) \in Nat
    BY LenProperties DEF one
  <2>2. Len(tr) = Len(one) + Len(rest)
    BY <1>1, ConcatProperties
  <2>3. Len(now) = Len(x) + Len(tr)
    BY <1>4, ConcatProperties
  <2>4. Len(then) = Len(ins) + Len(rest)
    BY <1>3, ConcatProperties
  <2>5. Len(ins) = Len(x) + 1
    <3>1. Len(f) \in Nat /\ Len(b) \in Nat
      BY <1>2, LenProperties
    <3>2. Len(fb) = Len(f) + Len(b)
      BY <1>2, ConcatProperties
    <3>3. Len(ft) = Len(f) + Len(one)
      BY <1>1, <1>2, ConcatProperties
    <3>4. Len(ftb) = Len(ft) + Len(b)
      BY <1>2, <1>4, ConcatProperties
    <3>5. QED
      BY <1>2, <2>1, <3>1, <3>2, <3>3, <3>4
  <2>6. QED
    BY <2>1, <2>2, <2>3, <2>4, <2>5
<1> HIDE DEF fb, ft, ftb, tr, now, then
<1>12. Size(then) = Size(now)
  <2>1. Size(x) = Size(f) + Size(b) /\ Size(ins) = (Size(f) + Size(one)) + Size(b)
    BY <1>2, <1>5, <1>6, <1>10
  <2>2. Size(f) \in Nat /\ Size(b) \in Nat /\ Size(one) \in Nat /\ Size(rest) \in Nat
    BY <1>5, <1>6, <1>7
  <2>3. Size(now) = (Size(f) + Size(b)) + (Size(one) + Size(rest))
    BY <1>7, <1>8, <2>1
  <2>4. Size(then) = ((Size(f) + Size(one)) + Size(b)) + Size(rest)
    BY <1>9, <2>1
  <2>5. QED
    BY <2>2, <2>3, <2>4
<1>13. Sum(then) = Sum(now)
  <2>1. Sum(x) = Sum(f) + Sum(b) /\ Sum(ins) = (Sum(f) + Sum(one)) + Sum(b)
    BY <1>2, <1>5, <1>6, <1>10
  <2>2. Sum(f) \in Nat /\ Sum(b) \in Nat /\ Sum(one) \in Nat /\ Sum(rest) \in Nat
    BY <1>5, <1>6, <1>7
  <2>3. Sum(now) = (Sum(f) + Sum(b)) + (Sum(one) + Sum(rest))
    BY <1>7, <1>8, <2>1
  <2>4. Sum(then) = ((Sum(f) + Sum(one)) + Sum(b)) + Sum(rest)
    BY <1>9, <2>1
  <2>5. QED
    BY <2>2, <2>3, <2>4
<1>14. QED
  BY <1>11, <1>12, <1>13 DEF then, now, tr, one, ins

LEMMA FrontTotal ==
  ASSUME NEW x \in MachineFields, NEW n \in Nat, NEW k \in Nat, NEW s \in Seq(Transition)
  PROVE  /\ Total(FrontWords(x, n, k, s)) = (Total(Header(x, n, k)) + Total(x.accepting)) + Sum(s)
         /\ Total(FrontWords(x, n, k, s)) \in Nat
<1> DEFINE h == Header(x, n, k)
           a == x.accepting
           b == Stream(s)
           ha == h \o a
           all == ha \o b
<1>1. h \in Seq(Nat)
  BY FieldsOf DEF Header
<1>2. a \in Seq(Nat) /\ b \in Seq(Nat)
  BY FieldsOf, StreamBoth
<1>3. all = FrontWords(x, n, k, s)
  BY DEF FrontWords
<1> HIDE DEF h, a, b
<1>4. ha \in Seq(Nat) /\ Total(ha) = Total(h) + Total(a)
  BY <1>1, <1>2, WordsBoth, TotalBoth
<1>5. Total(b) \in Nat
  BY <1>2, TotalBoth
<1> HIDE DEF ha
<1>6. Total(all) = Total(ha) + Total(b) /\ Total(ha) \in Nat
  BY <1>2, <1>4, TotalBoth
<1> HIDE DEF all
<1>7. QED
  BY <1>3, <1>4, <1>5, <1>6 DEF h, a, b, Sum

LEMMA WordsTabled ==
  ASSUME NEW k \in Nat, NEW s \in [1..k -> Nat]
  PROVE  s \in Seq(Nat) /\ Len(s) = k
OBVIOUS

LEMMA WordInserted ==
  ASSUME NEW s \in Seq(Nat), NEW v \in Nat, NEW k \in 1..(Len(s) + 1)
  PROVE  LET f == SubSeq(s, 1, k - 1)
             b == SubSeq(s, k, Len(s))
         IN f \in Seq(Nat) /\ b \in Seq(Nat) /\ Inserted(s, v, k) = (f \o <<v>>) \o b
<1> DEFINE f == SubSeq(s, 1, k - 1)
           b == SubSeq(s, k, Len(s))
<1>1. f \in Seq(Nat) /\ b \in Seq(Nat) /\ s = f \o b /\ Inserted(s, v, k) = (f \o <<v>>) \o b
  BY InsertedSplit, ZenonT(60)
<1>2. QED
  BY <1>1

LEMMA TotalChanged ==
  ASSUME NEW x \in Seq(Nat), NEW i \in 1..Len(x), NEW w \in Nat
  PROVE  /\ Total([x EXCEPT ![i] = w]) + x[i] = Total(x) + w
         /\ Total([x EXCEPT ![i] = w]) \in Nat /\ Total(x) \in Nat /\ x[i] \in Nat
<1> DEFINE n == Len(x)
           s == [j \in 1..(n - 1) |-> IF j < i THEN x[j] ELSE x[j + 1]]
           f == SubSeq(s, 1, i - 1)
           b == SubSeq(s, i, Len(s))
<1>1. n \in Nat /\ n >= 1 /\ x = [j \in 1..n |-> x[j]] /\ \A j \in 1..n : x[j] \in Nat
  OBVIOUS
<1> HIDE DEF n
<1>2. s \in Seq(Nat) /\ Len(s) = n - 1
  <2>1. \A j \in 1..(n - 1) : (IF j < i THEN x[j] ELSE x[j + 1]) \in Nat
    BY <1>1
  <2>2. s \in [1..(n - 1) -> Nat] /\ n - 1 \in Nat
    BY <1>1, <2>1
  <2> HIDE DEF s
  <2>3. QED
    BY <2>2, WordsTabled
<1>3. i \in 1..n /\ i \in 1..(Len(s) + 1)
  BY <1>1, <1>2 DEF n
<1>4. ASSUME NEW v \in Nat PROVE [x EXCEPT ![i] = v] = Inserted(s, v, i)
  <2>1. Inserted(s, v, i) = [j \in 1..n |-> IF j < i THEN s[j] ELSE IF j = i THEN v ELSE s[j - 1]]
    <3>1. Len(s) + 1 = n
      BY <1>1, <1>2
    <3> HIDE DEF s
    <3>2. QED
      BY <3>1 DEF Inserted
  <2>2. [x EXCEPT ![i] = v] = [j \in 1..n |-> IF j = i THEN v ELSE x[j]]
    BY <1>1
  <2>3. \A j \in 1..n : (IF j < i THEN s[j] ELSE IF j = i THEN v ELSE s[j - 1]) = (IF j = i THEN v ELSE x[j])
    <3> SUFFICES ASSUME NEW j \in 1..n
                 PROVE  (IF j < i THEN s[j] ELSE IF j = i THEN v ELSE s[j - 1]) = (IF j = i THEN v ELSE x[j])
      OBVIOUS
    <3>1. CASE j < i
      <4>1. j \in 1..(n - 1)
        BY <1>1, <1>3, <3>1
      <4>2. s[j] = x[j]
        BY <3>1, <4>1
      <4>3. QED
        BY <1>3, <3>1, <4>2
    <3>2. CASE j = i
      BY <1>3, <3>2
    <3>3. CASE j > i
      <4> HIDE DEF s
      <4>1. j - 1 \in 1..(n - 1) /\ ~(j - 1 < i) /\ (j - 1) + 1 = j
        <5>1. n \in Nat /\ i \in Nat /\ 1 <= i /\ j \in Nat /\ j <= n
          BY <1>1, <1>3
        <5>2. QED
          BY <3>3, <5>1
      <4> USE DEF s
      <4>2. s[j - 1] = x[j]
        BY <4>1
      <4>3. QED
        BY <1>3, <3>3, <4>2
    <3>4. QED
      BY <1>3, <3>1, <3>2, <3>3
  <2>4. QED
    BY <2>1, <2>2, <2>3
<1> HIDE DEF s
<1>5. ASSUME NEW v \in Nat
      PROVE  /\ Total([x EXCEPT ![i] = v]) = (Total(f) + v) + Total(b)
             /\ Total(f) \in Nat /\ Total(b) \in Nat
  <2> DEFINE one == <<v>>
             fo == f \o one
             all == fo \o b
  <2>1. f \in Seq(Nat) /\ b \in Seq(Nat) /\ Inserted(s, v, i) = all
    BY <1>2, <1>3, WordInserted
  <2>2. one \in Seq(Nat) /\ Total(one) = v
    BY TotalOne
  <2> HIDE DEF one, f, b
  <2>3. fo \in Seq(Nat) /\ Total(fo) = Total(f) + Total(one) /\ Total(f) \in Nat
    BY <2>1, <2>2, WordsBoth, TotalBoth
  <2> HIDE DEF fo
  <2>4. Total(all) = Total(fo) + Total(b)
    BY <2>1, <2>3, TotalBoth
  <2>5. Total(b) \in Nat
    BY <2>1, TotalBoth
  <2>6. QED
    BY <1>4, <2>1, <2>2, <2>3, <2>4, <2>5
<1> HIDE DEF f, b
<1>6. x[i] \in Nat /\ [x EXCEPT ![i] = x[i]] = x
  BY <1>1, <1>3
<1>7. Total(x) = (Total(f) + x[i]) + Total(b)
  BY <1>5, <1>6
<1> DEFINE changed == [x EXCEPT ![i] = w]
<1>8. Total(changed) = (Total(f) + w) + Total(b) /\ Total(f) \in Nat /\ Total(b) \in Nat
  BY <1>5
<1> HIDE DEF changed
<1>9. Total(changed) + x[i] = Total(x) + w /\ Total(changed) \in Nat /\ Total(x) \in Nat
  <2> DEFINE before == Total(f)
             behind == Total(b)
             old == x[i]
  <2>1. /\ before \in Nat /\ behind \in Nat /\ old \in Nat
        /\ Total(changed) = (before + w) + behind /\ Total(x) = (before + old) + behind
    BY <1>6, <1>7, <1>8
  <2> HIDE DEF before, behind, old
  <2>2. Total(changed) \in Nat /\ Total(x) \in Nat
    BY <2>1
  <2>3. ((before + w) + behind) + old = ((before + old) + behind) + w
    BY <2>1
  <2>4. Total(changed) + old = Total(x) + w
    BY <2>1, <2>3
  <2>5. QED
    BY <2>2, <2>4 DEF old
<1>10. QED
  BY <1>6, <1>9 DEF changed

\* The array as it will be: what is sorted, and what is yet to be sorted in.
Array == IF pc = "sort" THEN m.trans \o todo ELSE m.trans

\* The first h of the words w have the sum of those of s and the other fields
\* of x, and the flag and the provenance follow them.
Tally(w, x, s, h) ==
  /\ h = (7 + Len(x.accepting)) + Size(s)
  /\ h + 1 <= Len(w)
  /\ Total(SubSeq(w, 1, h)) = Total(FrontWords(x, Len(s), Len(x.accepting), s))
  /\ w[h + 1] # 1 => x.prov = Absent
  /\ w[h + 1] = 1 =>
       /\ h + 1 + x.states <= Len(w)
       /\ x.prov = [some |-> TRUE, of |-> SubSeq(w, h + 2, h + 1 + x.states)]

Tallied ==
  side = "receiver" /\ pc \in {"sort", "index", "done"} => \E h \in Nat : Tally(words, m, Array, h)

LEMMA TallySuffix ==
  ASSUME BuildInv, Parsed, ReadSuffix
  PROVE  Tallied'
<1> DEFINE a == m.accepting
           flag == words[pos + 1]
           n == IF flag = 1 THEN 1 + m.states ELSE 1
<1>1. /\ pc = "read" /\ SuffixDue /\ Has(SuffixLen) /\ pos >= 7 /\ Len(a) = words[5] /\ Len(todo) = words[4]
      /\ pc' = "sort" /\ todo' = todo /\ words' = words
      /\ m' = IF Word(1) # 1 THEN m
              ELSE [m EXCEPT !.prov = [some |-> TRUE, of |-> SubSeq(words, pos + 2, pos + SuffixLen)]]
  BY DEF ReadSuffix, SuffixDue, HeaderLen
<1>2. /\ pos \in Nat /\ pos # 0 /\ m \in MachineFields /\ words \in Seq(Nat) /\ Len(words) \in Nat
      /\ todo \in Seq(Transition) /\ m.states \in Nat
  BY <1>1, FieldsOf, LenProperties DEF BuildInv, Typed
<1>3. m.trans = <<>> /\ m.prov = Absent /\ SubSeq(words, 1, pos) = FrontWords(m, Len(todo), Len(a), todo)
  BY <1>1, <1>2 DEF BuildInv, Sides, Parsed
<1>4. pos = (7 + Len(a)) + Size(todo)
  BY <1>1, <1>2, ParsedAt DEF BuildInv, Size
<1>5. Has(1) /\ SuffixLen = n /\ Word(1) = flag
  <2>1. SuffixLen = 1 \/ Has(1)
    BY DEF SuffixLen
  <2>2. Has(1)
    BY <1>1, <2>1
  <2>3. SuffixLen = IF Word(1) = 1 THEN 1 + m.states ELSE 1
    BY <2>2 DEF SuffixLen
  <2>4. QED
    BY <2>2, <2>3 DEF Word
<1>6. pos + 1 <= Len(words) /\ pos + n <= Len(words)
  BY <1>1, <1>5 DEF Has
<1> DEFINE read == [some |-> TRUE, of |-> SubSeq(words, pos + 2, pos + n)]
<1>7. m' = IF flag # 1 THEN m ELSE [m EXCEPT !.prov = read]
  BY <1>1, <1>5
<1> HIDE DEF read
<1>8. /\ m'.prov = IF flag # 1 THEN Absent ELSE read
      /\ SameHeader(m', m) /\ m'.accepting = a /\ m'.trans = <<>>
  <2>1. CASE flag # 1
    BY <1>3, <1>7, <2>1 DEF SameHeader
  <2>2. CASE flag = 1
    <3>1. m' = [m EXCEPT !.prov = read]
      BY <1>7, <2>2
    <3>2. QED
      BY <1>2, <1>3, <2>2, <3>1 DEF MachineFields, SameHeader
  <2>3. QED
    BY <2>1, <2>2
<1>9. Array' = todo
  <2>1. <<>> \o todo = todo
    BY <1>2, ConcatEmptySeq
  <2>2. QED
    BY <1>1, <1>8, <2>1 DEF Array
<1>10. FrontWords(m', Len(todo), Len(a), todo) = FrontWords(m, Len(todo), Len(a), todo)
  BY <1>8 DEF FrontWords, Header, SameHeader
<1>11. flag = 1 => pos + 1 + m.states = pos + n
  <2> HIDE DEF flag
  <2>1. flag = 1 => n = 1 + m.states
    OBVIOUS
  <2> HIDE DEF n
  <2>2. pos \in Nat /\ m.states \in Nat
    BY <1>2
  <2>3. QED
    BY <2>1, <2>2
<1>12. m'.states = m.states
  BY <1>8 DEF SameHeader
<1> HIDE DEF flag, n
<1>13. flag = 1 => pos + 1 + m'.states <= Len(words) /\ m'.prov = [some |-> TRUE, of |-> SubSeq(words, pos + 2, pos + 1 + m'.states)]
  BY <1>6, <1>8, <1>11, <1>12 DEF read
<1>14. flag # 1 => m'.prov = Absent
  BY <1>8
<1>15. Tally(words', m', todo, pos)
  <2>1. /\ pos = (7 + Len(m'.accepting)) + Size(todo) /\ pos + 1 <= Len(words')
        /\ Total(SubSeq(words', 1, pos)) = Total(FrontWords(m', Len(todo), Len(m'.accepting), todo))
    BY <1>1, <1>3, <1>4, <1>6, <1>8, <1>10
  <2>2. words'[pos + 1] = flag /\ words' = words
    BY <1>1 DEF flag
  <2>3. QED
    BY <1>13, <1>14, <2>1, <2>2 DEF Tally
<1>16. QED
  BY <1>2, <1>9, <1>15 DEF Tallied

LEMMA TallyReordered ==
  ASSUME NEW w, NEW h, NEW x, NEW s, Tally(w, x, s, h),
         NEW y, SameHeader(y, x), y.accepting = x.accepting, y.prov = x.prov,
         NEW r, Len(r) = Len(s), Size(r) = Size(s),
         Total(FrontWords(y, Len(r), Len(y.accepting), r)) = Total(FrontWords(x, Len(s), Len(x.accepting), s))
  PROVE  Tally(w, y, r, h)
BY DEF Tally, SameHeader

LEMMA TallySort ==
  ASSUME BuildInv, Tallied, SortIn, side = "receiver"
  PROVE  Tallied'
<1> DEFINE t == Head(todo)
           rest == Tail(todo)
           x == m.trans
           s == x \o todo
           r == m'.trans \o rest
<1>1. pc = "sort" /\ todo # <<>> /\ pc' = "sort" /\ todo' = rest /\ UNCHANGED <<side, words>>
  BY DEF SortIn
<1>2. PICK h \in Nat : Tally(words, m, s, h)
  BY <1>1 DEF Tallied, Array
<1>3. PICK p : SortPosition(x, t, p) /\ m' = [m EXCEPT !.trans = Inserted(@, t, p)]
  BY DEF SortIn
<1>4. m \in MachineFields /\ x \in Seq(Transition) /\ todo \in Seq(Transition)
  BY FieldsOf DEF BuildInv, Typed
<1>5. p \in 1..(Len(x) + 1) /\ t \in Transition /\ rest \in Seq(Transition) /\ todo = <<t>> \o rest
  BY <1>1, <1>3, <1>4 DEF SortPosition
<1>6. /\ m'.trans = Inserted(x, t, p) /\ SameHeader(m', m)
      /\ m'.accepting = m.accepting /\ m'.prov = m.prov
  BY <1>3, <1>4 DEF MachineFields, SameHeader
<1>7. m' \in MachineFields /\ m'.trans \in Seq(Transition)
  BY TypedSort, FieldsOf DEF BuildInv, Typed
<1> HIDE DEF t, rest
<1>8. Len(r) = Len(s) /\ Size(r) = Size(s) /\ Sum(r) = Sum(s)
  <2> DEFINE now == x \o (<<t>> \o rest)
             then == Inserted(x, t, p) \o rest
  <2>1. Len(then) = Len(now) /\ Size(then) = Size(now) /\ Sum(then) = Sum(now)
    BY <1>4, <1>5, SizesInserted
  <2>2. r = then /\ s = now
    BY <1>5, <1>6
  <2> HIDE DEF r, s, now, then
  <2>3. QED
    BY <2>1, <2>2
<1>9. r \in Seq(Transition) /\ s \in Seq(Transition)
  BY <1>4, <1>5, <1>7, ConcatProperties
<1> HIDE DEF r, s
<1>10. Total(FrontWords(m', Len(r), Len(m'.accepting), r)) = Total(FrontWords(m, Len(s), Len(m.accepting), s))
  <2> DEFINE n == Len(s)
             k == Len(m.accepting)
  <2>1. n \in Nat /\ k \in Nat /\ Len(r) = n /\ Len(m'.accepting) = k
    BY <1>4, <1>6, <1>8, <1>9, FieldsOf, LenProperties
  <2> HIDE DEF n, k
  <2>2. Total(FrontWords(m', n, k, r)) = (Total(Header(m', n, k)) + Total(m'.accepting)) + Sum(r)
    BY <1>7, <1>9, <2>1, FrontTotal
  <2>3. Total(FrontWords(m, n, k, s)) = (Total(Header(m, n, k)) + Total(m.accepting)) + Sum(s)
    BY <1>4, <1>9, <2>1, FrontTotal
  <2>4. Header(m', n, k) = Header(m, n, k)
    BY <1>6 DEF Header, SameHeader
  <2>5. Total(FrontWords(m', n, k, r)) = Total(FrontWords(m, n, k, s))
    BY <1>6, <1>8, <2>2, <2>3, <2>4
  <2>6. QED
    BY <2>1, <2>5 DEF n, k
<1>11. Tally(words, m', r, h)
  BY <1>2, <1>6, <1>8, <1>10, TallyReordered
<1>12. Array' = r
  BY <1>1 DEF Array, r
<1>13. QED
  BY <1>1, <1>11, <1>12 DEF Tallied

LEMMA TallyStep ==
  ASSUME BuildInv, Parsed, Tallied, [Next]_vars
  PROVE  Tallied'
<1>1. CASE Deliver \/ DeliverCut \/ DeliverChanged \/ ReadHeader \/ ReadAccepting \/ ReadTransition \/ Truncated
  <2>1. pc' \in {"read", "refused"}
    BY <1>1 DEF Deliver, DeliverCut, DeliverChanged, Arrives, ReadHeader, ReadAccepting, ReadTransition, Truncated
  <2>2. QED
    BY <2>1 DEF Tallied
<1>2. CASE SortIn
  <2>1. side' = side
    BY <1>2 DEF SortIn
  <2>2. QED
    BY <1>2, <2>1, TallySort DEF Tallied
<1>3. CASE BeginIndex
  <2>1. pc = "sort" /\ todo = <<>> /\ pc' = "index" /\ UNCHANGED <<side, m, words>>
    BY <1>3 DEF BeginIndex
  <2>2. m.trans \in Seq(Transition)
    BY FieldsOf DEF BuildInv, Typed
  <2>3. Array' = Array
    BY <2>1, <2>2, ConcatEmptySeq DEF Array
  <2>4. QED
    BY <2>1, <2>3 DEF Tallied
<1>4. CASE IndexRecord
  <2>1. pc = "index" /\ pc' = "index" /\ UNCHANGED <<side, m, words>>
    BY <1>4 DEF IndexRecord
  <2>2. Array' = Array
    BY <2>1 DEF Array
  <2>3. QED
    BY <2>1, <2>2 DEF Tallied
<1>5. CASE ValidateBounds
  <2>1. pc = "index" /\ pc' \in {"refused", "send", "done"} /\ UNCHANGED <<side, m, words>>
    BY <1>5, ValidateEffect
  <2>2. Array' = Array
    BY <2>1 DEF Array
  <2>3. QED
    BY <2>1, <2>2 DEF Tallied
<1>6. CASE ReadSuffix
  BY <1>6, TallySuffix
<1>7. CASE Finished \/ UNCHANGED vars
  BY <1>7 DEF Finished, vars, Tallied, Array
<1>8. QED
  BY <1>1, <1>2, <1>3, <1>4, <1>5, <1>6, <1>7 DEF Next

\* One changed word among the first ones changes their sum.
LEMMA FrontTotalChanged ==
  ASSUME NEW code \in Seq(Nat), NEW k \in Nat, k <= Len(code), NEW i \in 1..k, NEW w \in Nat, code[i] # w
  PROVE  Total(SubSeq([code EXCEPT ![i] = w], 1, k)) # Total(SubSeq(code, 1, k))
<1> DEFINE front == SubSeq(code, 1, k)
           now == [code EXCEPT ![i] = w]
           changed == [front EXCEPT ![i] = w]
           arrived == SubSeq(now, 1, k)
<1>1. Len(code) \in Nat /\ i \in 1..Len(code)
  BY LenProperties
<1>2. front \in Seq(Nat) /\ Len(front) = k /\ \A j \in 1..k : front[j] = code[j]
  BY FirstWords
<1>3. now \in Seq(Nat) /\ Len(now) = Len(code) /\ \A j \in 1..Len(code) : now[j] = IF j = i THEN w ELSE code[j]
  BY <1>1
<1> HIDE DEF front, now
<1>4. arrived \in Seq(Nat) /\ Len(arrived) = k /\ \A j \in 1..k : arrived[j] = now[j]
  BY <1>3, FirstWords
<1>5. changed \in Seq(Nat) /\ Len(changed) = k /\ \A j \in 1..k : changed[j] = IF j = i THEN w ELSE front[j]
  BY <1>2
<1> HIDE DEF arrived, changed
<1>6. \A j \in 1..k : arrived[j] = changed[j]
  <2>1. \A j \in 1..k : j \in 1..Len(code)
    BY <1>1
  <2>2. QED
    BY <1>2, <1>3, <1>4, <1>5, <2>1
<1>7. arrived = changed
  BY <1>4, <1>5, <1>6, WordsSame
<1>8. Total(changed) + front[i] = Total(front) + w /\ Total(changed) \in Nat /\ Total(front) \in Nat /\ front[i] \in Nat
  BY <1>2, TotalChanged DEF changed
<1>9. front[i] # w
  BY <1>2
<1>10. Total(changed) # Total(front)
  BY <1>8, <1>9
<1>11. QED
  BY <1>7, <1>10 DEF arrived, now, front

LEMMA TalliedMeans ==
  ASSUME BuildInv, Shipped, Tallied, side = "receiver", fault = "changed", pc = "done", m = sent.machine
  PROVE  \E w \in 0..MaxWord : words = [Encode(m) EXCEPT ![Len(Encode(m))] = w] /\ ~m.prov.some
<1> DEFINE code == Encode(m)
           x == Suffix(m)
           n == Len(m.accepting)
           b == Stream(m.trans)
           k == (7 + n) + Len(b)
           of == m.prov.of
<1>1. m \in MachineFields /\ InBounds(m)
  BY ShippedMachine
<1>2. /\ code \in Seq(Nat) /\ n \in Nat /\ Len(b) \in Nat /\ Len(x) \in Nat /\ Len(x) >= 1
      /\ Len(code) = k + Len(x)
      /\ \A j \in 1..Len(x) : code[k + j] = x[j]
      /\ SubSeq(code, 1, k) = FrontWords(m, Len(m.trans), n, m.trans)
  BY <1>1, CodeParts
<1>3. PICK i \in 1..Len(code), w \in 0..MaxWord : code[i] # w /\ words = [code EXCEPT ![i] = w]
  BY DEF Shipped
<1>4. PICK h \in Nat : Tally(words, m, m.trans, h)
  BY DEF Tallied, Array
<1> HIDE DEF x, n, b
<1>5. w \in Nat /\ Len(code) \in Nat
  <2>1. Len(code) \in Nat
    BY <1>2, LenProperties
  <2>2. w \in Nat
    BY MaxWordAssumption
  <2>3. QED
    BY <2>1, <2>2
<1>6. /\ h = k /\ Total(SubSeq(words, 1, k)) = Total(SubSeq(code, 1, k))
      /\ words[k + 1] # 1 => m.prov = Absent
      /\ words[k + 1] = 1 =>
           /\ k + 1 + m.states <= Len(words)
           /\ m.prov = [some |-> TRUE, of |-> SubSeq(words, k + 2, k + 1 + m.states)]
  BY <1>2, <1>4 DEF Tally, Size, n, b
<1> HIDE DEF code
<1>7. k \in Nat /\ k <= Len(code)
  <2>1. n \in Nat /\ Len(b) \in Nat /\ Len(x) \in Nat /\ Len(code) = k + Len(x)
    BY <1>2
  <2>2. QED
    BY <2>1
<1> HIDE DEF k
<1>8. i > k
  <2> SUFFICES ASSUME ~(i > k) PROVE FALSE
    OBVIOUS
  <2>1. i \in 1..k
    BY <1>5, <1>7
  <2>2. Total(SubSeq(words, 1, k)) # Total(SubSeq(code, 1, k))
    BY <1>2, <1>3, <1>5, <1>7, <2>1, FrontTotalChanged
  <2>3. QED
    BY <1>6, <2>2
<1>9. words[i] = w /\ words \in Seq(Nat) /\ Len(words) = Len(code)
  BY <1>2, <1>3, <1>5
<1>10. ~m.prov.some
  <2> SUFFICES ASSUME m.prov.some PROVE FALSE
    OBVIOUS
  <2>1. ~Absent.some
    BY DEF Absent
  <2>2. words[k + 1] = 1
    BY <1>6, <2>1
  <2>3. /\ Len(x) = 1 + m.states /\ x[1] = 1 /\ m.states \in Nat
        /\ \A j \in 1..m.states : x[1 + j] = of[j]
    BY <1>1, SuffixParts DEF x
  <2>4. code[k + 1] = 1
    BY <1>2, <2>3
  <2>5. i # k + 1
    BY <1>3, <1>9, <2>2, <2>4
  <2> DEFINE j == i - (k + 1)
             piece == SubSeq(words, k + 2, k + 1 + m.states)
  <2>6. j \in 1..m.states /\ k + (1 + j) = i /\ (k + 2) + j - 1 = i
    <3>1. i \in Nat /\ i <= k + (1 + m.states) /\ i >= k + 2
      BY <1>2, <1>5, <1>7, <1>8, <2>3, <2>5
    <3>2. QED
      BY <1>7, <2>3, <3>1
  <2>7. of = piece
    BY <1>6, <2>2
  <2>8. \A l \in 1..m.states : piece[l] = words[(k + 2) + l - 1]
    <3> DEFINE n2 == m.states
    <3>1. n2 \in Nat /\ k + 1 + n2 <= Len(words)
      BY <1>6, <2>2, <2>3
    <3> HIDE DEF n2
    <3>2. \A l \in 1..n2 : SubSeq(words, k + 2, k + 1 + n2)[l] = words[(k + 2) + l - 1]
      BY <1>7, <1>9, <3>1
    <3>3. QED
      BY <3>2 DEF n2
  <2> HIDE DEF j, piece
  <2>9. piece[j] = words[i] /\ x[1 + j] = of[j]
    BY <2>3, <2>6, <2>8
  <2>10. code[i] = x[1 + j]
    <3>1. 1 + j \in 1..Len(x)
      BY <2>3, <2>6
    <3>2. QED
      BY <1>2, <2>6, <3>1
  <2>11. QED
    BY <1>3, <1>9, <2>7, <2>9, <2>10
<1>11. i = Len(code)
  <2>1. Len(x) = 1
    BY <1>1, <1>10, SuffixParts DEF x
  <2>2. QED
    BY <1>2, <1>5, <1>7, <1>8, <2>1
<1>12. QED
  BY <1>3, <1>10, <1>11 DEF code

CodecInv == BuildInv /\ Parsed /\ Shipped /\ Tracked /\ Whole /\ Tallied

LEMMA CodecAlways == Spec => []CodecInv
<1>1. Init => CodecInv
  <2> SUFFICES ASSUME Init PROVE CodecInv
    OBVIOUS
  <2>1. side = "sender" /\ pc = "sort"
    BY DEF Init
  <2>2. Parsed /\ Shipped /\ Tracked /\ Whole /\ Tallied
    BY <2>1 DEF Parsed, Shipped, Tracked, Whole, Tallied
  <2>3. BuildInv
    BY BuildInit
  <2>4. QED
    BY <2>2, <2>3 DEF CodecInv
<1>2. CodecInv /\ [Next]_vars => CodecInv'
  <2> SUFFICES ASSUME CodecInv, [Next]_vars PROVE CodecInv'
    OBVIOUS
  <2>1. BuildInv /\ Typed /\ Sides /\ Parsed /\ Shipped /\ Tracked /\ Whole /\ Tallied
    BY DEF CodecInv, BuildInv
  <2>2. BuildInv' /\ Parsed' /\ Shipped'
    BY <2>1, BuildNext, ParsedStep, ShippedStep
  <2>3. Tracked' /\ Whole' /\ Tallied'
    BY <2>1, TrackedStep, WholeStep, TallyStep
  <2>4. QED
    BY <2>2, <2>3 DEF CodecInv
<1>3. QED
  BY <1>1, <1>2, PTL DEF Spec

LEMMA CodecMeans == CodecInv => Delivered
<1> SUFFICES ASSUME CodecInv, pc \in {"done", "refused"}, side = "receiver"
             PROVE  CASE fault = "none" ->
                           pc = "done" /\ sent = [machine |-> m, offsets |-> offsets, counts |-> counts]
                      [] fault = "cut" -> pc = "refused"
                      [] fault = "changed" ->
                           pc = "done" /\ m = sent.machine =>
                             \E w \in 0..MaxWord :
                               words = [Encode(m) EXCEPT ![Len(Encode(m))] = w] /\ ~m.prov.some
  BY DEF Delivered
<1>1. /\ fault = "none" => pc = "done" /\ sent = [machine |-> m, offsets |-> offsets, counts |-> counts]
      /\ fault = "cut" => pc = "refused"
  BY WholeMeans DEF CodecInv
<1>2. fault = "changed" /\ pc = "done" /\ m = sent.machine =>
        \E w \in 0..MaxWord : words = [Encode(m) EXCEPT ![Len(Encode(m))] = w] /\ ~m.prov.some
  BY TalliedMeans DEF CodecInv
<1>3. fault \in {"none", "cut", "changed"}
  BY DEF CodecInv, Shipped
<1>4. CASE fault = "none"
  BY <1>1, <1>4
<1>5. CASE fault = "cut"
  BY <1>1, <1>5
<1>6. CASE fault = "changed"
  BY <1>2, <1>6
<1>7. QED
  BY <1>3, <1>4, <1>5, <1>6

\* What arrives intact is the machine that was sent, with its order,
\* provenance and index; every machine cut short is refused; and a changed
\* word never passes for the machine that was sent, but where it is the flag
\* that no provenance follows: to_bitvec and from_bitvec, for every machine and
\* every one word that is changed.
THEOREM AlwaysDelivered == Spec => []Delivered
<1>1. Spec => []CodecInv
  BY CodecAlways
<1>2. CodecInv => Delivered
  BY CodecMeans
<1>3. QED
  BY <1>1, <1>2, PTL

----------------------------------------------------------------------------
(* Where a device finds the records of a state.                            *)

\* The words before a position of an array, and those of the records among
\* them that are in K.
Before(s, j) == Size(SubSeq(s, 1, j))
Mine(s, K, j) == Size(Kept(SubSeq(s, 1, j), K))

LEMMA OneRecord ==
  ASSUME NEW t \in Transition
  PROVE  Size(<<t>>) = 5 + Len(t.push) /\ Size(<<>>) = 0 /\ 5 + Len(t.push) \in Nat
<1>1. LET r == RecordWords(t)
          n == Len(t.push)
      IN /\ r \in Seq(Nat) /\ n \in Nat /\ Len(r) = 5 + n /\ t.push \in Seq(Nat)
         /\ r[1] = t.q /\ r[2] = t.a /\ r[3] = t.top /\ r[4] = t.next_q /\ r[5] = n
         /\ \A j \in 1..n : r[5 + j] = t.push[j]
  BY RecordParts
<1>2. Len(RecordWords(t)) = 5 + Len(t.push) /\ Len(t.push) \in Nat
  BY <1>1
<1>3. Stream(<<t>>) = RecordWords(t) /\ Stream(<<>>) = <<>>
  BY StreamOne
<1>4. Len(<<>>) = 0
  OBVIOUS
<1>5. QED
  BY <1>2, <1>3, <1>4 DEF Size

LEMMA PrefixMore ==
  ASSUME NEW s \in Seq(Transition), NEW j \in Nat, j < Len(s)
  PROVE  /\ SubSeq(s, 1, j) \in Seq(Transition) /\ <<s[j + 1]>> \in Seq(Transition) /\ s[j + 1] \in Transition
         /\ SubSeq(s, 1, j + 1) = SubSeq(s, 1, j) \o <<s[j + 1]>>
<1> DEFINE f == SubSeq(s, 1, j)
           g == SubSeq(s, 1, j + 1)
           t == s[j + 1]
<1>1. Len(s) \in Nat /\ j + 1 \in 1..Len(s)
  BY LenProperties
<1>2. f \in Seq(Transition) /\ Len(f) = j /\ \A i \in 1..j : f[i] = s[i]
  OBVIOUS
<1>3. g \in Seq(Transition) /\ Len(g) = j + 1 /\ \A i \in 1..(j + 1) : g[i] = s[i]
  BY <1>1
<1>4. t \in Transition /\ <<t>> \in Seq(Transition) /\ Len(<<t>>) = 1 /\ <<t>>[1] = t
  BY <1>1
<1> DEFINE one == <<t>>
<1> HIDE DEF f, g, t, one
<1>5. one \in Seq(Transition) /\ Len(one) = 1 /\ one[1] = t
  BY <1>4 DEF one
<1>6. /\ f \o one \in Seq(Transition) /\ Len(f \o one) = Len(f) + Len(one)
      /\ \A i \in 1..(Len(f) + Len(one)) : (f \o one)[i] = IF i <= Len(f) THEN f[i] ELSE one[i - Len(f)]
  BY <1>2, <1>5, ConcatProperties
<1>7. ASSUME NEW i \in 1..(j + 1) PROVE (f \o one)[i] = g[i]
  <2>1. CASE i <= j
    <3>1. i \in 1..j /\ i \in 1..(Len(f) + Len(one)) /\ i <= Len(f)
      BY <1>2, <1>5, <2>1
    <3>2. (f \o one)[i] = f[i]
      BY <1>6, <3>1
    <3>3. QED
      BY <1>2, <1>3, <3>1, <3>2
  <2>2. CASE i = j + 1
    <3>1. i \in 1..(Len(f) + Len(one)) /\ ~(i <= Len(f)) /\ i - Len(f) = 1
      BY <1>2, <1>5, <2>2
    <3>2. (f \o one)[i] = one[1]
      <4>1. (f \o one)[i] = one[i - Len(f)]
        BY <1>6, <3>1
      <4>2. QED
        BY <3>1, <4>1
    <3>3. g[i] = t
      BY <1>3, <2>2 DEF t
    <3>4. QED
      BY <1>5, <3>2, <3>3
  <2>3. i <= j \/ i = j + 1
    OBVIOUS
  <2>4. QED
    BY <2>1, <2>2, <2>3
<1>8. f \o one = g
  <2>1. Len(f \o one) = j + 1 /\ Len(g) = Len(f \o one)
    BY <1>2, <1>3, <1>5, <1>6
  <2>2. QED
    BY <1>3, <1>6, <1>7, <2>1, SeqEqual
<1>9. QED
  BY <1>2, <1>4, <1>8 DEF f, g, t, one

LEMMA BeforeMore ==
  ASSUME NEW s \in Seq(Transition), NEW j \in Nat, j < Len(s)
  PROVE  /\ Before(s, j) \in Nat /\ Before(s, j + 1) \in Nat
         /\ Before(s, j + 1) = Before(s, j) + (5 + Len(s[j + 1].push))
<1> DEFINE f == SubSeq(s, 1, j)
           t == s[j + 1]
           one == <<t>>
<1>1. f \in Seq(Transition) /\ one \in Seq(Transition) /\ t \in Transition /\ SubSeq(s, 1, j + 1) = f \o one
  BY PrefixMore
<1>2. Size(one) = 5 + Len(t.push) /\ 5 + Len(t.push) \in Nat
  BY <1>1, OneRecord
<1> HIDE DEF f, one, t
<1>3. Size(f \o one) = Size(f) + Size(one) /\ Size(f) \in Nat
  BY <1>1, SizesBoth
<1>4. Before(s, j) = Size(f) /\ Before(s, j + 1) = Size(f \o one)
  BY <1>1 DEF Before, f
<1>5. QED
  BY <1>2, <1>3, <1>4 DEF t

LEMMA MineMore ==
  ASSUME NEW s \in Seq(Transition), NEW K, NEW j \in Nat, j < Len(s)
  PROVE  /\ Mine(s, K, j) \in Nat /\ Mine(s, K, j + 1) \in Nat
         /\ Mine(s, K, j + 1) = Mine(s, K, j) + (IF s[j + 1] \in K THEN 5 + Len(s[j + 1].push) ELSE 0)
<1> DEFINE f == SubSeq(s, 1, j)
           t == s[j + 1]
           one == <<t>>
           mine == Kept(f, K)
           more == Kept(one, K)
<1>1. f \in Seq(Transition) /\ one \in Seq(Transition) /\ t \in Transition /\ SubSeq(s, 1, j + 1) = f \o one
  BY PrefixMore
<1>2. Size(one) = 5 + Len(t.push) /\ Size(<<>>) = 0 /\ 5 + Len(t.push) \in Nat
  BY <1>1, OneRecord
<1>3. more = IF t \in K THEN one ELSE <<>>
  BY <1>1, KeptOne
<1> HIDE DEF f, one, t
<1>4. Kept(f \o one, K) = mine \o more /\ mine \in Seq(Transition)
  BY <1>1, KeptBoth
<1>5. more \in Seq(Transition)
  BY <1>1, KeptTyped
<1> HIDE DEF mine, more
<1>6. Size(mine \o more) = Size(mine) + Size(more) /\ Size(mine) \in Nat
  BY <1>4, <1>5, SizesBoth
<1>7. Size(more) = IF t \in K THEN 5 + Len(t.push) ELSE 0
  BY <1>2, <1>3
<1>8. Mine(s, K, j) = Size(mine) /\ Mine(s, K, j + 1) = Size(mine \o more)
  BY <1>1, <1>4 DEF Mine, f, mine
<1>9. QED
  BY <1>2, <1>6, <1>7, <1>8 DEF t

LEMMA NothingBefore ==
  ASSUME NEW s \in Seq(Transition), NEW K
  PROVE  Before(s, 0) = 0 /\ Mine(s, K, 0) = 0
<1>1. SubSeq(s, 1, 0) = <<>>
  OBVIOUS
<1>2. Kept(<<>>, K) = <<>>
  <2>1. <<>> \in Seq(Transition) /\ Len(<<>>) = 0
    OBVIOUS
  <2>2. \A j \in 1..Len(<<>>) : <<>>[j] \notin K
    OBVIOUS
  <2>3. QED
    BY <2>1, <2>2, KeptNone
<1>3. Len(<<>>) = 0
  OBVIOUS
<1>4. QED
  BY <1>1, <1>2, <1>3, NoStream DEF Before, Mine, Size

\* The running index counts the words before a record.
LEMMA RunningCounts ==
  ASSUME NEW x \in MachineFields, NEW j \in 0..Len(x.trans)
  PROVE  RunningIndex(x)[j + 1] = Before(x.trans, j)
<1> DEFINE s == x.trans
           n == Len(s)
           size == RecordSizes(x)
           Is(f) == f = [k \in 1..(n + 1) |-> IF k = 1 THEN 0 ELSE f[k - 1] + size[k - 1]]
           u == [k \in 1..(n + 1) |-> Before(s, k - 1)]
           sum == RunningIndex(x)
<1>1. s \in Seq(Transition) /\ n \in Nat /\ DOMAIN s = 1..n
  BY FieldsOf
<1>2. \A k \in 1..n : size[k] = 5 + Len(s[k].push)
  BY <1>1 DEF RecordSizes
<1>3. sum = CHOOSE f : Is(f)
  BY DEF RunningIndex
<1> HIDE DEF size, sum, n, s
<1>4. Is(u)
  <2>1. ASSUME NEW k \in 1..(n + 1) PROVE Before(s, k - 1) = IF k = 1 THEN 0 ELSE u[k - 1] + size[k - 1]
    <3>1. CASE k = 1
      BY <1>1, <3>1, NothingBefore
    <3>2. CASE k # 1
      <4> DEFINE i == k - 2
      <4>1. i \in Nat /\ i < n /\ i + 1 = k - 1 /\ k - 1 \in 1..(n + 1) /\ k - 1 \in 1..n /\ (k - 1) - 1 = i
        BY <1>1, <3>2
      <4> HIDE DEF i
      <4>2. Before(s, i) \in Nat /\ Before(s, i + 1) \in Nat /\ Before(s, i + 1) = Before(s, i) + (5 + Len(s[i + 1].push))
        BY <1>1, <4>1, BeforeMore DEF n
      <4>3. u[k - 1] = Before(s, i)
        BY <4>1
      <4>4. size[k - 1] = 5 + Len(s[i + 1].push)
        BY <1>2, <4>1
      <4>5. QED
        BY <3>2, <4>1, <4>2, <4>3, <4>4
    <3>3. QED
      BY <3>1, <3>2
  <2>2. QED
    BY <2>1
<1>5. Is(sum)
  <2> HIDE DEF Is
  <2>1. QED
    BY <1>3, <1>4
<1>6. \A k \in 1..(n + 1) : sum[k] = IF k = 1 THEN 0 ELSE sum[k - 1] + size[k - 1]
  <2> DEFINE rhs == [k \in 1..(n + 1) |-> IF k = 1 THEN 0 ELSE sum[k - 1] + size[k - 1]]
  <2>1. sum = rhs
    BY <1>5
  <2>2. \A k \in 1..(n + 1) : rhs[k] = IF k = 1 THEN 0 ELSE sum[k - 1] + size[k - 1]
    OBVIOUS
  <2> HIDE DEF rhs
  <2>3. QED
    BY <2>1, <2>2
<1> HIDE DEF u, Is
<1> DEFINE T == {k \in Nat : k <= n => sum[k + 1] = Before(s, k)}
<1>7. 0 \in T
  <2>1. 1 \in 1..(n + 1)
    BY <1>1
  <2>2. sum[1] = 0
    BY <1>6, <2>1
  <2>3. Before(s, 0) = 0
    BY <1>1, NothingBefore
  <2>4. QED
    BY <2>2, <2>3
<1>8. ASSUME NEW k \in Nat, k \in T PROVE k + 1 \in T
  <2>1. ASSUME k + 1 <= n PROVE sum[(k + 1) + 1] = Before(s, k + 1)
    <3>1. k < n /\ k <= n /\ (k + 1) + 1 \in 1..(n + 1) /\ (k + 1) + 1 # 1 /\ ((k + 1) + 1) - 1 = k + 1 /\ k + 1 \in 1..n
      BY <1>1, <2>1
    <3>2. sum[(k + 1) + 1] = sum[k + 1] + size[k + 1]
      BY <1>6, <3>1
    <3>3. sum[k + 1] = Before(s, k)
      BY <1>8, <3>1
    <3>4. size[k + 1] = 5 + Len(s[k + 1].push)
      BY <1>2, <3>1
    <3>5. Before(s, k + 1) = Before(s, k) + (5 + Len(s[k + 1].push))
      BY <1>1, <3>1, BeforeMore DEF n
    <3>6. QED
      BY <3>2, <3>3, <3>4, <3>5
  <2>2. QED
    BY <2>1
<1> HIDE DEF T
<1>9. Nat \subseteq T
  BY <1>7, <1>8, Induction
<1>10. j \in Nat /\ j <= n
  BY <1>1 DEF n, s
<1>11. sum[j + 1] = Before(s, j)
  BY <1>9, <1>10 DEF T
<1>12. QED
  BY <1>11 DEF sum, s

\* A state counts the words of its records.
LEMMA CountsMine ==
  ASSUME NEW x \in MachineFields, NEW q \in 0..(x.states - 1)
  PROVE  CtrlU32Counts(x)[q] = Mine(x.trans, {t \in Transition : t.q = q}, Len(x.trans))
<1> DEFINE s == x.trans
           n == Len(s)
           K == {t \in Transition : t.q = q}
           size == RecordSizes(x)
           Is(f) == f = [k \in 0..n |-> IF k = 0 THEN 0 ELSE f[k - 1] + (IF s[k].q = q THEN size[k] ELSE 0)]
           u == [k \in 0..n |-> Mine(s, K, k)]
           sum == CHOOSE f : Is(f)
<1>1. s \in Seq(Transition) /\ n \in Nat /\ DOMAIN s = 1..n
  BY FieldsOf
<1>2. \A k \in 1..n : size[k] = 5 + Len(s[k].push)
  BY <1>1 DEF RecordSizes
<1>3. CtrlU32Counts(x)[q] = sum[n]
  BY DEF CtrlU32Counts
<1>4. ASSUME NEW k \in 1..n PROVE s[k] \in K <=> s[k].q = q
  BY <1>1
<1> HIDE DEF size, sum, n, s, K
<1>5. Is(u)
  <2>1. ASSUME NEW k \in 0..n PROVE Mine(s, K, k) = IF k = 0 THEN 0 ELSE u[k - 1] + (IF s[k].q = q THEN size[k] ELSE 0)
    <3>1. CASE k = 0
      BY <1>1, <3>1, NothingBefore
    <3>2. CASE k # 0
      <4> DEFINE i == k - 1
      <4>1. i \in Nat /\ i < n /\ i + 1 = k /\ i \in 0..n /\ k \in 1..n
        BY <1>1, <3>2
      <4> HIDE DEF i
      <4>2. /\ Mine(s, K, i) \in Nat /\ Mine(s, K, i + 1) \in Nat
            /\ Mine(s, K, i + 1) = Mine(s, K, i) + (IF s[i + 1] \in K THEN 5 + Len(s[i + 1].push) ELSE 0)
        BY <1>1, <4>1, MineMore DEF n
      <4>3. u[i] = Mine(s, K, i) /\ k - 1 = i
        BY <4>1 DEF i
      <4>4. size[k] = 5 + Len(s[k].push) /\ (s[k] \in K <=> s[k].q = q)
        BY <1>2, <1>4, <4>1
      <4>5. QED
        BY <3>2, <4>1, <4>2, <4>3, <4>4
    <3>3. QED
      BY <3>1, <3>2
  <2>2. QED
    BY <2>1
<1>6. Is(sum)
  <2> HIDE DEF Is
  <2>1. QED
    BY <1>5 DEF sum
<1>7. \A k \in 0..n : sum[k] = IF k = 0 THEN 0 ELSE sum[k - 1] + (IF s[k].q = q THEN size[k] ELSE 0)
  <2> DEFINE rhs == [k \in 0..n |-> IF k = 0 THEN 0 ELSE sum[k - 1] + (IF s[k].q = q THEN size[k] ELSE 0)]
  <2>1. sum = rhs
    BY <1>6
  <2>2. \A k \in 0..n : rhs[k] = IF k = 0 THEN 0 ELSE sum[k - 1] + (IF s[k].q = q THEN size[k] ELSE 0)
    OBVIOUS
  <2> HIDE DEF rhs
  <2>3. QED
    BY <2>1, <2>2
<1> HIDE DEF u, Is
<1> DEFINE T == {k \in Nat : k <= n => sum[k] = Mine(s, K, k)}
<1>8. 0 \in T
  <2>1. 0 \in 0..n
    BY <1>1
  <2>2. sum[0] = 0
    BY <1>7, <2>1
  <2>3. Mine(s, K, 0) = 0
    BY <1>1, NothingBefore
  <2>4. QED
    BY <2>2, <2>3
<1>9. ASSUME NEW k \in Nat, k \in T PROVE k + 1 \in T
  <2>1. ASSUME k + 1 <= n PROVE sum[k + 1] = Mine(s, K, k + 1)
    <3>1. k < n /\ k <= n /\ k + 1 \in 0..n /\ k + 1 # 0 /\ (k + 1) - 1 = k /\ k + 1 \in 1..n
      BY <1>1, <2>1
    <3>2. sum[k + 1] = sum[k] + (IF s[k + 1].q = q THEN size[k + 1] ELSE 0)
      BY <1>7, <3>1
    <3>3. sum[k] = Mine(s, K, k)
      BY <1>9, <3>1
    <3>4. size[k + 1] = 5 + Len(s[k + 1].push) /\ (s[k + 1] \in K <=> s[k + 1].q = q)
      BY <1>2, <1>4, <3>1
    <3>5. Mine(s, K, k + 1) = Mine(s, K, k) + (IF s[k + 1] \in K THEN 5 + Len(s[k + 1].push) ELSE 0)
      BY <1>1, <3>1, MineMore DEF n
    <3>6. QED
      BY <3>2, <3>3, <3>4, <3>5
  <2>2. QED
    BY <2>1
<1> HIDE DEF T
<1>10. Nat \subseteq T
  BY <1>8, <1>9, Induction
<1>11. sum[n] = Mine(s, K, n)
  BY <1>1, <1>10 DEF T
<1>12. QED
  BY <1>3, <1>11 DEF s, n, K

LEMMA WordsFrom ==
  ASSUME NEW w \in Seq(Nat), NEW p \in Nat, NEW n \in Nat, p + n <= Len(w)
  PROVE  LET v == SubSeq(w, p + 1, p + n)
         IN v \in Seq(Nat) /\ Len(v) = n /\ \A k \in 1..n : v[k] = w[p + k]
<1> DEFINE a == p + 1
           b == p + n
           v == SubSeq(w, a, b)
<1>1. a \in Int /\ b \in Int /\ (b - a) + 1 = n /\ (IF a <= b THEN (b - a) + 1 ELSE 0) = n
  OBVIOUS
<1>2. \A k \in a..b : w[k] \in Nat
  OBVIOUS
<1> HIDE DEF a, b
<1>3. /\ v \in Seq(Nat) /\ Len(v) = IF a <= b THEN (b - a) + 1 ELSE 0
      /\ \A k \in 1..((b - a) + 1) : v[k] = w[(a + k) - 1]
  BY <1>1, <1>2, SubSeqProperties
<1> HIDE DEF v
<1>4. \A k \in 1..n : (a + k) - 1 = p + k
  BY DEF a
<1>5. QED
  BY <1>1, <1>3, <1>4 DEF v, a, b

\* A piece of an array is written as a piece of its words.
LEMMA PieceWritten ==
  ASSUME NEW s \in Seq(Transition), NEW i \in Nat, NEW j \in Nat, i <= j, j <= Len(s)
  PROVE  LET w == Stream(s)
             row == Stream(SubSeq(s, i + 1, j))
         IN /\ row \in Seq(Nat) /\ Before(s, i) + Len(row) <= Len(w)
            /\ SubSeq(w, Before(s, i) + 1, Before(s, i) + Len(row)) = row
<1> DEFINE front == SubSeq(s, 1, i)
           mid == SubSeq(s, i + 1, j)
           back == SubSeq(s, j + 1, Len(s))
           x == Stream(front)
           y == Stream(mid)
           z == Stream(back)
           a == x \o y
           w == a \o z
<1>1. front \in Seq(Transition) /\ mid \in Seq(Transition) /\ back \in Seq(Transition) /\ s = (front \o mid) \o back
  BY ThreePieces, ZenonT(60)
<1> HIDE DEF front, mid, back
<1>2. front \o mid \in Seq(Transition)
  BY <1>1, ConcatProperties
<1>3. Stream((front \o mid) \o back) = Stream(front \o mid) \o z
  BY <1>1, <1>2, StreamBoth
<1>4. Stream(front \o mid) = x \o y /\ x \in Seq(Nat)
  BY <1>1, StreamBoth
<1>5. y \in Seq(Nat) /\ z \in Seq(Nat)
  BY <1>1, StreamBoth
<1>6. Stream(s) = w
  BY <1>1, <1>3, <1>4
<1> DEFINE p == Len(x)
           n == Len(y)
<1> HIDE DEF x, y, z
<1>7. /\ a \in Seq(Nat) /\ Len(a) = p + n /\ p \in Nat /\ n \in Nat
      /\ \A k \in 1..n : a[p + k] = y[k]
  BY <1>4, <1>5, WordsBoth
<1> HIDE DEF a
<1>8. w \in Seq(Nat) /\ Len(w) = Len(a) + Len(z) /\ Len(z) \in Nat /\ \A k \in 1..Len(a) : w[k] = a[k]
  BY <1>5, <1>7, WordsBoth
<1> HIDE DEF w, p, n
<1>9. p + n <= Len(w) /\ \A k \in 1..n : p + k \in 1..Len(w) /\ w[p + k] = y[k]
  BY <1>7, <1>8
<1> DEFINE v == SubSeq(w, p + 1, p + n)
<1>10. v \in Seq(Nat) /\ Len(v) = n /\ \A k \in 1..n : v[k] = w[p + k]
  BY <1>7, <1>8, <1>9, WordsFrom
<1> HIDE DEF v
<1>11. v = y
  <2>1. Len(v) = Len(y) /\ \A k \in 1..Len(v) : v[k] = y[k]
    BY <1>9, <1>10 DEF n
  <2>2. QED
    BY <1>5, <1>10, <2>1, WordsSame
<1>12. p = Before(s, i)
  BY DEF p, x, front, Before, Size
<1>13. p + Len(y) <= Len(w) /\ SubSeq(w, p + 1, p + Len(y)) = y
  BY <1>9, <1>11 DEF v, n
<1>14. y = Stream(SubSeq(s, i + 1, j))
  BY DEF y, mid
<1>15. QED
  BY <1>5, <1>6, <1>12, <1>13, <1>14

\* In the index of an array, the records of a state are a piece of it.
LEMMA RecordsOfState ==
  ASSUME NEW s \in Seq(Transition), NEW Q, NEW o, NEW c, Indexed(s, Len(s), Q, o, c), NEW q \in Q
  PROVE  /\ o[q] \in Nat /\ c[q] \in Nat
         /\ c[q] = 0 => \A k \in 1..Len(s) : s[k].q # q
         /\ c[q] # 0 => /\ c[q] > 0 /\ o[q] + c[q] <= Len(s)
                        /\ \A k \in 1..Len(s) : s[k].q = q <=> k \in (o[q] + 1)..(o[q] + c[q])
<1>1. o[q] \in Nat /\ c[q] \in Nat /\ DOMAIN c = Q
  BY DEF Indexed
<1>2. ASSUME c[q] = 0 PROVE \A k \in 1..Len(s) : s[k].q # q
  BY <1>1, <1>2 DEF Indexed
<1>3. ASSUME c[q] # 0
      PROVE  /\ c[q] > 0 /\ o[q] + c[q] <= Len(s)
             /\ \A k \in 1..Len(s) : s[k].q = q <=> k \in (o[q] + 1)..(o[q] + c[q])
  <2>1. c[q] > 0
    BY <1>1, <1>3
  <2>2. QED
    BY <1>1, <2>1 DEF Indexed, ExactRows, Row
<1>4. QED
  BY <1>1, <1>2, <1>3

\* Of a sequence of records in K all are kept.
LEMMA KeptWhole ==
  ASSUME NEW K, NEW s \in Seq(Transition), \A j \in 1..Len(s) : s[j] \in K
  PROVE  Kept(s, K) = s
<1> DEFINE T == {j \in Nat : j <= Len(s) => Kept(SubSeq(s, 1, j), K) = SubSeq(s, 1, j)}
<1>1. Len(s) \in Nat /\ SubSeq(s, 1, 0) = <<>> /\ SubSeq(s, 1, Len(s)) = s
  BY LenProperties
<1>2. 0 \in T
  <2>1. <<>> \in Seq(Transition) /\ Len(<<>>) = 0
    OBVIOUS
  <2>2. \A j \in 1..Len(<<>>) : <<>>[j] \notin K
    OBVIOUS
  <2>3. Kept(<<>>, K) = <<>>
    BY <2>1, <2>2, KeptNone
  <2>4. QED
    BY <1>1, <2>3
<1>3. ASSUME NEW j \in Nat, j \in T PROVE j + 1 \in T
  <2>1. ASSUME j + 1 <= Len(s) PROVE Kept(SubSeq(s, 1, j + 1), K) = SubSeq(s, 1, j + 1)
    <3> DEFINE f == SubSeq(s, 1, j)
               t == s[j + 1]
               one == <<t>>
    <3>1. j < Len(s) /\ j <= Len(s) /\ j + 1 \in 1..Len(s)
      BY <1>1, <2>1
    <3>2. f \in Seq(Transition) /\ one \in Seq(Transition) /\ t \in Transition /\ SubSeq(s, 1, j + 1) = f \o one
      BY <3>1, PrefixMore
    <3>3. Kept(f, K) = f /\ t \in K
      BY <1>3, <3>1
    <3>4. Kept(one, K) = one
      BY <3>2, <3>3, KeptOne
    <3> HIDE DEF f, one, t
    <3>5. Kept(f \o one, K) = Kept(f, K) \o Kept(one, K)
      <4>1. f \in Seq(Transition) /\ one \in Seq(Transition)
        BY <3>2
      <4>2. QED
        BY <4>1, KeptBoth, ZenonT(60)
    <3>6. QED
      BY <3>2, <3>3, <3>4, <3>5
  <2>2. QED
    BY <2>1
<1> HIDE DEF T
<1>4. Nat \subseteq T
  BY <1>2, <1>3, Induction
<1>5. Len(s) \in T
  BY <1>1, <1>4
<1>6. Kept(SubSeq(s, 1, Len(s)), K) = SubSeq(s, 1, Len(s))
  BY <1>1, <1>5 DEF T
<1>7. QED
  BY <1>1, <1>6

\* The words of a state are those from its offset, as many as it counts.
LEMMA RowWritten ==
  ASSUME NEW x \in MachineFields, NEW Q, NEW o, NEW c, Indexed(x.trans, Len(x.trans), Q, o, c),
         NEW q \in 0..(x.states - 1), q \in Q
  PROVE  LET s == x.trans
             K == {t \in Transition : t.q = q}
             from == CtrlU32Offsets(x)[q]
             number == CtrlU32Counts(x)[q]
         IN /\ from + number <= Len(Stream(s))
            /\ SubSeq(Stream(s), from + 1, from + number) = Stream(Kept(s, K))
<1> DEFINE s == x.trans
           n == Len(s)
           K == {t \in Transition : t.q = q}
           w == Stream(s)
           rows == {j \in DOMAIN s : s[j].q = q}
           first == CHOOSE j \in rows : \A k \in rows : j <= k
           from == CtrlU32Offsets(x)[q]
           number == CtrlU32Counts(x)[q]
           i == o[q]
           d == c[q]
           l == i + d
<1>1. s \in Seq(Transition) /\ n \in Nat /\ DOMAIN s = 1..n
  BY FieldsOf
<1>2. /\ i \in Nat /\ d \in Nat
      /\ d = 0 => \A k \in 1..n : s[k].q # q
      /\ d # 0 => d > 0 /\ l <= n /\ \A k \in 1..n : s[k].q = q <=> k \in (i + 1)..l
  BY <1>1, RecordsOfState
<1>3. from = RunningIndex(x)[IF rows = {} THEN n + 1 ELSE first]
  BY DEF CtrlU32Offsets
<1>4. number = Size(Kept(SubSeq(s, 1, n), K))
  BY CountsMine DEF Mine
<1>5. SubSeq(s, 1, n) = s
  BY <1>1
<1>6. \A j \in 0..n : RunningIndex(x)[j + 1] = Before(s, j)
  BY RunningCounts
<1>7. ASSUME NEW k \in 1..n PROVE s[k] \in K <=> s[k].q = q
  BY <1>1
<1> HIDE DEF s, n, from, number, K, i, d
<1>8. CASE d = 0
  <2>1. Kept(s, K) = <<>>
    <3>1. \A k \in 1..Len(s) : s[k] \notin K
      BY <1>2, <1>7, <1>8 DEF n
    <3>2. QED
      BY <1>1, <3>1, KeptNone
  <2>2. number = 0 /\ Stream(<<>>) = <<>>
    <3>1. Len(<<>>) = 0
      OBVIOUS
    <3>2. QED
      BY <1>4, <1>5, <2>1, <3>1, NoStream DEF Size
  <2>3. from = Before(s, n)
    <3>1. rows = {}
      BY <1>1, <1>2, <1>8
    <3>2. from = RunningIndex(x)[n + 1] /\ n \in 0..n
      BY <1>1, <1>3, <3>1
    <3>3. QED
      BY <1>6, <3>2
  <2>4. from = Len(w) /\ w \in Seq(Nat)
    <3>1. w \in Seq(Nat)
      BY <1>1, StreamBoth
    <3>2. QED
      BY <1>5, <2>3, <3>1 DEF Before, Size
  <2> HIDE DEF w
  <2>5. from \in Nat /\ from + 0 <= Len(w) /\ SubSeq(w, from + 1, from + 0) = <<>>
    BY <2>4
  <2>6. QED
    BY <2>1, <2>2, <2>5 DEF w, s, n, from, number, K
<1>9. CASE d # 0
  <2> DEFINE row == SubSeq(s, i + 1, l)
  <2>1. i \in Nat /\ l \in Nat /\ i <= l /\ i + 1 <= l /\ l <= n /\ i + 1 \in 1..n
    BY <1>1, <1>2, <1>9
  <2>2. \A k \in 1..n : s[k] \in K <=> k \in (i + 1)..l
    BY <1>2, <1>7, <1>9
  <2>3. first = i + 1 /\ rows # {}
    <3>1. rows = (i + 1)..l
      BY <1>1, <1>2, <1>9, <2>1
    <3> HIDE DEF rows
    <3> HIDE DEF l
    <3>2. i + 1 \in rows /\ \A k \in rows : i + 1 <= k
      BY <2>1, <3>1
    <3>3. first \in rows /\ \A k \in rows : first <= k
      BY <3>2
    <3>4. first \in Int /\ i + 1 <= first /\ first <= i + 1
      BY <2>1, <3>1, <3>2, <3>3
    <3> HIDE DEF first
    <3>5. QED
      BY <2>1, <3>2, <3>4
  <2> HIDE DEF first, rows
  <2>4. from = Before(s, i)
    <3>1. i \in 0..n /\ from = RunningIndex(x)[i + 1]
      BY <1>1, <1>3, <2>1, <2>3
    <3>2. QED
      BY <1>6, <3>1
  <2> HIDE DEF l
  <2>5. Kept(s, K) = Kept(row, K)
    <3>1. \A k \in 1..Len(s) : k \notin (i + 1)..l => s[k] \notin K
      BY <2>2 DEF n
    <3>2. i <= l /\ l <= Len(s) /\ i \in Nat /\ l \in Nat
      BY <2>1 DEF n
    <3>3. QED
      BY <1>1, <3>1, <3>2, KeptPiece
  <2>6. Kept(row, K) = row
    <3>1. row \in Seq(Transition) /\ Len(row) = l - i /\ \A k \in 1..(l - i) : row[k] = s[i + k]
      BY <1>1, <2>1 DEF n
    <3>2. ASSUME NEW k \in 1..Len(row) PROVE row[k] \in K
      <4>1. k \in 1..(l - i) /\ i + k \in 1..n /\ i + k \in (i + 1)..l
        BY <1>1, <2>1, <3>1
      <4>2. row[k] = s[i + k] /\ s[i + k] \in K
        BY <2>2, <3>1, <4>1
      <4>3. QED
        BY <4>2
    <3> HIDE DEF row
    <3>3. QED
      BY <3>1, <3>2, KeptWhole
  <2>7. /\ Stream(row) \in Seq(Nat) /\ Before(s, i) + Len(Stream(row)) <= Len(w)
        /\ SubSeq(w, Before(s, i) + 1, Before(s, i) + Len(Stream(row))) = Stream(row)
    <3>1. l <= Len(s)
      BY <2>1 DEF n
    <3>2. QED
      BY <1>1, <2>1, <3>1, PieceWritten
  <2>8. number = Len(Stream(row)) /\ Stream(Kept(s, K)) = Stream(row)
    BY <1>4, <1>5, <2>5, <2>6 DEF Size
  <2>9. QED
    BY <2>4, <2>7, <2>8 DEF s, n, from, number, K
<1>10. QED
  BY <1>8, <1>9 DEF s, n, from, number, K

\* A package that is being sent leads the device to the words of each state's
\* transitions and no other.
THEOREM PackageAlwaysExact == Spec => []PackageRows
<1>1. BuildInv => PackageRows
  <2> SUFFICES ASSUME BuildInv, pc = "send", NEW q \in 0..(m.states - 1)
               PROVE  LET from == CtrlU32Offsets(m)[q]
                          number == CtrlU32Counts(m)[q]
                          mine == Kept(m.trans, {t \in ToSet(m.trans) : t.q = q})
                      IN /\ from + number <= Len(TransitionWords(m))
                         /\ SubSeq(TransitionWords(m), from + 1, from + number)
                              = TransitionWords([m EXCEPT !.trans = mine])
    BY DEF PackageRows
  <2> DEFINE s == m.trans
             K == {t \in Transition : t.q = q}
             L == {t \in ToSet(s) : t.q = q}
             mine == Kept(s, L)
             from == CtrlU32Offsets(m)[q]
             number == CtrlU32Counts(m)[q]
             x == [m EXCEPT !.trans = mine]
  <2>1. m \in MachineFields /\ Indexed(s, Len(s), States, offsets, counts) /\ q \in States
    BY DEF BuildInv, Typed, Built, IndexedTo, States
  <2>2. s \in Seq(Transition) /\ \A j \in 1..Len(s) : s[j] \in Transition /\ s[j] \in ToSet(s)
    <3>1. s \in Seq(Transition)
      BY <2>1, FieldsOf
    <3>2. QED
      BY <3>1, ElementOfSeq DEF ToSet
  <2>3. mine \in Seq(Transition)
    BY <2>2, KeptTyped
  <2>4. mine = Kept(s, K)
    <3>1. \A j \in 1..Len(s) : s[j] \in L <=> s[j] \in K
      BY <2>2
    <3> HIDE DEF L, K
    <3>2. QED
      BY <2>2, <3>1, KeptSame
  <2>5. /\ from + number <= Len(Stream(s))
        /\ SubSeq(Stream(s), from + 1, from + number) = Stream(Kept(s, K))
    BY <2>1, RowWritten
  <2>6. TransitionWords(m) = Stream(s)
    BY <2>2, StreamOfMachine
  <2>7. TransitionWords(x) = Stream(mine)
    <3>1. x.trans = mine
      BY <2>1, <2>3, OtherTransitions
    <3> HIDE DEF x, mine
    <3>2. TransitionWords(x) = Stream(x.trans)
      BY <2>3, <3>1, StreamOfMachine
    <3>3. QED
      BY <3>1, <3>2
  <2> HIDE DEF from, number, x, mine
  <2>8. /\ from + number <= Len(TransitionWords(m))
        /\ SubSeq(TransitionWords(m), from + 1, from + number) = TransitionWords(x)
    BY <2>4, <2>5, <2>6, <2>7
  <2>9. QED
    BY <2>8 DEF from, number, x, mine
<1>2. QED
  BY <1>1, BuildAlways, PTL
=============================================================================
