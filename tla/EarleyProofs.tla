---------------------------- MODULE EarleyProofs ----------------------------
(***************************************************************************)
(* The Earley chart, for every valid grammar and every word.  It is sound: *)
(* an item in s[k] says that the part of its production before the dot     *)
(* derives the input from where the item started to k.  And the mask read  *)
(* from it is exact: by soundness it names only what can come next, and by *)
(* the closure of a finished chart under predict, complete and scan it     *)
(* names all of it, where every complete item spans some input.            *)
(***************************************************************************)
EXTENDS Earley, SharedLemmas
LOCAL INSTANCE SequencesExt

\* The facts of the word.
Known == Derived(g, Local(w))

\* What an item of s[k] stands for.
Partial(item, k) ==
  /\ item[1] \in Prods(g) /\ item[2] \in 0..Len(Rhs(g, item[1])) /\ item[3] \in 0..k
  /\ item = <<item[1], item[2], item[3]>>
  /\ AllDerive(g, Local(w), Known, SubSeq(Rhs(g, item[1]), 1, item[2]), item[3], k)

\* The queue holds items of the chart's set at i.
EarleyInv ==
  /\ g \in Grammars /\ w \in Words(g) /\ i \in 0..Len(w)
  /\ DOMAIN chart = 0..Len(w)
  /\ \A k \in 0..Len(w) : IsFiniteSet(chart[k]) /\ \A item \in chart[k] : Partial(item, k)
  /\ queue \in Seq(chart[i])

----------------------------------------------------------------------------
LEMMA WordParts ==
  ASSUME NEW h \in Grammars, NEW x \in Words(h)
  PROVE  Len(x) \in Nat /\ x \in Seq(Nat)
BY WordsAssumption

LEMMA LocalWord ==
  ASSUME g \in Grammars, w \in Words(g)
  PROVE  /\ Len(Local(w)) = Len(w)
         /\ \A k \in 1..Len(w) : Local(w)[k] = TerminalId(g, w[k])
<1>1. Len(w) \in Nat /\ w \in Seq(Nat) /\ DOMAIN w = 1..Len(w)
  BY WordParts
<1>2. g.nt \in Nat
  BY GrammarsAssumption, ValidParts
<1>3. Local(w) = [k \in 1..Len(w) |-> w[k] - g.nt]
  BY <1>1 DEF Local, TerminalId
<1>4. QED
  BY <1>1, <1>2, <1>3 DEF TerminalId

\* The dot moves over a symbol that the input derives.
LEMMA PartialNext ==
  ASSUME g \in Grammars, w \in Words(g),
         NEW j \in 0..Len(w), NEW k \in 0..Len(w), j <= k,
         NEW item, Partial(item, j),
         NEW s \in NextSymbols(item), Derives(g, Local(w), Known, s, j, k)
  PROVE  Partial(AfterSymbol(item), k)
<1> DEFINE p == item[1]
           dot == item[2]
           rhs == Rhs(g, p)
           front == SubSeq(rhs, 1, dot)
<1>1. /\ p \in Prods(g) /\ rhs \in Seq(Nat) /\ Len(w) \in Nat /\ Len(rhs) \in Nat
      /\ dot \in 0..Len(rhs) /\ item[3] \in 0..j
      /\ AllDerive(g, Local(w), Known, front, item[3], j)
  BY GrammarsAssumption, ValidParts, WordParts DEF Partial
<1>2. dot < Len(rhs) /\ s = rhs[dot + 1]
  BY DEF NextSymbols
<1>3. /\ AfterSymbol(item) = <<p, dot + 1, item[3]>>
      /\ AfterSymbol(item)[1] = p /\ AfterSymbol(item)[2] = dot + 1 /\ AfterSymbol(item)[3] = item[3]
  BY DEF AfterSymbol
<1> HIDE DEF p, dot, rhs
<1>4. front \in Seq(Nat) /\ s \in Nat /\ SubSeq(rhs, 1, dot + 1) = Append(front, s)
  BY <1>1, <1>2, OneLonger
<1> HIDE DEF front
<1>5. AllDerive(g, Local(w), Known, Append(front, s), item[3], k)
  <2> DEFINE from == item[3]
  <2>1. from \in Nat /\ j \in Nat /\ k \in Nat /\ from <= j
    BY <1>1
  <2> HIDE DEF from
  <2>2. AllDerive(g, Local(w), Known, front, from, j)
    BY <1>1 DEF from
  <2>3. AllDerive(g, Local(w), Known, Append(front, s), from, k)
    BY <1>4, <2>1, <2>2, OneMoreSymbol
  <2>4. QED
    BY <2>3 DEF from
<1>6. dot + 1 \in 0..Len(rhs) /\ item[3] \in 0..k
  BY <1>1, <1>2
<1>7. QED
  BY <1>1, <1>3, <1>4, <1>5, <1>6 DEF Partial, rhs, p

\* A production whose dot is at its end derives its span.
LEMMA PartialComplete ==
  ASSUME g \in Grammars, w \in Words(g), NEW k \in 0..Len(w),
         NEW item, Partial(item, k), NextSymbols(item) = {}
  PROVE  <<Lhs(g, item[1]), item[3], k>> \in Known
<1> DEFINE p == item[1]
           from == item[3]
           rhs == Rhs(g, p)
           A == Lhs(g, p)
<1>1. /\ p \in Prods(g) /\ rhs \in Seq(Nat) /\ Len(w) \in Nat /\ Len(rhs) \in Nat
      /\ A \in Nonterminals(g) /\ g.nt \in Nat
      /\ item[2] \in 0..Len(rhs) /\ from \in 0..k
      /\ AllDerive(g, Local(w), Known, SubSeq(rhs, 1, item[2]), from, k)
  BY GrammarsAssumption, ValidParts, WordParts DEF Partial
<1>2. item[2] = Len(rhs)
  <2> SUFFICES ASSUME item[2] < Len(rhs) PROVE FALSE
    BY <1>1
  <2>1. rhs[item[2] + 1] \in NextSymbols(item)
    BY DEF NextSymbols
  <2>2. QED
    BY <2>1
<1> HIDE DEF p, from, rhs, A
<1>3. SubSeq(rhs, 1, Len(rhs)) = rhs
  BY <1>1
<1>4. AllDerive(g, Local(w), Known, rhs, from, k)
  BY <1>1, <1>2, <1>3
<1>5. Len(Local(w)) = Len(w)
  BY LocalWord
<1>6. <<A, from, k>> \in Facts(g, Local(w))
  BY <1>1, <1>5 DEF Facts
<1>7. <<A, from, k>> \in OneTaller(g, Local(w), Known)
  <2>1. <<A, from, k>>[1] = A /\ <<A, from, k>>[2] = from /\ <<A, from, k>>[3] = k
    OBVIOUS
  <2>2. Lhs(g, p) = A /\ Rhs(g, p) = rhs
    BY DEF A, rhs
  <2>3. QED
    BY <1>1, <1>4, <1>6, <2>1, <2>2 DEF OneTaller
<1>8. <<A, from, k>> \in Known
  BY <1>1, <1>5, <1>7, DerivedClosed DEF Known
<1>9. QED
  BY <1>8 DEF A, p, from

\* A prediction says nothing yet.
LEMMA PredictedPartial ==
  ASSUME g \in Grammars, w \in Words(g), NEW k \in 0..Len(w), NEW p \in Prods(g)
  PROVE  Partial(<<p, 0, k>>, k)
<1>1. Rhs(g, p) \in Seq(Nat) /\ Len(w) \in Nat
  BY GrammarsAssumption, ValidParts, WordParts
<1>2. SubSeq(Rhs(g, p), 1, 0) = <<>>
  BY <1>1
<1>3. k \in Nat
  BY <1>1
<1>4. AllDerive(g, Local(w), Known, <<>>, k, k)
  BY <1>3, NoSymbols
<1>5. 0 \in 0..Len(Rhs(g, p)) /\ k \in 0..k
  BY <1>1, <1>3
<1>6. QED
  BY <1>2, <1>4, <1>5 DEF Partial

\* An order of a finite set is a sequence of its members.
LEMMA OrderTyped ==
  ASSUME NEW S, IsFiniteSet(S), NEW order \in Orders(S)
  PROVE  order \in Seq(S)
<1>1. Cardinality(S) \in Nat
  BY FS_CardinalityType
<1>2. order \in [1..Cardinality(S) -> S]
  BY DEF Orders, SetToSeqs
<1>3. QED
  BY <1>1, <1>2

\* Items that are right for position i join s[i] and the queue.
LEMMA AddKeeps ==
  ASSUME EarleyInv, NEW items, IsFiniteSet(items), \A item \in items : Partial(item, i),
         NEW order \in Orders(items \ chart[i]), queue # <<>>, Add(items, order)
  PROVE  EarleyInv'
<1>1. /\ g \in Grammars /\ w \in Words(g) /\ i \in 0..Len(w) /\ DOMAIN chart = 0..Len(w)
      /\ \A k \in 0..Len(w) : IsFiniteSet(chart[k]) /\ \A item \in chart[k] : Partial(item, k)
      /\ queue \in Seq(chart[i])
  BY DEF EarleyInv
<1>2. /\ g' = g /\ w' = w /\ i' = i /\ queue' = Tail(queue) \o order
      /\ chart' = [chart EXCEPT ![i] = @ \cup items]
  BY DEF Add
<1>3. /\ DOMAIN chart' = 0..Len(w) /\ chart'[i] = chart[i] \cup items
      /\ \A k \in 0..Len(w) : k # i => chart'[k] = chart[k]
  BY <1>1, <1>2
<1>4. ASSUME NEW item, NEW k, Partial(item, k) PROVE Partial(item, k)'
  BY <1>2, <1>4 DEF Partial, Known, Local, NextSymbols
<1>5. ASSUME NEW k \in 0..Len(w)
      PROVE  IsFiniteSet(chart'[k]) /\ \A item \in chart'[k] : Partial(item, k)
  <2>1. CASE k = i
    BY <1>1, <1>3, <2>1, FS_Union
  <2>2. CASE k # i
    BY <1>1, <1>3, <2>2
  <2>3. QED
    BY <2>1, <2>2
<1>6. queue' \in Seq(chart'[i])
  <2>1. IsFiniteSet(items \ chart[i])
    BY FS_Difference
  <2>2. order \in Seq(items \ chart[i])
    BY <2>1, OrderTyped
  <2>3. Tail(queue) \in Seq(chart[i])
    BY <1>1
  <2>4. order \in Seq(chart'[i]) /\ Tail(queue) \in Seq(chart'[i])
    <3>1. items \ chart[i] \subseteq chart'[i] /\ chart[i] \subseteq chart'[i]
      BY <1>3
    <3>2. QED
      BY <2>2, <2>3, <3>1
  <2>5. QED
    BY <1>2, <2>4
<1>7. QED
  BY <1>1, <1>2, <1>3, <1>4, <1>5, <1>6 DEF EarleyInv

----------------------------------------------------------------------------
(* Every step.                                                             *)

LEMMA EarleyParts ==
  ASSUME EarleyInv
  PROVE  /\ g \in Grammars /\ w \in Words(g) /\ Len(w) \in Nat /\ i \in 0..Len(w)
         /\ Len(g.prods) \in Nat /\ DOMAIN chart = 0..Len(w)
         /\ \A k \in 0..Len(w) : IsFiniteSet(chart[k]) /\ \A item \in chart[k] : Partial(item, k)
         /\ queue \in Seq(chart[i])
BY GrammarsAssumption, ValidParts, WordParts DEF EarleyInv

LEMMA HeadPartial ==
  ASSUME EarleyInv, queue # <<>>
  PROVE  Head(queue) \in chart[i] /\ Partial(Head(queue), i)
BY EarleyParts

LEMMA PredictedFinite ==
  ASSUME EarleyInv, NEW A
  PROVE  IsFiniteSet(Predicted(A))
<1> DEFINE prods == {r \in Prods(g) : Lhs(g, r) = A}
           item == [r \in prods |-> <<r, 0, i>>]
<1>1. Predicted(A) = {item[r] : r \in prods}
  BY DEF Predicted
<1>2. IsFiniteSet(Prods(g))
  <2>1. Len(g.prods) \in Int
    BY EarleyParts
  <2>2. QED
    BY <2>1, ProductionsFinite
<1>3. prods \in SUBSET Prods(g)
  OBVIOUS
<1> HIDE DEF prods
<1>4. IsFiniteSet(prods)
  BY <1>2, <1>3, FS_Subset
<1> HIDE DEF item
<1>5. QED
  BY <1>1, <1>4, ImageFinite

LEMMA NothingOrdered == IsFiniteSet({}) /\ \A S : <<>> \in Orders({} \ S)
<1>1. Cardinality({}) = 0 /\ 1..0 = {} /\ IsFiniteSet({})
  BY FS_EmptySet
<1>2. <<>> \in [{} -> {}]
  OBVIOUS
<1>3. \A S : {} \ S = {}
  OBVIOUS
<1>4. QED
  BY <1>1, <1>2, <1>3 DEF Orders, SetToSeqs

LEMMA AdvancedFinite ==
  ASSUME EarleyInv, NEW k \in 0..Len(w), NEW A
  PROVE  IsFiniteSet({AfterSymbol(other) : other \in {x \in chart[k] : A \in NextSymbols(x)}})
<1> DEFINE callers == {other \in chart[k] : A \in NextSymbols(other)}
           after == [other \in callers |-> AfterSymbol(other)]
<1>1. callers \in SUBSET chart[k]
  OBVIOUS
<1>2. {AfterSymbol(other) : other \in callers} = {after[other] : other \in callers}
  OBVIOUS
<1> HIDE DEF callers
<1>3. IsFiniteSet(callers)
  BY <1>1, EarleyParts, FS_Subset
<1> HIDE DEF after
<1>4. QED
  BY <1>2, <1>3, ImageFinite DEF callers

LEMMA PredictKeeps == EarleyInv /\ Predict => EarleyInv'
<1> SUFFICES ASSUME EarleyInv, Predict PROVE EarleyInv'
  OBVIOUS
<1>1. PICK A \in NextSymbols(Head(queue)) :
        \E order \in InProductionOrder(Predicted(A) \ chart[i]) : Add(Predicted(A), order)
  BY DEF Predict
<1>2. PICK order \in InProductionOrder(Predicted(A) \ chart[i]) : Add(Predicted(A), order)
  BY <1>1
<1>3. queue # <<>> /\ order \in Orders(Predicted(A) \ chart[i])
  BY DEF Predict, Processing, InProductionOrder
<1>5. IsFiniteSet(Predicted(A))
  BY PredictedFinite
<1>6. \A new \in Predicted(A) : Partial(new, i)
  BY EarleyParts, PredictedPartial DEF Predicted
<1>7. QED
  BY <1>2, <1>3, <1>5, <1>6, AddKeeps

LEMMA LeaveKeeps == EarleyInv /\ Leave => EarleyInv'
<1> SUFFICES ASSUME EarleyInv, Leave PROVE EarleyInv'
  OBVIOUS
<1> DEFINE none == {}
           last == <<>>
<1>1. queue # <<>> /\ Add(none, last)
  BY DEF Leave, Processing
<1>2. last \in Orders(none \ chart[i])
  BY NothingOrdered
<1>3. IsFiniteSet(none) /\ \A item \in none : Partial(item, i)
  BY NothingOrdered
<1> HIDE DEF none, last
<1>4. QED
  BY <1>1, <1>2, <1>3, AddKeeps

\* The callers of a completed item wait where it started.
LEMMA CompleteKeeps == EarleyInv /\ Complete => EarleyInv'
<1> SUFFICES ASSUME EarleyInv, Complete PROVE EarleyInv'
  OBVIOUS
<1> DEFINE done == Head(queue)
           A == Lhs(g, done[1])
           callers == {other \in chart[done[3]] : A \in NextSymbols(other)}
           items == {AfterSymbol(other) : other \in callers}
<1>1. queue # <<>> /\ NextSymbols(done) = {}
  BY DEF Complete, Processing
<1>2. PICK order \in Orders(items \ chart[i]) : Add(items, order)
  BY DEF Complete
<1>3. /\ g \in Grammars /\ w \in Words(g) /\ i \in 0..Len(w) /\ Len(w) \in Nat
      /\ \A k \in 0..Len(w) : IsFiniteSet(chart[k]) /\ \A item \in chart[k] : Partial(item, k)
  BY EarleyParts
<1>4. Partial(done, i)
  BY <1>1, HeadPartial
<1>5. done[3] \in 0..i /\ done[3] \in 0..Len(w) /\ done[1] \in Prods(g)
  BY <1>3, <1>4 DEF Partial
<1> HIDE DEF done
<1>6. <<A, done[3], i>> \in Known
  BY <1>1, <1>3, <1>4, PartialComplete
<1>7. Derives(g, Local(w), Known, A, done[3], i)
  <2>1. A \in Nonterminals(g) /\ g.nt \in Nat
    BY <1>3, <1>5, GrammarsAssumption, ValidParts
  <2>2. ~IsTerminal(g, A)
    BY <2>1 DEF Nonterminals, IsTerminal
  <2>3. QED
    BY <1>6, <2>2 DEF Derives
<1>8. \A new \in items : Partial(new, i)
  <2> SUFFICES ASSUME NEW other \in callers PROVE Partial(AfterSymbol(other), i)
    OBVIOUS
  <2>1. Partial(other, done[3]) /\ A \in NextSymbols(other)
    BY <1>3, <1>5
  <2>2. done[3] <= i
    BY <1>3, <1>5
  <2> HIDE DEF callers, A
  <2>3. QED
    BY <1>3, <1>5, <1>7, <2>1, <2>2, PartialNext
<1>9. IsFiniteSet(items)
  BY <1>5, AdvancedFinite
<1> HIDE DEF items
<1>10. QED
  BY <1>1, <1>2, <1>8, <1>9, AddKeeps

LEMMA ScanKeeps == EarleyInv /\ Scan => EarleyInv'
<1> SUFFICES ASSUME EarleyInv, Scan PROVE EarleyInv'
  OBVIOUS
<1> DEFINE a == w[i + 1]
           from == {x \in chart[i] : IsTerminal(g, a) /\ a \in NextSymbols(x)}
           items == {Scanned(item) : item \in from}
           after == [item \in from |-> Scanned(item)]
<1>1. /\ g \in Grammars /\ w \in Words(g) /\ i \in 0..Len(w) /\ Len(w) \in Nat
      /\ DOMAIN chart = 0..Len(w)
      /\ \A k \in 0..Len(w) : IsFiniteSet(chart[k]) /\ \A item \in chart[k] : Partial(item, k)
  BY EarleyParts
<1>2. /\ i < Len(w) /\ i' = i + 1 /\ g' = g /\ w' = w
      /\ chart' = [chart EXCEPT ![i + 1] = items] /\ queue' \in Orders(items)
  BY DEF Scan, n
<1>3. i + 1 \in 0..Len(w) /\ i + 1 \in 1..Len(w)
  BY <1>1, <1>2
<1>4. \A item \in items : Partial(item, i + 1)
  <2> SUFFICES ASSUME NEW item \in from PROVE Partial(AfterSymbol(item), i + 1)
    BY DEF Scanned
  <2>1. Partial(item, i) /\ IsTerminal(g, a) /\ a \in NextSymbols(item)
    BY <1>1
  <2>2. Derives(g, Local(w), Known, a, i, i + 1)
    <3>1. Local(w)[i + 1] = TerminalId(g, a)
      BY <1>1, <1>3, LocalWord
    <3>2. QED
      BY <2>1, <3>1 DEF Derives
  <2>3. i <= i + 1
    BY <1>1
  <2> HIDE DEF from, a
  <2>4. QED
    BY <1>1, <1>3, <2>1, <2>2, <2>3, PartialNext
<1>5. IsFiniteSet(items)
  <2>1. from \in SUBSET chart[i]
    OBVIOUS
  <2>2. items = {after[item] : item \in from}
    OBVIOUS
  <2> HIDE DEF from, items
  <2>3. IsFiniteSet(from)
    BY <1>1, <2>1, FS_Subset
  <2> HIDE DEF after
  <2>4. QED
    BY <2>2, <2>3, ImageFinite
<1> HIDE DEF items
<1>6. queue' \in Seq(chart'[i'])
  BY <1>1, <1>2, <1>3, <1>5, OrderTyped
<1>7. /\ DOMAIN chart' = 0..Len(w)
      /\ \A k \in 0..Len(w) : chart'[k] = IF k = i + 1 THEN items ELSE chart[k]
  BY <1>1, <1>2
<1>8. \A k \in 0..Len(w) : IsFiniteSet(chart'[k]) /\ \A item \in chart'[k] : Partial(item, k)
  BY <1>1, <1>4, <1>5, <1>7
<1>9. ASSUME NEW item, NEW k, Partial(item, k) PROVE Partial(item, k)'
  BY <1>2, <1>9 DEF Partial, Known, Local
<1>10. QED
  BY <1>1, <1>2, <1>3, <1>6, <1>7, <1>8, <1>9 DEF EarleyInv

LEMMA EarleyInitially == Init => EarleyInv
<1> SUFFICES ASSUME Init PROVE EarleyInv
  OBVIOUS
<1>1. /\ g \in Grammars /\ w \in Words(g) /\ i = 0 /\ queue \in Orders(Seed(g))
      /\ chart = [k \in 0..Len(w) |-> IF k = 0 THEN Seed(g) ELSE {}]
  BY DEF Init
<1>2. Len(w) \in Nat /\ Len(g.prods) \in Nat
  BY <1>1, WordParts, GrammarsAssumption, ValidParts
<1> DEFINE first == {r \in StartProds(g) : \A s \in StartProds(g) : r <= s}
           item == [r \in first |-> <<r, 0, 0>>]
<1>3. first \in SUBSET Prods(g) /\ Seed(g) = {item[r] : r \in first}
  BY DEF StartProds, Seed
<1>4. IsFiniteSet(Seed(g))
  <2>1. IsFiniteSet(Prods(g))
    BY <1>2, FS_Interval DEF Prods
  <2> HIDE DEF first
  <2>2. IsFiniteSet(first)
    BY <1>3, <2>1, FS_Subset
  <2> HIDE DEF item
  <2>3. QED
    BY <1>3, <2>2, ImageFinite
<1>5. \A x \in Seed(g) : Partial(x, 0)
  <2> SUFFICES ASSUME NEW r \in first PROVE Partial(<<r, 0, 0>>, 0)
    BY <1>3
  <2>1. r \in Prods(g) /\ 0 \in 0..Len(w)
    BY <1>2, <1>3
  <2> HIDE DEF first
  <2>2. QED
    BY <1>1, <2>1, PredictedPartial
<1>6. \A k \in 0..Len(w) : IsFiniteSet(chart[k]) /\ \A x \in chart[k] : Partial(x, k)
  BY <1>1, <1>4, <1>5, FS_EmptySet
<1>7. queue \in Seq(chart[i])
  <2>1. chart[i] = Seed(g)
    BY <1>1, <1>2
  <2>2. QED
    BY <1>1, <1>4, <2>1, OrderTyped
<1>8. QED
  BY <1>1, <1>2, <1>6, <1>7 DEF EarleyInv

LEMMA EarleyKept == EarleyInv /\ [Next]_vars => EarleyInv'
<1> SUFFICES ASSUME EarleyInv, [Next]_vars PROVE EarleyInv'
  OBVIOUS
<1>1. CASE Predict
  BY <1>1, PredictKeeps
<1>2. CASE Leave
  BY <1>2, LeaveKeeps
<1>3. CASE Complete
  BY <1>3, CompleteKeeps
<1>4. CASE Scan
  BY <1>4, ScanKeeps
<1>5. CASE UNCHANGED <<g, w, i, chart, queue>>
  BY <1>5 DEF EarleyInv, Partial, Known, Local
<1>6. QED
  BY <1>1, <1>2, <1>3, <1>4, <1>5 DEF Next, vars, Finish

\* No item of the chart that earley_parse returns is a false partial parse, for
\* every valid grammar and every word, whatever the orders of the hash sets.
THEOREM ItemsAlwaysDerive == Spec => []ItemsDerive
<1>1. EarleyInv /\ [Next]_vars => EarleyInv'
  BY EarleyKept
<1>2. EarleyInv => ItemsDerive
  BY DEF EarleyInv, ItemsDerive, Partial, Known, n
<1>3. QED
  BY EarleyInitially, <1>1, <1>2, PTL DEF Spec

----------------------------------------------------------------------------
(* The chart that a mask is read from.                                     *)

Queued == {queue[t] : t \in DOMAIN queue}

\* What the chart holds on account of an item of s[k]: its predictions, its
\* callers one symbol on if it is complete and spans some input, and itself one
\* symbol on if the input goes on with its symbol.
Predicts(item, k) ==
  \A A \in NextSymbols(item) : ~IsTerminal(g, A) =>
    \A p \in Prods(g) : Lhs(g, p) = A => <<p, 0, k>> \in chart[k]
Completes(item, k) ==
  NextSymbols(item) = {} /\ NoEmptyProduction =>
    \A other \in chart[item[3]] : Lhs(g, item[1]) \in NextSymbols(other) => AfterSymbol(other) \in chart[k]
Scans(item, k) ==
  k < i => \A a \in NextSymbols(item) : a = w[k + 1] /\ IsTerminal(g, a) => AfterSymbol(item) \in chart[k + 1]
Settled(item, k) == Predicts(item, k) /\ Completes(item, k) /\ Scans(item, k)

\* An item's nonterminal is due where the item starts.
IsDue(item) == <<Lhs(g, item[1]), item[3]>> \in Due(g, Local(w))

\* The items that are not queued are settled, and none is left at the end.
ChartInv ==
  /\ pc = "done" => i = Len(w) /\ queue = <<>>
  /\ Seed(g) \subseteq chart[0]
  /\ \A k \in 0..Len(w) : \A item \in chart[k] : IsDue(item)
  /\ \A k \in 0..i : \A item \in chart[k] : k < i \/ item \notin Queued => Settled(item, k)

----------------------------------------------------------------------------
(* The mask names only what can come next.                                 *)

\* The input up to k and terminal a.
Continued(k, a) == Append(UpTo(k), TerminalId(g, a))

LEMMA ContinuedWord ==
  ASSUME g \in Grammars, w \in Words(g), NEW k \in 0..Len(w), NEW a
  PROVE  /\ Len(Continued(k, a)) = k + 1 /\ Continued(k, a)[k + 1] = TerminalId(g, a)
         /\ \A t \in 1..k : Continued(k, a)[t] = Local(w)[t]
         /\ Agree(Local(w), Continued(k, a), k)
<1> DEFINE front == UpTo(k)
<1>1. Len(w) \in Nat /\ Len(Local(w)) = Len(w) /\ k \in Nat /\ k <= Len(w)
  BY WordParts, LocalWord
<1>2. front \in Seq(Int) /\ Len(front) = k /\ \A t \in 1..k : front[t] = Local(w)[t]
  <2>1. Local(w) \in Seq(Int)
    <3>1. w \in Seq(Nat) /\ g.nt \in Nat
      BY WordParts, GrammarsAssumption, ValidParts
    <3>2. Local(w) = [t \in 1..Len(w) |-> w[t] - g.nt]
      BY <3>1 DEF Local, TerminalId
    <3>3. \A t \in 1..Len(w) : w[t] - g.nt \in Int
      BY <3>1
    <3>4. QED
      BY <1>1, <3>2, <3>3
  <2>2. QED
    BY <1>1, <2>1 DEF UpTo
<1> HIDE DEF front
<1>3. /\ Len(Append(front, TerminalId(g, a))) = k + 1
      /\ Append(front, TerminalId(g, a))[k + 1] = TerminalId(g, a)
      /\ \A t \in 1..k : Append(front, TerminalId(g, a))[t] = front[t]
  <2> DEFINE last == TerminalId(g, a)
  <2> HIDE DEF last
  <2>1. /\ Len(Append(front, last)) = k + 1 /\ Append(front, last)[k + 1] = last
        /\ \A t \in 1..k : Append(front, last)[t] = front[t]
    <3>1. \A t \in 1..k : t # k + 1
      BY <1>1
    <3>2. QED
      BY <1>1, <1>2, <3>1
  <2>2. QED
    BY <2>1 DEF last
<1>4. Continued(k, a) = Append(front, TerminalId(g, a))
  BY DEF Continued, front
<1>5. /\ Len(Continued(k, a)) = k + 1 /\ Continued(k, a)[k + 1] = TerminalId(g, a)
      /\ \A t \in 1..k : Continued(k, a)[t] = Local(w)[t]
  BY <1>2, <1>3, <1>4
<1>6. Agree(Local(w), Continued(k, a), k)
  BY <1>1, <1>5 DEF Agree
<1>7. QED
  BY <1>5, <1>6

LEMMA MaskSound ==
  ASSUME g \in Grammars, w \in Words(g), NEW k \in 0..Len(w),
         NEW item, Partial(item, k), IsDue(item),
         NEW a \in NextSymbols(item), IsTerminal(g, a)
  PROVE  Viable(g, Continued(k, a))
<1> DEFINE u == Continued(k, a)
           p == item[1]
           dot == item[2]
           from == item[3]
           rhs == Rhs(g, p)
           front == SubSeq(rhs, 1, dot)
           d == <<Lhs(g, p), from>>
           U == Derived(g, u)
<1>1. /\ p \in Prods(g) /\ rhs \in Seq(Nat) /\ Len(w) \in Nat /\ Len(rhs) \in Nat
      /\ dot \in 0..Len(rhs) /\ from \in 0..k /\ k \in Nat
      /\ AllDerive(g, Local(w), Known, front, from, k)
  BY GrammarsAssumption, ValidParts, WordParts DEF Partial
<1>2. Valid(g) /\ Len(Local(w)) \in Nat /\ Len(u) \in Nat
      /\ Len(u) = k + 1 /\ u[k + 1] = TerminalId(g, a) /\ Agree(Local(w), u, k)
  BY <1>1, GrammarsAssumption, LocalWord, ContinuedWord
<1>3. dot < Len(rhs) /\ a = rhs[dot + 1]
  BY DEF NextSymbols
<1>4. d \in Due(g, u)
  <2>1. d \in Due(g, Local(w)) /\ d[2] <= k
    BY <1>1 DEF IsDue
  <2> HIDE DEF d, u
  <2>2. QED
    BY <1>1, <1>2, <2>1, DueLocal
<1> HIDE DEF u, p, dot, from, rhs
<1>5. front \in Seq(Nat) /\ a \in Nat /\ SubSeq(rhs, 1, dot + 1) = Append(front, a)
  BY <1>1, <1>3, OneLonger
<1> HIDE DEF front, U
<1>6. AllDerive(g, u, U, front, from, k)
  <2>1. \A A, b, e : <<A, b, e>> \in Known /\ e <= k => <<A, b, e>> \in U
    BY <1>1, <1>2, DerivedLocal DEF Known, U
  <2>2. Len(front) \in Nat /\ from \in Nat
    BY <1>1, <1>5
  <2>3. QED
    BY <1>1, <1>2, <2>1, <2>2, AllDeriveLocal
<1>7. AllDerive(g, u, U, Append(front, a), from, k + 1)
  <2>1. Derives(g, u, U, a, k, k + 1)
    BY <1>2 DEF Derives
  <2>2. from \in Nat /\ k \in Nat /\ k + 1 \in Nat /\ from <= k /\ k <= k + 1
    BY <1>1
  <2>3. QED
    BY <1>5, <1>6, <2>1, <2>2, OneMoreSymbol
<1>8. dot + 1 \in 0..Len(rhs) /\ d[1] = Lhs(g, p) /\ d[2] = from
  BY <1>1, <1>3
<1>9. AllDerive(g, u, U, SubSeq(Rhs(g, p), 1, dot + 1), d[2], Len(u))
  BY <1>2, <1>5, <1>7, <1>8 DEF rhs
<1> HIDE DEF d
<1>10. QED
  BY <1>1, <1>4, <1>8, <1>9 DEF Viable, U, u, rhs

----------------------------------------------------------------------------
(* The mask misses nothing that can come next.                             *)

Finished == \A k \in 0..Len(w) : \A item \in chart[k] :
  /\ Predicts(item, k) /\ Completes(item, k)
  /\ k < Len(w) => \A a \in NextSymbols(item) :
       a = w[k + 1] /\ IsTerminal(g, a) => AfterSymbol(item) \in chart[k + 1]

\* The chart covers the input up to k; past it, an item stands for a in the
\* mask.
Reached(k, a, item, to) == IF to <= k THEN item \in chart[to] ELSE a \in MaskAt(k)

\* An item before nonterminal f[1] gets past it.
Advances(k, a, f) ==
  f[2] <= k => \A item \in chart[f[2]] : f[1] \in NextSymbols(item) => Reached(k, a, AfterSymbol(item), f[3])

LEMMA SymbolAt ==
  ASSUME NEW s \in Seq(Nat), NEW t \in 1..Len(s)
  PROVE  s[t] \in Nat
OBVIOUS

LEMMA SameTerminal ==
  ASSUME g \in Grammars, NEW x \in Nat, NEW y \in Nat, TerminalId(g, x) = TerminalId(g, y)
  PROVE  x = y
<1>1. g.nt \in Nat /\ x - g.nt = y - g.nt
  BY GrammarsAssumption, ValidParts DEF TerminalId
<1>2. QED
  BY <1>1

\* A predicted production gets as far as its symbols derive the input.
LEMMA RunAlong ==
  ASSUME g \in Grammars, w \in Words(g), Finished,
         NEW k \in 0..Len(w), NEW a \in Nat, IsTerminal(g, a),
         NEW K, \A A, b, e : <<A, b, e>> \in K => b <= e /\ Advances(k, a, <<A, b, e>>),
         NEW p \in Prods(g), NEW f \in 0..k, <<p, 0, f>> \in chart[f],
         NEW m \in 0..Len(Rhs(g, p)), NEW to \in 0..(k + 1),
         AllDerive(g, Continued(k, a), K, SubSeq(Rhs(g, p), 1, m), f, to)
  PROVE  Reached(k, a, <<p, m, f>>, to)
<1> DEFINE u == Continued(k, a)
           rhs == Rhs(g, p)
           front == SubSeq(rhs, 1, m)
<1>1. /\ g.nt \in Nat /\ rhs \in Seq(Nat) /\ Len(rhs) \in Nat /\ m \in 0..Len(rhs)
      /\ Len(w) \in Nat /\ w \in Seq(Nat) /\ k \in Nat /\ k <= Len(w) /\ f \in Nat /\ to \in Nat
  BY GrammarsAssumption, ValidParts, WordParts
<1>2. /\ Len(u) = k + 1 /\ u[k + 1] = TerminalId(g, a) /\ \A t \in 1..k : u[t] = Local(w)[t]
      /\ \A t \in 1..Len(w) : Local(w)[t] = TerminalId(g, w[t])
  BY ContinuedWord, LocalWord
<1>3. Len(front) = m /\ \A t \in 1..m : front[t] = rhs[t] /\ rhs[t] \in Nat
  <2>1. \A t \in 1..m : t \in 1..Len(rhs)
    BY <1>1
  <2> HIDE DEF rhs
  <2>2. Len(front) = m
    BY <1>1
  <2>3. \A t \in 1..m : front[t] = rhs[t]
    BY <1>1
  <2>4. ASSUME NEW t \in 1..m PROVE rhs[t] \in Nat
    <3>1. rhs \in Seq(Nat) /\ t \in 1..Len(rhs)
      BY <1>1, <2>1
    <3>2. QED
      BY <3>1, SymbolAt
  <2>5. QED
    BY <2>2, <2>3, <2>4
<1> HIDE DEF front, u
<1>4. PICK cut \in [0..m -> f..to] :
        /\ cut[0] = f /\ cut[m] = to
        /\ \A t \in 1..m : Derives(g, u, K, front[t], cut[t - 1], cut[t])
  <2>1. AllDerive(g, u, K, front, f, to)
    BY DEF front, u
  <2>2. QED
    BY <1>3, <2>1 DEF AllDerive
<1>5. ASSUME NEW t \in 0..m PROVE cut[t] \in Nat /\ cut[t] <= k + 1
  BY <1>1, <1>4
<1> DEFINE T == {t \in Nat : t <= m => Reached(k, a, <<p, t, f>>, cut[t])}
<1>6. 0 \in T
  BY <1>1, <1>4 DEF Reached
<1>7. ASSUME NEW t \in Nat, t \in T, t + 1 <= m PROVE Reached(k, a, <<p, t + 1, f>>, cut[t + 1])
  <2> DEFINE s == rhs[t + 1]
             item == <<p, t, f>>
             here == cut[t]
             there == cut[t + 1]
  <2>1. t <= m /\ t \in 0..m /\ t + 1 \in 0..m /\ t + 1 \in 1..m /\ (t + 1) - 1 = t /\ t < Len(rhs)
    BY <1>1, <1>7
  <2>2. here \in Nat /\ there \in Nat /\ here <= k + 1 /\ there <= k + 1
    BY <1>5, <2>1
  <2>3. Reached(k, a, item, here) /\ Derives(g, u, K, s, here, there) /\ s \in Nat
    BY <1>3, <1>4, <1>7, <2>1
  <2>4. NextSymbols(item) = {s} /\ AfterSymbol(item) = <<p, t + 1, f>>
    BY <2>1 DEF NextSymbols, AfterSymbol
  <2> HIDE DEF s, item, here, there, rhs
  <2>5. CASE here > k
    <3>1. a \in MaskAt(k)
      BY <1>1, <2>2, <2>3, <2>5 DEF Reached
    <3>2. there > k
      <4>1. CASE IsTerminal(g, s)
        <5>1. there = here + 1
          BY <2>3, <4>1 DEF Derives
        <5>2. QED
          BY <1>1, <2>2, <2>5, <5>1
      <4>2. CASE ~IsTerminal(g, s)
        <5>1. here <= there
          BY <2>3, <4>2 DEF Derives
        <5>2. QED
          BY <1>1, <2>2, <2>5, <5>1
      <4>3. QED
        BY <4>1, <4>2
    <3>3. Reached(k, a, AfterSymbol(item), there)
      BY <1>1, <2>2, <3>1, <3>2 DEF Reached
    <3>4. QED
      BY <2>4, <3>3 DEF there
  <2>6. CASE here <= k
    <3>1. item \in chart[here] /\ here \in 0..Len(w)
      BY <1>1, <2>2, <2>3, <2>6 DEF Reached
    <3>2. CASE ~IsTerminal(g, s)
      <4>1. <<s, here, there>> \in K
        BY <2>3, <3>2 DEF Derives
      <4>2. Advances(k, a, <<s, here, there>>)
        BY <4>1
      <4>3. Reached(k, a, AfterSymbol(item), there)
        BY <2>4, <2>6, <3>1, <4>2 DEF Advances
      <4>4. QED
        BY <2>4, <4>3 DEF there
    <3>3. CASE IsTerminal(g, s) /\ here = k
      <4>1. there = k + 1 /\ u[k + 1] = TerminalId(g, s)
        BY <2>3, <3>3 DEF Derives
      <4>2. s = a
        <5>1. TerminalId(g, s) = TerminalId(g, a)
          BY <1>2, <4>1
        <5>2. s \in Nat /\ a \in Nat
          BY <2>3
        <5>3. QED
          BY <5>1, <5>2, SameTerminal
      <4>3. a \in MaskAt(k)
        BY <2>4, <3>1, <3>3, <4>2 DEF MaskAt
      <4>4. ~(there <= k)
        BY <1>1, <4>1
      <4>5. Reached(k, a, AfterSymbol(item), there)
        BY <4>3, <4>4 DEF Reached
      <4>6. QED
        BY <2>4, <4>5 DEF there
    <3>4. CASE IsTerminal(g, s) /\ here < k
      <4>1. there = here + 1 /\ u[there] = TerminalId(g, s)
        BY <2>3, <3>4 DEF Derives
      <4>2. there \in 1..k /\ there \in 1..Len(w) /\ there <= k /\ here < Len(w)
        <5>1. here \in Nat /\ k \in Nat /\ Len(w) \in Nat /\ k <= Len(w)
          BY <1>1, <2>2
        <5>2. here < k /\ there = here + 1
          BY <3>4, <4>1
        <5>3. QED
          BY <5>1, <5>2
      <4>3. TerminalId(g, w[there]) = TerminalId(g, s)
        <5>1. u[there] = Local(w)[there]
          BY <1>2, <4>2
        <5>2. Local(w)[there] = TerminalId(g, w[there])
          BY <1>2, <4>2
        <5>3. QED
          BY <4>1, <5>1, <5>2
      <4>4. s = w[here + 1]
        <5>1. w \in Seq(Nat) /\ there \in 1..Len(w)
          BY <1>1, <4>2
        <5>2. w[there] \in Nat /\ s \in Nat
          BY <2>3, <5>1, SymbolAt
        <5>3. w[there] = s
          BY <4>3, <5>2, SameTerminal
        <5>4. QED
          BY <4>1, <5>3
      <4>5. AfterSymbol(item) \in chart[here + 1]
        BY <2>4, <3>1, <3>4, <4>2, <4>4 DEF Finished
      <4>6. Reached(k, a, AfterSymbol(item), there)
        BY <4>1, <4>2, <4>5 DEF Reached
      <4>7. QED
        BY <2>4, <4>6 DEF there
    <3>5. here = k \/ here < k
      BY <1>1, <2>2, <2>6
    <3>6. QED
      BY <3>2, <3>3, <3>4, <3>5
  <2>7. here > k \/ here <= k
    BY <1>1, <2>2
  <2>8. QED
    BY <2>5, <2>6, <2>7
<1>8. \A t \in Nat : t \in T => t + 1 \in T
  BY <1>7
<1> HIDE DEF T
<1>9. Nat \subseteq T
  BY <1>6, <1>8, Induction
<1>10. m \in T /\ m <= m
  BY <1>1, <1>9
<1>11. QED
  BY <1>4, <1>10 DEF T

LEMMA FactsAdvance ==
  ASSUME g \in Grammars, w \in Words(g), Finished, NoEmptyProduction,
         NEW k \in 0..Len(w), NEW a \in Nat, IsTerminal(g, a)
  PROVE  \A A, b, e : <<A, b, e>> \in Derived(g, Continued(k, a)) =>
           b <= e /\ Advances(k, a, <<A, b, e>>)
<1> DEFINE u == Continued(k, a)
           K == {f \in Facts(g, u) : Advances(k, a, f)}
<1>1. /\ Valid(g) /\ g.nt \in Nat /\ Len(w) \in Nat /\ k \in Nat /\ k <= Len(w) /\ Len(u) = k + 1
      /\ \A p \in Prods(g) : Rhs(g, p) \in Seq(Nat)
  BY GrammarsAssumption, ValidParts, WordParts, ContinuedWord
<1> HIDE DEF u
<1>2. \A A, b, e : <<A, b, e>> \in Facts(g, u) => b <= e
  BY DEF Facts
<1>3. \A A, b, e : <<A, b, e>> \in K => b <= e /\ Advances(k, a, <<A, b, e>>)
  BY <1>2
<1>4. OneTaller(g, u, K) \subseteq K
  <2> SUFFICES ASSUME NEW f \in OneTaller(g, u, K), f[2] <= k,
                      NEW item \in chart[f[2]], f[1] \in NextSymbols(item)
               PROVE  Reached(k, a, AfterSymbol(item), f[3])
    BY DEF OneTaller, Advances
  <2>1. f \in Facts(g, u)
    BY DEF OneTaller
  <2>2. PICK p \in Prods(g) : Lhs(g, p) = f[1] /\ AllDerive(g, u, K, Rhs(g, p), f[2], f[3])
    BY DEF OneTaller
  <2> HIDE DEF K
  <2> DEFINE A == f[1]
             b == f[2]
             e == f[3]
             m == Len(Rhs(g, p))
  <2>3. A \in Nonterminals(g) /\ b \in 0..k /\ e \in 0..(k + 1) /\ b \in 0..Len(w) /\ m \in Nat
    <3>1. A \in Nonterminals(g) /\ b \in 0..(k + 1) /\ e \in 0..(k + 1) /\ b <= k
      BY <1>1, <2>1 DEF Facts
    <3> HIDE DEF A, b, e
    <3>2. QED
      BY <1>1, <3>1
  <2>4. ~IsTerminal(g, A)
    BY <1>1, <2>3 DEF Nonterminals, IsTerminal
  <2>5. <<p, 0, b>> \in chart[b]
    BY <2>2, <2>3, <2>4 DEF Finished, Predicts
  <2>6. SubSeq(Rhs(g, p), 1, m) = Rhs(g, p) /\ m \in 0..Len(Rhs(g, p))
    BY <1>1
  <2>7. Reached(k, a, <<p, m, b>>, e)
    <3>1. AllDerive(g, Continued(k, a), K, SubSeq(Rhs(g, p), 1, m), b, e)
      BY <2>2, <2>6 DEF u
    <3> HIDE DEF A, b, e, m
    <3>2. QED
      BY <1>3, <2>3, <2>5, <2>6, <3>1, RunAlong
  <2>8. CASE e <= k
    <3> DEFINE done == <<p, m, b>>
    <3>1. done \in chart[e] /\ e \in 0..Len(w)
      BY <1>1, <2>3, <2>7, <2>8 DEF Reached
    <3>2. NextSymbols(done) = {} /\ done[1] = p /\ done[3] = b
      BY <2>3 DEF NextSymbols
    <3>3. \A other \in chart[b] : A \in NextSymbols(other) => AfterSymbol(other) \in chart[e]
      <4>1. Completes(done, e)
        BY <3>1 DEF Finished
      <4> HIDE DEF done
      <4>2. QED
        BY <2>2, <3>2, <4>1 DEF Completes
    <3>4. QED
      BY <2>8, <3>3 DEF Reached
  <2>9. CASE ~(e <= k)
    BY <2>7, <2>9 DEF Reached
  <2>10. QED
    BY <2>8, <2>9
<1> HIDE DEF K
<1>5. Derived(g, u) \subseteq K
  BY <1>1, <1>4, DerivedLeast
<1>6. QED
  BY <1>3, <1>5 DEF u

\* Where a nonterminal is due within the input its productions are predicted.
LEMMA DueBegun ==
  ASSUME g \in Grammars, w \in Words(g), Finished, NoEmptyProduction,
         \A p \in StartProds(g) : <<p, 0, 0>> \in chart[0],
         NEW k \in 0..Len(w), NEW a \in Nat, IsTerminal(g, a)
  PROVE  \A d \in Due(g, Continued(k, a)) :
           IF d[2] <= k THEN \A p \in Prods(g) : Lhs(g, p) = d[1] => <<p, 0, d[2]>> \in chart[d[2]]
           ELSE a \in MaskAt(k)
<1> DEFINE u == Continued(k, a)
           U == Derived(g, u)
           Begun(d) == IF d[2] <= k THEN \A p \in Prods(g) : Lhs(g, p) = d[1] => <<p, 0, d[2]>> \in chart[d[2]]
                       ELSE a \in MaskAt(k)
           K == {d \in Begins(g, u) : Begun(d)}
<1>1. /\ Valid(g) /\ g.nt \in Nat /\ g.start \in Nonterminals(g)
      /\ Len(w) \in Nat /\ k \in Nat /\ k <= Len(w) /\ Len(u) = k + 1
      /\ \A p \in Prods(g) : Rhs(g, p) \in Seq(Nat)
  BY GrammarsAssumption, ValidParts, WordParts, ContinuedWord
<1>2. \A A, b, e : <<A, b, e>> \in U => b <= e /\ Advances(k, a, <<A, b, e>>)
  BY FactsAdvance
<1> HIDE DEF u, U
<1>3. <<g.start, 0>> \in K
  <2>1. <<g.start, 0>> \in Begins(g, u)
    BY <1>1 DEF Begins
  <2>2. Begun(<<g.start, 0>>)
    BY <1>1 DEF StartProds
  <2>3. QED
    BY <2>1, <2>2
<1>4. ASSUME NEW d \in K, NEW f \in DueWithin(g, u, U, d) PROVE f \in K
  <2>1. d \in Begins(g, u) /\ Begun(d)
    OBVIOUS
  <2>2. d[2] \in 0..(k + 1)
    BY <1>1, <2>1 DEF Begins
  <2>3. f[1] \in Nonterminals(g) /\ f[2] \in d[2]..(k + 1) /\ f = <<f[1], f[2]>>
    BY <1>1 DEF DueWithin
  <2>4. f[2] \in 0..(k + 1) /\ d[2] \in Nat /\ f[2] \in Nat /\ d[2] <= f[2]
    BY <1>1, <2>2, <2>3
  <2>5. f \in Begins(g, u)
    BY <1>1, <2>3, <2>4 DEF Begins
  <2>6. PICK p \in Prods(g) : Lhs(g, p) = d[1] /\ \E t \in 1..Len(Rhs(g, p)) :
          Rhs(g, p)[t] = f[1] /\ AllDerive(g, u, U, SubSeq(Rhs(g, p), 1, t - 1), d[2], f[2])
    BY DEF DueWithin
  <2>7. PICK t \in 1..Len(Rhs(g, p)) :
          Rhs(g, p)[t] = f[1] /\ AllDerive(g, u, U, SubSeq(Rhs(g, p), 1, t - 1), d[2], f[2])
    BY <2>6
  <2> HIDE DEF K
  <2>8. CASE d[2] <= k
    <3> DEFINE b == d[2]
               e == f[2]
               m == t - 1
               item == <<p, m, b>>
    <3>1. b \in 0..k /\ e \in 0..(k + 1) /\ m \in 0..Len(Rhs(g, p)) /\ m < Len(Rhs(g, p)) /\ m + 1 = t
      BY <1>1, <2>4, <2>8
    <3>2. <<p, 0, b>> \in chart[b]
      BY <2>1, <2>6, <2>8
    <3>3. AllDerive(g, Continued(k, a), U, SubSeq(Rhs(g, p), 1, m), b, e)
      BY <2>7 DEF u
    <3>4. Reached(k, a, item, e)
      <4> HIDE DEF b, e, m
      <4>1. QED
        BY <1>2, <3>1, <3>2, <3>3, RunAlong
    <3>5. ASSUME e <= k PROVE \A r \in Prods(g) : Lhs(g, r) = f[1] => <<r, 0, e>> \in chart[e]
      <4>1. item \in chart[e] /\ e \in 0..Len(w)
        BY <1>1, <3>1, <3>4, <3>5 DEF Reached
      <4>2. f[1] \in NextSymbols(item)
        BY <2>7, <3>1 DEF NextSymbols
      <4>3. ~IsTerminal(g, f[1])
        BY <1>1, <2>3 DEF Nonterminals, IsTerminal
      <4>4. QED
        BY <4>1, <4>2, <4>3 DEF Finished, Predicts
    <3>6. ASSUME ~(e <= k) PROVE a \in MaskAt(k)
      BY <3>4, <3>6 DEF Reached
    <3>7. Begun(f)
      BY <3>5, <3>6
    <3>8. QED
      BY <2>5, <3>7 DEF K
  <2>9. CASE ~(d[2] <= k)
    <3>1. a \in MaskAt(k) /\ ~(f[2] <= k)
      BY <1>1, <2>1, <2>4, <2>9
    <3>2. QED
      BY <2>5, <3>1 DEF K
  <2>10. QED
    BY <2>8, <2>9
<1>5. OneDeeper(g, u, U, K) \subseteq K
  <2> HIDE DEF K
  <2>1. QED
    BY <1>3, <1>4 DEF OneDeeper
<1>6. K \in SUBSET Begins(g, u)
  OBVIOUS
<1>7. Due(g, u) \subseteq K
  <2> HIDE DEF K
  <2>1. Len(u) \in Nat
    BY <1>1
  <2>2. QED
    BY <1>1, <1>5, <1>6, <2>1, DueLeast DEF U
<1>8. QED
  BY <1>7 DEF u

LEMMA MaskComplete ==
  ASSUME g \in Grammars, w \in Words(g), Finished, NoEmptyProduction,
         \A p \in StartProds(g) : <<p, 0, 0>> \in chart[0],
         NEW k \in 0..Len(w), NEW a \in Nat, IsTerminal(g, a), Viable(g, Continued(k, a))
  PROVE  a \in MaskAt(k)
<1> DEFINE u == Continued(k, a)
           U == Derived(g, u)
<1>1. PICK d \in Due(g, u), p \in Prods(g) : Lhs(g, p) = d[1] /\
        \E t \in 0..Len(Rhs(g, p)) : AllDerive(g, u, U, SubSeq(Rhs(g, p), 1, t), d[2], Len(u))
  BY DEF Viable
<1>2. PICK m \in 0..Len(Rhs(g, p)) : AllDerive(g, u, U, SubSeq(Rhs(g, p), 1, m), d[2], Len(u))
  BY <1>1
<1>3. /\ g.nt \in Nat /\ g.start \in Nonterminals(g) /\ k \in Nat /\ Len(u) = k + 1
  BY GrammarsAssumption, ValidParts, ContinuedWord
<1>4. d[2] \in 0..(k + 1)
  <2>1. Due(g, u) \subseteq Begins(g, u)
    <3> HIDE DEF u
    <3>1. Len(u) \in Nat
      BY <1>3
    <3>2. QED
      BY <1>3, <3>1, DueClosed
  <2>2. QED
    BY <1>3, <2>1 DEF Begins
<1>5. IF d[2] <= k THEN <<p, 0, d[2]>> \in chart[d[2]] ELSE a \in MaskAt(k)
  BY <1>1, DueBegun
<1>6. \A A, b, e : <<A, b, e>> \in U => b <= e /\ Advances(k, a, <<A, b, e>>)
  BY FactsAdvance
<1>7. CASE d[2] <= k
  <2> DEFINE b == d[2]
             e == k + 1
  <2>1. b \in 0..k /\ e \in 0..(k + 1) /\ ~(e <= k) /\ <<p, 0, b>> \in chart[b]
    BY <1>3, <1>4, <1>5, <1>7
  <2>2. AllDerive(g, Continued(k, a), U, SubSeq(Rhs(g, p), 1, m), b, e)
    BY <1>2, <1>3
  <2> HIDE DEF b, e, U
  <2>3. Reached(k, a, <<p, m, b>>, e)
    BY <1>6, <2>1, <2>2, RunAlong
  <2>4. QED
    BY <2>1, <2>3 DEF Reached
<1>8. QED
  BY <1>5, <1>7

----------------------------------------------------------------------------
(* Every step keeps the chart settled.                                     *)

\* An order of a finite set has all its members.
LEMMA OrderCovers ==
  ASSUME NEW S, IsFiniteSet(S), NEW order \in Orders(S)
  PROVE  \A x \in S : \E t \in 1..Len(order) : order[t] = x
<1>1. Cardinality(S) \in Nat
  BY FS_CardinalityType
<1>2. order \in [1..Cardinality(S) -> S] /\ \A a, b \in 1..Cardinality(S) : a # b => order[a] # order[b]
  BY DEF Orders, SetToSeqs
<1>3. Len(order) = Cardinality(S)
  BY <1>1, <1>2
<1>4. QED
  BY <1>2, <1>3, ListingCovers

LEMMA JoinedParts ==
  ASSUME NEW S, NEW x \in Seq(S), NEW T, NEW y \in Seq(T)
  PROVE  /\ Len(x \o y) = Len(x) + Len(y) /\ DOMAIN (x \o y) = 1..(Len(x) + Len(y))
         /\ \A t \in 1..Len(x) : (x \o y)[t] = x[t]
         /\ \A t \in 1..Len(y) : (x \o y)[Len(x) + t] = y[t]
OBVIOUS

\* Without empty productions every nonterminal spans some input.
LEMMA KnownSpans ==
  ASSUME g \in Grammars, w \in Words(g), NoEmptyProduction
  PROVE  Known \subseteq {f \in Facts(g, Local(w)) : f[2] < f[3]}
<1> DEFINE x == Local(w)
           K == {f \in Facts(g, x) : f[2] < f[3]}
<1>1. /\ g.nt \in Nat /\ Len(x) \in Nat
      /\ \A p \in Prods(g) : Rhs(g, p) \in Seq(Nat) /\ Len(Rhs(g, p)) \in Nat \ {0}
  <2>1. g.nt \in Nat /\ Len(x) \in Nat /\ \A p \in Prods(g) : Rhs(g, p) \in Seq(Nat)
    BY GrammarsAssumption, ValidParts, WordParts, LocalWord
  <2>2. \A s \in Seq(Nat) : s # <<>> => Len(s) \in Nat \ {0}
    OBVIOUS
  <2>3. QED
    BY <2>1, <2>2 DEF NoEmptyProduction
<1>2. OneTaller(g, x, K) \subseteq K
  <2> SUFFICES ASSUME NEW f \in OneTaller(g, x, K) PROVE f[2] < f[3]
    BY DEF OneTaller
  <2>1. PICK p \in Prods(g) : AllDerive(g, x, K, Rhs(g, p), f[2], f[3])
    BY DEF OneTaller
  <2>2. PICK cut \in [0..Len(Rhs(g, p)) -> f[2]..f[3]] :
          cut[0] = f[2] /\ \A t \in 1..Len(Rhs(g, p)) : Derives(g, x, K, Rhs(g, p)[t], cut[t - 1], cut[t])
    BY <2>1 DEF AllDerive
  <2>3. f[2] \in Nat /\ f[3] \in Nat
    BY <1>1 DEF OneTaller, Facts
  <2>4. 0 \in 0..Len(Rhs(g, p)) /\ 1 \in 0..Len(Rhs(g, p)) /\ 1 \in 1..Len(Rhs(g, p))
    BY <1>1
  <2>5. cut[1] \in f[2]..f[3] /\ Derives(g, x, K, Rhs(g, p)[1], f[2], cut[1])
    <3> HIDE DEF K, x
    <3>1. Derives(g, x, K, Rhs(g, p)[1], cut[1 - 1], cut[1])
      BY <2>2, <2>4
    <3>2. 1 - 1 = 0
      OBVIOUS
    <3>3. QED
      BY <2>2, <2>4, <3>1, <3>2
  <2>6. f[2] < cut[1]
    <3>1. \A b, e : <<b, f[2], e>> \in K => f[2] < e
      OBVIOUS
    <3> HIDE DEF K
    <3>2. CASE IsTerminal(g, Rhs(g, p)[1])
      <4>1. cut[1] = f[2] + 1
        BY <2>5, <3>2 DEF Derives
      <4>2. QED
        BY <2>3, <4>1
    <3>3. CASE ~IsTerminal(g, Rhs(g, p)[1])
      BY <2>5, <3>1, <3>3 DEF Derives
    <3>4. QED
      BY <3>2, <3>3
  <2>7. QED
    BY <2>3, <2>5, <2>6
<1> HIDE DEF K, x
<1>3. Derived(g, x) \subseteq K
  BY <1>1, <1>2, DerivedLeast
<1>4. QED
  BY <1>3 DEF Known, x, K

\* A complete item of a grammar without empty productions spans some input.
LEMMA CompleteSpans ==
  ASSUME g \in Grammars, w \in Words(g), NoEmptyProduction, NEW k \in 0..Len(w),
         NEW item, Partial(item, k), NextSymbols(item) = {}
  PROVE  item[3] < k
<1>1. <<Lhs(g, item[1]), item[3], k>> \in Known
  BY PartialComplete
<1>2. Known \subseteq {f \in Facts(g, Local(w)) : f[2] < f[3]}
  BY KnownSpans
<1>3. QED
  BY <1>1, <1>2

\* What is settled stays so while s[i] grows.
LEMMA SettledStays ==
  ASSUME EarleyInv, NEW k \in 0..i, NEW item \in chart[k], Settled(item, k),
         g' = g, w' = w, i' = i, \A j \in 0..Len(w) : chart[j] \subseteq chart'[j],
         \A j \in 0..Len(w) : j # i => chart'[j] = chart[j]
  PROVE  Settled(item, k)'
<1>1. /\ g \in Grammars /\ w \in Words(g) /\ Len(w) \in Nat /\ i \in 0..Len(w)
      /\ Partial(item, k) /\ k \in 0..Len(w)
  BY EarleyParts
<1>2. Predicts(item, k)'
  BY <1>1 DEF Settled, Predicts, NextSymbols
<1>3. Completes(item, k)'
  <2> SUFFICES ASSUME NextSymbols(item) = {}, NoEmptyProduction,
                      NEW other \in chart'[item[3]], Lhs(g, item[1]) \in NextSymbols(other)
               PROVE  AfterSymbol(other) \in chart'[k]
    BY DEF Completes, NextSymbols, AfterSymbol, NoEmptyProduction
  <2>1. item[3] < k /\ item[3] \in 0..k
    BY <1>1, CompleteSpans DEF Partial
  <2>2. chart'[item[3]] = chart[item[3]]
    BY <1>1, <2>1
  <2>3. AfterSymbol(other) \in chart[k]
    BY <2>2 DEF Settled, Completes
  <2>4. QED
    BY <1>1, <2>3
<1>4. Scans(item, k)'
  <2> SUFFICES ASSUME k < i, NEW a \in NextSymbols(item), a = w[k + 1], IsTerminal(g, a)
               PROVE  AfterSymbol(item) \in chart'[k + 1]
    BY DEF Scans, NextSymbols, AfterSymbol
  <2>1. AfterSymbol(item) \in chart[k + 1] /\ k + 1 \in 0..Len(w)
    BY <1>1 DEF Settled, Scans
  <2>2. QED
    BY <2>1
<1>5. QED
  BY <1>2, <1>3, <1>4 DEF Settled

\* Items for s[i] join the chart and the queue, and the head of the queue is
\* settled by them.
LEMMA AddSettles ==
  ASSUME EarleyInv, ChartInv, pc = "process", NEW head, head = Head(queue), NEW items, IsFiniteSet(items),
         \A item \in items : IsDue(item),
         NEW order \in Orders(items \ chart[i]), queue # <<>>, Add(items, order),
         Settled(head, i)'
  PROVE  ChartInv'
<1>1. /\ g \in Grammars /\ w \in Words(g) /\ Len(w) \in Nat /\ i \in 0..Len(w)
      /\ DOMAIN chart = 0..Len(w) /\ queue \in Seq(chart[i])
  BY EarleyParts
<1>2. /\ g' = g /\ w' = w /\ i' = i /\ pc' = pc /\ queue' = Tail(queue) \o order
      /\ chart' = [chart EXCEPT ![i] = @ \cup items]
  BY DEF Add
<1>3. /\ chart'[i] = chart[i] \cup items
      /\ \A k \in 0..Len(w) : chart[k] \subseteq chart'[k]
      /\ \A k \in 0..Len(w) : k # i => chart'[k] = chart[k]
  BY <1>1, <1>2
<1>4. Seed(g)' \subseteq chart'[0]
  <2>1. Seed(g)' = Seed(g)
    BY <1>2 DEF Seed, StartProds
  <2>2. QED
    BY <1>1, <1>3, <2>1 DEF ChartInv
<1>5. \A item : IsDue(item)' <=> IsDue(item)
  BY <1>2 DEF IsDue, Local
<1>6. \A k \in 0..Len(w) : \A item \in chart'[k] : IsDue(item)
  BY <1>3 DEF ChartInv
<1>7. ASSUME NEW item \in chart'[i], item \notin {queue'[t] : t \in DOMAIN queue'}, item # head
      PROVE  item \in chart[i] /\ item \notin Queued
  <2> DEFINE rest == Tail(queue)
  <2>1. IsFiniteSet(items \ chart[i])
    BY FS_Difference
  <2>2. order \in Seq(items \ chart[i]) /\ \A x \in items \ chart[i] : \E t \in 1..Len(order) : order[t] = x
    BY <2>1, OrderTyped, OrderCovers
  <2>3. /\ rest \in Seq(chart[i]) /\ Len(rest) = Len(queue) - 1 /\ Len(queue) \in Nat
        /\ \A t \in 1..Len(rest) : rest[t] = queue[t + 1]
    BY <1>1
  <2> HIDE DEF rest
  <2>4. /\ Len(queue') = Len(rest) + Len(order) /\ DOMAIN queue' = 1..(Len(rest) + Len(order))
        /\ \A t \in 1..Len(rest) : queue'[t] = rest[t]
        /\ \A t \in 1..Len(order) : queue'[Len(rest) + t] = order[t]
    BY <1>2, <2>2, <2>3, JoinedParts DEF rest
  <2>5. item \notin items \ chart[i]
    <3> SUFFICES ASSUME item \in items \ chart[i] PROVE FALSE
      OBVIOUS
    <3>1. PICK t \in 1..Len(order) : order[t] = item
      BY <2>2
    <3>2. Len(rest) + t \in DOMAIN queue'
      BY <2>2, <2>3, <2>4
    <3>3. QED
      BY <1>7, <2>4, <3>1, <3>2
  <2>6. ASSUME NEW t \in 1..Len(queue) PROVE queue[t] # item
    <3>1. CASE t = 1
      BY <1>1, <1>7, <3>1
    <3>2. CASE t # 1
      <4>1. t - 1 \in 1..Len(rest) /\ (t - 1) + 1 = t
        BY <2>3, <3>2
      <4>2. queue'[t - 1] = queue[t] /\ t - 1 \in DOMAIN queue'
        BY <2>2, <2>3, <2>4, <4>1
      <4>3. QED
        BY <1>7, <4>2
    <3>3. QED
      BY <3>1, <3>2
  <2>7. DOMAIN queue = 1..Len(queue)
    BY <1>1
  <2>8. QED
    BY <1>3, <2>5, <2>6, <2>7 DEF Queued
<1>8. ASSUME NEW k \in 0..i, NEW item \in chart'[k],
             k < i \/ item \notin {queue'[t] : t \in DOMAIN queue'}
      PROVE  Settled(item, k)'
  <2>1. k \in 0..Len(w)
    BY <1>1
  <2>2. CASE k = i /\ item = head
    BY <1>2, <2>2
  <2>3. CASE ~(k = i /\ item = head)
    <3>1. item \in chart[k] /\ (k < i \/ item \notin Queued)
      <4>1. CASE k < i
        BY <1>1, <1>3, <2>1, <4>1
      <4>2. CASE ~(k < i)
        <5>1. k = i
          BY <1>1, <4>2
        <5>2. QED
          BY <1>7, <1>8, <2>3, <4>2, <5>1
      <4>3. QED
        BY <4>1, <4>2
    <3>2. Settled(item, k)
      BY <3>1 DEF ChartInv
    <3>3. QED
      BY <1>2, <1>3, <3>1, <3>2, SettledStays
  <2>4. QED
    BY <2>2, <2>3
<1>9. QED
  BY <1>2, <1>4, <1>5, <1>6, <1>8 DEF ChartInv, Queued

\* What an item predicts is due.
LEMMA PredictedDue ==
  ASSUME g \in Grammars, w \in Words(g), NEW k \in 0..Len(w),
         NEW item, Partial(item, k), IsDue(item),
         NEW A \in NextSymbols(item), ~IsTerminal(g, A), NEW p \in Prods(g), Lhs(g, p) = A
  PROVE  IsDue(<<p, 0, k>>)
<1> DEFINE x == Local(w)
           q == item[1]
           dot == item[2]
           d == <<Lhs(g, q), item[3]>>
           f == <<A, k>>
<1>1. /\ g.nt \in Nat /\ g.start \in Nonterminals(g) /\ Len(w) \in Nat /\ Len(x) = Len(w)
      /\ A \in Nonterminals(g) /\ Rhs(g, q) \in Seq(Nat) /\ Len(Rhs(g, q)) \in Nat /\ q \in Prods(g)
      /\ dot \in 0..Len(Rhs(g, q)) /\ item[3] \in 0..k /\ k \in Nat /\ k <= Len(w)
  BY GrammarsAssumption, ValidParts, WordParts, LocalWord DEF Partial
<1>2. dot < Len(Rhs(g, q)) /\ A = Rhs(g, q)[dot + 1] /\ AllDerive(g, x, Known, SubSeq(Rhs(g, q), 1, dot), item[3], k)
  BY DEF NextSymbols, Partial
<1>3. /\ dot + 1 \in 1..Len(Rhs(g, q)) /\ (dot + 1) - 1 = dot
      /\ d[1] = Lhs(g, q) /\ d[2] = item[3] /\ f[1] = A /\ f[2] = k /\ k \in d[2]..Len(x)
  <2>1. d[1] = Lhs(g, q) /\ d[2] = item[3] /\ f[1] = A /\ f[2] = k
    OBVIOUS
  <2>2. k \in item[3]..Len(x)
    BY <1>1
  <2> HIDE DEF dot
  <2>3. dot + 1 \in 1..Len(Rhs(g, q)) /\ (dot + 1) - 1 = dot
    BY <1>1, <1>2
  <2>4. QED
    BY <2>1, <2>2, <2>3
<1> HIDE DEF x, q, dot, d
<1>4. Rhs(g, q)[dot + 1] = f[1] /\ AllDerive(g, x, Known, SubSeq(Rhs(g, q), 1, (dot + 1) - 1), d[2], f[2])
  BY <1>2, <1>3
<1>5. f \in Nonterminals(g) \X (d[2]..Len(x))
  BY <1>1, <1>3
<1>6. f \in DueWithin(g, x, Known, d)
  BY <1>1, <1>3, <1>4, <1>5 DEF DueWithin
<1>7. d \in Due(g, x)
  BY DEF IsDue, d, x, q
<1>8. f \in OneDeeper(g, x, Known, Due(g, x))
  BY <1>6, <1>7 DEF OneDeeper
<1>9. f \in Due(g, x)
  BY <1>1, <1>8, DueClosed DEF Known, x
<1>10. QED
  BY <1>9 DEF IsDue, x

LEMMA AfterDue ==
  ASSUME NEW item, IsDue(item)
  PROVE  IsDue(AfterSymbol(item))
BY DEF IsDue, AfterSymbol

LEMMA HeadSettling ==
  ASSUME EarleyInv, ChartInv, Processing
  PROVE  pc = "process" /\ queue # <<>> /\ Partial(Head(queue), i) /\ IsDue(Head(queue))
BY EarleyParts, HeadPartial DEF ChartInv, Processing

LEMMA PredictSettles == EarleyInv /\ ChartInv /\ Predict => ChartInv'
<1> SUFFICES ASSUME EarleyInv, ChartInv, Predict PROVE ChartInv'
  OBVIOUS
<1>0. PICK head : head = Head(queue)
  OBVIOUS
<1>1. PICK A \in NextSymbols(head) : ~IsTerminal(g, A) /\
        \E order \in InProductionOrder(Predicted(A) \ chart[i]) : Add(Predicted(A), order)
  BY <1>0 DEF Predict
<1>2. PICK order \in InProductionOrder(Predicted(A) \ chart[i]) : Add(Predicted(A), order)
  BY <1>1
<1>3. order \in Orders(Predicted(A) \ chart[i]) /\ Processing
  BY DEF Predict, InProductionOrder
<1>4. pc = "process" /\ queue # <<>> /\ Partial(head, i) /\ IsDue(head)
  BY <1>0, <1>3, HeadSettling
<1>5. g \in Grammars /\ w \in Words(g) /\ Len(w) \in Nat /\ i \in 0..Len(w) /\ DOMAIN chart = 0..Len(w)
  BY EarleyParts
<1>6. IsFiniteSet(Predicted(A))
  BY PredictedFinite
<1>7. \A item \in Predicted(A) : IsDue(item)
  BY <1>1, <1>4, <1>5, PredictedDue DEF Predicted
<1>8. Settled(head, i)'
  <2>1. g' = g /\ w' = w /\ i' = i /\ chart'[i] = chart[i] \cup Predicted(A)
    BY <1>2, <1>5 DEF Add
  <2>2. NextSymbols(head) = {A} /\ NextSymbols(head)' = {A}
    BY <1>1, <2>1 DEF NextSymbols
  <2>3. Predicts(head, i)'
    BY <2>1, <2>2 DEF Predicts, Predicted
  <2>4. Completes(head, i)'
    BY <2>2 DEF Completes
  <2>5. Scans(head, i)'
    BY <1>5, <2>1 DEF Scans
  <2>6. QED
    BY <2>3, <2>4, <2>5 DEF Settled
<1>9. QED
  BY <1>0, <1>2, <1>3, <1>4, <1>6, <1>7, <1>8, AddSettles

LEMMA LeaveSettles == EarleyInv /\ ChartInv /\ Leave => ChartInv'
<1> SUFFICES ASSUME EarleyInv, ChartInv, Leave PROVE ChartInv'
  OBVIOUS
<1>0. PICK head : head = Head(queue)
  OBVIOUS
<1> DEFINE none == {}
           last == <<>>
<1>1. PICK a \in NextSymbols(head) : IsTerminal(g, a)
  BY <1>0 DEF Leave
<1>2. Add(none, last) /\ Processing
  BY DEF Leave
<1>3. last \in Orders(none \ chart[i]) /\ IsFiniteSet(none)
  BY NothingOrdered
<1>4. pc = "process" /\ queue # <<>>
  BY <1>2, HeadSettling
<1>5. Len(w) \in Nat /\ i \in 0..Len(w)
  BY EarleyParts
<1>6. Settled(head, i)'
  <2>1. g' = g /\ i' = i
    BY <1>2 DEF Add
  <2>2. NextSymbols(head) = {a} /\ NextSymbols(head)' = {a}
    BY <1>1, <2>1 DEF NextSymbols
  <2>3. Predicts(head, i)'
    BY <1>1, <2>1, <2>2 DEF Predicts
  <2>4. Completes(head, i)'
    BY <2>2 DEF Completes
  <2>5. Scans(head, i)'
    BY <1>5, <2>1 DEF Scans
  <2>6. QED
    BY <2>3, <2>4, <2>5 DEF Settled
<1>7. \A item \in none : IsDue(item)
  OBVIOUS
<1> HIDE DEF none, last
<1>8. QED
  BY <1>0, <1>2, <1>3, <1>4, <1>6, <1>7, AddSettles

LEMMA CompleteSettles == EarleyInv /\ ChartInv /\ Complete => ChartInv'
<1> SUFFICES ASSUME EarleyInv, ChartInv, Complete PROVE ChartInv'
  OBVIOUS
<1>0. PICK head : head = Head(queue)
  OBVIOUS
<1> DEFINE A == Lhs(g, head[1])
           from == head[3]
           callers == {other \in chart[from] : A \in NextSymbols(other)}
           items == {AfterSymbol(other) : other \in callers}
<1>1. Processing /\ NextSymbols(head) = {}
  BY <1>0 DEF Complete
<1>2. PICK order \in Orders(items \ chart[i]) : Add(items, order)
  BY <1>0 DEF Complete
<1>3. pc = "process" /\ queue # <<>> /\ Partial(head, i) /\ IsDue(head)
  BY <1>0, <1>1, HeadSettling
<1>4. /\ g \in Grammars /\ w \in Words(g) /\ Len(w) \in Nat /\ i \in 0..Len(w) /\ DOMAIN chart = 0..Len(w)
      /\ from \in 0..i /\ from \in 0..Len(w)
  BY <1>3, EarleyParts DEF Partial
<1>5. IsFiniteSet(items)
  BY <1>4, AdvancedFinite
<1>6. \A item \in items : IsDue(item)
  BY <1>4, AfterDue DEF ChartInv
<1>7. Settled(head, i)'
  <2>1. /\ g' = g /\ w' = w /\ i' = i /\ chart'[i] = chart[i] \cup items
        /\ \A k \in 0..Len(w) : k # i => chart'[k] = chart[k]
    BY <1>2, <1>4 DEF Add
  <2>2. NextSymbols(head)' = {}
    BY <1>1, <2>1 DEF NextSymbols
  <2>3. Predicts(head, i)'
    BY <2>2 DEF Predicts
  <2>4. Completes(head, i)'
    <3> SUFFICES ASSUME NoEmptyProduction, NEW other \in chart'[from], A \in NextSymbols(other)
                 PROVE  AfterSymbol(other) \in chart'[i]
      BY <2>1 DEF Completes, NextSymbols, AfterSymbol, NoEmptyProduction
    <3>1. from < i
      BY <1>1, <1>3, <1>4, CompleteSpans
    <3>2. other \in callers
      BY <1>4, <2>1, <3>1
    <3>3. QED
      BY <2>1, <3>2
  <2>5. Scans(head, i)'
    BY <1>4, <2>1 DEF Scans
  <2>6. QED
    BY <2>3, <2>4, <2>5 DEF Settled
<1> HIDE DEF items
<1>8. QED
  BY <1>0, <1>2, <1>3, <1>5, <1>6, <1>7, AddSettles

LEMMA ScanSettles == EarleyInv /\ ChartInv /\ Scan => ChartInv'
<1> SUFFICES ASSUME EarleyInv, ChartInv, Scan PROVE ChartInv'
  OBVIOUS
<1> DEFINE a == w[i + 1]
           from == {x \in chart[i] : IsTerminal(g, a) /\ a \in NextSymbols(x)}
           items == {Scanned(item) : item \in from}
<1>1. /\ g \in Grammars /\ w \in Words(g) /\ i \in 0..Len(w) /\ Len(w) \in Nat
      /\ DOMAIN chart = 0..Len(w)
      /\ \A k \in 0..Len(w) : IsFiniteSet(chart[k]) /\ \A item \in chart[k] : Partial(item, k)
  BY EarleyParts
<1>2. /\ pc = "process" /\ queue = <<>> /\ pc' = pc
      /\ i < Len(w) /\ i' = i + 1 /\ g' = g /\ w' = w
      /\ chart' = [chart EXCEPT ![i + 1] = items] /\ queue' \in Orders(items)
  BY DEF Scan, n
<1>3. i + 1 \in 0..Len(w) /\ i + 1 # 0 /\ 0 \in 0..Len(w)
  BY <1>1, <1>2
<1>4. chart'[i + 1] = items /\ \A k \in 0..Len(w) : k # i + 1 => chart'[k] = chart[k]
  BY <1>1, <1>2, <1>3
<1>5. Seed(g)' \subseteq chart'[0]
  <2>1. Seed(g)' = Seed(g)
    BY <1>2 DEF Seed, StartProds
  <2>2. QED
    BY <1>3, <1>4, <2>1 DEF ChartInv
<1>6. \A k \in 0..Len(w) : \A item \in chart'[k] : IsDue(item)
  BY <1>1, <1>4, AfterDue DEF ChartInv, Scanned
<1>7. \A item : IsDue(item)' <=> IsDue(item)
  BY <1>2 DEF IsDue, Local
<1>8. \A item \in chart'[i + 1] : item \in {queue'[t] : t \in DOMAIN queue'}
  <2>1. IsFiniteSet(items)
    <3>1. from \in SUBSET chart[i]
      OBVIOUS
    <3> HIDE DEF from
    <3>2. IsFiniteSet(from)
      BY <1>1, <3>1, FS_Subset
    <3> DEFINE after == [item \in from |-> Scanned(item)]
    <3>3. items = {after[item] : item \in from}
      OBVIOUS
    <3> HIDE DEF after, items
    <3>4. QED
      BY <3>2, <3>3, ImageFinite
  <2> HIDE DEF items
  <2>2. queue' \in Seq(items) /\ \A x \in items : \E t \in 1..Len(queue') : queue'[t] = x
    BY <1>2, <2>1, OrderTyped, OrderCovers
  <2>3. DOMAIN queue' = 1..Len(queue')
    BY <2>2
  <2>4. QED
    BY <1>4, <2>2, <2>3
<1>9. ASSUME NEW k \in 0..i, NEW item \in chart'[k] PROVE Settled(item, k)'
  <2>1. k \in 0..Len(w) /\ k # i + 1 /\ item \in chart[k] /\ item \notin Queued
    BY <1>1, <1>2, <1>4 DEF Queued
  <2>2. Settled(item, k) /\ Partial(item, k)
    BY <1>1, <2>1 DEF ChartInv
  <2>3. NextSymbols(item)' = NextSymbols(item)
    BY <1>2 DEF NextSymbols
  <2>4. Predicts(item, k)'
    BY <1>2, <1>4, <2>1, <2>2, <2>3 DEF Settled, Predicts
  <2>5. Completes(item, k)'
    <3>1. item[3] \in 0..Len(w) /\ item[3] # i + 1
      BY <1>1, <2>2 DEF Partial
    <3>2. chart'[item[3]] = chart[item[3]] /\ chart'[k] = chart[k]
      BY <1>4, <2>1, <3>1
    <3>3. \A other : NextSymbols(other)' = NextSymbols(other) /\ AfterSymbol(other)' = AfterSymbol(other)
      BY <1>2 DEF NextSymbols, AfterSymbol
    <3>4. NoEmptyProduction' <=> NoEmptyProduction
      BY <1>2 DEF NoEmptyProduction
    <3>5. QED
      BY <1>2, <2>2, <2>3, <3>2, <3>3, <3>4 DEF Settled, Completes
  <2>6. Scans(item, k)'
    <3> SUFFICES ASSUME NEW s \in NextSymbols(item), s = w[k + 1], IsTerminal(g, s)
                 PROVE  AfterSymbol(item) \in chart'[k + 1]
      BY <1>2, <2>3 DEF Scans, AfterSymbol
    <3>1. CASE k = i
      BY <1>4, <2>1, <3>1 DEF Scanned
    <3>2. CASE k < i
      <4>1. AfterSymbol(item) \in chart[k + 1] /\ k + 1 \in 0..Len(w) /\ k + 1 # i + 1
        BY <1>1, <2>2, <3>2 DEF Settled, Scans
      <4>2. QED
        BY <1>4, <4>1
    <3>3. QED
      BY <1>1, <3>1, <3>2
  <2>7. QED
    BY <2>4, <2>5, <2>6 DEF Settled
<1>10. \A k \in 0..(i + 1) : k \in 0..i \/ k = i + 1
  BY <1>1
<1>11. QED
  BY <1>1, <1>2, <1>5, <1>6, <1>7, <1>8, <1>9, <1>10 DEF ChartInv, Queued

LEMMA InitSettles == Init => ChartInv
<1> SUFFICES ASSUME Init PROVE ChartInv
  OBVIOUS
<1>1. /\ g \in Grammars /\ w \in Words(g) /\ i = 0 /\ queue \in Orders(Seed(g)) /\ pc = "process"
      /\ chart = [k \in 0..Len(w) |-> IF k = 0 THEN Seed(g) ELSE {}]
  BY DEF Init
<1>2. /\ Len(w) \in Nat /\ g.nt \in Nat /\ g.start \in Nonterminals(g) /\ Len(Local(w)) = Len(w)
      /\ Len(g.prods) \in Nat
  BY <1>1, WordParts, GrammarsAssumption, ValidParts, LocalWord
<1>3. chart[0] = Seed(g) /\ \A k \in 0..Len(w) : k # 0 => chart[k] = {}
  BY <1>1, <1>2
<1>4. \A item \in Seed(g) : IsDue(item)
  <2>1. <<g.start, 0>> \in OneDeeper(g, Local(w), Derived(g, Local(w)), Due(g, Local(w)))
    BY DEF OneDeeper
  <2>2. <<g.start, 0>> \in Due(g, Local(w))
    BY <1>2, <2>1, DueClosed
  <2>3. QED
    BY <2>2 DEF Seed, StartProds, IsDue
<1>5. \A item \in Seed(g) : item \in Queued
  <2>1. IsFiniteSet(Seed(g))
    <3>1. EarleyInv
      BY EarleyInitially
    <3>2. IsFiniteSet(chart[0])
      BY <1>2, <3>1 DEF EarleyInv
    <3>3. QED
      BY <1>3, <3>2
  <2>2. queue \in Seq(Seed(g)) /\ \A x \in Seed(g) : \E t \in 1..Len(queue) : queue[t] = x
    BY <1>1, <2>1, OrderTyped, OrderCovers
  <2>3. DOMAIN queue = 1..Len(queue)
    BY <2>2
  <2>4. QED
    BY <2>2, <2>3 DEF Queued
<1>6. \A k \in 0..Len(w) : \A item \in chart[k] : IsDue(item)
  BY <1>3, <1>4
<1>7. ASSUME NEW k \in 0..i, NEW item \in chart[k], k < i \/ item \notin Queued PROVE FALSE
  <2>1. k = 0 /\ ~(k < i)
    BY <1>1
  <2>2. QED
    BY <1>3, <1>5, <1>7, <2>1
<1>8. QED
  BY <1>1, <1>3, <1>6, <1>7 DEF ChartInv

LEMMA DoneFinished ==
  ASSUME EarleyInv, ChartInv, pc = "done"
  PROVE  Finished
<1>1. i = Len(w) /\ Queued = {} /\ Len(w) \in Nat
  BY EarleyParts DEF ChartInv, Queued
<1>2. \A k \in 0..Len(w) : \A item \in chart[k] : Settled(item, k)
  BY <1>1 DEF ChartInv
<1>3. QED
  BY <1>1, <1>2 DEF Finished, Settled, Scans

LEMMA FinishSettles == EarleyInv /\ ChartInv /\ Finish => ChartInv'
<1> SUFFICES ASSUME EarleyInv, ChartInv, Finish PROVE ChartInv'
  OBVIOUS
<1>1. i = Len(w) /\ queue = <<>> /\ UNCHANGED <<g, w, i, chart, queue>>
  BY DEF Finish, n
<1>2. Seed(g)' = Seed(g) /\ Queued' = Queued
  BY <1>1 DEF Seed, StartProds, Queued
<1>3. \A item : IsDue(item)' <=> IsDue(item)
  BY <1>1 DEF IsDue, Local
<1>4. \A item, k : Settled(item, k)' <=> Settled(item, k)
  BY <1>1 DEF Settled, Predicts, Completes, Scans, NextSymbols, AfterSymbol, NoEmptyProduction
<1>5. QED
  BY <1>1, <1>2, <1>3, <1>4 DEF ChartInv

LEMMA NothingSettles == ChartInv /\ UNCHANGED vars => ChartInv'
<1> SUFFICES ASSUME ChartInv, UNCHANGED vars PROVE ChartInv'
  OBVIOUS
<1>1. g' = g /\ w' = w /\ pc' = pc /\ i' = i /\ chart' = chart /\ queue' = queue
  BY DEF vars
<1>2. Queued' = Queued /\ \A item : IsDue(item)' = IsDue(item)
  BY <1>1 DEF Queued, IsDue, Local
<1>3. \A item : NextSymbols(item)' = NextSymbols(item)
  BY <1>1 DEF NextSymbols
<1>4. \A item, k : Settled(item, k)' = Settled(item, k)
  BY <1>1, <1>3 DEF Settled, Predicts, Completes, Scans, AfterSymbol, NoEmptyProduction
<1>5. QED
  BY <1>1, <1>2, <1>4 DEF ChartInv, Seed, StartProds

\* The mask that earley_per_step_mask reads from the chart names no terminal
\* that no word of the grammar continues with; with one start production and no
\* empty production it names every other, for every valid grammar and every
\* word, whatever the orders of the hash sets.
THEOREM MaskAlwaysNamesNext == Spec => []MaskNamesNext
<1>1. Init => EarleyInv /\ ChartInv
  BY EarleyInitially, InitSettles
<1>2. EarleyInv /\ ChartInv /\ [Next]_vars => (EarleyInv /\ ChartInv)'
  <2> SUFFICES ASSUME EarleyInv, ChartInv, [Next]_vars PROVE (EarleyInv /\ ChartInv)'
    OBVIOUS
  <2>1. EarleyInv'
    BY EarleyKept
  <2>2. CASE Predict
    BY <2>1, <2>2, PredictSettles
  <2>3. CASE Leave
    BY <2>1, <2>3, LeaveSettles
  <2>4. CASE Complete
    BY <2>1, <2>4, CompleteSettles
  <2>5. CASE Scan
    BY <2>1, <2>5, ScanSettles
  <2>6. CASE Finish
    BY <2>1, <2>6, FinishSettles
  <2>7. CASE UNCHANGED vars
    BY <2>1, <2>7, NothingSettles
  <2>8. QED
    BY <2>2, <2>3, <2>4, <2>5, <2>6, <2>7 DEF Next
<1>3. EarleyInv /\ ChartInv => MaskNamesNext
  <2> SUFFICES ASSUME EarleyInv, ChartInv, pc = "done"
               PROVE  /\ \A k \in 0..n : \A a \in MaskAt(k) : Viable(g, Append(UpTo(k), TerminalId(g, a)))
                      /\ OneStartProduction /\ NoEmptyProduction => MaskMissesNothing
    BY DEF MaskNamesNext
  <2>1. /\ g \in Grammars /\ w \in Words(g) /\ Len(w) \in Nat
        /\ \A k \in 0..Len(w) : \A item \in chart[k] : Partial(item, k) /\ IsDue(item)
    BY EarleyParts DEF ChartInv
  <2>2. ASSUME NEW k \in 0..Len(w), NEW a \in MaskAt(k) PROVE Viable(g, Continued(k, a))
    <3>1. IsTerminal(g, a) /\ \E item \in chart[k] : a \in NextSymbols(item)
      BY DEF MaskAt
    <3>2. QED
      BY <2>1, <3>1, MaskSound
  <2>3. ASSUME OneStartProduction, NoEmptyProduction,
               NEW k \in 0..Len(w), NEW a \in Terminals, Viable(g, Continued(k, a))
        PROVE  a \in MaskAt(k)
    <3>1. a \in Nat /\ IsTerminal(g, a)
      <4>1. g.nt \in Nat
        BY <2>1, GrammarsAssumption, ValidParts
      <4>2. QED
        BY <4>1 DEF Terminals, IsTerminal
    <3>2. \A p \in StartProds(g) : <<p, 0, 0>> \in chart[0]
      <4>1. \A p \in StartProds(g) : p \in Int
        BY DEF StartProds, Prods
      <4>2. \A p \in StartProds(g) : \A s \in StartProds(g) : p <= s
        BY <2>3, <4>1 DEF OneStartProduction
      <4>3. \A p \in StartProds(g) : <<p, 0, 0>> \in Seed(g)
        BY <4>2 DEF Seed
      <4>4. QED
        BY <4>3 DEF ChartInv
    <3>3. QED
      BY <2>1, <2>3, <3>1, <3>2, DoneFinished, MaskComplete
  <2>4. QED
    BY <2>2, <2>3 DEF Continued, MaskMissesNothing, n
<1>4. QED
  BY <1>1, <1>2, <1>3, PTL DEF Spec
=============================================================================
