------------------------------- MODULE Earley -------------------------------
(***************************************************************************)
(* earley_parse and earley_per_step_mask of compile.rs.  The chart is a    *)
(* vector of hash sets; the queue of a position is filled from its set and *)
(* then in the order in which items are found.  Where the code iterates a  *)
(* hash set the order is any.  Words are in the grammar's symbol ids here. *)
(***************************************************************************)
EXTENDS Derivations
LOCAL INSTANCE SequencesExt

CONSTANTS Grammars, Words(_)
ASSUME GrammarsAssumption == \A h \in Grammars : Valid(h)
ASSUME WordsAssumption == \A h \in Grammars : \A x \in Words(h) : x \in Seq(Nat)

VARIABLES
  g, w,
  i,       \* the position
  chart,   \* s[0..n]; an item is <<production, dot, start>>
  queue,   \* the items of s[i] that are not processed
  pc       \* "process" or "done"

vars == <<g, w, i, chart, queue, pc>>

n == Len(w)
NextSymbols(item) ==
  IF item[2] < Len(Rhs(g, item[1])) THEN {Rhs(g, item[1])[item[2] + 1]} ELSE {}
AfterSymbol(item) == <<item[1], item[2] + 1, item[3]>>

\* A set in the order of its iteration.
Orders(set) == SetToSeqs(set)

StartProds(h) == {p \in Prods(h) : Lhs(h, p) = h.start}
\* The seed is the first production of the start symbol.
Seed(h) == {<<p, 0, 0>> : p \in {r \in StartProds(h) : \A s \in StartProds(h) : r <= s}}

Init ==
  /\ g \in Grammars /\ w \in Words(g)
  /\ i = 0
  /\ chart = [k \in 0..Len(w) |-> IF k = 0 THEN Seed(g) ELSE {}]
  /\ queue \in Orders(Seed(g))
  /\ pc = "process"

\* Insert the items and queue the new ones.
Add(items, order) ==
  /\ chart' = [chart EXCEPT ![i] = @ \cup items]
  /\ queue' = Tail(queue) \o order
  /\ UNCHANGED <<g, w, i, pc>>

Processing == pc = "process" /\ queue # <<>>

Predicted(A) == {<<p, 0, i>> : p \in {r \in Prods(g) : Lhs(g, r) = A}}
InProductionOrder(items) ==
  {order \in Orders(items) : \A a, b \in DOMAIN order : a < b => order[a][1] < order[b][1]}

Predict ==
  /\ Processing
  /\ \E A \in NextSymbols(Head(queue)) :
       /\ ~IsTerminal(g, A)
       /\ \E order \in InProductionOrder(Predicted(A) \ chart[i]) : Add(Predicted(A), order)

\* A terminal after the dot waits for the scan.
Leave ==
  /\ Processing
  /\ \E a \in NextSymbols(Head(queue)) : IsTerminal(g, a)
  /\ Add({}, <<>>)

\* Faulty: the callers are looked for at the current position.
CompleteHere ==
  /\ Processing
  /\ NextSymbols(Head(queue)) = {}
  /\ LET callers == {other \in chart[i] : Lhs(g, Head(queue)[1]) \in NextSymbols(other)}
         items == {AfterSymbol(other) : other \in callers}
     IN \E order \in Orders(items \ chart[i]) : Add(items, order)
Complete ==
  /\ Processing
  /\ NextSymbols(Head(queue)) = {}
  /\ LET callers == {other \in chart[Head(queue)[3]] : Lhs(g, Head(queue)[1]) \in NextSymbols(other)}
         items == {AfterSymbol(other) : other \in callers}
     IN \E order \in Orders(items \ chart[i]) : Add(items, order)

\* Faulty: the scanned item starts anew.
ScannedFrom(item) == <<item[1], item[2] + 1, i>>
Scanned(item) == AfterSymbol(item)

Scan ==
  /\ pc = "process" /\ queue = <<>> /\ i < n
  /\ LET items == {Scanned(item) : item \in {x \in chart[i] : IsTerminal(g, w[i + 1]) /\ w[i + 1] \in NextSymbols(x)}}
     IN /\ chart' = [chart EXCEPT ![i + 1] = items]
        /\ queue' \in Orders(items)
  /\ i' = i + 1
  /\ UNCHANGED <<g, w, pc>>

Finish ==
  /\ pc = "process" /\ queue = <<>> /\ i = n
  /\ pc' = "done"
  /\ UNCHANGED <<g, w, i, chart, queue>>

Next == Predict \/ Leave \/ Complete \/ Scan \/ Finish
Spec == Init /\ [][Next]_vars

\* earley_per_step_mask.
MaskAt(k) == {a \in UNION {NextSymbols(item) : item \in chart[k]} : IsTerminal(g, a)}
----------------------------------------------------------------------------
\* The word by terminal ids.
Local(word) == [k \in DOMAIN word |-> TerminalId(g, word[k])]

\* Every item of s[k] is a valid partial parse (earley_parse's comment): the
\* part of its production before the dot derives the input from where the item
\* started to k.
ItemsDerive ==
  pc = "done" =>
    \A k \in 0..n : \A item \in chart[k] :
      AllDerive(g, Local(w), Derived(g, Local(w)), SubSeq(Rhs(g, item[1]), 1, item[2]), item[3], k)

UpTo(k) == SubSeq(Local(w), 1, k)

Terminals == g.nt..(g.nt + g.tm - 1)
MaskMissesNothing ==
  \A k \in 0..n : \A a \in Terminals :
    Viable(g, Append(UpTo(k), TerminalId(g, a))) => a \in MaskAt(k)

OneStartProduction == \A p, r \in StartProds(g) : p = r
NoEmptyProduction == \A p \in Prods(g) : Rhs(g, p) # <<>>

\* The mask names no input that no word of the grammar continues with, and
\* with one start production and no empty production it names every other,
\* whatever the order of the hash sets.
MaskNamesNext ==
  pc = "done" =>
    /\ \A k \in 0..n : \A a \in MaskAt(k) : Viable(g, Append(UpTo(k), TerminalId(g, a)))
    /\ OneStartProduction /\ NoEmptyProduction => MaskMissesNothing
=============================================================================
