----------------------------- MODULE CykProofs ------------------------------
(***************************************************************************)
(* accepts_npda decides membership, for every set of valid grammars and    *)
(* every word: the table holds only derivable spans, and when a sweep has  *)
(* changed nothing it holds all of them.                                   *)
(***************************************************************************)
EXTENDS Accepts, SharedLemmas

\* What the table says, as facts between positions.
Held == {<<e[1], e[2], e[2] + e[3]>> : e \in table}

Spans(k) == {s \in (0..k) \X (0..k) : s[1] + s[2] <= k}

CykTyped ==
  /\ m.gram \in Grammars /\ word \in GrammarWords(m.gram)
  /\ pc \in {"sweep", "eps", "accept", "reject"}
  /\ pc = "eps" => Len(word) = 0
  /\ table \subseteq {<<A, s[1], s[2]>> : A \in Nonterminals(m.gram), s \in Spans(Len(word))}
  /\ at \in {<<p, s[1], s[2]>> : p \in Nat \ {0}, s \in Spans(Len(word))}
  /\ changed \in BOOLEAN

TableSound == Held \subseteq Derived(m.gram, word)

\* A sweep comes to span s of production p before it comes to the cell.
Earlier(p, s, cell) ==
  \/ p < cell[1]
  \/ p = cell[1] /\ (s[1] < cell[2] \/ (s[1] = cell[2] /\ s[2] < cell[3]))

\* A sweep that has changed nothing so far found nothing to add.
SweepClosed ==
  ~changed =>
    \A p \in Prods(m.gram) : \A s \in Spans(Len(word)) :
      Earlier(p, s, at) /\ AllDerive(m.gram, word, Held, Rhs(m.gram, p), s[1], s[1] + s[2])
        => <<Lhs(m.gram, p), s[1], s[2]>> \in table

CykParts == CykTyped /\ TableSound /\ SweepClosed /\ DecidesMembership

CykInv == sim = "npda" => CykParts

----------------------------------------------------------------------------
(* The cover table of one right-hand side.                                 *)

LEMMA GrammarParts ==
  ASSUME NEW h \in Grammars
  PROVE  /\ h.nt \in Nat /\ h.start \in Nonterminals(h) /\ Len(h.prods) \in Nat
         /\ \A p \in Prods(h) : Lhs(h, p) \in Nonterminals(h) /\ Rhs(h, p) \in Seq(Nat)
BY GrammarsAssumption, ValidParts

LEMMA Lengths ==
  ASSUME NEW h \in Grammars, NEW x \in GrammarWords(h)
  PROVE  Len(x) \in Nat /\ x \in Seq(Nat)
BY WordsAssumption

\* A span stands for one fact.
LEMMA HeldExact ==
  ASSUME CykTyped, NEW A, NEW from \in Int, NEW span \in Int
  PROVE  <<A, from, from + span>> \in Held <=> <<A, from, span>> \in table
<1>1. \A e \in table : e = <<e[1], e[2], e[3]>> /\ e[2] \in Nat /\ e[3] \in Nat
  BY DEF CykTyped, Spans
<1>2. ASSUME <<A, from, from + span>> \in Held PROVE <<A, from, span>> \in table
  <2>1. PICK e \in table : <<A, from, from + span>> = <<e[1], e[2], e[2] + e[3]>>
    BY <1>2 DEF Held
  <2>2. e[1] = A /\ e[2] = from /\ from + span = from + e[3]
    BY <2>1
  <2>3. e[3] = span
    BY <1>1, <2>2
  <2>4. QED
    BY <1>1, <2>2, <2>3
<1>3. ASSUME <<A, from, span>> \in table PROVE <<A, from, from + span>> \in Held
  BY <1>3 DEF Held
<1>4. QED
  BY <1>2, <1>3

LEMMA HeldRuns ==
  ASSUME CykTyped
  PROVE  \A A, a, b : <<A, a, b>> \in Held => a <= b
<1> SUFFICES ASSUME NEW A, NEW a, NEW b, <<A, a, b>> \in Held PROVE a <= b
  OBVIOUS
<1>1. PICK e \in table : <<A, a, b>> = <<e[1], e[2], e[2] + e[3]>>
  BY DEF Held
<1>2. e[2] \in Nat /\ e[3] \in Nat
  BY DEF CykTyped, Spans
<1>3. a = e[2] /\ b = e[2] + e[3]
  BY <1>1
<1>4. QED
  BY <1>2, <1>3

LEMMA SymbolCoversExact ==
  ASSUME CykTyped, NEW s \in Nat, NEW from \in Nat, NEW span \in Nat, from + span <= Len(word)
  PROVE  Npda!SymbolCovers(s, from, span)
           <=> Derives(m.gram, word, Held, s, from, from + span)
<1>1. Len(word) \in Nat
  BY Lengths DEF CykTyped
<1>2. Npda!SymbolCovers(s, from, span) <=>
        IF IsTerminal(m.gram, s)
        THEN span = 1 /\ from < Len(word) /\ word[from + 1] = TerminalId(m.gram, s)
        ELSE <<s, from, span>> \in table
  BY DEF Npda!SymbolCovers, Npda!n, Npda!IsTerminal, Npda!TerminalId, IsTerminal, TerminalId
<1>3. CASE IsTerminal(m.gram, s)
  <2>1. (span = 1 /\ from < Len(word)) <=> from + span = from + 1
    BY <1>1
  <2>2. QED
    BY <1>2, <1>3, <2>1 DEF Derives
<1>4. CASE ~IsTerminal(m.gram, s)
  BY <1>2, <1>4, HeldExact DEF Derives
<1>5. QED
  BY <1>3, <1>4

\* The local table of Covers, that of rhs[m] first.
CoverRow(rhs, from, span, t, later) ==
  {pos \in 0..span : \E d \in 0..(span - pos) :
     pos + d \in later /\ Npda!SymbolCovers(rhs[t], from + pos, d)}
IsCover(rhs, from, span, cover) ==
  cover = [t \in 1..(Len(rhs) + 1) |->
             IF t = Len(rhs) + 1 THEN {span} ELSE CoverRow(rhs, from, span, t, cover[t + 1])]
HasCover(rhs, from, span) == \E cover : IsCover(rhs, from, span, cover)

LEMMA CoverExists ==
  ASSUME NEW rhs, Len(rhs) \in Nat, NEW from, NEW span \in Nat
  PROVE  HasCover(rhs, from, span)
<1> DEFINE len == Len(rhs)
           S == SUBSET (0..span)
           last == {span}
           step == [x \in Nat \X S |-> CoverRow(rhs, from, span, len - x[1], x[2])]
<1>1. last \in S /\ len \in Nat
  OBVIOUS
<1>2. step \in [Nat \X S -> S]
  BY DEF CoverRow
<1>3. PICK h : h \in [Nat -> S] /\ h[0] = last /\ \A k \in Nat : h[k + 1] = step[<<k, h[k]>>]
  <2> HIDE DEF S, last, step
  <2>1. HasRecursive(S, last, step)
    BY <1>1, <1>2, Recursion
  <2>2. QED
    BY <2>1 DEF HasRecursive, Recursive
<1>4. \A k \in Nat : h[k + 1] = CoverRow(rhs, from, span, len - k, h[k])
  BY <1>3
<1> DEFINE cover == [t \in 1..(len + 1) |-> h[(len + 1) - t]]
<1> HIDE DEF len, S, step
<1>5. ASSUME NEW t \in 1..(len + 1)
      PROVE  cover[t] = IF t = len + 1 THEN {span} ELSE CoverRow(rhs, from, span, t, cover[t + 1])
  <2>1. CASE t = len + 1
    <3>1. (len + 1) - t = 0
      BY <1>1, <2>1
    <3>2. QED
      BY <1>3, <2>1, <3>1
  <2>2. CASE t # len + 1
    <3>1. /\ len - t \in Nat /\ (len - t) + 1 = (len + 1) - t /\ len - (len - t) = t
          /\ t + 1 \in 1..(len + 1) /\ (len + 1) - (t + 1) = len - t
      BY <1>1, <2>2
    <3>2. cover[t] = h[(len - t) + 1] /\ cover[t + 1] = h[len - t]
      BY <3>1
    <3>3. h[(len - t) + 1] = CoverRow(rhs, from, span, t, h[len - t])
      BY <1>4, <3>1
    <3>4. QED
      BY <2>2, <3>2, <3>3
  <2>3. QED
    BY <2>1, <2>2
<1>6. cover = [t \in 1..(len + 1) |->
                 IF t = len + 1 THEN {span} ELSE CoverRow(rhs, from, span, t, cover[t + 1])]
  BY <1>5
<1>7. IsCover(rhs, from, span, cover)
  BY <1>6 DEF IsCover, len
<1>8. QED
  <2> HIDE DEF cover
  <2>1. QED
    BY <1>7 DEF HasCover

LEMMA CoverChosen ==
  ASSUME NEW rhs, Len(rhs) \in Nat, NEW from, NEW span \in Nat
  PROVE  \E cover : /\ IsCover(rhs, from, span, cover)
                    /\ Npda!Covers(rhs, from, span) <=> 0 \in cover[1]
<1> DEFINE chosen == CHOOSE cover : IsCover(rhs, from, span, cover)
<1>1. IsCover(rhs, from, span, chosen)
  BY CoverExists DEF HasCover
<1>2. Npda!Covers(rhs, from, span) <=> 0 \in chosen[1]
  BY DEF Npda!Covers, IsCover, CoverRow
<1>3. QED
  BY <1>1, <1>2

\* The partition table decides whether the symbols of rhs, one after the
\* other, cover the span.
LEMMA CoversExact ==
  ASSUME CykTyped, NEW rhs \in Seq(Nat),
         NEW from \in Nat, NEW span \in Nat, from + span <= Len(word)
  PROVE  Npda!Covers(rhs, from, span)
           <=> AllDerive(m.gram, word, Held, rhs, from, from + span)
<1> DEFINE len == Len(rhs)
           to == from + span
<1>0. len \in Nat /\ to \in Nat /\ from <= to /\ Len(word) \in Nat
  BY Lengths DEF CykTyped
<1>1. PICK cover : /\ IsCover(rhs, from, span, cover)
                   /\ Npda!Covers(rhs, from, span) <=> 0 \in cover[1]
  BY <1>0, CoverChosen
<1> DEFINE ends == [t \in 1..(len + 1) |-> {from + pos : pos \in cover[t]}]
<1>2. cover[len + 1] = {span}
  BY <1>0, <1>1 DEF IsCover
<1>3. \A t \in 1..len : cover[t] = CoverRow(rhs, from, span, t, cover[t + 1])
  <2> SUFFICES ASSUME NEW t \in 1..len
               PROVE  cover[t] = CoverRow(rhs, from, span, t, cover[t + 1])
    OBVIOUS
  <2>1. t \in 1..(len + 1) /\ t # len + 1
    BY <1>0
  <2>2. cover[t] = IF t = len + 1 THEN {span} ELSE CoverRow(rhs, from, span, t, cover[t + 1])
    BY <1>1, <2>1 DEF IsCover
  <2>3. QED
    BY <2>1, <2>2
<1>4. \A t \in 1..(len + 1) : cover[t] \subseteq 0..span
  <2> SUFFICES ASSUME NEW t \in 1..(len + 1) PROVE cover[t] \subseteq 0..span
    OBVIOUS
  <2>1. CASE t = len + 1
    BY <1>2, <2>1
  <2>2. CASE t # len + 1
    <3>1. t \in 1..len
      BY <1>0, <2>2
    <3>2. QED
      BY <1>3, <3>1 DEF CoverRow
  <2>3. QED
    BY <2>1, <2>2
<1> HIDE DEF len
<1>5. \A t \in 1..(len + 1) : \A a \in from..to : a \in ends[t] <=> a - from \in cover[t]
  <2> SUFFICES ASSUME NEW t \in 1..(len + 1), NEW a \in from..to
               PROVE  a \in ends[t] <=> a - from \in cover[t]
    OBVIOUS
  <2>1. ends[t] = {from + pos : pos \in cover[t]}
    OBVIOUS
  <2>2. from + (a - from) = a
    BY <1>0
  <2>3. \A pos \in cover[t] : pos \in Int /\ (from + pos = a => pos = a - from)
    BY <1>0, <1>4
  <2>4. QED
    BY <2>1, <2>2, <2>3
<1>6. ends[len + 1] = {to}
  BY <1>0, <1>2
<1> HIDE DEF ends
<1>7. ASSUME NEW t \in 1..len, NEW a \in from..to
      PROVE  a \in ends[t] <=>
               \E b \in a..to : b \in ends[t + 1]
                                /\ Derives(m.gram, word, Held, rhs[t], a, b)
  <2> DEFINE pos == a - from
  <2>1. /\ t \in 1..(len + 1) /\ t + 1 \in 1..(len + 1) /\ pos \in 0..span
        /\ a \in Nat /\ from + pos = a /\ rhs[t] \in Nat
    BY <1>0 DEF len
  <2>2. a \in ends[t] <=>
          \E d \in 0..(span - pos) :
             pos + d \in cover[t + 1] /\ Npda!SymbolCovers(rhs[t], from + pos, d)
    BY <1>3, <1>5, <2>1 DEF CoverRow
  <2> HIDE DEF pos
  <2>3. ASSUME NEW d \in 0..(span - pos)
        PROVE  /\ d \in Nat /\ a + d \in a..to /\ a + d \in from..to /\ a + d <= Len(word)
               /\ (a + d) - from = pos + d
    BY <1>0, <2>1
  <2>4. ASSUME NEW d \in 0..(span - pos)
        PROVE  /\ pos + d \in cover[t + 1] <=> a + d \in ends[t + 1]
               /\ Npda!SymbolCovers(rhs[t], from + pos, d)
                    <=> Derives(m.gram, word, Held, rhs[t], a, a + d)
    <3>1. pos + d \in cover[t + 1] <=> a + d \in ends[t + 1]
      BY <1>5, <2>1, <2>3
    <3>2. Npda!SymbolCovers(rhs[t], a, d) <=> Derives(m.gram, word, Held, rhs[t], a, a + d)
      BY <2>1, <2>3, SymbolCoversExact
    <3>3. QED
      BY <2>1, <3>1, <3>2
  <2>5. ASSUME NEW b \in a..to
        PROVE  b - a \in 0..(span - pos) /\ a + (b - a) = b
    BY <1>0, <2>1 DEF pos
  <2>6. ASSUME a \in ends[t]
        PROVE  \E b \in a..to : b \in ends[t + 1] /\ Derives(m.gram, word, Held, rhs[t], a, b)
    <3>1. PICK d \in 0..(span - pos) :
            pos + d \in cover[t + 1] /\ Npda!SymbolCovers(rhs[t], from + pos, d)
      BY <2>2, <2>6
    <3>2. QED
      BY <2>3, <2>4, <3>1
  <2>7. ASSUME NEW b \in a..to, b \in ends[t + 1], Derives(m.gram, word, Held, rhs[t], a, b)
        PROVE  a \in ends[t]
    <3>1. b - a \in 0..(span - pos) /\ a + (b - a) = b
      BY <2>5
    <3>2. pos + (b - a) \in cover[t + 1] /\ Npda!SymbolCovers(rhs[t], from + pos, b - a)
      BY <2>4, <2>7, <3>1
    <3>3. QED
      BY <2>2, <3>1, <3>2
  <2>8. QED
    BY <2>6, <2>7
<1>8. from \in ends[1] <=> AllDerive(m.gram, word, Held, rhs, from, to)
  <2>1. /\ \A A, a, b : <<A, a, b>> \in Held => a <= b
        /\ ends[Len(rhs) + 1] = {to}
        /\ Len(rhs) \in Nat
        /\ \A t \in 1..Len(rhs) : \A a \in from..to :
             a \in ends[t] <=>
               \E b \in a..to : b \in ends[t + 1]
                                /\ Derives(m.gram, word, Held, rhs[t], a, b)
    BY <1>0, <1>6, <1>7, HeldRuns DEF len
  <2> HIDE DEF to
  <2>2. QED
    BY <1>0, <2>1, CutsFromTheBack
<1>9. from \in ends[1] <=> 0 \in cover[1]
  <2>1. 1 \in 1..(len + 1) /\ from \in from..to /\ from - from = 0
    BY <1>0
  <2>2. QED
    BY <1>5, <2>1
<1>10. QED
  BY <1>1, <1>8, <1>9

\* A right-hand side of symbols that all vanish derives the empty word.
LEMMA AllEpsExact ==
  ASSUME CykTyped, Len(word) = 0, NEW rhs \in Seq(Nat)
  PROVE  Npda!AllEps(rhs) <=> AllDerive(m.gram, word, Held, rhs, 0, 0)
<1> DEFINE len == Len(rhs)
           zero == [u \in 0..len |-> 0]
<1>0. len \in Nat /\ DOMAIN rhs = 1..len /\ 0..0 = {0}
  OBVIOUS
<1>1. \A t \in 1..len : Derives(m.gram, word, Held, rhs[t], 0, 0) <=> <<rhs[t], 0, 0>> \in table
  <2> SUFFICES ASSUME NEW t \in 1..len
               PROVE  Derives(m.gram, word, Held, rhs[t], 0, 0) <=> <<rhs[t], 0, 0>> \in table
    OBVIOUS
  <2>1. m.gram.nt \in Nat /\ rhs[t] \in Nat
    BY GrammarParts DEF CykTyped
  <2>2. <<rhs[t], 0, 0>> \in Held <=> <<rhs[t], 0, 0>> \in table
    <3>1. 0 + 0 = 0
      OBVIOUS
    <3>2. QED
      BY <3>1, HeldExact
  <2>3. IsTerminal(m.gram, rhs[t]) => <<rhs[t], 0, 0>> \notin table
    BY <2>1 DEF CykTyped, IsTerminal, Nonterminals
  <2>4. QED
    BY <2>2, <2>3 DEF Derives
<1>2. Npda!AllEps(rhs) <=> \A t \in 1..len : <<rhs[t], 0, 0>> \in table
  BY <1>0 DEF Npda!AllEps
<1> HIDE DEF len
<1>3. ASSUME Npda!AllEps(rhs) PROVE AllDerive(m.gram, word, Held, rhs, 0, 0)
  <2>1. zero \in [0..len -> 0..0] /\ zero[0] = 0 /\ zero[len] = 0
    BY <1>0
  <2>2. \A t \in 1..len : zero[t - 1] = 0 /\ zero[t] = 0
    BY <1>0
  <2> HIDE DEF zero
  <2>3. QED
    BY <1>1, <1>2, <1>3, <2>1, <2>2 DEF AllDerive, len
<1>4. ASSUME AllDerive(m.gram, word, Held, rhs, 0, 0) PROVE Npda!AllEps(rhs)
  <2>1. PICK cut \in [0..len -> 0..0] :
          \A t \in 1..len : Derives(m.gram, word, Held, rhs[t], cut[t - 1], cut[t])
    BY <1>4 DEF AllDerive, len
  <2>2. \A t \in 1..len : cut[t - 1] = 0 /\ cut[t] = 0
    BY <1>0
  <2>3. QED
    BY <1>1, <1>2, <2>1, <2>2
<1>5. QED
  BY <1>3, <1>4

----------------------------------------------------------------------------
(* Every step.                                                             *)

\* The cell after `at` is the next one of the sweep, production by production.
LEMMA CellAfter ==
  ASSUME CykTyped
  PROVE  /\ Npda!NextCell \in {<<p, s[1], s[2]>> : p \in Nat \ {0}, s \in Spans(Len(word))}
         /\ \A p \in Nat : \A s \in Spans(Len(word)) :
              Earlier(p, s, Npda!NextCell) <=> Earlier(p, s, at) \/ <<p, s[1], s[2]>> = at
<1> DEFINE len == Len(word)
<1>0. len \in Nat
  BY Lengths DEF CykTyped
<1>1. PICK p0 \in Nat \ {0}, s0 \in Spans(len) : at = <<p0, s0[1], s0[2]>>
  BY DEF CykTyped
<1>2. /\ at[1] = p0 /\ at[2] = s0[1] /\ at[3] = s0[2]
      /\ s0[1] \in 0..len /\ s0[2] \in 0..len /\ s0[1] + s0[2] <= len
  BY <1>1 DEF Spans
<1>3. Npda!NextCell = IF at[3] < len - at[2] THEN <<at[1], at[2], at[3] + 1>>
                      ELSE IF at[2] < len THEN <<at[1], at[2] + 1, 0>> ELSE <<at[1] + 1, 0, 0>>
  BY DEF Npda!NextCell, Npda!n
<1> HIDE DEF len
<1>4. Npda!NextCell \in {<<p, s[1], s[2]>> : p \in Nat \ {0}, s \in Spans(len)}
  <2>1. CASE at[3] < len - at[2]
    <3>1. Npda!NextCell = <<p0, s0[1], s0[2] + 1>>
      BY <1>2, <1>3, <2>1
    <3>2. <<s0[1], s0[2] + 1>> \in Spans(len)
      BY <1>0, <1>2, <2>1 DEF Spans
    <3>3. QED
      BY <3>1, <3>2
  <2>2. CASE ~(at[3] < len - at[2]) /\ at[2] < len
    <3>1. Npda!NextCell = <<p0, s0[1] + 1, 0>>
      BY <1>2, <1>3, <2>2
    <3>2. <<s0[1] + 1, 0>> \in Spans(len)
      BY <1>0, <1>2, <2>2 DEF Spans
    <3>3. QED
      BY <3>1, <3>2
  <2>3. CASE ~(at[3] < len - at[2]) /\ ~(at[2] < len)
    <3>1. Npda!NextCell = <<p0 + 1, 0, 0>>
      BY <1>2, <1>3, <2>3
    <3>2. <<0, 0>> \in Spans(len) /\ p0 + 1 \in Nat \ {0}
      BY <1>0, <1>2, <2>3 DEF Spans
    <3>3. QED
      BY <3>1, <3>2
  <2>4. QED
    BY <2>1, <2>2, <2>3
<1>5. ASSUME NEW p \in Nat, NEW s \in Spans(len)
      PROVE  Earlier(p, s, Npda!NextCell) <=> Earlier(p, s, at) \/ <<p, s[1], s[2]>> = at
  <2> DEFINE at2 == Npda!NextCell
  <2>1. s[1] \in 0..len /\ s[2] \in 0..len /\ s[1] + s[2] <= len
    BY DEF Spans
  <2>2. <<p, s[1], s[2]>> = at <=> p = p0 /\ s[1] = s0[1] /\ s[2] = s0[2]
    BY <1>1
  <2>3. Earlier(p, s, at)
          <=> p < p0 \/ (p = p0 /\ (s[1] < s0[1] \/ (s[1] = s0[1] /\ s[2] < s0[2])))
    BY <1>2 DEF Earlier
  <2> DEFINE a == s[1]
             b == s[2]
             a0 == s0[1]
             b0 == s0[2]
  <2>4. /\ a \in 0..len /\ b \in 0..len /\ a + b <= len
        /\ a0 \in 0..len /\ b0 \in 0..len /\ a0 + b0 <= len
    BY <1>2, <2>1
  <2>9. /\ Earlier(p, s, at2) <=> (p < at2[1] \/ (p = at2[1] /\ (a < at2[2] \/ (a = at2[2] /\ b < at2[3]))))
        /\ at2 = IF at[3] < len - at[2] THEN <<at[1], at[2], at[3] + 1>>
                 ELSE IF at[2] < len THEN <<at[1], at[2] + 1, 0>> ELSE <<at[1] + 1, 0, 0>>
    BY <1>3 DEF Earlier
  <2>10. Earlier(p, s, at) \/ <<p, s[1], s[2]>> = at
           <=> (p < p0 \/ (p = p0 /\ (a < a0 \/ (a = a0 /\ b < b0)))) \/ (p = p0 /\ a = a0 /\ b = b0)
    BY <2>2, <2>3
  <2> HIDE DEF a, b, a0, b0, at2
  <2>5. CASE at[3] < len - at[2]
    <3>1. at2[1] = p0 /\ at2[2] = a0 /\ at2[3] = b0 + 1
      BY <1>2, <2>9, <2>5 DEF a0, b0
    <3>2. (p < p0 \/ (p = p0 /\ (a < a0 \/ (a = a0 /\ b < b0 + 1))))
            <=> (p < p0 \/ (p = p0 /\ (a < a0 \/ (a = a0 /\ b < b0)))) \/ (p = p0 /\ a = a0 /\ b = b0)
      BY <2>4
    <3>3. QED
      BY <2>9, <2>10, <3>1, <3>2 DEF at2
  <2>6. CASE ~(at[3] < len - at[2]) /\ at[2] < len
    <3>1. at2[1] = p0 /\ at2[2] = a0 + 1 /\ at2[3] = 0
      BY <1>2, <2>9, <2>6 DEF a0, b0
    <3>2. b0 = len - a0
      BY <1>0, <1>2, <2>6 DEF a0, b0
    <3>3. (p < p0 \/ (p = p0 /\ (a < a0 + 1 \/ (a = a0 + 1 /\ b < 0))))
            <=> (p < p0 \/ (p = p0 /\ (a < a0 \/ (a = a0 /\ b < b0)))) \/ (p = p0 /\ a = a0 /\ b = b0)
      BY <1>0, <2>4, <3>2
    <3>4. QED
      BY <2>9, <2>10, <3>1, <3>3 DEF at2
  <2>7. CASE ~(at[3] < len - at[2]) /\ ~(at[2] < len)
    <3>1. at2[1] = p0 + 1 /\ at2[2] = 0 /\ at2[3] = 0
      BY <1>2, <2>9, <2>7 DEF a0, b0
    <3>2. a0 = len /\ b0 = 0
      BY <1>0, <1>2, <2>4, <2>7 DEF a0, b0
    <3>3. (p < p0 + 1 \/ (p = p0 + 1 /\ (a < 0 \/ (a = 0 /\ b < 0))))
            <=> (p < p0 \/ (p = p0 /\ (a < a0 \/ (a = a0 /\ b < b0)))) \/ (p = p0 /\ a = a0 /\ b = b0)
      BY <1>0, <2>4, <3>2
    <3>4. QED
      BY <2>9, <2>10, <3>1, <3>3 DEF at2
  <2>8. QED
    BY <2>5, <2>6, <2>7 DEF at2
<1>6. QED
  BY <1>4, <1>5 DEF len

\* A production whose symbols the table covers gives a derivable span.
LEMMA CoveredDerived ==
  ASSUME CykTyped, TableSound, NEW p \in Prods(m.gram), NEW s \in Spans(Len(word)),
         AllDerive(m.gram, word, Held, Rhs(m.gram, p), s[1], s[1] + s[2])
  PROVE  <<Lhs(m.gram, p), s[1], s[1] + s[2]>> \in Derived(m.gram, word)
<1> DEFINE A == Lhs(m.gram, p)
           from == s[1]
           to == s[1] + s[2]
<1>1. m.gram.nt \in Nat /\ A \in Nonterminals(m.gram) /\ Len(word) \in Nat
  BY GrammarParts, Lengths DEF CykTyped
<1>2. from \in 0..Len(word) /\ to \in 0..Len(word) /\ from <= to
  BY <1>1 DEF Spans
<1>3. /\ <<A, from, to>>[1] = A /\ <<A, from, to>>[2] = from /\ <<A, from, to>>[3] = to
      /\ <<A, from, to>> \in Facts(m.gram, word)
  BY <1>1, <1>2 DEF Facts
<1> HIDE DEF A, from, to
<1>4. <<A, from, to>> \in OneTaller(m.gram, word, Held)
  <2>1. AllDerive(m.gram, word, Held, Rhs(m.gram, p), from, to) /\ Lhs(m.gram, p) = A
    BY DEF A, from, to
  <2>2. QED
    BY <1>3, <2>1 DEF OneTaller
<1>5. OneTaller(m.gram, word, Held) \subseteq OneTaller(m.gram, word, Derived(m.gram, word))
  BY TallerMonotone DEF TableSound
<1>6. <<A, from, to>> \in Derived(m.gram, word)
  BY <1>1, <1>4, <1>5, DerivedClosed
<1>7. QED
  BY <1>6 DEF A, from, to

\* A whole sweep that changed nothing leaves the table complete.
LEMMA SweptComplete ==
  ASSUME CykTyped, TableSound, SweepClosed, ~changed, at[1] \notin Prods(m.gram)
  PROVE  <<m.gram.start, 0, Len(word)>> \in table <=> InLanguage(m.gram, word)
<1>1. /\ m.gram.nt \in Nat /\ Len(m.gram.prods) \in Nat /\ Len(word) \in Nat
  BY GrammarParts, Lengths DEF CykTyped
<1>2. \A p \in Prods(m.gram) : p < at[1]
  <2>1. at[1] \in Nat \ {0}
    BY DEF CykTyped
  <2>2. QED
    BY <1>1, <2>1 DEF Prods
<1>3. OneTaller(m.gram, word, Held) \subseteq Held
  <2> SUFFICES ASSUME NEW f \in OneTaller(m.gram, word, Held) PROVE f \in Held
    OBVIOUS
  <2>1. f \in Facts(m.gram, word)
    BY DEF OneTaller
  <2>2. PICK p \in Prods(m.gram) :
          Lhs(m.gram, p) = f[1] /\ AllDerive(m.gram, word, Held, Rhs(m.gram, p), f[2], f[3])
    BY DEF OneTaller
  <2>3. /\ f = <<f[1], f[2], f[3]>>
        /\ f[2] \in 0..Len(word) /\ f[3] \in 0..Len(word) /\ f[2] <= f[3]
    BY <2>1 DEF Facts
  <2> DEFINE s == <<f[2], f[3] - f[2]>>
  <2>4. s[1] = f[2] /\ s[2] = f[3] - f[2] /\ s \in Spans(Len(word)) /\ s[1] + s[2] = f[3]
    BY <1>1, <2>3 DEF Spans
  <2> HIDE DEF s
  <2>5. <<Lhs(m.gram, p), s[1], s[2]>> \in table
    BY <1>2, <2>2, <2>4 DEF SweepClosed, Earlier
  <2>6. <<Lhs(m.gram, p), s[1], s[1] + s[2]>> \in Held
    <3>1. s[1] \in Int /\ s[2] \in Int
      BY <2>3, <2>4
    <3>2. QED
      BY <2>5, <3>1, HeldExact
  <2>7. QED
    BY <2>2, <2>3, <2>4, <2>6
<1>4. Held = Derived(m.gram, word)
  BY <1>1, <1>3, DerivedLeast DEF TableSound
<1>5. <<m.gram.start, 0, Len(word)>> \in table <=> <<m.gram.start, 0, Len(word)>> \in Held
  <2> DEFINE start == m.gram.start
             len == Len(word)
  <2>1. len \in Int /\ 0 \in Int /\ 0 + len = len
    BY <1>1
  <2> HIDE DEF start, len
  <2>2. <<start, 0, 0 + len>> \in Held <=> <<start, 0, len>> \in table
    BY <2>1, HeldExact
  <2>3. QED
    BY <2>1, <2>2 DEF start, len
<1>6. QED
  BY <1>4, <1>5 DEF InLanguage

LEMMA CykInitially ==
  ASSUME CallNpda
  PROVE  CykParts
<1>1. /\ m.gram \in Grammars /\ word \in GrammarWords(m.gram)
      /\ pc = (IF word = <<>> THEN "eps" ELSE "sweep")
      /\ table = {} /\ at = <<1, 0, 0>> /\ changed = FALSE
  BY DEF CallNpda, Npda!Init, Npda!FirstCell
<1>2. Len(word) \in Nat
  BY <1>1, Lengths
<1>3. CykTyped
  <2>1. <<0, 0>> \in Spans(Len(word))
    BY <1>2 DEF Spans
  <2>2. at \in {<<p, s[1], s[2]>> : p \in Nat \ {0}, s \in Spans(Len(word))}
    <3>1. at = <<1, <<0, 0>>[1], <<0, 0>>[2]>> /\ 1 \in Nat \ {0}
      BY <1>1
    <3>2. QED
      BY <2>1, <3>1
  <2>3. pc \in {"sweep", "eps", "accept", "reject"} /\ (pc = "eps" => Len(word) = 0)
    BY <1>1
  <2>4. table \subseteq {<<A, s[1], s[2]>> : A \in Nonterminals(m.gram), s \in Spans(Len(word))}
    BY <1>1
  <2>5. m.gram \in Grammars /\ word \in GrammarWords(m.gram) /\ changed \in BOOLEAN
    BY <1>1
  <2> QED
    BY <2>2, <2>3, <2>4, <2>5 DEF CykTyped
<1>4. TableSound
  BY <1>1 DEF TableSound, Held
<1>5. SweepClosed
  <2> SUFFICES ASSUME NEW p \in Prods(m.gram), NEW s \in Spans(Len(word)), Earlier(p, s, at)
               PROVE  FALSE
    BY DEF SweepClosed
  <2>1. p \in Nat /\ p >= 1
    BY <1>1, GrammarParts DEF Prods
  <2>2. s[1] >= 0 /\ s[2] >= 0 /\ s[1] \in Int /\ s[2] \in Int
    BY <1>2 DEF Spans
  <2>3. at[1] = 1 /\ at[2] = 0 /\ at[3] = 0
    BY <1>1
  <2>4. QED
    BY <2>1, <2>2, <2>3 DEF Earlier
<1>6. DecidesMembership
  BY <1>1 DEF DecidesMembership, Verdict
<1>7. QED
  BY <1>3, <1>4, <1>5, <1>6 DEF CykParts

\* A cell that gains its entry: sound because the facts are closed.
LEMMA EntryAdded ==
  ASSUME CykTyped, TableSound, m' = m, word' = word,
         NEW p \in Prods(m.gram), NEW s \in Spans(Len(word)),
         AllDerive(m.gram, word, Held, Rhs(m.gram, p), s[1], s[1] + s[2]),
         table' = table \cup {<<Lhs(m.gram, p), s[1], s[2]>>}
  PROVE  /\ TableSound'
         /\ table' \subseteq {<<A, t[1], t[2]>> : A \in Nonterminals(m.gram), t \in Spans(Len(word))}
<1>1. <<Lhs(m.gram, p), s[1], s[1] + s[2]>> \in Derived(m.gram, word)
  BY CoveredDerived
<1>2. Lhs(m.gram, p) \in Nonterminals(m.gram)
  BY GrammarParts DEF CykTyped
<1>3. Held' \subseteq Held \cup {<<Lhs(m.gram, p), s[1], s[1] + s[2]>>}
  <2>1. Held' = {<<e[1], e[2], e[2] + e[3]>> : e \in table'}
    BY DEF Held
  <2>2. QED
    BY <2>1 DEF Held
<1>4. TableSound'
  <2>1. Held' \subseteq Derived(m.gram, word)
    BY <1>1, <1>3 DEF TableSound
  <2>2. QED
    BY <2>1 DEF TableSound
<1>5. QED
  BY <1>2, <1>4 DEF CykTyped

LEMMA DeriveKeeps ==
  ASSUME CykParts, m' = m, word' = word, Npda!Derive
  PROVE  CykParts'
<1> USE DEF CykParts
<1>1. /\ pc = "sweep" /\ at[1] \in Prods(m.gram) /\ pc' = pc /\ changed' = TRUE
      /\ Npda!Covers(Rhs(m.gram, at[1]), at[2], at[3])
      /\ table' = table \cup {<<Lhs(m.gram, at[1]), at[2], at[3]>>} /\ at' = Npda!NextCell
  BY DEF Npda!Derive, Npda!InSweep, Npda!Entry, Npda!Prods, Npda!Rhs, Npda!Lhs, Prods, Rhs, Lhs
<1>2. PICK p \in Prods(m.gram), s \in Spans(Len(word)) : at = <<p, s[1], s[2]>>
  BY <1>1 DEF CykTyped
<1>3. AllDerive(m.gram, word, Held, Rhs(m.gram, p), s[1], s[1] + s[2])
  <2>1. Rhs(m.gram, p) \in Seq(Nat) /\ Len(word) \in Nat
    BY GrammarParts, Lengths DEF CykTyped
  <2>2. s[1] \in Nat /\ s[2] \in Nat /\ s[1] + s[2] <= Len(word)
    BY <2>1 DEF Spans
  <2>3. Npda!Covers(Rhs(m.gram, p), s[1], s[2])
    BY <1>1, <1>2
  <2>4. QED
    BY <2>1, <2>2, <2>3, CoversExact
<1>4. /\ TableSound'
      /\ table' \subseteq {<<A, t[1], t[2]>> : A \in Nonterminals(m.gram), t \in Spans(Len(word))}
  BY <1>1, <1>2, <1>3, EntryAdded
<1>5. CykTyped'
  <2>1. at' \in {<<k, t[1], t[2]>> : k \in Nat \ {0}, t \in Spans(Len(word))}
    BY <1>1, CellAfter
  <2>2. changed' \in BOOLEAN /\ pc' = "sweep"
    BY <1>1
  <2>3. QED
    BY <1>4, <2>1, <2>2 DEF CykTyped
<1>6. SweepClosed'
  BY <1>1 DEF SweepClosed
<1>7. DecidesMembership'
  BY <1>1 DEF DecidesMembership, Verdict
<1>8. QED
  BY <1>4, <1>5, <1>6, <1>7

LEMMA PassKeeps ==
  ASSUME CykParts, m' = m, word' = word, Npda!Pass
  PROVE  CykParts'
<1> USE DEF CykParts
<1>1. /\ pc = "sweep" /\ at[1] \in Prods(m.gram) /\ pc' = pc /\ changed' = changed
      /\ \/ <<Lhs(m.gram, at[1]), at[2], at[3]>> \in table
         \/ ~Npda!Covers(Rhs(m.gram, at[1]), at[2], at[3])
      /\ table' = table /\ at' = Npda!NextCell
  BY DEF Npda!Pass, Npda!InSweep, Npda!Entry, Npda!Prods, Npda!Rhs, Npda!Lhs, Prods, Rhs, Lhs
<1>2. TableSound'
  BY <1>1 DEF TableSound, Held
<1>3. CykTyped'
  <2>1. at' \in {<<k, t[1], t[2]>> : k \in Nat \ {0}, t \in Spans(Len(word))}
    BY <1>1, CellAfter
  <2>2. QED
    BY <1>1, <2>1 DEF CykTyped
<1>4. SweepClosed'
  <2>1. ASSUME ~changed, NEW p \in Prods(m.gram), NEW s \in Spans(Len(word)), Earlier(p, s, at'),
               AllDerive(m.gram, word, Held, Rhs(m.gram, p), s[1], s[1] + s[2])
        PROVE  <<Lhs(m.gram, p), s[1], s[2]>> \in table
    <3>1. Earlier(p, s, at) \/ <<p, s[1], s[2]>> = at
      <4>1. p \in Nat
        BY GrammarParts DEF CykTyped, Prods
      <4>2. Earlier(p, s, Npda!NextCell)
        BY <1>1, <2>1
      <4>3. QED
        BY <4>1, <4>2, CellAfter
    <3>2. CASE Earlier(p, s, at)
      BY <2>1, <3>2 DEF SweepClosed
    <3>3. CASE <<p, s[1], s[2]>> = at
      <4>1. at[1] = p /\ at[2] = s[1] /\ at[3] = s[2]
        BY <3>3
      <4>2. Rhs(m.gram, p) \in Seq(Nat) /\ Len(word) \in Nat
        BY GrammarParts, Lengths DEF CykTyped
      <4>3. s[1] \in Nat /\ s[2] \in Nat /\ s[1] + s[2] <= Len(word)
        BY <4>2 DEF Spans
      <4>4. Npda!Covers(Rhs(m.gram, p), s[1], s[2])
        BY <2>1, <4>2, <4>3, CoversExact
      <4>5. QED
        BY <1>1, <4>1, <4>4
    <3>4. QED
      BY <3>1, <3>2, <3>3
  <2>2. Held' = Held
    BY <1>1 DEF Held
  <2>3. QED
    BY <1>1, <2>1, <2>2 DEF SweepClosed
<1>5. DecidesMembership'
  BY <1>1 DEF DecidesMembership, Verdict
<1>6. QED
  BY <1>2, <1>3, <1>4, <1>5

\* A sweep begins with nothing seen.
LEMMA NothingEarlier ==
  ASSUME CykTyped, NEW p \in Prods(m.gram), NEW s \in Spans(Len(word))
  PROVE  ~Earlier(p, s, <<1, 0, 0>>)
<1>1. Len(word) \in Nat
  BY Lengths DEF CykTyped
<1>2. p \in Nat /\ p >= 1
  BY GrammarParts DEF CykTyped, Prods
<1>3. s[1] >= 0 /\ s[2] >= 0 /\ s[1] \in Int /\ s[2] \in Int
  BY <1>1 DEF Spans
<1>4. QED
  BY <1>2, <1>3 DEF Earlier

LEMMA FirstCellTyped ==
  ASSUME CykTyped
  PROVE  <<1, 0, 0>> \in {<<k, t[1], t[2]>> : k \in Nat \ {0}, t \in Spans(Len(word))}
<1>1. <<1, 0, 0>> = <<1, <<0, 0>>[1], <<0, 0>>[2]>> /\ <<0, 0>> \in Spans(Len(word))
  BY Lengths DEF CykTyped, Spans
<1>2. QED
  BY <1>1

LEMMA SweepAgainKeeps ==
  ASSUME CykParts, m' = m, word' = word, pc' = pc, table' = table, at' = <<1, 0, 0>>,
         changed' = FALSE, pc \in {"sweep", "eps"}
  PROVE  CykParts'
<1> USE DEF CykParts
<1>1. TableSound'
  BY DEF TableSound, Held
<1>2. CykTyped'
  <2>1. at' \in {<<k, t[1], t[2]>> : k \in Nat \ {0}, t \in Spans(Len(word))}
    BY FirstCellTyped
  <2>2. changed' \in BOOLEAN
    OBVIOUS
  <2>3. QED
    BY <2>1, <2>2 DEF CykTyped
<1>3. SweepClosed'
  BY NothingEarlier DEF SweepClosed
<1>4. DecidesMembership'
  BY DEF DecidesMembership, Verdict
<1>5. QED
  BY <1>1, <1>2, <1>3, <1>4

LEMMA DecideKeeps ==
  ASSUME CykParts, m' = m, word' = word, UNCHANGED <<table, at, changed>>,
         at[1] \notin Prods(m.gram), ~changed,
         pc' = IF <<m.gram.start, 0, Len(word)>> \in table THEN "accept" ELSE "reject"
  PROVE  CykParts'
<1> USE DEF CykParts
<1>1. <<m.gram.start, 0, Len(word)>> \in table <=> InLanguage(m.gram, word)
  BY SweptComplete
<1>2. TableSound' /\ SweepClosed'
  <2>1. Held' = Held
    BY DEF Held
  <2>2. QED
    BY <2>1 DEF TableSound, SweepClosed
<1>3. CykTyped'
  BY DEF CykTyped
<1>4. DecidesMembership'
  BY <1>1 DEF DecidesMembership
<1>5. QED
  BY <1>2, <1>3, <1>4

LEMMA EpsProductionKeeps ==
  ASSUME CykParts, m' = m, word' = word, Npda!EpsProduction
  PROVE  CykParts'
<1> USE DEF CykParts
<1> DEFINE entry == <<Lhs(m.gram, at[1]), 0, 0>>
           covered == Npda!AllEps(Rhs(m.gram, at[1]))
           new == IF covered THEN {entry} \ table ELSE {}
<1>1. /\ pc = "eps" /\ at[1] \in Prods(m.gram) /\ pc' = pc
      /\ table' = table \cup new /\ changed' = (changed \/ new # {})
      /\ at' = <<at[1] + 1, 0, 0>>
  BY DEF Npda!EpsProduction, Npda!InEps, Npda!Prods, Npda!Rhs, Npda!Lhs, Prods, Rhs, Lhs
<1>2. Len(word) = 0 /\ at[1] \in Nat \ {0}
  BY <1>1 DEF CykTyped
<1>3. \A s \in Spans(Len(word)) : s[1] = 0 /\ s[2] = 0
  BY <1>2 DEF Spans
<1>4. Rhs(m.gram, at[1]) \in Seq(Nat) /\ Lhs(m.gram, at[1]) \in Nonterminals(m.gram)
  BY <1>1, GrammarParts DEF CykTyped
<1>5. covered <=> AllDerive(m.gram, word, Held, Rhs(m.gram, at[1]), 0, 0)
  BY <1>2, <1>4, AllEpsExact
<1>6. TableSound' /\ table' \subseteq {<<A, t[1], t[2]>> : A \in Nonterminals(m.gram), t \in Spans(Len(word))}
  <2>1. CASE covered
    <3> DEFINE s == <<0, 0>>
    <3>1. s \in Spans(Len(word)) /\ s[1] = 0 /\ s[2] = 0 /\ s[1] + s[2] = 0
      BY <1>2 DEF Spans
    <3>2. table' = table \cup {entry}
      BY <1>1, <2>1
    <3> HIDE DEF s, covered, new
    <3>3. QED
      BY <1>1, <1>5, <2>1, <3>1, <3>2, EntryAdded
  <2>2. CASE ~covered
    <3>1. table' = table
      BY <1>1, <2>2
    <3>2. QED
      BY <3>1 DEF TableSound, Held, CykTyped
  <2>3. QED
    BY <2>1, <2>2
<1>7. CykTyped'
  <2>1. at' \in {<<k, t[1], t[2]>> : k \in Nat \ {0}, t \in Spans(Len(word))}
    <3>1. <<0, 0>> \in Spans(Len(word)) /\ at[1] + 1 \in Nat \ {0}
      BY <1>2 DEF Spans
    <3>2. at' = <<at[1] + 1, <<0, 0>>[1], <<0, 0>>[2]>>
      BY <1>1
    <3>3. QED
      BY <3>1, <3>2
  <2>2. changed' \in BOOLEAN /\ pc' = "eps"
    BY <1>1 DEF CykTyped
  <2> HIDE DEF new
  <2>3. QED
    BY <1>2, <1>6, <2>1, <2>2 DEF CykTyped
<1>8. SweepClosed'
  <2> SUFFICES ASSUME ~changed' PROVE SweepClosed'
    BY DEF SweepClosed
  <2>1. ~changed /\ new = {} /\ table' = table /\ (covered => entry \in table)
    BY <1>1
  <2> HIDE DEF new, entry
  <2>2. Held' = Held
    BY <2>1 DEF Held
  <2>3. ASSUME NEW p \in Prods(m.gram), NEW s \in Spans(Len(word)), Earlier(p, s, at'),
               AllDerive(m.gram, word, Held, Rhs(m.gram, p), s[1], s[1] + s[2])
        PROVE  <<Lhs(m.gram, p), s[1], s[2]>> \in table
    <3>1. at'[1] = at[1] + 1 /\ at'[2] = 0 /\ at'[3] = 0 /\ s[1] = 0 /\ s[2] = 0 /\ s[1] + s[2] = 0
      BY <1>1, <1>3
    <3>2. p \in Nat
      BY GrammarParts DEF CykTyped, Prods
    <3>3. p < at[1] \/ p = at[1]
      BY <1>2, <2>3, <3>1, <3>2 DEF Earlier
    <3>4. CASE p < at[1]
      BY <2>1, <2>3, <3>4 DEF SweepClosed, Earlier
    <3>5. CASE p = at[1]
      <4>1. covered
        BY <1>5, <2>3, <3>1, <3>5
      <4>2. QED
        BY <2>1, <3>1, <3>5, <4>1 DEF entry
    <3>6. QED
      BY <3>3, <3>4, <3>5
  <2>4. QED
    BY <2>1, <2>2, <2>3 DEF SweepClosed
<1>9. DecidesMembership'
  BY <1>1 DEF DecidesMembership, Verdict
<1>10. QED
  BY <1>6, <1>7, <1>8, <1>9

LEMMA CykNext ==
  ASSUME CykParts, m' = m, word' = word, Npda!Next
  PROVE  CykParts'
<1>1. CASE Npda!Derive
  BY <1>1, DeriveKeeps
<1>2. CASE Npda!Pass
  BY <1>2, PassKeeps
<1>3. CASE Npda!SweepAgain
  <2>1. /\ pc = "sweep" /\ pc' = pc /\ table' = table
        /\ at' = <<1, 0, 0>> /\ changed' = FALSE
    BY <1>3 DEF Npda!SweepAgain, Npda!FirstCell
  <2>2. QED
    BY <2>1, SweepAgainKeeps
<1>4. CASE Npda!Decide
  <2>1. /\ at[1] \notin Prods(m.gram) /\ ~changed /\ UNCHANGED <<table, at, changed>>
        /\ pc' = IF <<m.gram.start, 0, Len(word)>> \in table THEN "accept" ELSE "reject"
    BY <1>4 DEF Npda!Decide, Npda!Prods, Npda!n, Prods
  <2>2. QED
    BY <2>1, DecideKeeps
<1>5. CASE Npda!EpsProduction
  BY <1>5, EpsProductionKeeps
<1>6. CASE Npda!EpsEnd
  <2>1. /\ pc = "eps" /\ at[1] \notin Prods(m.gram) /\ table' = table
        /\ IF changed THEN at' = <<1, 0, 0>> /\ changed' = FALSE /\ pc' = pc
           ELSE /\ pc' = IF <<m.gram.start, 0, 0>> \in table THEN "accept" ELSE "reject"
                /\ UNCHANGED <<at, changed>>
    BY <1>6 DEF Npda!EpsEnd, Npda!FirstCell, Npda!Prods, Prods
  <2>2. Len(word) = 0
    BY <2>1 DEF CykParts, CykTyped
  <2>3. CASE changed
    BY <2>1, <2>3, SweepAgainKeeps
  <2>4. CASE ~changed
    <3>1. /\ UNCHANGED <<table, at, changed>>
          /\ pc' = IF <<m.gram.start, 0, Len(word)>> \in table THEN "accept" ELSE "reject"
      BY <2>1, <2>2, <2>4
    <3>2. QED
      BY <2>1, <2>4, <3>1, DecideKeeps
  <2>5. QED
    BY <2>3, <2>4
<1>7. QED
  BY <1>1, <1>2, <1>3, <1>4, <1>5, <1>6 DEF Npda!Next

\* The answer of accepts_npda is membership in the grammar's language, for
\* every valid grammar and every word of terminal ids: a span the table gains
\* is derivable, and the sweep that adds nothing has missed nothing, whatever
\* the order of the cells and of the productions.
THEOREM MembershipDecided == Spec => []DecidesMembership
<1>1. Init => CykInv
  <2> SUFFICES ASSUME Init, sim = "npda" PROVE CykParts
    BY DEF CykInv, CykParts
  <2>1. CallNpda
    BY DEF Init, CallDpda
  <2>2. QED
    BY <2>1, CykInitially
<1>2. CykInv /\ [Next]_vars => CykInv'
  <2> SUFFICES ASSUME CykInv, [Next]_vars, sim' = "npda" PROVE CykParts'
    BY DEF CykInv, CykParts
  <2>1. sim = "npda" /\ m' = m /\ word' = word /\ CykParts
    BY DEF Next, vars, CykInv, CykParts
  <2>2. CASE Next
    <3>1. Npda!Next
      BY <2>1, <2>2 DEF Next
    <3>2. QED
      BY <2>1, <3>1, CykNext
  <2>3. CASE UNCHANGED vars
    <3>1. UNCHANGED <<sim, m, word, pc, table, at, changed>> /\ Held' = Held
      BY <2>3 DEF vars, Held
    <3>2. CykTyped' /\ DecidesMembership'
      BY <2>1, <3>1 DEF CykParts, CykTyped, DecidesMembership, Verdict
    <3>3. TableSound' /\ SweepClosed'
      BY <2>1, <3>1 DEF CykParts, TableSound, SweepClosed
    <3>4. QED
      BY <3>2, <3>3 DEF CykParts
  <2>4. QED
    BY <2>2, <2>3
<1>3. CykInv => DecidesMembership
  BY DEF CykInv, CykParts, DecidesMembership
<1>4. QED
  BY <1>1, <1>2, <1>3, PTL DEF Spec
=============================================================================
