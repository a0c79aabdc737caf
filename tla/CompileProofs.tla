--------------------------- MODULE CompileProofs ---------------------------
(***************************************************************************)
(* compile() for every grammar.  First: its numbering is exact, it pushes  *)
(* no transition that validate_bounds would refuse, the table it returns   *)
(* is sorted and indexed exactly, and its provenance is right.  The        *)
(* invariant behind the first two is the type invariant with the stages of *)
(* the compilation: nothing is emitted before the numbering is complete    *)
(* and the grammar has passed its checks, so the bounds of what is emitted *)
(* do not move any more.  Each later section adds an invariant of its own. *)
(*                                                                         *)
(* Then: the table is the network of the grammar.  The loops are a walk    *)
(* over the moves of the network in the order of a cursor: a move has its  *)
(* turn at one cursor position, and the array lists the records of the     *)
(* moves that had theirs, each once.  The sort moves records from one      *)
(* array to another.                                                       *)
(***************************************************************************)
EXTENDS RtnCompile, SharedLemmas

Errors == Verdicts \ {"Ok"}

\* The transitions that validate_bounds lets pass.
Usable == {t \in Transition : InBounds(t)}

DotIdsTyped ==
  /\ dotIds \in Seq(UNION {[0..n -> Nat] : n \in Nat})
  /\ Len(dotIds) <= Len(g.prods)
  /\ \A p \in 1..Len(dotIds) : dotIds[p] \in [0..Len(Rhs(g, p)) -> Nat]

Typed ==
  /\ pc \in Phases \cup Verdicts
  /\ g \in Grammars
  /\ nextDot \in Nat /\ DotBase <= nextDot
  /\ at \in Nat \X Nat
  /\ DOMAIN prov \subseteq Nat /\ \A q \in DOMAIN prov : prov[q] \in Nat

Stages ==
  /\ pc \in {"validate", "number"} \cup Errors => trans = <<>> /\ todo = <<>>
  /\ pc \notin {"validate"} \cup Errors => Validate(g) = "Ok"
  /\ pc \in {"emit", "provenance", "sort", "index", "Ok"} => Len(dotIds) = Len(g.prods)

TableUsable == trans \in Seq(Usable) /\ todo \in Seq(Usable)

IInv == DotIdsTyped /\ Typed /\ Stages /\ TableUsable /\ Numbering

----------------------------------------------------------------------------
(* Grammars.                                                               *)

\* What a grammar is made of.
LEMMA GrammarFacts ==
  ASSUME NEW h, IsCfg(h)
  PROVE  /\ h.nt \in Nat /\ h.tm \in Nat /\ h.start \in Nat
         /\ h.prods \in Seq(Production) /\ Len(h.prods) \in Nat /\ Prods(h) = 1..Len(h.prods)
         /\ \A p \in Prods(h) :
              /\ Lhs(h, p) \in Nat /\ Rhs(h, p) \in Seq(Nat) /\ Len(Rhs(h, p)) \in Nat
              /\ \A i \in 1..Len(Rhs(h, p)) : Rhs(h, p)[i] \in Nat
<1>1. /\ h.nt \in Nat /\ h.tm \in Nat /\ h.start \in Nat /\ h.prods \in Seq(Production)
  BY DEF IsCfg
<1>2. Len(h.prods) \in Nat /\ \A p \in 1..Len(h.prods) : h.prods[p] \in Production
  BY <1>1, LenProperties, ElementOfSeq
<1>3. ASSUME NEW p \in Prods(h)
      PROVE  /\ Lhs(h, p) \in Nat /\ Rhs(h, p) \in Seq(Nat) /\ Len(Rhs(h, p)) \in Nat
             /\ \A i \in 1..Len(Rhs(h, p)) : Rhs(h, p)[i] \in Nat
  <2>1. Lhs(h, p) \in Nat /\ Rhs(h, p) \in Seq(Nat)
    BY <1>2, <1>3 DEF Prods, Lhs, Rhs, Production
  <2>2. QED
    BY <2>1, LenProperties, ElementOfSeq
<1>4. QED
  BY <1>1, <1>2, <1>3 DEF Prods

\* The symbols of a grammar that the checks let pass.
LEMMA ValidSymbols ==
  ASSUME NEW h, IsCfg(h), Validate(h) = "Ok"
  PROVE  /\ h.start < h.nt
         /\ \A p \in Prods(h) :
              /\ Lhs(h, p) < h.nt
              /\ \A i \in 1..Len(Rhs(h, p)) : Rhs(h, p)[i] < h.nt + h.tm
<1>1. /\ ~\E p \in Prods(h) : Lhs(h, p) >= h.nt
      /\ ~\E p \in Prods(h) : \E i \in 1..Len(Rhs(h, p)) : Rhs(h, p)[i] >= h.nt + h.tm
      /\ ~(h.start >= h.nt)
  BY Zenon DEF Validate
<1>2. QED
  BY <1>1, GrammarFacts

----------------------------------------------------------------------------
(* Sequences.                                                              *)

\* Sequences of usable transitions put together, and taken apart.
LEMMA Sequences ==
  ASSUME NEW S
  PROVE  /\ \A s, t \in Seq(S) : s \o t \in Seq(S)
         /\ \A n \in Nat : \A f \in [1..n -> S] : f \in Seq(S)
         /\ \A s \in Seq(S) : s # <<>> => Head(s) \in S /\ Tail(s) \in Seq(S)
         /\ <<>> \in Seq(S)
<1>1. \A s, t \in Seq(S) : s \o t \in Seq(S)
  BY ConcatProperties
<1>2. \A n \in Nat : \A f \in [1..n -> S] : f \in Seq(S)
  BY SeqDef
<1>3. \A s \in Seq(S) : s # <<>> => Head(s) \in S /\ Tail(s) \in Seq(S)
  BY HeadTailProperties
<1>4. QED
  BY <1>1, <1>2, <1>3, EmptySeq

LEMMA InsertedTyped ==
  ASSUME NEW S, NEW s \in Seq(S), NEW t \in S, NEW k \in 1..(Len(s) + 1)
  PROVE  Inserted(s, t, k) \in Seq(S)
<1>1. Len(s) \in Nat /\ \A j \in 1..Len(s) : s[j] \in S
  BY LenProperties, ElementOfSeq
<1>2. \A j \in 1..(Len(s) + 1) : (IF j < k THEN s[j] ELSE IF j = k THEN t ELSE s[j - 1]) \in S
  BY <1>1
<1>3. Inserted(s, t, k) \in [1..(Len(s) + 1) -> S]
  BY <1>2 DEF Inserted
<1>4. QED
  BY <1>1, <1>3, Sequences

----------------------------------------------------------------------------
(* Numbers of states and stack symbols.                                    *)

LEMMA Counts ==
  ASSUME Typed
  PROVE  /\ IsCfg(g) /\ g.nt \in Nat /\ g.tm \in Nat /\ g.start \in Nat
         /\ DotBase \in Nat /\ DotBase = 1 + 2 * g.nt
         /\ NumStates \in Nat /\ NumStates = nextDot /\ NumStates >= DotBase
         /\ NumStackSyms \in Nat /\ NumStackSyms = 1 + (nextDot - DotBase) /\ NumStackSyms >= 1
<1>1. IsCfg(g)
  BY GrammarsAssumption DEF Typed
<1>2. g.nt \in Nat /\ g.tm \in Nat /\ g.start \in Nat
  BY <1>1, GrammarFacts
<1>3. DotBase \in Nat /\ DotBase = 1 + 2 * g.nt
  BY <1>2 DEF DotBase
<1>4. QED
  BY <1>1, <1>2, <1>3 DEF Typed, NumStates, NumStackSyms

StateIds == 0..(NumStates - 1)
StackIds == 0..(NumStackSyms - 1)

\* A move between known states, on known symbols.
LEMMA MoveUsable ==
  ASSUME Typed,
         NEW q \in StateIds, NEW a \in 0..g.tm, NEW top \in StackIds, NEW next_q \in StateIds,
         NEW push \in Seq(StackIds)
  PROVE  Move(q, a, top, next_q, push) \in Usable
<1> DEFINE t == Move(q, a, top, next_q, push)
<1>0. NumStates \in Nat /\ NumStackSyms \in Nat /\ g.tm \in Nat
  BY Counts
<1>1. StateIds \subseteq Nat /\ StackIds \subseteq Nat
  BY <1>0 DEF StateIds, StackIds
<1>2. push \in Seq(Nat) /\ DOMAIN push = 1..Len(push) /\ \A j \in 1..Len(push) : push[j] \in StackIds
  BY <1>1, SeqMonotonic, LenProperties, ElementOfSeq
<1>3. t \in Transition
  BY <1>0, <1>1, <1>2 DEF Move, Transition
<1>4. InBounds(t)
  BY <1>0, <1>2 DEF Move, InBounds, StateIds, StackIds
<1>5. QED
  BY <1>3, <1>4 DEF Usable

\* The loops that leave the stack as it is.
LEMMA KeepingUsable ==
  ASSUME Typed, NEW q \in StateIds, NEW a \in 0..g.tm, NEW next_q \in StateIds
  PROVE  ForEveryTop(q, a, next_q, Keep) \in Seq(Usable)
<1>1. ASSUME NEW n \in 1..NumStackSyms
      PROVE  Move(q, a, n - 1, next_q, <<n - 1>>) \in Usable
  <2>1. n - 1 \in StackIds
    BY Counts DEF StackIds
  <2>2. <<n - 1>> \in Seq(StackIds)
    BY <2>1
  <2>3. QED
    BY <2>1, <2>2, MoveUsable
<1>2. ForEveryTop(q, a, next_q, Keep) = [n \in 1..NumStackSyms |-> Move(q, a, n - 1, next_q, <<n - 1>>)]
  BY DEF ForEveryTop, Keep
<1>3. ForEveryTop(q, a, next_q, Keep) \in [1..NumStackSyms -> Usable]
  BY <1>1, <1>2
<1>4. QED
  BY <1>3, Counts, Sequences

\* The ids of a production's dots are those of states.
LEMMA DotsAreStates ==
  ASSUME DotIdsTyped, Typed, Numbering, Len(dotIds) = Len(g.prods), NEW p \in Prods(g)
  PROVE  \A i \in 0..Len(Rhs(g, p)) :
           dotIds[p][i] \in StateIds /\ dotIds[p][i] \in DotBase..(nextDot - 1)
<1>1. p \in 1..Len(dotIds) /\ Len(Rhs(g, p)) \in Nat
  BY Counts, GrammarFacts
<1>2. p \in DOMAIN dotIds /\ DOMAIN dotIds[p] = 0..Len(Rhs(g, p))
  BY <1>1, LenProperties DEF DotIdsTyped
<1>3. \A i \in 0..Len(Rhs(g, p)) : dotIds[p][i] \in DotBase..(nextDot - 1)
  BY <1>2 DEF Numbering
<1>4. NumStates = nextDot /\ nextDot \in Nat /\ DotBase \in Nat
  BY Counts DEF Typed
<1>5. QED
  BY <1>3, <1>4 DEF StateIds

----------------------------------------------------------------------------
(* The invariant is inductive.                                             *)

LEMMA InitInvariant == Init => IInv
<1> SUFFICES ASSUME Init PROVE IInv
  OBVIOUS
<1>1. IsCfg(g) /\ g.nt \in Nat
  BY GrammarsAssumption, GrammarFacts DEF Init
<1>2. Typed
  BY <1>1 DEF Init, Typed, Phases, DotBase, EmptyTable
<1>3. dotIds = <<>> /\ Len(dotIds) = 0 /\ DOMAIN dotIds = {}
  BY DEF Init
<1>4. DotIdsTyped
  BY <1>1, <1>3, GrammarFacts, EmptySeq DEF DotIdsTyped
<1>5. Stages
  BY DEF Init, Stages, Errors, Verdicts
<1>6. TableUsable
  BY EmptySeq DEF Init, TableUsable
<1>7. Numbering
  BY <1>1, <1>3 DEF Init, Numbering, DotBase
<1>8. QED
  BY <1>2, <1>4, <1>5, <1>6, <1>7 DEF IInv

\* What does not change as long as the numbering does not.
LEMMA NumberingKept ==
  ASSUME DotIdsTyped, Numbering, UNCHANGED <<g, dotIds, nextDot>>
  PROVE  /\ DotIdsTyped' /\ Numbering'
         /\ Usable' = Usable /\ NumStates' = NumStates /\ NumStackSyms' = NumStackSyms
         /\ DotBase' = DotBase
<1>1. DotIdsTyped'
  BY DEF DotIdsTyped
<1>2. Numbering'
  BY DEF Numbering, DotBase
<1>3. /\ Usable' = Usable /\ NumStates' = NumStates /\ NumStackSyms' = NumStackSyms
      /\ DotBase' = DotBase
  BY DEF Usable, InBounds, NumStates, NumStackSyms, DotBase
<1>4. QED
  BY <1>1, <1>2, <1>3

LEMMA CheckGrammarStep == IInv /\ CheckGrammar => IInv'
<1> SUFFICES ASSUME IInv, CheckGrammar PROVE IInv'
  OBVIOUS
<1>1. DotIdsTyped' /\ Numbering' /\ Usable' = Usable
  BY NumberingKept DEF IInv, CheckGrammar
<1>2. pc = "validate" /\ trans = <<>> /\ todo = <<>>
  BY DEF IInv, Stages, CheckGrammar
<1>3. pc' \in {"number"} \cup Errors /\ (pc' \notin Errors => Validate(g) = "Ok")
  BY DEF CheckGrammar, Validate, Errors, Verdicts
<1>4. Typed'
  BY <1>3 DEF IInv, Typed, CheckGrammar, Phases, Errors, DotBase
<1>5. Stages'
  <2>1. trans' = <<>> /\ todo' = <<>> /\ g' = g
    BY <1>2 DEF CheckGrammar
  <2>2. Errors = {"TerminalOnLhs", "UndefinedSymbol", "StartIsTerminal"}
    BY DEF Errors, Verdicts
  <2>3. QED
    BY <1>3, <2>1, <2>2 DEF Stages
<1>6. TableUsable'
  BY <1>1 DEF IInv, TableUsable, CheckGrammar
<1>7. QED
  BY <1>1, <1>4, <1>5, <1>6 DEF IInv

\* The ids that one production's dots get are new, and none is skipped.
LEMMA NumberProductionStep == IInv /\ NumberProduction => IInv'
<1> SUFFICES ASSUME IInv, NumberProduction PROVE IInv'
  OBVIOUS
<1> DEFINE p == Len(dotIds) + 1
           m == Len(Rhs(g, p))
           ids == [i \in 0..m |-> nextDot + i]
           Rows == UNION {[0..n -> Nat] : n \in Nat}
<1>1. /\ IsCfg(g) /\ nextDot \in Nat /\ DotBase \in Nat /\ DotBase <= nextDot
      /\ dotIds \in Seq(Rows) /\ Len(dotIds) \in Nat
  BY Counts, LenProperties DEF IInv, Typed, DotIdsTyped
<1>2. p \in Prods(g) /\ m \in Nat
  BY <1>1, GrammarFacts DEF NumberProduction
<1>3. /\ dotIds' = Append(dotIds, ids) /\ nextDot' = nextDot + m + 1
      /\ UNCHANGED <<pc, g, at, trans, todo, prov, offsets, counts>>
      /\ pc = "number" /\ Len(dotIds) < Len(g.prods)
  BY DEF NumberProduction
<1>4. ids \in [0..m -> Nat] /\ ids \in Rows
  BY <1>1, <1>2
<1> HIDE DEF ids, m, Rows
<1>5. /\ dotIds' \in Seq(Rows) /\ Len(dotIds') = p
      /\ DOMAIN dotIds = 1..Len(dotIds) /\ DOMAIN dotIds' = 1..p
      /\ \A r \in 1..Len(dotIds) : dotIds'[r] = dotIds[r]
      /\ dotIds'[p] = ids
  <2>1. /\ Append(dotIds, ids) \in Seq(Rows) /\ Len(Append(dotIds, ids)) = Len(dotIds) + 1
        /\ \A r \in 1..Len(dotIds) : Append(dotIds, ids)[r] = dotIds[r]
        /\ Append(dotIds, ids)[Len(dotIds) + 1] = ids
    BY <1>1, <1>4, AppendProperties
  <2>2. DOMAIN dotIds = 1..Len(dotIds) /\ DOMAIN Append(dotIds, ids) = 1..(Len(dotIds) + 1)
    BY <1>1, <2>1, LenProperties
  <2>3. QED
    BY <1>3, <2>1, <2>2
<1>6. \A r \in 1..p : r = p \/ r \in 1..Len(dotIds)
  BY <1>1
<1>7. DotIdsTyped'
  <2>1. \A r \in 1..Len(dotIds) : dotIds[r] \in [0..Len(Rhs(g, r)) -> Nat]
    BY DEF IInv, DotIdsTyped
  <2>2. \A r \in 1..p : dotIds'[r] \in [0..Len(Rhs(g, r)) -> Nat]
    BY <1>4, <1>5, <1>6, <2>1 DEF m
  <2>3. Len(dotIds') <= Len(g.prods)
    BY <1>1, <1>3, <1>5, GrammarFacts
  <2>4. QED
    BY <1>3, <1>5, <2>2, <2>3 DEF DotIdsTyped, Rows
<1>8. Typed'
  BY <1>1, <1>2, <1>3 DEF IInv, Typed, DotBase
<1>9. trans = <<>> /\ todo = <<>>
  BY <1>3 DEF IInv, Stages
<1>10. Stages'
  <2>1. pc' = "number" /\ trans' = <<>> /\ todo' = <<>> /\ Validate(g') = Validate(g)
    BY <1>3, <1>9
  <2>2. Validate(g) = "Ok"
    BY <1>3 DEF IInv, Stages, Errors, Verdicts
  <2>3. QED
    BY <2>1, <2>2 DEF Stages
<1>11. TableUsable'
  BY <1>3, <1>9, EmptySeq DEF TableUsable
<1>12. /\ DOMAIN ids = 0..m /\ \A i \in 0..m : ids[i] = nextDot + i
  BY DEF ids
<1>13. DotBase' = DotBase
  BY <1>3 DEF DotBase
<1>14. \A r \in 1..p : \A i \in DOMAIN dotIds'[r] :
         /\ dotIds'[r][i] \in DotBase..(nextDot + m)
         /\ r = p <=> dotIds'[r][i] >= nextDot
  <2>1. ASSUME NEW i \in 0..m PROVE ids[i] \in DotBase..(nextDot + m) /\ ids[i] >= nextDot
    BY <1>1, <1>2, <1>12
  <2>2. ASSUME NEW r \in 1..Len(dotIds), NEW i \in DOMAIN dotIds[r]
        PROVE  /\ dotIds[r][i] \in DotBase..(nextDot + m) /\ ~(dotIds[r][i] >= nextDot) /\ r # p
    <3>1. dotIds[r][i] \in DotBase..(nextDot - 1)
      BY <1>5 DEF IInv, Numbering
    <3>2. QED
      BY <1>1, <1>2, <3>1
  <2>3. QED
    BY <1>5, <1>6, <1>12, <2>1, <2>2
<1>15. \A q, r \in 1..p : \A i \in DOMAIN dotIds'[q] : \A j \in DOMAIN dotIds'[r] :
         dotIds'[q][i] = dotIds'[r][j] => q = r /\ i = j
  <2> SUFFICES ASSUME NEW q \in 1..p, NEW r \in 1..p, NEW i \in DOMAIN dotIds'[q],
                      NEW j \in DOMAIN dotIds'[r], dotIds'[q][i] = dotIds'[r][j]
               PROVE  q = r /\ i = j
    OBVIOUS
  <2>1. q = p <=> r = p
    BY <1>14
  <2>2. CASE q = p
    <3>1. ids[i] = ids[j] /\ i \in 0..m /\ j \in 0..m
      BY <1>5, <1>12, <2>1, <2>2
    <3>2. nextDot + i = nextDot + j /\ i \in Nat /\ j \in Nat
      BY <1>2, <1>12, <3>1
    <3>3. i = j
      BY <1>1, <3>2
    <3>4. QED
      BY <2>1, <2>2, <3>3
  <2>3. CASE q # p
    <3>1. q \in 1..Len(dotIds) /\ r \in 1..Len(dotIds)
      BY <1>6, <2>1, <2>3
    <3>2. QED
      BY <1>5, <3>1 DEF IInv, Numbering
  <2>4. QED
    BY <2>2, <2>3
<1>16. \A k \in DotBase..(nextDot + m) : \E r \in 1..p : \E i \in DOMAIN dotIds'[r] : dotIds'[r][i] = k
  <2> SUFFICES ASSUME NEW k \in DotBase..(nextDot + m)
               PROVE  \E r \in 1..p : \E i \in DOMAIN dotIds'[r] : dotIds'[r][i] = k
    OBVIOUS
  <2>1. CASE k >= nextDot
    <3>1. k - nextDot \in 0..m /\ nextDot + (k - nextDot) = k
      BY <1>1, <1>2, <2>1
    <3>2. ids[k - nextDot] = k /\ p \in 1..p
      BY <1>1, <1>12, <3>1
    <3>3. QED
      BY <1>5, <1>12, <3>1, <3>2
  <2>2. CASE ~(k >= nextDot)
    <3>1. k \in DotBase..(nextDot - 1)
      BY <1>1, <1>2, <2>2
    <3>2. PICK r \in DOMAIN dotIds : \E i \in DOMAIN dotIds[r] : dotIds[r][i] = k
      BY <3>1 DEF IInv, Numbering
    <3>3. r \in 1..p /\ dotIds'[r] = dotIds[r]
      BY <1>1, <1>5, <3>2
    <3>4. QED
      BY <3>2, <3>3
  <2>3. QED
    BY <2>1, <2>2
<1>17. nextDot' - 1 = nextDot + m
  BY <1>1, <1>2, <1>3
<1>18. Numbering'
  BY <1>5, <1>13, <1>14, <1>15, <1>16, <1>17 DEF Numbering
<1>19. QED
  BY <1>7, <1>8, <1>10, <1>11, <1>18 DEF IInv

After == {"emit", "provenance", "sort", "index", "Ok"}

\* A step after the numbering, which stands.
LEMMA LaterStep ==
  ASSUME IInv, UNCHANGED <<g, dotIds, nextDot>>,
         pc \notin {"validate"} \cup Errors, pc' \in After, Len(dotIds) = Len(g.prods),
         at' \in Nat \X Nat, trans' \in Seq(Usable), todo' \in Seq(Usable),
         DOMAIN prov' \subseteq Nat, \A q \in DOMAIN prov' : prov'[q] \in Nat
  PROVE  IInv'
<1>1. DotIdsTyped' /\ Numbering' /\ Usable' = Usable
  BY NumberingKept DEF IInv
<1>2. Typed'
  BY DEF IInv, Typed, After, Phases, Verdicts, DotBase
<1>3. Stages'
  <2>1. Validate(g') = "Ok" /\ Len(dotIds') = Len(g'.prods)
    BY DEF IInv, Stages
  <2>2. pc' \notin {"validate", "number"} \cup Errors
    BY DEF After, Errors, Verdicts
  <2>3. QED
    BY <2>1, <2>2 DEF Stages
<1>4. TableUsable'
  BY <1>1 DEF TableUsable
<1>5. QED
  BY <1>1, <1>2, <1>3, <1>4 DEF IInv

\* What the emitting loops rely on.
LEMMA EmittingFacts ==
  ASSUME IInv, pc \in After \cup {"number"}
  PROVE  /\ Validate(g) = "Ok" /\ IsCfg(g) /\ pc \notin {"validate"} \cup Errors
         /\ pc \in After => Len(dotIds) = Len(g.prods)
         /\ trans \in Seq(Usable) /\ todo \in Seq(Usable)
         /\ at[1] \in Nat /\ at[2] \in Nat
         /\ DOMAIN prov \subseteq Nat /\ \A q \in DOMAIN prov : prov[q] \in Nat
<1>1. pc \notin {"validate"} \cup Errors
  BY DEF After, Errors, Verdicts
<1>2. Validate(g) = "Ok" /\ (pc \in After => Len(dotIds) = Len(g.prods))
  BY <1>1 DEF IInv, Stages, After
<1>3. IsCfg(g)
  BY Counts DEF IInv
<1>4. QED
  BY <1>1, <1>2, <1>3 DEF IInv, Typed, TableUsable

\* The entry and exit states of a nonterminal.
LEMMA EntriesAreStates ==
  ASSUME Typed, NEW A \in 0..(g.nt - 1)
  PROVE  QIn(A) \in StateIds /\ QOut(A) \in StateIds /\ QStart \in StateIds /\ 0 \in StackIds
<1>1. /\ g.nt \in Nat /\ NumStates \in Nat /\ NumStates >= 1 + 2 * g.nt
      /\ NumStackSyms \in Nat /\ NumStackSyms >= 1
  BY Counts
<1>2. QED
  BY <1>1 DEF QIn, QOut, QStart, StateIds, StackIds

LEMMA EmitStartStep == IInv /\ EmitStart => IInv'
<1> SUFFICES ASSUME IInv, EmitStart PROVE IInv'
  OBVIOUS
<1>1. pc = "number" /\ pc' = "emit" /\ Typed
  BY DEF EmitStart, IInv
<1>2. IsCfg(g) /\ Validate(g) = "Ok" /\ todo \in Seq(Usable)
  BY <1>1, EmittingFacts
<1>3. g.start \in 0..(g.nt - 1) /\ g.tm \in Nat
  BY <1>2, GrammarFacts, ValidSymbols
<1>4. QStart \in StateIds /\ QIn(g.start) \in StateIds /\ 0 \in StackIds /\ Eps(g) \in 0..g.tm
  BY <1>1, <1>3, EntriesAreStates DEF Eps
<1>5. <<0>> \in Seq(StackIds)
  BY <1>4
<1>6. Move(QStart, Eps(g), 0, QIn(g.start), <<0>>) \in Usable
  BY <1>1, <1>4, <1>5, MoveUsable
<1>7. trans' \in Seq(Usable)
  BY <1>6 DEF EmitStart
<1>8. UNCHANGED <<g, dotIds, nextDot, at, todo, prov>> /\ Len(dotIds) = Len(g.prods)
  BY DEF EmitStart
<1>9. at \in Nat \X Nat /\ DOMAIN prov \subseteq Nat /\ \A q \in DOMAIN prov : prov[q] \in Nat
  BY <1>1 DEF Typed
<1>10. pc \notin {"validate"} \cup Errors /\ pc' \in After
  BY <1>1 DEF Errors, Verdicts, After
<1>11. QED
  BY <1>2, <1>7, <1>8, <1>9, <1>10, LaterStep

\* A step of the loops over the productions, which appends usable moves.
LEMMA EmittingStep ==
  ASSUME IInv, NEW p \in Prods(g), NEW i \in Nat, Emitting(p, i),
         NEW moves \in Seq(Usable), trans' = trans \o moves, at' \in Nat \X Nat
  PROVE  IInv'
<1>1. /\ pc = "emit" /\ pc' = "emit" /\ UNCHANGED <<g, dotIds, nextDot, todo, prov>>
      /\ pc \in After
  BY DEF Emitting, After
<1>2. /\ Len(dotIds) = Len(g.prods) /\ pc \notin {"validate"} \cup Errors
      /\ trans \in Seq(Usable) /\ todo \in Seq(Usable)
      /\ DOMAIN prov \subseteq Nat /\ \A q \in DOMAIN prov : prov[q] \in Nat
  BY <1>1, EmittingFacts
<1>3. trans' \in Seq(Usable)
  BY <1>2, Sequences
<1>4. QED
  BY <1>1, <1>2, <1>3, LaterStep

\* What every loop over the productions knows of the one it is at.
LEMMA AtProduction ==
  ASSUME IInv, NEW p \in Prods(g), NEW i, Emitting(p, i)
  PROVE  /\ Typed /\ IsCfg(g) /\ Validate(g) = "Ok" /\ p \in Nat /\ p + 1 \in Nat
         /\ Len(Rhs(g, p)) \in Nat /\ Lhs(g, p) \in 0..(g.nt - 1) /\ Eps(g) \in 0..g.tm
         /\ \A j \in 0..Len(Rhs(g, p)) :
              dotIds[p][j] \in StateIds /\ dotIds[p][j] \in DotBase..(nextDot - 1)
<1>1. pc \in After
  BY DEF Emitting, After
<1>2. Validate(g) = "Ok" /\ IsCfg(g) /\ Len(dotIds) = Len(g.prods) /\ Typed
  BY <1>1, EmittingFacts DEF IInv
<1>3. /\ Len(Rhs(g, p)) \in Nat /\ Lhs(g, p) \in Nat /\ Lhs(g, p) < g.nt /\ g.nt \in Nat /\ g.tm \in Nat
      /\ Prods(g) = 1..Len(g.prods) /\ Len(g.prods) \in Nat
  BY <1>2, GrammarFacts, ValidSymbols
<1>4. p \in Nat /\ p + 1 \in Nat /\ Lhs(g, p) \in 0..(g.nt - 1) /\ Eps(g) \in 0..g.tm
  BY <1>3 DEF Eps
<1>5. QED
  BY <1>2, <1>3, <1>4, DotsAreStates DEF IInv

LEMMA EmitChoiceStep == IInv /\ EmitChoice => IInv'
<1> SUFFICES ASSUME IInv, EmitChoice PROVE IInv'
  OBVIOUS
<1>1. PICK p \in Prods(g) :
        /\ Emitting(p, 0)
        /\ trans' = trans \o ForEveryTop(QIn(Lhs(g, p)), Eps(g), dotIds[p][0], Keep)
        /\ at' = <<p, 1>>
  BY DEF EmitChoice
<1>2. /\ Typed /\ p \in Nat /\ Lhs(g, p) \in 0..(g.nt - 1) /\ Eps(g) \in 0..g.tm
      /\ dotIds[p][0] \in StateIds
  BY <1>1, AtProduction
<1>3. QIn(Lhs(g, p)) \in StateIds
  BY <1>2, EntriesAreStates
<1>4. ForEveryTop(QIn(Lhs(g, p)), Eps(g), dotIds[p][0], Keep) \in Seq(Usable)
  BY <1>2, <1>3, KeepingUsable
<1>5. at' \in Nat \X Nat
  BY <1>1, <1>2
<1>6. QED
  BY <1>1, <1>4, <1>5, EmittingStep

LEMMA EmitTerminalStep == IInv /\ EmitTerminal => IInv'
<1> SUFFICES ASSUME IInv, EmitTerminal PROVE IInv'
  OBVIOUS
<1>0. PICK p \in Prods(g) : \E i \in 1..Len(Rhs(g, p)) :
        /\ Emitting(p, i)
        /\ IsTerminal(g, Rhs(g, p)[i])
        /\ trans' = trans \o ForEveryTop(dotIds[p][i - 1], TerminalId(g, Rhs(g, p)[i]),
                                         dotIds[p][i], Keep)
        /\ at' = <<p, i + 1>>
  BY DEF EmitTerminal
<1>1. PICK i \in 1..Len(Rhs(g, p)) :
        /\ Emitting(p, i)
        /\ IsTerminal(g, Rhs(g, p)[i])
        /\ trans' = trans \o ForEveryTop(dotIds[p][i - 1], TerminalId(g, Rhs(g, p)[i]),
                                         dotIds[p][i], Keep)
        /\ at' = <<p, i + 1>>
  BY <1>0
<1>2. /\ Typed /\ IsCfg(g) /\ Validate(g) = "Ok" /\ p \in Nat /\ Len(Rhs(g, p)) \in Nat
      /\ \A j \in 0..Len(Rhs(g, p)) : dotIds[p][j] \in StateIds
  BY <1>1, AtProduction
<1>3. i \in Nat /\ i + 1 \in Nat /\ i \in 0..Len(Rhs(g, p)) /\ i - 1 \in 0..Len(Rhs(g, p))
  BY <1>2
<1>4. /\ Rhs(g, p)[i] \in Nat /\ Rhs(g, p)[i] < g.nt + g.tm /\ g.nt \in Nat /\ g.tm \in Nat
  BY <1>2, GrammarFacts, ValidSymbols
<1>5. TerminalId(g, Rhs(g, p)[i]) \in 0..g.tm
  BY <1>1, <1>4 DEF IsTerminal, TerminalId
<1>6. ForEveryTop(dotIds[p][i - 1], TerminalId(g, Rhs(g, p)[i]), dotIds[p][i], Keep) \in Seq(Usable)
  BY <1>2, <1>3, <1>5, KeepingUsable
<1>7. at' \in Nat \X Nat
  BY <1>1, <1>2, <1>3
<1>8. QED
  BY <1>1, <1>3, <1>6, <1>7, EmittingStep

\* A call pushes a return address, the number of a dot, which is a symbol.
LEMMA CallsUsable ==
  ASSUME IInv, NEW p \in Prods(g), NEW i \in 1..Len(Rhs(g, p)), Emitting(p, i), ~IsTerminal(g, Rhs(g, p)[i])
  PROVE  [n \in 1..NumStackSyms |->
            Move(dotIds[p][i - 1], Eps(g), n - 1, QIn(Rhs(g, p)[i]), <<RetAddr(p, i), n - 1>>)]
           \in Seq(Usable)
<1>2. /\ Typed /\ IsCfg(g) /\ Validate(g) = "Ok" /\ p \in Nat /\ Len(Rhs(g, p)) \in Nat
      /\ Eps(g) \in 0..g.tm
      /\ \A j \in 0..Len(Rhs(g, p)) : dotIds[p][j] \in StateIds /\ dotIds[p][j] \in DotBase..(nextDot - 1)
  BY AtProduction
<1>3. i \in Nat /\ i + 1 \in Nat /\ i \in 0..Len(Rhs(g, p)) /\ i - 1 \in 0..Len(Rhs(g, p))
  BY <1>2
<1>4. NumStackSyms \in Nat /\ NumStackSyms = 1 + (nextDot - DotBase) /\ nextDot \in Nat /\ DotBase \in Nat
  BY <1>2, Counts DEF Typed
<1>5. RetAddr(p, i) \in StackIds
  <2>1. \A x \in DotBase..(nextDot - 1) : 1 + (x - DotBase) \in 0..(NumStackSyms - 1)
    BY <1>4
  <2>2. dotIds[p][i] \in DotBase..(nextDot - 1)
    BY <1>2, <1>3
  <2>3. QED
    BY <2>1, <2>2 DEF RetAddr, StackIds
<1>6. Rhs(g, p)[i] \in 0..(g.nt - 1)
  <2>1. Rhs(g, p)[i] \in Nat /\ g.nt \in Nat
    BY <1>2, GrammarFacts
  <2>2. QED
    BY <2>1 DEF IsTerminal
<1>7. QIn(Rhs(g, p)[i]) \in StateIds
  BY <1>2, <1>6, EntriesAreStates
<1>8. ASSUME NEW n \in 1..NumStackSyms
      PROVE  Move(dotIds[p][i - 1], Eps(g), n - 1, QIn(Rhs(g, p)[i]), <<RetAddr(p, i), n - 1>>) \in Usable
  <2>1. n - 1 \in StackIds
    BY <1>4 DEF StackIds
  <2>2. <<RetAddr(p, i), n - 1>> \in Seq(StackIds)
    BY <1>5, <2>1
  <2>3. dotIds[p][i - 1] \in StateIds
    BY <1>2, <1>3
  <2>4. QED
    BY <1>2, <1>7, <2>1, <2>2, <2>3, MoveUsable
<1>9. [n \in 1..NumStackSyms |->
         Move(dotIds[p][i - 1], Eps(g), n - 1, QIn(Rhs(g, p)[i]), <<RetAddr(p, i), n - 1>>)]
        \in [1..NumStackSyms -> Usable]
  BY <1>8
<1>10. QED
  BY <1>4, <1>9, Sequences

LEMMA EmitCallStep == IInv /\ EmitCall => IInv'
<1> SUFFICES ASSUME IInv, EmitCall PROVE IInv'
  OBVIOUS
<1>0. PICK p \in Prods(g) : \E i \in 1..Len(Rhs(g, p)) :
        /\ Emitting(p, i)
        /\ ~IsTerminal(g, Rhs(g, p)[i])
        /\ trans' = trans \o [n \in 1..NumStackSyms |->
                      Move(dotIds[p][i - 1], Eps(g), n - 1, QIn(Rhs(g, p)[i]), <<RetAddr(p, i), n - 1>>)]
        /\ at' = <<p, i + 1>>
  BY DEF EmitCall, ForEveryTop
<1>1. PICK i \in 1..Len(Rhs(g, p)) :
        /\ Emitting(p, i)
        /\ ~IsTerminal(g, Rhs(g, p)[i])
        /\ trans' = trans \o [n \in 1..NumStackSyms |->
                      Move(dotIds[p][i - 1], Eps(g), n - 1, QIn(Rhs(g, p)[i]), <<RetAddr(p, i), n - 1>>)]
        /\ at' = <<p, i + 1>>
  BY <1>0
<1> DEFINE moves == [n \in 1..NumStackSyms |->
             Move(dotIds[p][i - 1], Eps(g), n - 1, QIn(Rhs(g, p)[i]), <<RetAddr(p, i), n - 1>>)]
<1>2. moves \in Seq(Usable)
  BY <1>1, CallsUsable
<1>3. p \in Nat /\ i \in Nat /\ i + 1 \in Nat
  BY <1>1, AtProduction
<1>4. at' \in Nat \X Nat /\ trans' = trans \o moves
  BY <1>1, <1>3
<1> HIDE DEF moves
<1>5. QED
  BY <1>1, <1>2, <1>3, <1>4, EmittingStep

LEMMA EmitExitStep == IInv /\ EmitExit => IInv'
<1> SUFFICES ASSUME IInv, EmitExit PROVE IInv'
  OBVIOUS
<1>1. PICK p \in Prods(g) :
        /\ Emitting(p, Len(Rhs(g, p)) + 1)
        /\ trans' = trans \o ForEveryTop(dotIds[p][Len(Rhs(g, p))], Eps(g), QOut(Lhs(g, p)), Keep)
        /\ at' = <<p + 1, 0>>
  BY DEF EmitExit
<1>2. /\ Typed /\ p + 1 \in Nat /\ Len(Rhs(g, p)) \in Nat /\ Lhs(g, p) \in 0..(g.nt - 1)
      /\ Eps(g) \in 0..g.tm /\ \A j \in 0..Len(Rhs(g, p)) : dotIds[p][j] \in StateIds
  BY <1>1, AtProduction
<1>3. /\ QOut(Lhs(g, p)) \in StateIds /\ dotIds[p][Len(Rhs(g, p))] \in StateIds
      /\ Len(Rhs(g, p)) + 1 \in Nat
  BY <1>2, EntriesAreStates
<1>4. ForEveryTop(dotIds[p][Len(Rhs(g, p))], Eps(g), QOut(Lhs(g, p)), Keep) \in Seq(Usable)
  BY <1>2, <1>3, KeepingUsable
<1>5. at' \in Nat \X Nat
  BY <1>1, <1>2
<1>6. QED
  BY <1>1, <1>3, <1>4, <1>5, EmittingStep

LEMMA ReturnsUsable ==
  ASSUME IInv, pc = "emit", at[2] < g.nt
  PROVE  [r \in 1..(NumStackSyms - 1) |-> Move(QOut(at[2]), Eps(g), r, DotBase + (r - 1), <<>>)] \in Seq(Usable)
<1>1. /\ Typed /\ g.nt \in Nat /\ Eps(g) \in 0..g.tm /\ DotBase \in Nat /\ nextDot \in Nat
      /\ NumStackSyms \in Nat /\ NumStackSyms = 1 + (nextDot - DotBase) /\ NumStates = nextDot
      /\ DotBase <= nextDot /\ NumStackSyms - 1 \in Nat
  BY Counts DEF IInv, Typed, Eps
<1>2. QOut(at[2]) \in StateIds
  <2>1. at[2] \in 0..(g.nt - 1)
    BY <1>1, EmittingFacts DEF After
  <2>2. QED
    BY <1>1, <2>1, EntriesAreStates
<1>3. ASSUME NEW r \in 1..(NumStackSyms - 1)
      PROVE  Move(QOut(at[2]), Eps(g), r, DotBase + (r - 1), <<>>) \in Usable
  <2>1. r \in StackIds /\ DotBase + (r - 1) \in StateIds
    BY <1>1 DEF StackIds, StateIds
  <2>2. <<>> \in Seq(StackIds)
    BY EmptySeq
  <2>3. QED
    BY <1>1, <1>2, <2>1, <2>2, MoveUsable
<1>4. [r \in 1..(NumStackSyms - 1) |-> Move(QOut(at[2]), Eps(g), r, DotBase + (r - 1), <<>>)]
        \in [1..(NumStackSyms - 1) -> Usable]
  BY <1>3
<1>5. QED
  BY <1>1, <1>4, Sequences

LEMMA EmitReturnsStep == IInv /\ EmitReturns => IInv'
<1> SUFFICES ASSUME IInv, EmitReturns PROVE IInv'
  OBVIOUS
<1> DEFINE moves == [r \in 1..(NumStackSyms - 1) |-> Move(QOut(at[2]), Eps(g), r, DotBase + (r - 1), <<>>)]
<1>1. /\ pc = "emit" /\ pc' = "emit" /\ at[2] < g.nt /\ at' = <<at[1], at[2] + 1>>
      /\ UNCHANGED <<g, dotIds, nextDot, todo, prov>> /\ trans' = trans \o moves
  BY DEF EmitReturns
<1>2. pc \in After /\ pc' \in After
  BY <1>1 DEF After
<1>3. /\ Len(dotIds) = Len(g.prods) /\ pc \notin {"validate"} \cup Errors
      /\ trans \in Seq(Usable) /\ todo \in Seq(Usable) /\ at[1] \in Nat /\ at[2] \in Nat
      /\ DOMAIN prov \subseteq Nat /\ \A q \in DOMAIN prov : prov[q] \in Nat
  BY <1>2, EmittingFacts
<1>4. moves \in Seq(Usable)
  BY <1>1, ReturnsUsable
<1> HIDE DEF moves
<1>5. trans' \in Seq(Usable)
  BY <1>1, <1>3, <1>4, Sequences
<1>6. at' \in Nat \X Nat
  BY <1>1, <1>3
<1>7. QED
  BY <1>1, <1>2, <1>3, <1>5, <1>6, LaterStep

LEMMA ProvideStep == IInv /\ (ProvideNonterminals \/ ProvideProduction) => IInv'
<1> SUFFICES ASSUME IInv, ProvideNonterminals \/ ProvideProduction PROVE IInv'
  OBVIOUS
<1>1. pc \in After /\ pc' \in After /\ UNCHANGED <<g, dotIds, nextDot, trans, todo>>
  BY DEF ProvideNonterminals, ProvideProduction, After
<1>2. /\ Len(dotIds) = Len(g.prods) /\ pc \notin {"validate"} \cup Errors /\ IsCfg(g)
      /\ trans \in Seq(Usable) /\ todo \in Seq(Usable) /\ at[1] \in Nat /\ at[2] \in Nat
      /\ DOMAIN prov \subseteq Nat /\ \A q \in DOMAIN prov : prov[q] \in Nat
  BY <1>1, EmittingFacts
<1>3. /\ g.nt \in Nat /\ g.start \in Nat /\ NumStates \in Nat /\ DotBase = 1 + 2 * g.nt
  BY Counts DEF IInv
<1>4. CASE ProvideNonterminals
  <2>1. at' = <<1, 0>> /\ DOMAIN prov' = 0..(NumStates - 1)
    BY <1>4 DEF ProvideNonterminals
  <2>2. \A q \in DOMAIN prov' : prov'[q] \in Nat
    BY <1>3, <1>4 DEF ProvideNonterminals, QStart, QIn, QOut
  <2>3. DOMAIN prov' \subseteq Nat /\ at' \in Nat \X Nat
    BY <1>3, <2>1
  <2>4. QED
    BY <1>1, <1>2, <2>2, <2>3, LaterStep
<1>5. CASE ProvideProduction
  <2>1. at' = <<at[1] + 1, 0>> /\ DOMAIN prov' = DOMAIN prov /\ at[1] \in Prods(g)
    BY <1>5 DEF ProvideProduction
  <2>2. Lhs(g, at[1]) \in Nat
    BY <1>2, <2>1, GrammarFacts
  <2>3. \A q \in DOMAIN prov' : prov'[q] \in Nat
    BY <1>2, <1>5, <2>2 DEF ProvideProduction
  <2>4. at' \in Nat \X Nat
    BY <1>2, <2>1
  <2>5. QED
    BY <1>1, <1>2, <2>1, <2>3, <2>4, LaterStep
<1>6. QED
  BY <1>4, <1>5

\* The sort and the index move records, they write none.
LEMMA SortAndIndexStep ==
  IInv /\ (BeginSort \/ SortIn \/ BeginIndex \/ IndexRecord \/ Finish) => IInv'
<1> SUFFICES ASSUME IInv, BeginSort \/ SortIn \/ BeginIndex \/ IndexRecord \/ Finish PROVE IInv'
  OBVIOUS
<1>1. pc \in After /\ pc' \in After /\ UNCHANGED <<g, dotIds, nextDot, prov>>
  BY DEF BeginSort, SortIn, BeginIndex, IndexRecord, Finish, After
<1>2. /\ Len(dotIds) = Len(g.prods) /\ pc \notin {"validate"} \cup Errors
      /\ trans \in Seq(Usable) /\ todo \in Seq(Usable) /\ at[1] \in Nat /\ at[2] \in Nat
      /\ DOMAIN prov \subseteq Nat /\ \A q \in DOMAIN prov : prov[q] \in Nat
      /\ at \in Nat \X Nat
  BY <1>1, EmittingFacts DEF IInv, Typed
<1>3. at' \in Nat \X Nat
  BY <1>2 DEF BeginSort, SortIn, BeginIndex, IndexRecord, Finish
<1>4. trans' \in Seq(Usable) /\ todo' \in Seq(Usable)
  <2>1. CASE BeginSort
    BY <1>2, <2>1, EmptySeq DEF BeginSort
  <2>2. CASE SortIn
    <3>1. Head(todo) \in Usable /\ Tail(todo) \in Seq(Usable)
      BY <1>2, <2>2, Sequences DEF SortIn
    <3>2. PICK k \in 1..(Len(trans) + 1) : trans' = Inserted(trans, Head(todo), k)
      BY <2>2 DEF SortIn
    <3>3. Inserted(trans, Head(todo), k) \in Seq(Usable)
      BY <1>2, <3>1, <3>2, InsertedTyped
    <3>4. QED
      BY <2>2, <3>1, <3>2, <3>3 DEF SortIn
  <2>3. CASE BeginIndex \/ IndexRecord \/ Finish
    BY <1>2, <2>3 DEF BeginIndex, IndexRecord, Finish
  <2>4. QED
    BY <2>1, <2>2, <2>3
<1>5. QED
  BY <1>1, <1>2, <1>3, <1>4, LaterStep

LEMMA InvariantStep == IInv /\ [Next]_vars => IInv'
<1> SUFFICES ASSUME IInv, [Next]_vars PROVE IInv'
  OBVIOUS
<1>1. CASE CheckGrammar
  BY <1>1, CheckGrammarStep
<1>2. CASE NumberProduction
  BY <1>2, NumberProductionStep
<1>3. CASE EmitStart
  BY <1>3, EmitStartStep
<1>4. CASE EmitChoice \/ EmitTerminal \/ EmitCall \/ EmitExit
  BY <1>4, EmitChoiceStep, EmitTerminalStep, EmitCallStep, EmitExitStep
<1>5. CASE EmitReturns
  BY <1>5, EmitReturnsStep
<1>6. CASE ProvideNonterminals \/ ProvideProduction
  BY <1>6, ProvideStep
<1>7. CASE BeginSort \/ SortIn \/ BeginIndex \/ IndexRecord \/ Finish
  BY <1>7, SortAndIndexStep
<1>8. CASE Returned \/ UNCHANGED vars
  <2>1. UNCHANGED vars
    BY <1>8 DEF Returned
  <2>2. DotIdsTyped' /\ Numbering' /\ Usable' = Usable
    BY <2>1, NumberingKept DEF IInv, vars
  <2>3. Typed' /\ Stages'
    BY <2>1 DEF IInv, Typed, Stages, vars, DotBase
  <2>4. TableUsable'
    BY <2>1, <2>2 DEF IInv, TableUsable, vars
  <2>5. QED
    BY <2>2, <2>3, <2>4 DEF IInv
<1>9. QED
  BY <1>1, <1>2, <1>3, <1>4, <1>5, <1>6, <1>7, <1>8 DEF Next

LEMMA InvariantAlways == Spec => []IInv
<1>1. QED
  BY InitInvariant, InvariantStep, PTL DEF Spec

----------------------------------------------------------------------------
(* Theorems.                                                               *)

\* The numbering of the dots is exact for every grammar: no two dots share an
\* id, no id is skipped, and none is that of an entry or an exit state
\* (the loop over productions of compile()).
THEOREM NumberingAlways == Spec => []Numbering
<1>1. IInv => Numbering
  BY DEF IInv
<1>2. QED
  BY <1>1, InvariantAlways, PTL

LEMMA InvariantImpliesTypes == IInv => TypeOK
<1> SUFFICES ASSUME IInv PROVE TypeOK
  OBVIOUS
<1>1. dotIds \in Seq({dotIds[p] : p \in DOMAIN dotIds}) /\ DOMAIN dotIds = 1..Len(dotIds)
  <2>1. Len(dotIds) \in Nat /\ DOMAIN dotIds = 1..Len(dotIds) /\ dotIds = [i \in 1..Len(dotIds) |-> dotIds[i]]
    BY LenProperties DEF IInv, DotIdsTyped
  <2>2. dotIds \in [1..Len(dotIds) -> {dotIds[p] : p \in DOMAIN dotIds}]
    BY <2>1
  <2>3. QED
    BY <2>1, <2>2, SeqDef
<1>2. \A n \in DOMAIN trans : trans[n] \in Usable
  BY LenProperties, ElementOfSeq DEF IInv, TableUsable
<1>3. \A n \in DOMAIN todo : todo[n] \in Usable
  BY LenProperties, ElementOfSeq DEF IInv, TableUsable
<1>4. trans \in Seq(Transition) /\ todo \in Seq(Transition)
  <2>1. Usable \subseteq Transition
    BY DEF Usable
  <2>2. QED
    BY <2>1, SeqMonotonic DEF IInv, TableUsable
<1>5. EmittedInBounds
  BY <1>2, <1>3 DEF EmittedInBounds, Usable
<1>6. QED
  BY <1>1, <1>4, <1>5 DEF IInv, DotIdsTyped, Typed, TypeOK

\* compile() never calls validate_bounds, and for no grammar would it refuse
\* a transition that compile() pushes.
THEOREM TypeCorrect == Spec => []TypeOK
<1>1. QED
  BY InvariantImpliesTypes, InvariantAlways, PTL

----------------------------------------------------------------------------
(* The machine that compile() returns has a sorted transition array and an *)
(* index that is exact on it, for every grammar.                           *)

\* The result of the last two loops: the array is sorted, every row holds the
\* transitions of its state and no other, and no transition is outside a row.
IndexExact ==
  pc = "Ok" =>
    /\ SortedByKey(trans) /\ ExactRows(trans, Len(trans), offsets, counts)
    /\ \A n \in DOMAIN trans : counts[trans[n].q] > 0

SortedSoFar == pc \in {"sort", "index", "Ok"} => SortedByKey(trans)
IndexedSoFar ==
  pc \in {"index", "Ok"} =>
    /\ at[1] \in 0..Len(trans)
    /\ Indexed(trans, at[1], StateIds, offsets, counts)
IndexDone == pc = "Ok" => at[1] = Len(trans)

IndexInv == SortedSoFar /\ IndexedSoFar /\ IndexDone

----------------------------------------------------------------------------
LEMMA UsableFacts ==
  ASSUME NEW s \in Seq(Usable), NumStates \in Nat
  PROVE  s \in Seq(Transition) /\ \A j \in 1..Len(s) : s[j].q \in StateIds
<1>1. Usable \subseteq Transition
  BY DEF Usable
<1>2. s \in Seq(Transition)
  BY <1>1, SeqMonotonic
<1>3. ASSUME NEW j \in 1..Len(s) PROVE s[j].q \in StateIds
  <2>1. s[j] \in Usable
    BY ElementOfSeq
  <2>2. s[j].q \in Nat /\ s[j].q < NumStates
    BY <2>1 DEF Usable, InBounds, Transition
  <2>3. QED
    BY <2>2 DEF StateIds
<1>4. QED
  BY <1>2, <1>3

LEMMA IndexInit == Init => IndexInv
BY DEF Init, IndexInv, SortedSoFar, IndexedSoFar, IndexDone

\* Before the sort the invariant says nothing.
LEMMA IndexStepBefore ==
  ASSUME IInv, IndexInv,
         \/ CheckGrammar \/ NumberProduction
         \/ EmitStart \/ EmitChoice \/ EmitTerminal \/ EmitCall \/ EmitExit \/ EmitReturns
         \/ ProvideNonterminals \/ ProvideProduction
  PROVE  IndexInv'
<1>1. pc' \notin {"sort", "index", "Ok"}
  <2>1. CASE CheckGrammar
    BY <2>1 DEF CheckGrammar, Validate
  <2>2. CASE EmitChoice \/ EmitTerminal \/ EmitCall \/ EmitExit
    BY <2>2 DEF EmitChoice, EmitTerminal, EmitCall, EmitExit, Emitting
  <2>3. CASE NumberProduction \/ EmitStart \/ EmitReturns \/ ProvideNonterminals \/ ProvideProduction
    BY <2>3 DEF NumberProduction, EmitStart, EmitReturns, ProvideNonterminals, ProvideProduction
  <2>4. QED
    BY <2>1, <2>2, <2>3
<1>2. QED
  BY <1>1 DEF IndexInv, SortedSoFar, IndexedSoFar, IndexDone

LEMMA SortStep == IInv /\ IndexInv /\ (BeginSort \/ SortIn) => IndexInv'
<1> SUFFICES ASSUME IInv, IndexInv, BeginSort \/ SortIn PROVE IndexInv'
  OBVIOUS
<1>1. pc' = "sort"
  BY DEF BeginSort, SortIn
<1>2. CASE BeginSort
  <2>1. trans' = <<>>
    BY <1>2 DEF BeginSort
  <2>2. SortedByKey(trans')
    BY <2>1 DEF SortedByKey
  <2>3. QED
    BY <1>1, <2>2 DEF IndexInv, SortedSoFar, IndexedSoFar, IndexDone
<1>3. CASE SortIn
  <2>1. trans \in Seq(Usable) /\ todo \in Seq(Usable) /\ NumStates \in Nat
    BY Counts DEF IInv, TableUsable
  <2>2. Head(todo) \in Usable /\ pc = "sort"
    BY <1>3, <2>1, Sequences DEF SortIn
  <2>3. trans \in Seq(Transition) /\ Head(todo) \in Transition
    BY <2>1, <2>2, UsableFacts DEF Usable
  <2>4. PICK k : SortPosition(trans, Head(todo), k) /\ trans' = Inserted(trans, Head(todo), k)
    BY <1>3 DEF SortIn
  <2>5. SortedByKey(trans)
    BY <2>2 DEF IndexInv, SortedSoFar
  <2>6. SortedByKey(trans')
    BY <2>3, <2>4, <2>5, InsertedSorted
  <2>7. QED
    BY <1>1, <2>6 DEF IndexInv, SortedSoFar, IndexedSoFar, IndexDone
<1>4. QED
  BY <1>2, <1>3

LEMMA BeginIndexStep == IInv /\ IndexInv /\ BeginIndex => IndexInv'
<1> SUFFICES ASSUME IInv, IndexInv, BeginIndex PROVE IndexInv'
  OBVIOUS
<1>1. /\ pc = "sort" /\ pc' = "index" /\ at' = <<0, 0>> /\ trans' = trans
      /\ offsets' = [q \in StateIds |-> Len(trans)] /\ counts' = [q \in StateIds |-> 0]
  BY DEF BeginIndex, StateIds
<1>2. StateIds' = StateIds
  BY DEF BeginIndex, StateIds, NumStates
<1>3. Len(trans) \in Nat
  BY LenProperties DEF IInv, TableUsable
<1>4. SortedByKey(trans')
  BY <1>1 DEF IndexInv, SortedSoFar
<1>5. at'[1] = 0 /\ 0 \in 0..Len(trans)
  BY <1>1, <1>3
<1>6. Indexed(trans, 0, StateIds, offsets', counts')
  BY <1>1, <1>3 DEF Indexed, ExactRows
<1>7. QED
  BY <1>1, <1>2, <1>4, <1>5, <1>6 DEF IndexInv, SortedSoFar, IndexedSoFar, IndexDone

LEMMA IndexRecordStep == IInv /\ IndexInv /\ IndexRecord => IndexInv'
<1> SUFFICES ASSUME IInv, IndexInv, IndexRecord PROVE IndexInv'
  OBVIOUS
<1> DEFINE n == at[1]
<1>1. /\ pc = "index" /\ pc' = "index" /\ n < Len(trans) /\ at' = <<n + 1, 0>> /\ trans' = trans
      /\ offsets' = NextOffsets(offsets, counts, n, trans[n + 1])
      /\ counts' = NextCounts(counts, trans[n + 1])
  BY DEF IndexRecord
<1>2. StateIds' = StateIds
  BY DEF IndexRecord, StateIds, NumStates
<1>3. trans \in Seq(Usable) /\ NumStates \in Nat /\ n \in Nat
  BY Counts DEF IInv, TableUsable, Typed
<1>4. trans \in Seq(Transition)
  BY <1>3, UsableFacts
<1>5. SortedByKey(trans) /\ Indexed(trans, n, StateIds, offsets, counts)
  BY <1>1 DEF IndexInv, SortedSoFar, IndexedSoFar
<1>6. Indexed(trans, n + 1, StateIds, offsets', counts')
  BY <1>1, <1>3, <1>4, <1>5, IndexedOneMore
<1>7. at'[1] = n + 1 /\ n + 1 \in 0..Len(trans)
  <2>1. Len(trans) \in Nat
    BY <1>3, LenProperties
  <2>2. QED
    BY <1>1, <1>3, <2>1
<1>8. QED
  BY <1>1, <1>2, <1>5, <1>6, <1>7 DEF IndexInv, SortedSoFar, IndexedSoFar, IndexDone

LEMMA FinishStep == IInv /\ IndexInv /\ Finish => IndexInv'
<1> SUFFICES ASSUME IInv, IndexInv, Finish PROVE IndexInv'
  OBVIOUS
<1>1. /\ pc = "index" /\ pc' = "Ok" /\ at[1] = Len(trans)
      /\ UNCHANGED <<at, trans, offsets, counts, nextDot>>
  BY DEF Finish
<1>2. StateIds' = StateIds
  BY <1>1 DEF StateIds, NumStates
<1>3. QED
  BY <1>1, <1>2 DEF IndexInv, SortedSoFar, IndexedSoFar, IndexDone

LEMMA IndexStep == IInv /\ IndexInv /\ [Next]_vars => IndexInv'
<1> SUFFICES ASSUME IInv, IndexInv, [Next]_vars PROVE IndexInv'
  OBVIOUS
<1>1. CASE \/ CheckGrammar \/ NumberProduction
           \/ EmitStart \/ EmitChoice \/ EmitTerminal \/ EmitCall \/ EmitExit \/ EmitReturns
           \/ ProvideNonterminals \/ ProvideProduction
  BY <1>1, IndexStepBefore
<1>2. CASE BeginSort \/ SortIn
  BY <1>2, SortStep
<1>3. CASE BeginIndex
  BY <1>3, BeginIndexStep
<1>4. CASE IndexRecord
  BY <1>4, IndexRecordStep
<1>5. CASE Finish
  BY <1>5, FinishStep
<1>6. CASE Returned \/ UNCHANGED vars
  <2>1. UNCHANGED vars
    BY <1>6 DEF Returned
  <2>2. QED
    BY <2>1 DEF vars, IndexInv, SortedSoFar, IndexedSoFar, IndexDone, StateIds, NumStates
<1>7. QED
  BY <1>1, <1>2, <1>3, <1>4, <1>5, <1>6 DEF Next

LEMMA IndexReturned == IInv /\ IndexInv => IndexExact
<1> SUFFICES ASSUME IInv, IndexInv, pc = "Ok"
             PROVE  /\ SortedByKey(trans) /\ ExactRows(trans, Len(trans), offsets, counts)
                    /\ \A n \in DOMAIN trans : counts[trans[n].q] > 0
  BY DEF IndexExact
<1>1. SortedByKey(trans) /\ Indexed(trans, Len(trans), StateIds, offsets, counts)
  BY DEF IndexInv, SortedSoFar, IndexedSoFar, IndexDone
<1>2. DOMAIN trans = 1..Len(trans) /\ \A j \in 1..Len(trans) : trans[j].q \in StateIds
  BY Counts, UsableFacts, LenProperties DEF IInv, TableUsable
<1>3. QED
  BY <1>1, <1>2 DEF Indexed

\* Whatever the grammar, a lookup that scans the row of a state meets its
\* transitions, all of them and no other (the CSR index of compile()).
THEOREM IndexAlwaysExact == Spec => []IndexExact
BY IndexReturned, IndexInit, IndexStep, InitInvariant, InvariantStep, PTL DEF Spec

----------------------------------------------------------------------------
(* The provenance that compile() returns is, for every grammar, the phase  *)
(* of each state, and a transition that leaves the stack as deep as it was *)
(* keeps it.  The transitions are pushed before there is a provenance: the *)
(* invariant says which phases their states are to have, by their place in *)
(* the numbering, and the sort carries that along.                         *)

\* By its place in the numbering, state q is to have phase A.
HasPhase(q, A) ==
  \/ q = QStart /\ A = g.start
  \/ A \in Nonterminals(g) /\ (q = QIn(A) \/ q = QOut(A))
  \/ \E p \in Prods(g) : \E i \in DOMAIN dotIds[p] : q = dotIds[p][i] /\ A = Lhs(g, p)

KeepsPhase(t) == Len(t.push) = 1 => \E A : HasPhase(t.q, A) /\ HasPhase(t.next_q, A)
AllKeep(s) == \A n \in DOMAIN s : KeepsPhase(s[n])

PhasesKept == AllKeep(trans) /\ AllKeep(todo)

\* The phases of the dots are written a production at a time.
Provided ==
  pc \in {"provenance", "sort", "index", "Ok"} =>
    /\ DOMAIN prov = 0..(NumStates - 1)
    /\ prov[QStart] = g.start
    /\ \A A \in Nonterminals(g) : prov[QIn(A)] = A /\ prov[QOut(A)] = A
    /\ \A p \in Prods(g) : pc # "provenance" \/ p < at[1] =>
         \A i \in DOMAIN dotIds[p] : prov[dotIds[p][i]] = Lhs(g, p)

PhaseInv == PhasesKept /\ Provided

----------------------------------------------------------------------------
(* Sequences.                                                              *)

LEMMA EmptyKeeps == AllKeep(<<>>)
BY DEF AllKeep

LEMMA JoinedKeep ==
  ASSUME NEW S, NEW s \in Seq(S), NEW t \in Seq(S), AllKeep(s), AllKeep(t)
  PROVE  AllKeep(s \o t)
<1>1. /\ Len(s) \in Nat /\ Len(t) \in Nat /\ Len(s \o t) = Len(s) + Len(t)
      /\ DOMAIN s = 1..Len(s) /\ DOMAIN t = 1..Len(t) /\ DOMAIN (s \o t) = 1..(Len(s) + Len(t))
      /\ \A n \in 1..(Len(s) + Len(t)) :
           (s \o t)[n] = IF n <= Len(s) THEN s[n] ELSE t[n - Len(s)]
  BY ConcatProperties, LenProperties
<1>2. ASSUME NEW n \in 1..(Len(s) + Len(t)) PROVE KeepsPhase((s \o t)[n])
  <2>1. CASE n <= Len(s)
    BY <1>1, <1>2, <2>1 DEF AllKeep
  <2>2. CASE ~(n <= Len(s))
    <3>1. n - Len(s) \in 1..Len(t)
      BY <1>1, <1>2, <2>2
    <3>2. QED
      BY <1>1, <1>2, <2>2, <3>1 DEF AllKeep
  <2>3. QED
    BY <2>1, <2>2
<1>3. QED
  BY <1>1, <1>2 DEF AllKeep

LEMMA TailKeeps ==
  ASSUME NEW S, NEW s \in Seq(S), s # <<>>, AllKeep(s)
  PROVE  KeepsPhase(Head(s)) /\ AllKeep(Tail(s))
<1>1. /\ Len(s) \in Nat \ {0} /\ DOMAIN s = 1..Len(s) /\ Head(s) = s[1]
  BY LenProperties, EmptySeq
<1>2. /\ DOMAIN Tail(s) = 1..(Len(s) - 1)
      /\ \A n \in 1..(Len(s) - 1) : Tail(s)[n] = s[n + 1]
  <2>1. Tail(s) \in Seq(S) /\ Len(Tail(s)) = Len(s) - 1
        /\ \A n \in 1..Len(Tail(s)) : Tail(s)[n] = s[n + 1]
    BY HeadTailProperties
  <2>2. QED
    BY <2>1, LenProperties
<1>3. KeepsPhase(Head(s))
  BY <1>1 DEF AllKeep
<1>4. ASSUME NEW n \in 1..(Len(s) - 1) PROVE KeepsPhase(Tail(s)[n])
  <2>1. n + 1 \in 1..Len(s)
    BY <1>1
  <2>2. QED
    BY <1>1, <1>2, <2>1 DEF AllKeep
<1>5. QED
  BY <1>2, <1>3, <1>4 DEF AllKeep

LEMMA InsertedKeep ==
  ASSUME NEW S, NEW s \in Seq(S), NEW t, NEW k \in 1..(Len(s) + 1), AllKeep(s), KeepsPhase(t)
  PROVE  AllKeep(Inserted(s, t, k))
<1>1. Len(s) \in Nat /\ DOMAIN s = 1..Len(s)
  BY LenProperties
<1>2. /\ DOMAIN Inserted(s, t, k) = 1..(Len(s) + 1)
      /\ \A j \in 1..(Len(s) + 1) :
           Inserted(s, t, k)[j] = IF j < k THEN s[j] ELSE IF j = k THEN t ELSE s[j - 1]
  BY DEF Inserted
<1>3. ASSUME NEW j \in 1..(Len(s) + 1) PROVE KeepsPhase(Inserted(s, t, k)[j])
  <2>1. CASE j < k
    <3>1. j \in 1..Len(s)
      BY <1>1, <2>1
    <3>2. QED
      BY <1>1, <1>2, <2>1, <3>1 DEF AllKeep
  <2>2. CASE j = k
    BY <1>2, <2>2
  <2>3. CASE ~(j < k) /\ j # k
    <3>1. j - 1 \in 1..Len(s)
      BY <1>1, <2>3
    <3>2. QED
      BY <1>1, <1>2, <2>3, <3>1 DEF AllKeep
  <2>4. QED
    BY <2>1, <2>2, <2>3
<1>4. QED
  BY <1>2, <1>3 DEF AllKeep

----------------------------------------------------------------------------
(* Steps.  AllKeep(trans') speaks of the next array and of the numbering   *)
(* as it is before the step; no step but the numbering changes it.         *)

LEMMA PhasesStand ==
  ASSUME UNCHANGED <<g, dotIds>>, AllKeep(trans'), AllKeep(todo')
  PROVE  PhasesKept'
BY DEF PhasesKept, AllKeep, KeepsPhase, HasPhase, QStart, QIn, QOut

LEMMA ProvidedStands ==
  ASSUME UNCHANGED <<g, dotIds, nextDot, prov>>, Provided,
         pc \in {"provenance", "sort", "index", "Ok"},
         pc = "provenance" => \A p \in Prods(g) : p < at[1],
         pc' \in {"sort", "index", "Ok"}
  PROVE  Provided'
<1>1. /\ DOMAIN prov = 0..(NumStates - 1) /\ prov[QStart] = g.start
      /\ \A A \in Nonterminals(g) : prov[QIn(A)] = A /\ prov[QOut(A)] = A
      /\ \A p \in Prods(g) : \A i \in DOMAIN dotIds[p] : prov[dotIds[p][i]] = Lhs(g, p)
  BY DEF Provided
<1>2. QED
  BY <1>1 DEF Provided, QStart, QIn, QOut, NumStates

\* Nothing is pushed before the numbering is complete.
LEMMA BeforeEmission == IInv /\ PhaseInv /\ (CheckGrammar \/ NumberProduction) => PhaseInv'
<1> SUFFICES ASSUME IInv, CheckGrammar \/ NumberProduction PROVE PhaseInv'
  OBVIOUS
<1>1. trans' = <<>> /\ todo' = <<>>
  BY DEF IInv, Stages, CheckGrammar, NumberProduction
<1>2. pc' \notin {"provenance", "sort", "index", "Ok"}
  <2>1. CASE CheckGrammar
    <3>1. Validate(g) \in {"Ok", "TerminalOnLhs", "UndefinedSymbol", "StartIsTerminal"}
      BY Zenon DEF Validate
    <3>2. pc' = IF Validate(g) = "Ok" THEN "number" ELSE Validate(g)
      BY <2>1 DEF CheckGrammar
    <3>3. QED
      BY <3>1, <3>2
  <2>2. CASE NumberProduction
    BY <2>2 DEF NumberProduction
  <2>3. QED
    BY <2>1, <2>2
<1>3. QED
  BY <1>1, <1>2 DEF PhaseInv, PhasesKept, Provided, AllKeep

\* Moves of one stack depth between two states of one phase.
LEMMA MovesKeep ==
  ASSUME NEW q, NEW a, NEW r, NEW A, HasPhase(q, A), HasPhase(r, A)
  PROVE  AllKeep(ForEveryTop(q, a, r, Keep))
<1>1. ASSUME NEW n \in 1..NumStackSyms PROVE KeepsPhase(Move(q, a, n - 1, r, <<n - 1>>))
  BY DEF KeepsPhase, Move
<1>2. ForEveryTop(q, a, r, Keep) = [n \in 1..NumStackSyms |-> Move(q, a, n - 1, r, <<n - 1>>)]
  BY DEF ForEveryTop, Keep
<1>3. QED
  BY <1>1, <1>2 DEF AllKeep

LEMMA EmissionKeeps ==
  ASSUME IInv, PhaseInv, pc = "emit", pc' = "emit", UNCHANGED <<g, dotIds, todo>>,
         NEW S, NEW moves \in Seq(S), AllKeep(moves), trans' = trans \o moves
  PROVE  PhaseInv'
<1>1. trans \in Seq(Usable) /\ AllKeep(trans) /\ AllKeep(todo)
  BY DEF IInv, TableUsable, PhaseInv, PhasesKept
<1>2. trans \in Seq(Usable \cup S) /\ moves \in Seq(Usable \cup S)
  BY <1>1, SeqMonotonic
<1>3. AllKeep(trans') /\ AllKeep(todo')
  BY <1>1, <1>2, JoinedKeep
<1>4. QED
  BY <1>3, PhasesStand DEF PhaseInv, Provided

\* Moves that push or pop: they need not keep the phase.
LEMMA OtherEmissionKeeps ==
  ASSUME IInv, PhaseInv, pc = "emit", pc' = "emit", UNCHANGED <<g, dotIds, todo>>,
         NEW k \in Nat, NEW moves, moves = [n \in 1..k |-> moves[n]],
         \A n \in 1..k : Len(moves[n].push) # 1, trans' = trans \o moves
  PROVE  PhaseInv'
<1> DEFINE S == {moves[n] : n \in 1..k}
<1>1. moves \in [1..k -> S]
  OBVIOUS
<1>2. moves \in Seq(S)
  BY <1>1, Sequences
<1>3. AllKeep(moves)
  <2>1. DOMAIN moves = 1..k
    OBVIOUS
  <2>2. QED
    BY <2>1 DEF AllKeep, KeepsPhase
<1> HIDE DEF S
<1>4. QED
  BY <1>2, <1>3, EmissionKeeps

\* The phases of a production's states.
LEMMA PhasesAt ==
  ASSUME IInv, NEW p \in Prods(g), NEW i, Emitting(p, i)
  PROVE  /\ HasPhase(QIn(Lhs(g, p)), Lhs(g, p)) /\ HasPhase(QOut(Lhs(g, p)), Lhs(g, p))
         /\ \A j \in 0..Len(Rhs(g, p)) : HasPhase(dotIds[p][j], Lhs(g, p))
<1>1. Lhs(g, p) \in Nonterminals(g)
  BY AtProduction DEF Nonterminals
<1>2. DOMAIN dotIds[p] = 0..Len(Rhs(g, p))
  <2>1. pc \in After
    BY DEF Emitting, After
  <2>2. Len(dotIds) = Len(g.prods) /\ Prods(g) = 1..Len(g.prods)
    BY <2>1, EmittingFacts, GrammarFacts
  <2>3. QED
    BY <2>2 DEF IInv, DotIdsTyped
<1>3. QED
  BY <1>1, <1>2 DEF HasPhase

LEMMA EmitStartPhase == IInv /\ PhaseInv /\ EmitStart => PhaseInv'
<1> SUFFICES ASSUME IInv, PhaseInv, EmitStart PROVE PhaseInv'
  OBVIOUS
<1> DEFINE t == Move(QStart, Eps(g), 0, QIn(g.start), <<0>>)
<1>1. /\ pc = "number" /\ pc' = "emit" /\ UNCHANGED <<g, dotIds, todo>> /\ trans' = <<t>>
  BY DEF EmitStart
<1>2. g.start \in Nonterminals(g)
  BY <1>1, EmittingFacts, GrammarFacts, ValidSymbols DEF Nonterminals
<1>3. HasPhase(QStart, g.start) /\ HasPhase(QIn(g.start), g.start)
  BY <1>2 DEF HasPhase
<1>4. KeepsPhase(t)
  BY <1>3 DEF KeepsPhase, Move
<1> HIDE DEF t
<1>5. AllKeep(trans')
  BY <1>1, <1>4 DEF AllKeep
<1>6. QED
  BY <1>1, <1>5, PhasesStand DEF PhaseInv, PhasesKept, Provided

LEMMA EmitChoicePhase == IInv /\ PhaseInv /\ EmitChoice => PhaseInv'
<1> SUFFICES ASSUME IInv, PhaseInv, EmitChoice PROVE PhaseInv'
  OBVIOUS
<1>1. PICK p \in Prods(g) :
        /\ Emitting(p, 0)
        /\ trans' = trans \o ForEveryTop(QIn(Lhs(g, p)), Eps(g), dotIds[p][0], Keep)
  BY DEF EmitChoice
<1> DEFINE moves == ForEveryTop(QIn(Lhs(g, p)), Eps(g), dotIds[p][0], Keep)
<1>2. /\ Typed /\ Len(Rhs(g, p)) \in Nat /\ Lhs(g, p) \in 0..(g.nt - 1) /\ Eps(g) \in 0..g.tm
      /\ \A j \in 0..Len(Rhs(g, p)) : dotIds[p][j] \in StateIds
  BY <1>1, AtProduction
<1>3. 0 \in 0..Len(Rhs(g, p))
  BY <1>2
<1>4. moves \in Seq(Usable)
  BY <1>2, <1>3, EntriesAreStates, KeepingUsable
<1>5. AllKeep(moves)
  BY <1>1, <1>3, PhasesAt, MovesKeep
<1>6. pc = "emit" /\ pc' = "emit" /\ UNCHANGED <<g, dotIds, todo>> /\ trans' = trans \o moves
  BY <1>1 DEF Emitting
<1> HIDE DEF moves
<1>7. QED
  BY <1>4, <1>5, <1>6, EmissionKeeps

LEMMA EmitTerminalPhase == IInv /\ PhaseInv /\ EmitTerminal => PhaseInv'
<1> SUFFICES ASSUME IInv, PhaseInv, EmitTerminal PROVE PhaseInv'
  OBVIOUS
<1>0. PICK p \in Prods(g) : \E i \in 1..Len(Rhs(g, p)) :
        /\ Emitting(p, i)
        /\ IsTerminal(g, Rhs(g, p)[i])
        /\ trans' = trans \o ForEveryTop(dotIds[p][i - 1], TerminalId(g, Rhs(g, p)[i]),
                                         dotIds[p][i], Keep)
  BY DEF EmitTerminal
<1>1. PICK i \in 1..Len(Rhs(g, p)) :
        /\ Emitting(p, i)
        /\ IsTerminal(g, Rhs(g, p)[i])
        /\ trans' = trans \o ForEveryTop(dotIds[p][i - 1], TerminalId(g, Rhs(g, p)[i]),
                                         dotIds[p][i], Keep)
  BY <1>0
<1> DEFINE moves == ForEveryTop(dotIds[p][i - 1], TerminalId(g, Rhs(g, p)[i]), dotIds[p][i], Keep)
<1>2. /\ Typed /\ IsCfg(g) /\ Validate(g) = "Ok" /\ Len(Rhs(g, p)) \in Nat
      /\ \A j \in 0..Len(Rhs(g, p)) : dotIds[p][j] \in StateIds
  BY <1>1, AtProduction
<1>3. i \in 0..Len(Rhs(g, p)) /\ i - 1 \in 0..Len(Rhs(g, p))
  BY <1>2
<1>4. /\ Rhs(g, p)[i] \in Nat /\ Rhs(g, p)[i] < g.nt + g.tm /\ g.nt \in Nat /\ g.tm \in Nat
  BY <1>2, GrammarFacts, ValidSymbols
<1>5. TerminalId(g, Rhs(g, p)[i]) \in 0..g.tm
  BY <1>1, <1>4 DEF IsTerminal, TerminalId
<1>6. moves \in Seq(Usable)
  BY <1>2, <1>3, <1>5, KeepingUsable
<1>7. HasPhase(dotIds[p][i - 1], Lhs(g, p)) /\ HasPhase(dotIds[p][i], Lhs(g, p))
  BY <1>1, <1>3, PhasesAt
<1>8. AllKeep(moves)
  BY <1>7, MovesKeep
<1>9. pc = "emit" /\ pc' = "emit" /\ UNCHANGED <<g, dotIds, todo>> /\ trans' = trans \o moves
  BY <1>1 DEF Emitting
<1> HIDE DEF moves
<1>10. QED
  BY <1>6, <1>8, <1>9, EmissionKeeps

LEMMA EmitExitPhase == IInv /\ PhaseInv /\ EmitExit => PhaseInv'
<1> SUFFICES ASSUME IInv, PhaseInv, EmitExit PROVE PhaseInv'
  OBVIOUS
<1>1. PICK p \in Prods(g) :
        /\ Emitting(p, Len(Rhs(g, p)) + 1)
        /\ trans' = trans \o ForEveryTop(dotIds[p][Len(Rhs(g, p))], Eps(g), QOut(Lhs(g, p)), Keep)
  BY DEF EmitExit
<1> DEFINE moves == ForEveryTop(dotIds[p][Len(Rhs(g, p))], Eps(g), QOut(Lhs(g, p)), Keep)
<1>2. /\ Typed /\ Len(Rhs(g, p)) \in Nat /\ Lhs(g, p) \in 0..(g.nt - 1) /\ Eps(g) \in 0..g.tm
      /\ \A j \in 0..Len(Rhs(g, p)) : dotIds[p][j] \in StateIds
  BY <1>1, AtProduction
<1>3. Len(Rhs(g, p)) \in 0..Len(Rhs(g, p))
  BY <1>2
<1>4. moves \in Seq(Usable)
  BY <1>2, <1>3, EntriesAreStates, KeepingUsable
<1>5. AllKeep(moves)
  BY <1>1, <1>3, PhasesAt, MovesKeep
<1>6. pc = "emit" /\ pc' = "emit" /\ UNCHANGED <<g, dotIds, todo>> /\ trans' = trans \o moves
  BY <1>1 DEF Emitting
<1> HIDE DEF moves
<1>7. QED
  BY <1>4, <1>5, <1>6, EmissionKeeps

LEMMA EmitCallPhase == IInv /\ PhaseInv /\ EmitCall => PhaseInv'
<1> SUFFICES ASSUME IInv, PhaseInv, EmitCall PROVE PhaseInv'
  OBVIOUS
<1>0. PICK p \in Prods(g) : \E i \in 1..Len(Rhs(g, p)) :
        /\ Emitting(p, i)
        /\ trans' = trans \o [n \in 1..NumStackSyms |->
                      Move(dotIds[p][i - 1], Eps(g), n - 1, QIn(Rhs(g, p)[i]), <<RetAddr(p, i), n - 1>>)]
  BY DEF EmitCall, ForEveryTop
<1>1. PICK i \in 1..Len(Rhs(g, p)) :
        /\ Emitting(p, i)
        /\ trans' = trans \o [n \in 1..NumStackSyms |->
                      Move(dotIds[p][i - 1], Eps(g), n - 1, QIn(Rhs(g, p)[i]), <<RetAddr(p, i), n - 1>>)]
  BY <1>0
<1> DEFINE moves == [n \in 1..NumStackSyms |->
             Move(dotIds[p][i - 1], Eps(g), n - 1, QIn(Rhs(g, p)[i]), <<RetAddr(p, i), n - 1>>)]
<1>2. NumStackSyms \in Nat
  BY Counts DEF IInv
<1>3. moves = [n \in 1..NumStackSyms |-> moves[n]]
  OBVIOUS
<1>4. \A n \in 1..NumStackSyms : Len(moves[n].push) # 1
  BY DEF Move
<1>5. pc = "emit" /\ pc' = "emit" /\ UNCHANGED <<g, dotIds, todo>> /\ trans' = trans \o moves
  BY <1>1 DEF Emitting
<1> HIDE DEF moves
<1>6. QED
  BY <1>2, <1>3, <1>4, <1>5, OtherEmissionKeeps

LEMMA EmitReturnsPhase == IInv /\ PhaseInv /\ EmitReturns => PhaseInv'
<1> SUFFICES ASSUME IInv, PhaseInv, EmitReturns PROVE PhaseInv'
  OBVIOUS
<1> DEFINE moves == [r \in 1..(NumStackSyms - 1) |->
             Move(QOut(at[2]), Eps(g), r, DotBase + (r - 1), <<>>)]
<1>1. pc = "emit" /\ pc' = "emit" /\ UNCHANGED <<g, dotIds, todo>> /\ trans' = trans \o moves
  BY DEF EmitReturns
<1>2. NumStackSyms - 1 \in Nat
  BY Counts DEF IInv
<1>3. moves = [n \in 1..(NumStackSyms - 1) |-> moves[n]]
  OBVIOUS
<1>4. \A n \in 1..(NumStackSyms - 1) : Len(moves[n].push) # 1
  BY DEF Move
<1> HIDE DEF moves
<1>5. QED
  BY <1>1, <1>2, <1>3, <1>4, OtherEmissionKeeps

----------------------------------------------------------------------------
(* The provenance vector.                                                  *)

LEMMA ProvideNonterminalsPhase == IInv /\ PhaseInv /\ ProvideNonterminals => PhaseInv'
<1> SUFFICES ASSUME IInv, PhaseInv, ProvideNonterminals PROVE PhaseInv'
  OBVIOUS
<1>1. /\ pc' = "provenance" /\ at' = <<1, 0>> /\ UNCHANGED <<g, dotIds, nextDot, trans, todo>>
      /\ prov' = [q \in 0..(NumStates - 1) |->
                    IF q = QStart THEN g.start
                    ELSE IF q < QOut(0) THEN q - QIn(0)
                    ELSE IF q < DotBase THEN q - QOut(0) ELSE 0]
  BY DEF ProvideNonterminals
<1>2. /\ IsCfg(g) /\ g.nt \in Nat /\ DotBase = 1 + 2 * g.nt /\ NumStates \in Nat
      /\ NumStates >= DotBase /\ NumStates = nextDot
  BY Counts DEF IInv
<1>3. PhasesKept'
  BY <1>1, PhasesStand DEF PhaseInv, PhasesKept
<1>4. 0 \in 0..(NumStates - 1) /\ prov'[0] = g.start
  BY <1>1, <1>2 DEF QStart
<1>5. ASSUME NEW A \in Nonterminals(g) PROVE prov'[1 + A] = A /\ prov'[1 + g.nt + A] = A
  <2>1. A \in Nat /\ A < g.nt
    BY <1>2, <1>5 DEF Nonterminals
  <2>2. /\ 1 + A \in 0..(NumStates - 1) /\ 1 + A # 0 /\ 1 + A < 1 + g.nt + 0
        /\ (1 + A) - (1 + 0) = A
    BY <1>2, <2>1
  <2>3. /\ 1 + g.nt + A \in 0..(NumStates - 1) /\ 1 + g.nt + A # 0
        /\ ~(1 + g.nt + A < 1 + g.nt + 0) /\ 1 + g.nt + A < DotBase
        /\ (1 + g.nt + A) - (1 + g.nt + 0) = A
    BY <1>2, <2>1
  <2>4. prov'[1 + A] = A
    BY <1>1, <2>2 DEF QStart, QIn, QOut
  <2>5. prov'[1 + g.nt + A] = A
    BY <1>1, <2>3 DEF QStart, QIn, QOut
  <2>6. QED
    BY <2>4, <2>5
<1>6. \A p \in Prods(g) : ~(p < 1)
  <2>1. Prods(g) = 1..Len(g.prods) /\ Len(g.prods) \in Nat
    BY <1>2, GrammarFacts
  <2>2. QED
    BY <2>1
<1>7. DOMAIN prov' = 0..(NumStates' - 1)
  BY <1>1 DEF NumStates
<1>8. Provided'
  BY <1>1, <1>4, <1>5, <1>6, <1>7 DEF Provided, QStart, QIn, QOut
<1>9. QED
  BY <1>3, <1>8 DEF PhaseInv

\* The ids of two productions' dots differ, and no dot has that of an entry or
\* an exit: writing one production's phases leaves the others.
LEMMA ProvideProductionPhase == IInv /\ PhaseInv /\ ProvideProduction => PhaseInv'
<1> SUFFICES ASSUME IInv, PhaseInv, ProvideProduction PROVE PhaseInv'
  OBVIOUS
<1> DEFINE r == at[1]
<1>1. /\ pc = "provenance" /\ pc' = "provenance" /\ r \in Prods(g) /\ at' = <<r + 1, 0>>
      /\ UNCHANGED <<g, dotIds, nextDot, trans, todo>>
      /\ prov' = [q \in DOMAIN prov |->
                    IF \E i \in DOMAIN dotIds[r] : dotIds[r][i] = q THEN Lhs(g, r) ELSE prov[q]]
  BY DEF ProvideProduction
<1>2. /\ IsCfg(g) /\ g.nt \in Nat /\ DotBase = 1 + 2 * g.nt /\ NumStates \in Nat
      /\ NumStates >= DotBase /\ NumStates = nextDot
  BY Counts DEF IInv
<1>3. Len(dotIds) = Len(g.prods) /\ Prods(g) = 1..Len(g.prods) /\ Len(g.prods) \in Nat
  <2>1. pc \in After
    BY <1>1 DEF After
  <2>2. QED
    BY <2>1, EmittingFacts, GrammarFacts
<1>4. Prods(g) = DOMAIN dotIds
  BY <1>3, LenProperties DEF IInv, DotIdsTyped
<1>5. /\ DOMAIN prov = 0..(NumStates - 1) /\ prov[QStart] = g.start
      /\ \A A \in Nonterminals(g) : prov[QIn(A)] = A /\ prov[QOut(A)] = A
      /\ \A p \in Prods(g) : p < r => \A i \in DOMAIN dotIds[p] : prov[dotIds[p][i]] = Lhs(g, p)
  BY <1>1 DEF PhaseInv, Provided
<1>6. \A p \in Prods(g) : \A i \in DOMAIN dotIds[p] :
        dotIds[p][i] \in 0..(NumStates - 1) /\ dotIds[p][i] \in DotBase..(nextDot - 1)
  <2>1. \A p \in Prods(g) : \A i \in DOMAIN dotIds[p] : dotIds[p][i] \in DotBase..(nextDot - 1)
    BY <1>4 DEF IInv, Numbering
  <2>2. \A q \in DotBase..(nextDot - 1) : q \in 0..(NumStates - 1)
    BY <1>2
  <2>3. QED
    BY <2>1, <2>2
<1> HIDE DEF r
<1>7. ASSUME NEW q \in 0..(DotBase - 1) PROVE prov'[q] = prov[q]
  <2>1. q \in DOMAIN prov
    BY <1>2, <1>5
  <2>2. \A i \in DOMAIN dotIds[r] : dotIds[r][i] # q
    <3>1. \A i \in DOMAIN dotIds[r] : dotIds[r][i] \in DotBase..(nextDot - 1)
      BY <1>1, <1>6
    <3>2. q \notin DotBase..(nextDot - 1)
      BY <1>2
    <3>3. QED
      BY <3>1, <3>2
  <2>3. QED
    BY <1>1, <2>1, <2>2
<1>8. prov'[QStart] = g.start
  BY <1>2, <1>5, <1>7 DEF QStart
<1>9. ASSUME NEW A \in Nonterminals(g) PROVE prov'[QIn(A)] = A /\ prov'[QOut(A)] = A
  <2>1. QIn(A) \in 0..(DotBase - 1) /\ QOut(A) \in 0..(DotBase - 1)
    BY <1>2, <1>9 DEF Nonterminals, QIn, QOut
  <2>2. QED
    BY <1>5, <1>7, <1>9, <2>1
<1>10. ASSUME NEW p \in Prods(g), p < r + 1, NEW i \in DOMAIN dotIds[p]
       PROVE  prov'[dotIds[p][i]] = Lhs(g, p)
  <2>1. dotIds[p][i] \in DOMAIN prov
    BY <1>5, <1>6
  <2>2. CASE p = r
    BY <1>1, <2>1, <2>2
  <2>3. CASE p # r
    <3>1. p < r
      BY <1>1, <1>3, <1>10, <2>3
    <3>2. \A j \in DOMAIN dotIds[r] : dotIds[r][j] # dotIds[p][i]
      BY <1>1, <1>4, <2>3 DEF IInv, Numbering
    <3>3. QED
      BY <1>1, <1>5, <2>1, <3>1, <3>2
  <2>4. QED
    BY <2>2, <2>3
<1>11. DOMAIN prov' = 0..(NumStates' - 1) /\ at'[1] = r + 1
  BY <1>1, <1>5 DEF NumStates
<1>12. Provided'
  <2>1. \A A \in Nonterminals(g') : prov'[1 + A] = A /\ prov'[1 + g'.nt + A] = A
    BY <1>1, <1>9 DEF QIn, QOut
  <2>2. \A p \in Prods(g') : p < at'[1] =>
          \A i \in DOMAIN dotIds'[p] : prov'[dotIds'[p][i]] = Lhs(g', p)
    BY <1>1, <1>10, <1>11
  <2>3. prov'[0] = g'.start /\ pc' = "provenance" /\ DOMAIN prov' = 0..(NumStates' - 1)
    BY <1>1, <1>8, <1>11 DEF QStart
  <2>4. QED
    BY <2>1, <2>2, <2>3 DEF Provided, QStart, QIn, QOut
<1>13. PhasesKept'
  BY <1>1, PhasesStand DEF PhaseInv, PhasesKept
<1>14. QED
  BY <1>12, <1>13 DEF PhaseInv

----------------------------------------------------------------------------
(* The sort moves the transitions, the index leaves them.                  *)

LEMMA BeginSortPhase == IInv /\ PhaseInv /\ BeginSort => PhaseInv'
<1> SUFFICES ASSUME IInv, PhaseInv, BeginSort PROVE PhaseInv'
  OBVIOUS
<1>1. /\ pc = "provenance" /\ pc' = "sort" /\ at[1] = Len(g.prods) + 1
      /\ UNCHANGED <<g, dotIds, nextDot, prov>> /\ todo' = trans /\ trans' = <<>>
  BY DEF BeginSort
<1>2. \A p \in Prods(g) : p < at[1]
  BY <1>1, Counts, GrammarFacts DEF IInv
<1>3. Provided'
  BY <1>1, <1>2, ProvidedStands DEF PhaseInv
<1>4. PhasesKept'
  BY <1>1, EmptyKeeps, PhasesStand DEF PhaseInv, PhasesKept
<1>5. QED
  BY <1>3, <1>4 DEF PhaseInv

LEMMA SortInPhase == IInv /\ PhaseInv /\ SortIn => PhaseInv'
<1> SUFFICES ASSUME IInv, PhaseInv, SortIn PROVE PhaseInv'
  OBVIOUS
<1>1. /\ pc = "sort" /\ pc' = "sort" /\ UNCHANGED <<g, dotIds, nextDot, prov>>
      /\ todo # <<>> /\ todo' = Tail(todo)
  BY DEF SortIn
<1>2. PICK k \in 1..(Len(trans) + 1) : trans' = Inserted(trans, Head(todo), k)
  BY DEF SortIn
<1>3. trans \in Seq(Usable) /\ todo \in Seq(Usable) /\ AllKeep(trans) /\ AllKeep(todo)
  BY DEF IInv, TableUsable, PhaseInv, PhasesKept
<1>4. KeepsPhase(Head(todo)) /\ AllKeep(Tail(todo))
  BY <1>1, <1>3, TailKeeps
<1>5. AllKeep(trans')
  BY <1>2, <1>3, <1>4, InsertedKeep
<1>6. PhasesKept'
  BY <1>1, <1>4, <1>5, PhasesStand
<1>7. Provided'
  BY <1>1, ProvidedStands DEF PhaseInv
<1>8. QED
  BY <1>6, <1>7 DEF PhaseInv

LEMMA IndexPhase == IInv /\ PhaseInv /\ (BeginIndex \/ IndexRecord \/ Finish) => PhaseInv'
<1> SUFFICES ASSUME IInv, PhaseInv, BeginIndex \/ IndexRecord \/ Finish PROVE PhaseInv'
  OBVIOUS
<1>1. /\ pc \in {"sort", "index"} /\ pc' \in {"sort", "index", "Ok"}
      /\ UNCHANGED <<g, dotIds, nextDot, prov, trans, todo>>
  BY DEF BeginIndex, IndexRecord, Finish
<1>2. PhasesKept'
  BY <1>1, PhasesStand DEF PhaseInv, PhasesKept
<1>3. Provided'
  BY <1>1, ProvidedStands DEF PhaseInv
<1>4. QED
  BY <1>2, <1>3 DEF PhaseInv

----------------------------------------------------------------------------
(* Theorem.                                                                *)

LEMMA PhaseInit == Init => PhaseInv
BY EmptyKeeps DEF Init, PhaseInv, PhasesKept, Provided

LEMMA PhaseStep == IInv /\ PhaseInv /\ [Next]_vars => PhaseInv'
<1> SUFFICES ASSUME IInv, PhaseInv, [Next]_vars PROVE PhaseInv'
  OBVIOUS
<1>1. CASE CheckGrammar \/ NumberProduction
  BY <1>1, BeforeEmission
<1>2. CASE EmitStart \/ EmitChoice \/ EmitTerminal \/ EmitCall \/ EmitExit \/ EmitReturns
  BY <1>2, EmitStartPhase, EmitChoicePhase, EmitTerminalPhase, EmitCallPhase, EmitExitPhase,
     EmitReturnsPhase
<1>3. CASE ProvideNonterminals \/ ProvideProduction
  BY <1>3, ProvideNonterminalsPhase, ProvideProductionPhase
<1>4. CASE BeginSort \/ SortIn
  BY <1>4, BeginSortPhase, SortInPhase
<1>5. CASE BeginIndex \/ IndexRecord \/ Finish
  BY <1>5, IndexPhase
<1>6. CASE Returned \/ UNCHANGED vars
  <2>1. UNCHANGED vars
    BY <1>6 DEF Returned
  <2>2. PhasesKept'
    BY <2>1, PhasesStand DEF PhaseInv, PhasesKept, vars
  <2>3. Provided'
    BY <2>1 DEF PhaseInv, Provided, QStart, QIn, QOut, NumStates, vars
  <2>4. QED
    BY <2>2, <2>3 DEF PhaseInv
<1>7. QED
  BY <1>1, <1>2, <1>3, <1>4, <1>5, <1>6 DEF Next

\* A phase that a state has by its place is the one the finished vector holds.
LEMMA PhaseOfState ==
  ASSUME PhaseInv, pc = "Ok", NEW q, NEW A, HasPhase(q, A)
  PROVE  prov[q] = A
<1>1. /\ prov[QStart] = g.start
      /\ \A B \in Nonterminals(g) : prov[QIn(B)] = B /\ prov[QOut(B)] = B
      /\ \A p \in Prods(g) : \A i \in DOMAIN dotIds[p] : prov[dotIds[p][i]] = Lhs(g, p)
  BY DEF PhaseInv, Provided
<1>2. QED
  BY <1>1 DEF HasPhase

LEMMA PhasesImply == PhaseInv => PhaseHomology
<1> SUFFICES ASSUME PhaseInv, pc = "Ok"
             PROVE  /\ DOMAIN prov = 0..(NumStates - 1) /\ prov[QStart] = g.start
                    /\ \A A \in Nonterminals(g) : prov[QIn(A)] = A /\ prov[QOut(A)] = A
                    /\ \A p \in Prods(g) : \A i \in DOMAIN dotIds[p] :
                         prov[dotIds[p][i]] = Lhs(g, p)
                    /\ \A n \in DOMAIN trans : Len(trans[n].push) = 1 =>
                         prov[trans[n].q] = prov[trans[n].next_q]
  BY DEF PhaseHomology
<1>1. ASSUME NEW n \in DOMAIN trans, Len(trans[n].push) = 1
      PROVE  prov[trans[n].q] = prov[trans[n].next_q]
  <2>1. PICK A : HasPhase(trans[n].q, A) /\ HasPhase(trans[n].next_q, A)
    BY <1>1 DEF PhaseInv, PhasesKept, AllKeep, KeepsPhase
  <2>2. QED
    BY <2>1, PhaseOfState
<1>2. QED
  BY <1>1 DEF PhaseInv, Provided

\* The state_provenance that compile() returns is total and gives every state
\* of every grammar the nonterminal being parsed there, and a transition that
\* leaves the stack as deep as it was stays in its phase.
THEOREM PhaseAlways == Spec => []PhaseHomology
<1>1. Init => IInv /\ PhaseInv
  BY InitInvariant, PhaseInit
<1>2. IInv /\ PhaseInv /\ [Next]_vars => (IInv /\ PhaseInv)'
  BY InvariantStep, PhaseStep
<1>3. IInv /\ PhaseInv => PhaseHomology
  BY PhasesImply
<1>4. QED
  BY <1>1, <1>2, <1>3, PTL DEF Spec

----------------------------------------------------------------------------
(* The moves in the order of the loops.                                    *)

\* The cursor at which the loops emit a move of the network.
Turn(t) ==
  CASE t.q.k = "start" -> <<0, 0>>
    [] t.q.k = "in" -> <<t.next_q.ix, 0>>
    [] t.q.k = "dot" -> <<t.q.ix, t.q.pos + 1>>
    [] t.q.k = "out" -> <<Len(g.prods) + 1, t.q.ix>>

Precedes(x, y) ==
  \/ x[1] < y[1]
  \/ x[1] = y[1] /\ x[2] < y[2]

Earlier(t) == Precedes(Turn(t), at)

Records(T) == {Encoded(t) : t \in T}

\* Sequence s has the members of R, each once.
Lists(s, R) ==
  /\ {s[n] : n \in DOMAIN s} = R
  /\ \A m, n \in DOMAIN s : s[m] = s[n] => m = n

NetworkInv ==
  /\ pc \in {"validate", "number"} => at = <<1, 0>>
  /\ pc = "emit" => /\ at[1] >= 1
                    /\ Lists(trans, Records({t \in Delta(g) : Earlier(t)}))
  /\ pc \in {"provenance", "index", "Ok"} => Lists(trans, Records(Delta(g)))
  /\ pc = "sort" =>
       \E R, T \in SUBSET Records(Delta(g)) :
         /\ R \cap T = {} /\ R \cup T = Records(Delta(g))
         /\ Lists(trans, R) /\ Lists(todo, T)

----------------------------------------------------------------------------
(* Lists.                                                                  *)

LEMMA ListedOne ==
  ASSUME NEW t
  PROVE  Lists(<<t>>, {t})
<1>1. DOMAIN <<t>> = {1} /\ <<t>>[1] = t
  OBVIOUS
<1>2. QED
  BY <1>1 DEF Lists

LEMMA ListedTogether ==
  ASSUME NEW S, NEW s \in Seq(S), NEW t \in Seq(S), NEW R, NEW T,
         Lists(s, R), Lists(t, T), R \cap T = {}
  PROVE  Lists(s \o t, R \cup T)
<1>1. /\ Len(s) \in Nat /\ Len(t) \in Nat
      /\ DOMAIN s = 1..Len(s) /\ DOMAIN t = 1..Len(t) /\ DOMAIN (s \o t) = 1..(Len(s) + Len(t))
      /\ \A n \in 1..(Len(s) + Len(t)) :
           (s \o t)[n] = IF n <= Len(s) THEN s[n] ELSE t[n - Len(s)]
  BY ConcatProperties, LenProperties
<1>2. ASSUME NEW n \in DOMAIN (s \o t)
      PROVE  \/ n \in DOMAIN s /\ (s \o t)[n] = s[n] /\ (s \o t)[n] \in R
             \/ /\ n - Len(s) \in DOMAIN t /\ ~(n <= Len(s))
                /\ (s \o t)[n] = t[n - Len(s)] /\ (s \o t)[n] \in T
  <2>1. CASE n <= Len(s)
    <3>1. n \in DOMAIN s /\ (s \o t)[n] = s[n]
      BY <1>1, <2>1
    <3>2. QED
      BY <3>1 DEF Lists
  <2>2. CASE ~(n <= Len(s))
    <3>1. n - Len(s) \in DOMAIN t /\ (s \o t)[n] = t[n - Len(s)]
      BY <1>1, <2>2
    <3>2. QED
      BY <2>2, <3>1 DEF Lists
  <2>3. QED
    BY <2>1, <2>2
<1>3. ASSUME NEW x \in R PROVE \E n \in DOMAIN (s \o t) : (s \o t)[n] = x
  <2>1. PICK n \in DOMAIN s : s[n] = x
    BY DEF Lists
  <2>2. QED
    BY <1>1, <2>1
<1>4. ASSUME NEW x \in T PROVE \E n \in DOMAIN (s \o t) : (s \o t)[n] = x
  <2>1. PICK n \in DOMAIN t : t[n] = x
    BY DEF Lists
  <2>2. /\ n + Len(s) \in 1..(Len(s) + Len(t)) /\ ~(n + Len(s) <= Len(s))
        /\ (n + Len(s)) - Len(s) = n
    BY <1>1
  <2>3. QED
    BY <1>1, <2>1, <2>2
<1>5. ASSUME NEW m \in DOMAIN (s \o t), NEW n \in DOMAIN (s \o t), (s \o t)[m] = (s \o t)[n]
      PROVE  m = n
  <2>1. CASE m \in DOMAIN s /\ n \in DOMAIN s /\ s[m] = s[n]
    BY <2>1 DEF Lists
  <2>2. CASE m - Len(s) \in DOMAIN t /\ n - Len(s) \in DOMAIN t /\ t[m - Len(s)] = t[n - Len(s)]
    <3>1. m - Len(s) = n - Len(s)
      BY <2>2 DEF Lists
    <3>2. QED
      BY <1>1, <3>1
  <2>3. QED
    BY <1>2, <1>5, <2>1, <2>2
<1>6. QED
  BY <1>2, <1>3, <1>4, <1>5 DEF Lists

LEMMA ListedTail ==
  ASSUME NEW S, NEW s \in Seq(S), s # <<>>, NEW R, Lists(s, R)
  PROVE  Head(s) \in R /\ Lists(Tail(s), R \ {Head(s)})
<1>1. /\ Len(s) \in Nat \ {0} /\ DOMAIN s = 1..Len(s) /\ Head(s) = s[1]
  BY LenProperties, EmptySeq
<1>2. /\ DOMAIN Tail(s) = 1..(Len(s) - 1)
      /\ \A n \in 1..(Len(s) - 1) : Tail(s)[n] = s[n + 1]
  <2>1. Tail(s) \in Seq(S) /\ Len(Tail(s)) = Len(s) - 1
        /\ \A n \in 1..Len(Tail(s)) : Tail(s)[n] = s[n + 1]
    BY HeadTailProperties
  <2>2. QED
    BY <2>1, LenProperties
<1>3. 1 \in DOMAIN s /\ Head(s) \in R
  BY <1>1 DEF Lists
<1>4. ASSUME NEW n \in DOMAIN Tail(s)
      PROVE  n + 1 \in DOMAIN s /\ n + 1 # 1 /\ Tail(s)[n] = s[n + 1] /\ Tail(s)[n] \in R \ {Head(s)}
  <2>1. n + 1 \in DOMAIN s /\ n + 1 # 1 /\ Tail(s)[n] = s[n + 1]
    BY <1>1, <1>2
  <2>2. QED
    BY <1>1, <1>3, <2>1 DEF Lists
<1>5. ASSUME NEW x \in R \ {Head(s)} PROVE \E n \in DOMAIN Tail(s) : Tail(s)[n] = x
  <2>1. PICK n \in DOMAIN s : s[n] = x
    BY DEF Lists
  <2>2. n - 1 \in 1..(Len(s) - 1) /\ (n - 1) + 1 = n
    BY <1>1, <2>1
  <2>3. QED
    BY <1>2, <2>1, <2>2
<1>6. ASSUME NEW m \in DOMAIN Tail(s), NEW n \in DOMAIN Tail(s), Tail(s)[m] = Tail(s)[n]
      PROVE  m = n
  <2>1. m + 1 = n + 1
    BY <1>4, <1>6 DEF Lists
  <2>2. QED
    BY <1>2, <2>1
<1>7. QED
  BY <1>3, <1>4, <1>5, <1>6 DEF Lists

LEMMA ListedInserted ==
  ASSUME NEW S, NEW s \in Seq(S), NEW t, NEW k \in 1..(Len(s) + 1), NEW R, Lists(s, R), t \notin R
  PROVE  Lists(Inserted(s, t, k), R \cup {t})
<1> DEFINE r == Inserted(s, t, k)
<1>1. Len(s) \in Nat /\ DOMAIN s = 1..Len(s)
  BY LenProperties
<1>2. /\ DOMAIN r = 1..(Len(s) + 1)
      /\ \A j \in 1..(Len(s) + 1) : r[j] = IF j < k THEN s[j] ELSE IF j = k THEN t ELSE s[j - 1]
  BY DEF Inserted
<1> HIDE DEF r
<1>3. ASSUME NEW j \in DOMAIN r
      PROVE  \/ j < k /\ j \in DOMAIN s /\ r[j] = s[j] /\ r[j] \in R
             \/ j = k /\ r[j] = t
             \/ j > k /\ j - 1 \in DOMAIN s /\ r[j] = s[j - 1] /\ r[j] \in R
  <2>1. CASE j < k
    <3>1. j \in DOMAIN s /\ r[j] = s[j]
      BY <1>1, <1>2, <2>1
    <3>2. QED
      BY <2>1, <3>1 DEF Lists
  <2>2. CASE j = k
    BY <1>1, <1>2, <2>2
  <2>3. CASE j > k
    <3>1. j - 1 \in DOMAIN s /\ r[j] = s[j - 1]
      BY <1>1, <1>2, <2>3
    <3>2. QED
      BY <2>3, <3>1 DEF Lists
  <2>4. QED
    BY <1>1, <1>2, <2>1, <2>2, <2>3
<1>4. ASSUME NEW x \in R PROVE \E j \in DOMAIN r : r[j] = x
  <2>1. PICK n \in DOMAIN s : s[n] = x
    BY DEF Lists
  <2>2. CASE n < k
    BY <1>1, <1>2, <2>1, <2>2
  <2>3. CASE ~(n < k)
    <3>1. n + 1 \in 1..(Len(s) + 1) /\ ~(n + 1 < k) /\ n + 1 # k /\ (n + 1) - 1 = n
      BY <1>1, <2>3
    <3>2. r[n + 1] = s[n]
      BY <1>2, <3>1
    <3>3. QED
      BY <1>2, <2>1, <3>1, <3>2
  <2>4. QED
    BY <2>2, <2>3
<1>5. k \in DOMAIN r /\ r[k] = t
  BY <1>1, <1>2
<1>6. ASSUME NEW m \in DOMAIN r, NEW n \in DOMAIN r, r[m] = r[n] PROVE m = n
  <2>0. m \in Nat /\ n \in Nat /\ k \in Nat
    BY <1>1, <1>2
  <2>1. CASE m = k \/ n = k
    BY <1>3, <1>6, <2>0, <2>1
  <2>2. CASE m < k /\ n < k
    BY <1>3, <1>6, <2>0, <2>2 DEF Lists
  <2>3. CASE m > k /\ n > k
    <3>1. m - 1 = n - 1
      BY <1>3, <1>6, <2>0, <2>3 DEF Lists
    <3>2. QED
      BY <2>0, <3>1
  <2>4. CASE m < k /\ n > k
    <3>1. m = n - 1
      BY <1>3, <1>6, <2>0, <2>4 DEF Lists
    <3>2. QED
      BY <2>0, <2>4, <3>1
  <2>5. CASE m > k /\ n < k
    <3>1. m - 1 = n
      BY <1>3, <1>6, <2>0, <2>5 DEF Lists
    <3>2. QED
      BY <2>0, <2>5, <3>1
  <2>6. QED
    BY <2>0, <2>1, <2>2, <2>3, <2>4, <2>5
<1>7. r \in [DOMAIN r -> R \cup {t}]
  <2>1. r = [j \in DOMAIN r |-> r[j]]
    BY DEF r, Inserted
  <2>2. QED
    BY <1>3, <2>1
<1>8. {r[j] : j \in DOMAIN r} = R \cup {t}
  BY <1>4, <1>5, <1>7
<1>9. QED
  BY <1>6, <1>8 DEF Lists, r

----------------------------------------------------------------------------
(* The numbers of states and stack symbols.                                *)

\* The numbering is complete.
Numbered == IInv /\ pc \in After \cup {"number"} /\ Len(dotIds) = Len(g.prods)

LEMMA NumberedFacts ==
  ASSUME Numbered
  PROVE  /\ IsCfg(g) /\ Validate(g) = "Ok" /\ Typed /\ DotIdsTyped /\ Numbering
         /\ g.nt \in Nat /\ g.tm \in Nat /\ DotBase = 1 + 2 * g.nt /\ DotBase \in Nat
         /\ nextDot \in Nat /\ nextDot >= DotBase
         /\ NumStackSyms = 1 + (nextDot - DotBase)
         /\ Prods(g) = 1..Len(g.prods) /\ Len(g.prods) \in Nat
         /\ DOMAIN dotIds = Prods(g)
         /\ \A p \in Prods(g) :
              /\ Len(Rhs(g, p)) \in Nat /\ DOMAIN dotIds[p] = 0..Len(Rhs(g, p))
              /\ \A i \in 0..Len(Rhs(g, p)) : dotIds[p][i] \in DotBase..(nextDot - 1)
<1>1. IsCfg(g) /\ Validate(g) = "Ok" /\ Typed /\ DotIdsTyped /\ Numbering
  BY EmittingFacts DEF Numbered, IInv
<1>2. /\ g.nt \in Nat /\ g.tm \in Nat /\ DotBase = 1 + 2 * g.nt /\ DotBase \in Nat
      /\ nextDot \in Nat /\ nextDot >= DotBase
      /\ NumStackSyms = 1 + (nextDot - DotBase)
  BY <1>1, Counts DEF Typed
<1>3. Prods(g) = 1..Len(g.prods) /\ Len(g.prods) \in Nat /\ \A p \in Prods(g) : Len(Rhs(g, p)) \in Nat
  BY <1>1, GrammarFacts
<1>4. DOMAIN dotIds = Prods(g)
  BY <1>1, <1>3, LenProperties DEF Numbered, DotIdsTyped
<1>5. \A p \in Prods(g) : DOMAIN dotIds[p] = 0..Len(Rhs(g, p))
  BY <1>1, <1>3 DEF Numbered, DotIdsTyped
<1>6. \A p \in Prods(g) : \A i \in 0..Len(Rhs(g, p)) : dotIds[p][i] \in DotBase..(nextDot - 1)
  BY <1>1, <1>4, <1>5 DEF Numbering
<1>7. QED
  BY <1>1, <1>2, <1>3, <1>4, <1>5, <1>6

\* A dot is given by its production and position.
LEMMA DotFacts ==
  ASSUME NEW d
  PROVE  /\ d \in Dots(g) <=> \E p \in Prods(g) : \E i \in 0..Len(Rhs(g, p)) : d = Dot(p, i)
         /\ d \in Dots(g) => /\ d.k = "dot" /\ d.ix \in Prods(g) /\ d.pos \in 0..Len(Rhs(g, d.ix))
                             /\ d = Dot(d.ix, d.pos) /\ d # Bot
<1>1. d \in Dots(g) <=> \E p \in Prods(g) : \E i \in 0..Len(Rhs(g, p)) : d = Dot(p, i)
  BY DEF Dots
<1>2. QED
  BY <1>1 DEF Dot, Bot

LEMMA NumbersOf ==
  ASSUME NEW A, NEW p, NEW i
  PROVE  /\ StateId(Start) = QStart /\ StateId(In(A)) = QIn(A) /\ StateId(Out(A)) = QOut(A)
         /\ StateId(Dot(p, i)) = dotIds[p][i]
         /\ StackId(Bot) = 0 /\ StackId(Dot(p, i)) = RetAddr(p, i)
BY DEF StateId, StackId, Start, In, Out, Dot, Bot

\* No two states of the network share a number.
LEMMA StateIdExact ==
  ASSUME Numbered, NEW s \in States(g), NEW u \in States(g), StateId(s) = StateId(u)
  PROVE  s = u
<1>0. g.nt \in Nat /\ DotBase = 1 + 2 * g.nt /\ nextDot \in Nat
  BY NumberedFacts
<1>1. /\ Numbering /\ DOMAIN dotIds = Prods(g)
      /\ \A p \in Prods(g) : DOMAIN dotIds[p] = 0..Len(Rhs(g, p))
      /\ \A p \in Prods(g) : \A i \in 0..Len(Rhs(g, p)) : dotIds[p][i] \in DotBase..(nextDot - 1)
  BY NumberedFacts
<1>2. ASSUME NEW x \in States(g)
      PROVE  \/ x = Start /\ StateId(x) = 0
             \/ \E A \in 0..(g.nt - 1) : x = In(A) /\ StateId(x) = 1 + A
             \/ \E A \in 0..(g.nt - 1) : x = Out(A) /\ StateId(x) = 1 + g.nt + A
             \/ \E p \in Prods(g) : \E i \in 0..Len(Rhs(g, p)) : x = Dot(p, i) /\ StateId(x) = dotIds[p][i]
  <2>1. \/ x = Start \/ (\E A \in 0..(g.nt - 1) : x = In(A)) \/ (\E A \in 0..(g.nt - 1) : x = Out(A))
        \/ x \in Dots(g)
    BY DEF States, Nonterminals
  <2>2. QED
    <3>1. CASE x \in Dots(g)
      <4>1. PICK p \in Prods(g) : \E i \in 0..Len(Rhs(g, p)) : x = Dot(p, i)
        BY <3>1, DotFacts
      <4>2. QED
        BY <4>1, NumbersOf
    <3>2. CASE x = Start
      BY <3>2, NumbersOf DEF QStart
    <3>3. ASSUME NEW A \in 0..(g.nt - 1), x = In(A) PROVE StateId(x) = 1 + A
      BY <3>3, NumbersOf DEF QIn
    <3>4. ASSUME NEW A \in 0..(g.nt - 1), x = Out(A) PROVE StateId(x) = 1 + g.nt + A
      BY <3>4, NumbersOf DEF QOut
    <3>5. QED
      BY <2>1, <3>1, <3>2, <3>3, <3>4
<1>3. ASSUME NEW p \in Prods(g), NEW i \in 0..Len(Rhs(g, p)) PROVE dotIds[p][i] >= 1 + 2 * g.nt
  <2>1. dotIds[p][i] \in DotBase..(nextDot - 1)
    BY <1>1
  <2>2. QED
    BY <1>0, <2>1
<1>4. ASSUME NEW p \in Prods(g), NEW i \in 0..Len(Rhs(g, p)), NEW r \in Prods(g), NEW j \in 0..Len(Rhs(g, r)),
             dotIds[p][i] = dotIds[r][j]
      PROVE  Dot(p, i) = Dot(r, j)
  <2>1. p = r /\ i = j
    BY <1>1, <1>4 DEF Numbering
  <2>2. QED
    BY <2>1
<1>5. ASSUME NEW k \in 0..(g.nt - 1)
      PROVE  1 + k < 1 + g.nt /\ 1 + k > 0 /\ 1 + g.nt + k < 1 + 2 * g.nt /\ 1 + g.nt + k >= 1 + g.nt /\ k \in Nat
  BY <1>0
<1>6. CASE s = Start /\ StateId(s) = 0
  <2>1. ASSUME NEW B \in 0..(g.nt - 1) PROVE StateId(u) # 1 + B /\ StateId(u) # 1 + g.nt + B
    BY <1>0, <1>5, <1>6
  <2>2. ASSUME NEW p \in Prods(g), NEW i \in 0..Len(Rhs(g, p)) PROVE StateId(u) # dotIds[p][i]
    BY <1>0, <1>3, <1>6
  <2>3. QED
    BY <1>2, <1>6, <2>1, <2>2
<1>7. ASSUME NEW A \in 0..(g.nt - 1), s = In(A), StateId(s) = 1 + A PROVE s = u
  <2>1. ~(u = Start /\ StateId(u) = 0)
    BY <1>5, <1>7
  <2>2. ASSUME NEW B \in 0..(g.nt - 1) PROVE StateId(u) # 1 + g.nt + B
    BY <1>0, <1>5, <1>7
  <2>3. ASSUME NEW p \in Prods(g), NEW i \in 0..Len(Rhs(g, p)) PROVE StateId(u) # dotIds[p][i]
    BY <1>0, <1>3, <1>5, <1>7
  <2>4. PICK B \in 0..(g.nt - 1) : u = In(B) /\ StateId(u) = 1 + B
    BY <1>2, <2>1, <2>2, <2>3
  <2>5. A = B
    BY <1>7, <2>4
  <2>6. QED
    BY <1>7, <2>4, <2>5
<1>8. ASSUME NEW A \in 0..(g.nt - 1), s = Out(A), StateId(s) = 1 + g.nt + A PROVE s = u
  <2>1. ~(u = Start /\ StateId(u) = 0)
    BY <1>0, <1>5, <1>8
  <2>2. ASSUME NEW B \in 0..(g.nt - 1) PROVE StateId(u) # 1 + B
    BY <1>0, <1>5, <1>8
  <2>3. ASSUME NEW p \in Prods(g), NEW i \in 0..Len(Rhs(g, p)) PROVE StateId(u) # dotIds[p][i]
    BY <1>0, <1>3, <1>5, <1>8
  <2>4. PICK B \in 0..(g.nt - 1) : u = Out(B) /\ StateId(u) = 1 + g.nt + B
    BY <1>2, <2>1, <2>2, <2>3
  <2>5. A = B
    BY <1>0, <1>8, <2>4
  <2>6. QED
    BY <1>8, <2>4, <2>5
<1>9. ASSUME NEW p \in Prods(g), NEW i \in 0..Len(Rhs(g, p)), s = Dot(p, i), StateId(s) = dotIds[p][i]
      PROVE  s = u
  <2>0. dotIds[p][i] \in Int /\ dotIds[p][i] >= 1 + 2 * g.nt
    <3>1. dotIds[p][i] \in DotBase..(nextDot - 1)
      BY <1>1
    <3>2. QED
      BY <1>0, <1>3, <3>1
  <2>1. ~(u = Start /\ StateId(u) = 0)
    BY <1>0, <1>9, <2>0
  <2>2. ASSUME NEW B \in 0..(g.nt - 1) PROVE StateId(u) # 1 + B /\ StateId(u) # 1 + g.nt + B
    <3>1. StateId(u) \in Int /\ StateId(u) >= 1 + 2 * g.nt
      BY <1>9, <2>0
    <3>2. QED
      BY <1>0, <1>5, <3>1
  <2>3. PICK r \in Prods(g) : \E j \in 0..Len(Rhs(g, r)) : u = Dot(r, j) /\ StateId(u) = dotIds[r][j]
    BY <1>2, <2>1, <2>2
  <2>4. QED
    BY <1>4, <1>9, <2>3
<1>10. QED
  BY <1>2, <1>6, <1>7, <1>8, <1>9

\* The stack symbols of the network are numbered from 0 up, without a gap.
LEMMA StackIdExact ==
  ASSUME Numbered
  PROVE  /\ \A r \in StackSyms(g) : StackId(r) \in StackIds
         /\ \A r, v \in StackSyms(g) : StackId(r) = StackId(v) => r = v
         /\ \A k \in StackIds : \E r \in StackSyms(g) : StackId(r) = k
<1>0. /\ DotBase \in Nat /\ nextDot \in Nat /\ nextDot >= DotBase
      /\ NumStackSyms = 1 + (nextDot - DotBase)
  BY NumberedFacts
<1>1. /\ Numbering /\ DOMAIN dotIds = Prods(g)
      /\ \A p \in Prods(g) : DOMAIN dotIds[p] = 0..Len(Rhs(g, p))
      /\ \A p \in Prods(g) : \A i \in 0..Len(Rhs(g, p)) : dotIds[p][i] \in DotBase..(nextDot - 1)
  BY NumberedFacts
<1>2. ASSUME NEW r \in StackSyms(g)
      PROVE  \/ r = Bot /\ StackId(r) = 0
             \/ \E p \in Prods(g) : \E i \in 0..Len(Rhs(g, p)) :
                  r = Dot(p, i) /\ StackId(r) = 1 + (dotIds[p][i] - DotBase)
  <2>1. r = Bot \/ r \in Dots(g)
    BY DEF StackSyms
  <2>2. QED
    BY <2>1, NumbersOf, DotFacts DEF RetAddr
<1>3. ASSUME NEW p \in Prods(g), NEW i \in 0..Len(Rhs(g, p))
      PROVE  /\ 1 + (dotIds[p][i] - DotBase) \in 1..(NumStackSyms - 1) /\ dotIds[p][i] \in Int
  <2>1. dotIds[p][i] \in DotBase..(nextDot - 1)
    BY <1>1
  <2>2. \A x \in DotBase..(nextDot - 1) : 1 + (x - DotBase) \in 1..(NumStackSyms - 1) /\ x \in Int
    BY <1>0
  <2>3. QED
    BY <2>1, <2>2
<1>4. ASSUME NEW p \in Prods(g), NEW i \in 0..Len(Rhs(g, p)), NEW r \in Prods(g), NEW j \in 0..Len(Rhs(g, r)),
             1 + (dotIds[p][i] - DotBase) = 1 + (dotIds[r][j] - DotBase)
      PROVE  Dot(p, i) = Dot(r, j)
  <2>0. \A x, y \in Int : 1 + (x - DotBase) = 1 + (y - DotBase) => x = y
    BY <1>0
  <2>1. dotIds[p][i] = dotIds[r][j]
    BY <1>3, <1>4, <2>0
  <2>2. p = r /\ i = j
    BY <1>1, <2>1 DEF Numbering
  <2>3. QED
    BY <2>2
<1>5. \A r \in StackSyms(g) : StackId(r) \in StackIds
  <2>1. 0 \in StackIds /\ 1..(NumStackSyms - 1) \subseteq StackIds
    BY <1>0 DEF StackIds
  <2>2. QED
    BY <1>2, <1>3, <2>1
<1>6. \A r, v \in StackSyms(g) : StackId(r) = StackId(v) => r = v
  <2>1. ASSUME NEW p \in Prods(g), NEW i \in 0..Len(Rhs(g, p)) PROVE 1 + (dotIds[p][i] - DotBase) # 0
    BY <1>0, <1>3
  <2>2. QED
    BY <1>2, <1>4, <2>1
<1>7. ASSUME NEW k \in StackIds PROVE \E r \in StackSyms(g) : StackId(r) = k
  <2>1. CASE k = 0
    BY <2>1, NumbersOf DEF StackSyms
  <2>2. CASE k # 0
    <3>1. DotBase + (k - 1) \in DotBase..(nextDot - 1) /\ 1 + ((DotBase + (k - 1)) - DotBase) = k
      <4>1. k \in Nat /\ k < 1 + (nextDot - DotBase)
        BY <1>0 DEF StackIds
      <4>2. QED
        BY <1>0, <2>2, <4>1
    <3>2. PICK p \in Prods(g) : \E i \in 0..Len(Rhs(g, p)) : dotIds[p][i] = DotBase + (k - 1)
      <4>1. PICK p \in DOMAIN dotIds : \E i \in DOMAIN dotIds[p] : dotIds[p][i] = DotBase + (k - 1)
        BY <1>1, <3>1 DEF Numbering
      <4>2. QED
        BY <1>1, <4>1
    <3>3. PICK i \in 0..Len(Rhs(g, p)) : dotIds[p][i] = DotBase + (k - 1)
      BY <3>2
    <3>4. Dot(p, i) \in StackSyms(g) /\ StackId(Dot(p, i)) = k
      BY <3>1, <3>3, NumbersOf, DotFacts DEF StackSyms, RetAddr
    <3>5. QED
      BY <3>4
  <2>3. QED
    BY <2>1, <2>2
<1>8. QED
  BY <1>5, <1>6, <1>7

----------------------------------------------------------------------------
(* The moves of the network, family by family.                             *)

StartOf == Move(Start, Eps(g), Bot, In(g.start), <<Bot>>)
ChoiceOf(p, top) == Move(In(Lhs(g, p)), Eps(g), top, Dot(p, 0), <<top>>)
TerminalOf(p, i, top) ==
  Move(Dot(p, i - 1), TerminalId(g, Rhs(g, p)[i]), top, Dot(p, i), <<top>>)
CallOf(p, i, top) == Move(Dot(p, i - 1), Eps(g), top, In(Rhs(g, p)[i]), <<Dot(p, i), top>>)
ExitOf(p, top) == Move(Dot(p, Len(Rhs(g, p))), Eps(g), top, Out(Lhs(g, p)), <<top>>)
ReturnOf(B, r) == Move(Out(B), Eps(g), r, r, <<>>)

Symbols(p) == 1..Len(Rhs(g, p))

LEMMA DotMoves ==
  ASSUME Numbered, NEW d
  PROVE  /\ d \in TerminalDots(g) <=> \E p \in Prods(g) : \E i \in Symbols(p) :
              d = Dot(p, i - 1) /\ IsTerminal(g, Rhs(g, p)[i])
         /\ d \in CallDots(g) <=> \E p \in Prods(g) : \E i \in Symbols(p) :
              d = Dot(p, i - 1) /\ ~IsTerminal(g, Rhs(g, p)[i])
         /\ d \in FinalDots(g) <=> \E p \in Prods(g) : d = Dot(p, Len(Rhs(g, p)))
<1>1. \A p \in Prods(g) : Len(Rhs(g, p)) \in Nat
  BY NumberedFacts
<1>2. ASSUME NEW p \in Prods(g), NEW i \in Symbols(p)
      PROVE  /\ Dot(p, i - 1) \in Dots(g) /\ Dot(p, i - 1).ix = p /\ Dot(p, i - 1).pos < Len(Rhs(g, p))
             /\ Dot(p, i - 1).pos + 1 = i
  <2>1. i - 1 \in 0..Len(Rhs(g, p)) /\ i - 1 < Len(Rhs(g, p)) /\ (i - 1) + 1 = i
    BY <1>1 DEF Symbols
  <2>2. QED
    BY <2>1, DotFacts DEF Dot
<1>3. ASSUME NEW e \in Dots(g), e.pos < Len(Rhs(g, e.ix))
      PROVE  e.ix \in Prods(g) /\ e.pos + 1 \in Symbols(e.ix) /\ e = Dot(e.ix, (e.pos + 1) - 1)
  <2>1. e.ix \in Prods(g) /\ e.pos \in 0..Len(Rhs(g, e.ix)) /\ e = Dot(e.ix, e.pos)
    BY DotFacts
  <2>2. e.pos + 1 \in 1..Len(Rhs(g, e.ix)) /\ (e.pos + 1) - 1 = e.pos
    BY <1>1, <1>3, <2>1
  <2>3. QED
    BY <2>1, <2>2 DEF Symbols
<1>4. d \in TerminalDots(g) <=> \E p \in Prods(g) : \E i \in Symbols(p) :
        d = Dot(p, i - 1) /\ IsTerminal(g, Rhs(g, p)[i])
  BY <1>2, <1>3 DEF TerminalDots
<1>5. d \in CallDots(g) <=> \E p \in Prods(g) : \E i \in Symbols(p) :
        d = Dot(p, i - 1) /\ ~IsTerminal(g, Rhs(g, p)[i])
  BY <1>2, <1>3 DEF CallDots
<1>6. d \in FinalDots(g) <=> \E p \in Prods(g) : d = Dot(p, Len(Rhs(g, p)))
  <2>1. ASSUME NEW p \in Prods(g)
        PROVE  /\ Dot(p, Len(Rhs(g, p))) \in Dots(g) /\ Dot(p, Len(Rhs(g, p))).ix = p
               /\ Dot(p, Len(Rhs(g, p))).pos = Len(Rhs(g, p))
    <3>1. Len(Rhs(g, p)) \in 0..Len(Rhs(g, p))
      BY <1>1
    <3>2. QED
      BY <3>1, DotFacts DEF Dot
  <2>2. QED
    BY <2>1, DotFacts DEF FinalDots
<1>7. QED
  BY <1>4, <1>5, <1>6

LEMMA MovesOf ==
  ASSUME Numbered, NEW t
  PROVE  t \in Delta(g) <=>
           \/ t = StartOf
           \/ \E p \in Prods(g), top \in StackSyms(g) : t = ChoiceOf(p, top) \/ t = ExitOf(p, top)
           \/ \E p \in Prods(g), top \in StackSyms(g) : \E i \in Symbols(p) :
                IF IsTerminal(g, Rhs(g, p)[i]) THEN t = TerminalOf(p, i, top) ELSE t = CallOf(p, i, top)
           \/ \E B \in Nonterminals(g), r \in Dots(g) : t = ReturnOf(B, r)
<1>1. \A p \in Prods(g) : \A i \in Symbols(p) :
        /\ NextSym(g, Dot(p, i - 1)) = Rhs(g, p)[i] /\ Advanced(Dot(p, i - 1)) = Dot(p, i)
  <2> SUFFICES ASSUME NEW p \in Prods(g), NEW i \in Symbols(p)
               PROVE  NextSym(g, Dot(p, i - 1)) = Rhs(g, p)[i] /\ Advanced(Dot(p, i - 1)) = Dot(p, i)
    OBVIOUS
  <2>1. Len(Rhs(g, p)) \in Nat
    BY NumberedFacts
  <2>2. (i - 1) + 1 = i
    BY <2>1 DEF Symbols
  <2>3. QED
    BY <2>2 DEF NextSym, Advanced, Dot
<1>2. t \in StartMoves(g) <=> t = StartOf
  BY DEF StartMoves, StartOf
<1>3. t \in ChoiceMoves(g) <=> \E p \in Prods(g), top \in StackSyms(g) : t = ChoiceOf(p, top)
  BY DEF ChoiceMoves, ChoiceOf
<1>4. t \in TerminalMoves(g) <=>
        \E p \in Prods(g), top \in StackSyms(g) : \E i \in Symbols(p) :
          IsTerminal(g, Rhs(g, p)[i]) /\ t = TerminalOf(p, i, top)
  <2>1. ASSUME t \in TerminalMoves(g)
        PROVE  \E p \in Prods(g), top \in StackSyms(g) : \E i \in Symbols(p) :
                 IsTerminal(g, Rhs(g, p)[i]) /\ t = TerminalOf(p, i, top)
    <3>1. PICK d \in TerminalDots(g), top \in StackSyms(g) : t = Move(d, TerminalId(g, NextSym(g, d)), top, Advanced(d), <<top>>)
      BY <2>1 DEF TerminalMoves
    <3>2. PICK p \in Prods(g) : \E i \in Symbols(p) : d = Dot(p, i - 1) /\ IsTerminal(g, Rhs(g, p)[i])
      BY DotMoves
    <3>3. PICK i \in Symbols(p) : d = Dot(p, i - 1) /\ IsTerminal(g, Rhs(g, p)[i])
      BY <3>2
    <3>4. t = TerminalOf(p, i, top)
      BY <1>1, <3>1, <3>3 DEF TerminalOf
    <3>5. QED
      BY <3>3, <3>4
  <2>2. ASSUME NEW p \in Prods(g), NEW top \in StackSyms(g), NEW i \in Symbols(p),
               IsTerminal(g, Rhs(g, p)[i]), t = TerminalOf(p, i, top)
        PROVE  t \in TerminalMoves(g)
    <3>1. Dot(p, i - 1) \in TerminalDots(g)
      BY <2>2, DotMoves
    <3>2. QED
      BY <1>1, <2>2, <3>1 DEF TerminalMoves, TerminalOf
  <2>3. QED
    BY <2>1, <2>2
<1>5. t \in CallMoves(g) <=>
        \E p \in Prods(g), top \in StackSyms(g) : \E i \in Symbols(p) :
          ~IsTerminal(g, Rhs(g, p)[i]) /\ t = CallOf(p, i, top)
  <2>1. ASSUME t \in CallMoves(g)
        PROVE  \E p \in Prods(g), top \in StackSyms(g) : \E i \in Symbols(p) :
                 ~IsTerminal(g, Rhs(g, p)[i]) /\ t = CallOf(p, i, top)
    <3>1. PICK d \in CallDots(g), top \in StackSyms(g) : t = Move(d, Eps(g), top, In(NextSym(g, d)), <<Advanced(d), top>>)
      BY <2>1 DEF CallMoves
    <3>2. PICK p \in Prods(g) : \E i \in Symbols(p) : d = Dot(p, i - 1) /\ ~IsTerminal(g, Rhs(g, p)[i])
      BY DotMoves
    <3>3. PICK i \in Symbols(p) : d = Dot(p, i - 1) /\ ~IsTerminal(g, Rhs(g, p)[i])
      BY <3>2
    <3>4. t = CallOf(p, i, top)
      BY <1>1, <3>1, <3>3 DEF CallOf
    <3>5. QED
      BY <3>3, <3>4
  <2>2. ASSUME NEW p \in Prods(g), NEW top \in StackSyms(g), NEW i \in Symbols(p),
               ~IsTerminal(g, Rhs(g, p)[i]), t = CallOf(p, i, top)
        PROVE  t \in CallMoves(g)
    <3>1. Dot(p, i - 1) \in CallDots(g)
      BY <2>2, DotMoves
    <3>2. QED
      BY <1>1, <2>2, <3>1 DEF CallMoves, CallOf
  <2>3. QED
    BY <2>1, <2>2
<1>6. t \in ExitMoves(g) <=> \E p \in Prods(g), top \in StackSyms(g) : t = ExitOf(p, top)
  <2>1. \A p \in Prods(g) : Dot(p, Len(Rhs(g, p))).ix = p
    BY DEF Dot
  <2>2. ASSUME t \in ExitMoves(g) PROVE \E p \in Prods(g), top \in StackSyms(g) : t = ExitOf(p, top)
    <3>1. PICK d \in FinalDots(g), top \in StackSyms(g) : t = Move(d, Eps(g), top, Out(Lhs(g, d.ix)), <<top>>)
      BY <2>2 DEF ExitMoves
    <3>2. PICK p \in Prods(g) : d = Dot(p, Len(Rhs(g, p)))
      BY DotMoves
    <3>3. t = ExitOf(p, top)
      BY <2>1, <3>1, <3>2 DEF ExitOf
    <3>4. QED
      BY <3>3
  <2>3. ASSUME NEW p \in Prods(g), NEW top \in StackSyms(g), t = ExitOf(p, top) PROVE t \in ExitMoves(g)
    <3>1. Dot(p, Len(Rhs(g, p))) \in FinalDots(g)
      BY DotMoves
    <3>2. QED
      BY <2>1, <2>3, <3>1 DEF ExitMoves, ExitOf
  <2>4. QED
    BY <2>2, <2>3
<1>7. t \in ReturnMoves(g) <=> \E B \in Nonterminals(g), r \in Dots(g) : t = ReturnOf(B, r)
  BY DEF ReturnMoves, ReturnOf
<1>8. t \in Delta(g) <=> t \in StartMoves(g) \/ t \in ChoiceMoves(g) \/ t \in TerminalMoves(g)
                         \/ t \in CallMoves(g) \/ t \in ExitMoves(g) \/ t \in ReturnMoves(g)
  BY DEF Delta
<1>9. QED
  BY <1>2, <1>3, <1>4, <1>5, <1>6, <1>7, <1>8

\* The records the table has for them.
LEMMA RecordsOf ==
  ASSUME NEW p, NEW i, NEW top, NEW B
  PROVE  /\ Encoded(StartOf) = Move(QStart, Eps(g), 0, QIn(g.start), <<0>>)
         /\ Encoded(ChoiceOf(p, top)) =
              Move(QIn(Lhs(g, p)), Eps(g), StackId(top), dotIds[p][0], <<StackId(top)>>)
         /\ Encoded(TerminalOf(p, i, top)) =
              Move(dotIds[p][i - 1], TerminalId(g, Rhs(g, p)[i]), StackId(top), dotIds[p][i], <<StackId(top)>>)
         /\ Encoded(CallOf(p, i, top)) =
              Move(dotIds[p][i - 1], Eps(g), StackId(top), QIn(Rhs(g, p)[i]), <<RetAddr(p, i), StackId(top)>>)
         /\ Encoded(ExitOf(p, top)) =
              Move(dotIds[p][Len(Rhs(g, p))], Eps(g), StackId(top), QOut(Lhs(g, p)), <<StackId(top)>>)
         /\ Encoded(ReturnOf(B, top)) = Move(QOut(B), Eps(g), StackId(top), StateId(top), <<>>)
<1>1. ASSUME NEW x PROVE [j \in DOMAIN <<x>> |-> StackId(<<x>>[j])] = <<StackId(x)>>
  OBVIOUS
<1>2. ASSUME NEW x, NEW y
      PROVE  [j \in DOMAIN <<x, y>> |-> StackId(<<x, y>>[j])] = <<StackId(x), StackId(y)>>
  OBVIOUS
<1>3. ASSUME NEW push, push = <<>> PROVE [j \in DOMAIN push |-> StackId(push[j])] = push
  BY <1>3
<1>4. ASSUME NEW q, NEW a, NEW r, NEW u, NEW push
      PROVE  Encoded(Move(q, a, r, u, push)) =
               Move(StateId(q), a, StackId(r), StateId(u), [j \in DOMAIN push |-> StackId(push[j])])
  BY DEF Encoded, Move
<1>5. Encoded(StartOf) = Move(QStart, Eps(g), 0, QIn(g.start), <<0>>)
  BY <1>1, <1>4, NumbersOf DEF StartOf
<1>6. Encoded(ChoiceOf(p, top)) =
        Move(QIn(Lhs(g, p)), Eps(g), StackId(top), dotIds[p][0], <<StackId(top)>>)
  BY <1>1, <1>4, NumbersOf DEF ChoiceOf
<1>7. Encoded(TerminalOf(p, i, top)) =
        Move(dotIds[p][i - 1], TerminalId(g, Rhs(g, p)[i]), StackId(top), dotIds[p][i], <<StackId(top)>>)
  BY <1>1, <1>4, NumbersOf DEF TerminalOf
<1>8. Encoded(CallOf(p, i, top)) =
        Move(dotIds[p][i - 1], Eps(g), StackId(top), QIn(Rhs(g, p)[i]), <<RetAddr(p, i), StackId(top)>>)
  BY <1>2, <1>4, NumbersOf DEF CallOf
<1>9. Encoded(ExitOf(p, top)) =
        Move(dotIds[p][Len(Rhs(g, p))], Eps(g), StackId(top), QOut(Lhs(g, p)), <<StackId(top)>>)
  BY <1>1, <1>4, NumbersOf DEF ExitOf
<1>10. Encoded(ReturnOf(B, top)) = Move(QOut(B), Eps(g), StackId(top), StateId(top), <<>>)
  <2> DEFINE push == <<>>
  <2>0. push = <<>>
    OBVIOUS
  <2>1. ReturnOf(B, top) = Move(Out(B), Eps(g), top, top, push)
    BY DEF ReturnOf
  <2> HIDE DEF push
  <2>2. Encoded(ReturnOf(B, top)) = Move(QOut(B), Eps(g), StackId(top), StateId(top), push)
    BY <1>3, <1>4, <2>0, <2>1, NumbersOf
  <2>3. QED
    BY <2>0, <2>2
<1>11. QED
  BY <1>5, <1>6, <1>7, <1>8, <1>9, <1>10

LEMMA MoveTyped ==
  ASSUME Numbered, NEW t \in Delta(g)
  PROVE  \E q, u \in States(g), a \in Nat, r \in StackSyms(g), push \in Seq(StackSyms(g)) :
           t = Move(q, a, r, u, push)
<1>1. /\ IsCfg(g) /\ Validate(g) = "Ok" /\ g.nt \in Nat /\ g.tm \in Nat /\ Eps(g) \in Nat
      /\ Prods(g) = 1..Len(g.prods)
  BY NumberedFacts DEF Eps
<1>2. g.start \in Nonterminals(g) /\ \A p \in Prods(g) : Lhs(g, p) \in Nonterminals(g)
  BY <1>1, GrammarFacts, ValidSymbols DEF Nonterminals
<1>3. \A A \in Nonterminals(g) : In(A) \in States(g) /\ Out(A) \in States(g)
  BY DEF States
<1>4. Start \in States(g) /\ Bot \in StackSyms(g) /\ Dots(g) \subseteq States(g) /\ Dots(g) \subseteq StackSyms(g)
  BY DEF States, StackSyms
<1>5. \A p \in Prods(g) : \A i \in 0..Len(Rhs(g, p)) : Dot(p, i) \in Dots(g)
  BY DotFacts
<1>6. \A p \in Prods(g) : 0 \in 0..Len(Rhs(g, p)) /\ Len(Rhs(g, p)) \in 0..Len(Rhs(g, p))
  BY NumberedFacts
<1>7. \A x, y \in StackSyms(g) : <<x>> \in Seq(StackSyms(g)) /\ <<x, y>> \in Seq(StackSyms(g))
  OBVIOUS
<1>8. CASE t = StartOf
  BY <1>1, <1>2, <1>3, <1>4, <1>7, <1>8 DEF StartOf
<1>9. ASSUME NEW p \in Prods(g), NEW top \in StackSyms(g), t = ChoiceOf(p, top) \/ t = ExitOf(p, top)
      PROVE  \E q, u \in States(g), a \in Nat, r \in StackSyms(g), push \in Seq(StackSyms(g)) :
               t = Move(q, a, r, u, push)
  <2>1. /\ In(Lhs(g, p)) \in States(g) /\ Dot(p, 0) \in States(g) /\ Out(Lhs(g, p)) \in States(g)
        /\ Dot(p, Len(Rhs(g, p))) \in States(g)
    BY <1>2, <1>3, <1>4, <1>5, <1>6
  <2>2. QED
    BY <1>1, <1>7, <1>9, <2>1 DEF ChoiceOf, ExitOf
<1>10. ASSUME NEW p \in Prods(g), NEW top \in StackSyms(g), NEW i \in Symbols(p),
              IF IsTerminal(g, Rhs(g, p)[i]) THEN t = TerminalOf(p, i, top) ELSE t = CallOf(p, i, top)
       PROVE  \E q, u \in States(g), a \in Nat, r \in StackSyms(g), push \in Seq(StackSyms(g)) :
                t = Move(q, a, r, u, push)
  <2>1. Rhs(g, p)[i] \in Nat
    BY <1>1, GrammarFacts DEF Symbols
  <2>2. i - 1 \in 0..Len(Rhs(g, p)) /\ i \in 0..Len(Rhs(g, p))
    BY <1>6, NumberedFacts DEF Symbols
  <2>3. Dot(p, i - 1) \in States(g) /\ Dot(p, i) \in States(g) /\ Dot(p, i) \in StackSyms(g)
    BY <1>4, <1>5, <2>2
  <2>4. CASE IsTerminal(g, Rhs(g, p)[i])
    <3>1. TerminalId(g, Rhs(g, p)[i]) \in Nat
      BY <1>1, <2>1, <2>4 DEF IsTerminal, TerminalId
    <3>2. QED
      BY <1>7, <1>10, <2>3, <2>4, <3>1 DEF TerminalOf
  <2>5. CASE ~IsTerminal(g, Rhs(g, p)[i])
    <3>1. In(Rhs(g, p)[i]) \in States(g)
      <4>1. Rhs(g, p)[i] \in Nonterminals(g)
        BY <1>1, <2>1, <2>5 DEF IsTerminal, Nonterminals
      <4>2. QED
        BY <1>3, <4>1
    <3>2. QED
      BY <1>1, <1>7, <1>10, <2>3, <2>5, <3>1 DEF CallOf
  <2>6. QED
    BY <2>4, <2>5
<1>11. ASSUME NEW B \in Nonterminals(g), NEW r \in Dots(g), t = ReturnOf(B, r)
       PROVE  \E q, u \in States(g), a \in Nat, top \in StackSyms(g), push \in Seq(StackSyms(g)) :
                t = Move(q, a, top, u, push)
  BY <1>1, <1>3, <1>4, <1>11, EmptySeq DEF ReturnOf
<1>12. QED
  BY <1>8, <1>9, <1>10, <1>11, MovesOf

\* No two moves of the network have one record.
LEMMA EncodedExact ==
  ASSUME Numbered, NEW s \in Delta(g), NEW t \in Delta(g), Encoded(s) = Encoded(t)
  PROVE  s = t
<1>1. PICK q \in States(g), u \in States(g), a \in Nat, r \in StackSyms(g), x \in Seq(StackSyms(g)) :
        s = Move(q, a, r, u, x)
  BY MoveTyped
<1>2. PICK q2 \in States(g), u2 \in States(g), a2 \in Nat, r2 \in StackSyms(g), y \in Seq(StackSyms(g)) :
        t = Move(q2, a2, r2, u2, y)
  BY MoveTyped
<1>3. /\ StateId(q) = StateId(q2) /\ a = a2 /\ StackId(r) = StackId(r2) /\ StateId(u) = StateId(u2)
      /\ [j \in DOMAIN x |-> StackId(x[j])] = [j \in DOMAIN y |-> StackId(y[j])]
  BY <1>1, <1>2 DEF Encoded, Move
<1>4. q = q2 /\ u = u2 /\ r = r2
  BY <1>3, StateIdExact, StackIdExact
<1>5. DOMAIN x = DOMAIN y /\ \A j \in DOMAIN x : StackId(x[j]) = StackId(y[j])
  <2> DEFINE f == [j \in DOMAIN x |-> StackId(x[j])]
             h == [j \in DOMAIN y |-> StackId(y[j])]
  <2>1. DOMAIN f = DOMAIN x /\ DOMAIN h = DOMAIN y /\ f = h
    BY <1>3
  <2>2. \A j \in DOMAIN x : f[j] = StackId(x[j])
    OBVIOUS
  <2>3. \A j \in DOMAIN y : h[j] = StackId(y[j])
    OBVIOUS
  <2> HIDE DEF f, h
  <2>4. QED
    BY <2>1, <2>2, <2>3
<1>6. x = y
  <2>1. /\ Len(x) \in Nat /\ Len(y) \in Nat /\ DOMAIN x = 1..Len(x) /\ DOMAIN y = 1..Len(y)
        /\ \A j \in 1..Len(x) : x[j] \in StackSyms(g)
        /\ \A j \in 1..Len(y) : y[j] \in StackSyms(g)
    BY LenProperties, ElementOfSeq
  <2>2. Len(x) = Len(y)
    <3>1. ASSUME NEW m \in Nat, NEW n \in Nat, 1..m = 1..n PROVE m <= n
      <4>1. CASE m = 0
        BY <4>1
      <4>2. CASE m # 0
        <5>1. m \in 1..m
          BY <4>2
        <5>2. QED
          BY <3>1, <5>1
      <4>3. QED
        BY <4>1, <4>2
    <3>2. 1..Len(x) = 1..Len(y)
      BY <1>5, <2>1
    <3>3. Len(x) <= Len(y) /\ Len(y) <= Len(x)
      BY Zenon, <2>1, <3>1, <3>2
    <3>4. Len(x) \in Nat /\ Len(y) \in Nat
      BY <2>1
    <3>5. QED
      BY <3>3, <3>4
  <2>3. \A j \in 1..Len(x) : x[j] = y[j]
    BY <1>5, <2>1, <2>2, StackIdExact
  <2>4. QED
    BY <2>2, <2>3, SeqEqual
<1>7. QED
  BY <1>1, <1>2, <1>3, <1>4, <1>6

----------------------------------------------------------------------------
(* Turns.                                                                  *)

LEMMA TurnOf ==
  ASSUME Numbered
  PROVE  /\ Turn(StartOf) = <<0, 0>>
         /\ \A B, r : Turn(ReturnOf(B, r)) = <<Len(g.prods) + 1, B>>
         /\ \A p, top : /\ Turn(ChoiceOf(p, top)) = <<p, 0>>
                        /\ Turn(ExitOf(p, top)) = <<p, Len(Rhs(g, p)) + 1>>
         /\ \A p \in Prods(g) : \A top : \A i \in Symbols(p) :
              Turn(TerminalOf(p, i, top)) = <<p, i>> /\ Turn(CallOf(p, i, top)) = <<p, i>>
<1>1. ASSUME NEW p \in Prods(g), NEW i \in Symbols(p) PROVE (i - 1) + 1 = i
  BY NumberedFacts DEF Symbols
<1>2. QED
  BY <1>1 DEF Turn, Move, StartOf, ReturnOf, ChoiceOf, ExitOf, TerminalOf, CallOf, Start, In, Out, Dot

\* Whose turn it is, at every place of the loops.
LEMMA TurnCases ==
  ASSUME Numbered, NEW t \in Delta(g)
  PROVE  \/ t = StartOf /\ Turn(t) = <<0, 0>>
         \/ \E p \in Prods(g), top \in StackSyms(g) : t = ChoiceOf(p, top) /\ Turn(t) = <<p, 0>>
         \/ \E p \in Prods(g), top \in StackSyms(g) :
              t = ExitOf(p, top) /\ Turn(t) = <<p, Len(Rhs(g, p)) + 1>>
         \/ \E p \in Prods(g), top \in StackSyms(g) : \E i \in Symbols(p) :
              /\ IF IsTerminal(g, Rhs(g, p)[i]) THEN t = TerminalOf(p, i, top) ELSE t = CallOf(p, i, top)
              /\ Turn(t) = <<p, i>>
         \/ \E B \in Nonterminals(g), r \in Dots(g) :
              t = ReturnOf(B, r) /\ Turn(t) = <<Len(g.prods) + 1, B>>
BY MovesOf, TurnOf

LEMMA TurnBounds ==
  ASSUME Numbered, NEW t \in Delta(g)
  PROVE  /\ Turn(t) \in Nat \X Nat
         /\ \/ Turn(t) = <<0, 0>>
            \/ \E p \in Prods(g) : Turn(t)[1] = p /\ Turn(t)[2] <= Len(Rhs(g, p)) + 1
            \/ Turn(t)[1] = Len(g.prods) + 1 /\ Turn(t)[2] < g.nt
<1>1. /\ Len(g.prods) \in Nat /\ Prods(g) = 1..Len(g.prods) /\ g.nt \in Nat
      /\ \A p \in Prods(g) : Len(Rhs(g, p)) \in Nat
  BY NumberedFacts
<1>2. \A p \in Prods(g) : /\ p \in Nat /\ 0 <= Len(Rhs(g, p)) + 1 /\ Len(Rhs(g, p)) + 1 \in Nat
                          /\ \A i \in Symbols(p) : i \in Nat /\ i <= Len(Rhs(g, p)) + 1
  BY <1>1 DEF Symbols
<1>3. Len(g.prods) + 1 \in Nat /\ \A B \in Nonterminals(g) : B \in Nat /\ B < g.nt
  BY <1>1 DEF Nonterminals
<1>4. QED
  BY <1>1, <1>2, <1>3, TurnCases

LEMMA TurnIs ==
  ASSUME Numbered, NEW t \in Delta(g), NEW p \in Prods(g)
  PROVE  /\ Turn(t) = <<p, 0>> => \E top \in StackSyms(g) : t = ChoiceOf(p, top)
         /\ Turn(t) = <<p, Len(Rhs(g, p)) + 1>> => \E top \in StackSyms(g) : t = ExitOf(p, top)
         /\ \A i \in Symbols(p) : Turn(t) = <<p, i>> =>
              \E top \in StackSyms(g) :
                IF IsTerminal(g, Rhs(g, p)[i]) THEN t = TerminalOf(p, i, top) ELSE t = CallOf(p, i, top)
<1>0. Len(g.prods) \in Nat /\ Prods(g) = 1..Len(g.prods) /\ Len(Rhs(g, p)) \in Nat
  BY NumberedFacts
<1>1. /\ p # 0 /\ p # Len(g.prods) + 1 /\ Len(Rhs(g, p)) + 1 # 0
      /\ \A i \in Symbols(p) : i # 0 /\ i # Len(Rhs(g, p)) + 1
  BY <1>0 DEF Symbols
<1>2. QED
  BY <1>1, TurnCases

LEMMA TurnIsReturn ==
  ASSUME Numbered, NEW t \in Delta(g), NEW B, Turn(t) = <<Len(g.prods) + 1, B>>
  PROVE  \E r \in Dots(g) : t = ReturnOf(B, r)
<1>1. Len(g.prods) + 1 # 0 /\ \A p \in Prods(g) : p # Len(g.prods) + 1
  BY NumberedFacts
<1>2. QED
  BY <1>1, TurnCases

\* The cursor moves past the moves whose turn it is, and past no other.
LEMMA CursorStep ==
  ASSUME Numbered, NEW t \in Delta(g), NEW now \in Nat \X Nat, NEW next,
         \/ next = <<now[1], now[2] + 1>>
         \/ \E p \in Prods(g) : now = <<p, Len(Rhs(g, p)) + 1>> /\ next = <<p + 1, 0>>
  PROVE  /\ Precedes(Turn(t), next) <=> Precedes(Turn(t), now) \/ Turn(t) = now
         /\ Turn(t) = now => ~Precedes(Turn(t), now)
<1> DEFINE x == Turn(t)[1]
           y == Turn(t)[2]
<1>1. x \in Nat /\ y \in Nat /\ Turn(t) = <<x, y>>
  BY TurnBounds
<1>2. now[1] \in Nat /\ now[2] \in Nat /\ now = <<now[1], now[2]>>
  OBVIOUS
<1>3. Len(g.prods) \in Nat /\ Prods(g) = 1..Len(g.prods) /\ \A p \in Prods(g) : Len(Rhs(g, p)) \in Nat
  BY NumberedFacts
<1>4. \A p \in Prods(g) : p \in Nat /\ p # 0 /\ p # Len(g.prods) + 1
  BY <1>3
<1>5. \A p \in Prods(g) : x = p => y <= Len(Rhs(g, p)) + 1
  BY <1>4, TurnBounds
<1> HIDE DEF x, y
<1>6. Turn(t) = now <=> x = now[1] /\ y = now[2]
  BY <1>1, <1>2
<1>7. \A u : Precedes(Turn(t), u) <=> x < u[1] \/ (x = u[1] /\ y < u[2])
  BY DEF Precedes, x, y
<1>8. CASE next = <<now[1], now[2] + 1>>
  <2>1. next[1] = now[1] /\ next[2] = now[2] + 1
    BY <1>8
  <2>2. QED
    BY <1>1, <1>2, <1>6, <1>7, <2>1
<1>9. ASSUME NEW p \in Prods(g), now = <<p, Len(Rhs(g, p)) + 1>>, next = <<p + 1, 0>>
      PROVE  /\ Precedes(Turn(t), next) <=> Precedes(Turn(t), now) \/ Turn(t) = now
             /\ Turn(t) = now => ~Precedes(Turn(t), now)
  <2>1. next[1] = p + 1 /\ next[2] = 0 /\ now[1] = p /\ now[2] = Len(Rhs(g, p)) + 1
    BY <1>9
  <2>2. p \in Nat /\ Len(Rhs(g, p)) \in Nat /\ (x = p => y <= Len(Rhs(g, p)) + 1)
    BY <1>3, <1>4, <1>5
  <2>3. /\ Precedes(Turn(t), next) <=> x < p + 1 \/ (x = p + 1 /\ y < 0)
        /\ Precedes(Turn(t), now) <=> x < p \/ (x = p /\ y < Len(Rhs(g, p)) + 1)
        /\ Turn(t) = now <=> x = p /\ y = Len(Rhs(g, p)) + 1
    BY <1>6, <1>7, <2>1
  <2>4. QED
    BY <1>1, <2>2, <2>3
<1>10. QED
  BY <1>8, <1>9

----------------------------------------------------------------------------
(* The invariant is inductive.                                             *)

LEMMA RecordsStand ==
  ASSUME UNCHANGED <<g, dotIds, nextDot>>
  PROVE  /\ Delta(g)' = Delta(g)
         /\ \A t : Encoded(t)' = Encoded(t) /\ Turn(t)' = Turn(t)
         /\ Records(Delta(g))' = Records(Delta(g))
<1>1. \A s : StateId(s)' = StateId(s) /\ StackId(s)' = StackId(s)
  BY DEF StateId, StackId, RetAddr, QStart, QIn, QOut, DotBase
<1>2. \A t : Encoded(t)' = Encoded(t) /\ Turn(t)' = Turn(t)
  BY <1>1 DEF Encoded, Turn
<1>3. QED
  BY <1>2 DEF Records

\* The moves whose turn it is.
OnTurn == {t \in Delta(g) : Turn(t) = at}

\* An iteration that pushes the records of the moves whose turn it is, and
\* moves the cursor past them.
LEMMA EmittedNext ==
  ASSUME Numbered, NetworkInv, pc = "emit", pc' = "emit", UNCHANGED <<g, dotIds, nextDot>>,
         \/ at' = <<at[1], at[2] + 1>>
         \/ \E p \in Prods(g) : at = <<p, Len(Rhs(g, p)) + 1>> /\ at' = <<p + 1, 0>>,
         NEW moves \in Seq(Usable), Lists(moves, Records(OnTurn)), trans' = trans \o moves
  PROVE  NetworkInv'
<1> DEFINE Gone == {t \in Delta(g) : Earlier(t)}
           Next_ == {t \in Delta(g) : Precedes(Turn(t), at')}
<1>1. at \in Nat \X Nat /\ trans \in Seq(Usable) /\ at[1] >= 1 /\ Lists(trans, Records(Gone))
  BY DEF Numbered, IInv, Typed, TableUsable, NetworkInv
<1>2. Next_ = Gone \cup OnTurn /\ Gone \cap OnTurn = {}
  <2>1. ASSUME NEW t \in Delta(g)
        PROVE  /\ Precedes(Turn(t), at') <=> Earlier(t) \/ Turn(t) = at
               /\ Turn(t) = at => ~Earlier(t)
    BY <1>1, CursorStep DEF Earlier
  <2>2. QED
    BY <2>1 DEF OnTurn
<1>3. Gone \in SUBSET Delta(g) /\ OnTurn \in SUBSET Delta(g)
  BY DEF OnTurn
<1> HIDE DEF Gone, Next_
<1>4. Records(Gone) \cap Records(OnTurn) = {}
  BY <1>2, <1>3, EncodedExact DEF Records
<1>5. Records(Next_) = Records(Gone) \cup Records(OnTurn)
  BY <1>2 DEF Records
<1>6. Lists(trans', Records(Next_))
  <2>1. Lists(trans \o moves, Records(Gone) \cup Records(OnTurn))
    <3>1. trans \in Seq(Usable) /\ moves \in Seq(Usable) /\ Lists(trans, Records(Gone))
      BY <1>1
    <3>2. QED
      BY <1>4, <3>1, ListedTogether
  <2>2. QED
    BY <1>5, <2>1
<1>7. at'[1] >= 1
  BY <1>1, NumberedFacts
<1>8. Records({t \in Delta(g) : Earlier(t)})' = Records(Next_)
  BY RecordsStand DEF Records, Earlier, Precedes, Next_
<1>9. QED
  BY <1>6, <1>7, <1>8 DEF NetworkInv

LEMMA StackIndex ==
  ASSUME Numbered, NEW r \in StackSyms(g)
  PROVE  StackId(r) + 1 \in 1..NumStackSyms /\ (StackId(r) + 1) - 1 = StackId(r)
<1>1. NumStackSyms \in Nat /\ StackId(r) \in 0..(NumStackSyms - 1)
  <2>1. NumStackSyms \in Nat
    BY NumberedFacts
  <2>2. QED
    BY <2>1, StackIdExact DEF StackIds
<1>2. QED
  BY <1>1

\* A loop over the stack symbols pushes one record for each.
LEMMA ListedByTops ==
  ASSUME Numbered, NEW B \in SUBSET Delta(g),
         NEW moves, DOMAIN moves = 1..NumStackSyms, \A n \in 1..NumStackSyms : moves[n].top = n - 1,
         \A t \in B : t.top \in StackSyms(g) /\ Encoded(t) = moves[StackId(t.top) + 1],
         \A r \in StackSyms(g) : \E t \in B : t.top = r
  PROVE  Lists(moves, Records(B))
<1>1. NumStackSyms \in Nat /\ StackIds = 0..(NumStackSyms - 1)
  BY NumberedFacts DEF StackIds
<1>2. ASSUME NEW n \in 1..NumStackSyms PROVE moves[n] \in Records(B)
  <2>1. n - 1 \in StackIds /\ (n - 1) + 1 = n
    BY <1>1
  <2>2. PICK r \in StackSyms(g) : StackId(r) = n - 1
    BY <2>1, StackIdExact
  <2>3. PICK t \in B : t.top = r
    OBVIOUS
  <2>4. Encoded(t) = moves[n]
    BY <2>1, <2>2, <2>3
  <2>5. QED
    BY <2>4 DEF Records
<1>3. ASSUME NEW t \in B PROVE \E n \in 1..NumStackSyms : moves[n] = Encoded(t)
  <2>1. StackId(t.top) \in StackIds
    BY StackIdExact
  <2>2. StackId(t.top) + 1 \in 1..NumStackSyms
    BY <1>1, <2>1
  <2>3. QED
    BY <2>2
<1>4. ASSUME NEW m \in 1..NumStackSyms, NEW n \in 1..NumStackSyms, moves[m] = moves[n] PROVE m = n
  <2>1. m - 1 = n - 1
    BY <1>4
  <2>2. QED
    BY <1>1, <2>1
<1>5. QED
  BY <1>2, <1>3, <1>4 DEF Lists, Records

LEMMA LaterNumbered ==
  ASSUME IInv, pc \in After
  PROVE  Numbered
BY EmittingFacts DEF Numbered

\* What the loops over the productions push is typed, by CompileProofs.
LEMMA NetworkChoice == IInv /\ NetworkInv /\ EmitChoice => NetworkInv'
<1> SUFFICES ASSUME IInv, NetworkInv, EmitChoice PROVE NetworkInv'
  OBVIOUS
<1>1. PICK p \in Prods(g) :
        /\ Emitting(p, 0)
        /\ trans' = trans \o ForEveryTop(QIn(Lhs(g, p)), Eps(g), dotIds[p][0], Keep)
        /\ at' = <<p, 1>>
  BY DEF EmitChoice
<1>2. /\ pc = "emit" /\ pc' = "emit" /\ at = <<p, 0>> /\ UNCHANGED <<g, dotIds, nextDot>> /\ Numbered
  BY <1>1, LaterNumbered DEF Emitting, After
<1>3. ForEveryTop(QIn(Lhs(g, p)), Eps(g), dotIds[p][0], Keep) \in Seq(Usable)
  <2>1. /\ Typed /\ Lhs(g, p) \in 0..(g.nt - 1) /\ Eps(g) \in 0..g.tm /\ dotIds[p][0] \in StateIds
    BY <1>1, AtProduction
  <2>2. QED
    BY <2>1, EntriesAreStates, KeepingUsable
<1> DEFINE moves == [n \in 1..NumStackSyms |->
                       Move(QIn(Lhs(g, p)), Eps(g), n - 1, dotIds[p][0], <<n - 1>>)]
<1>4. moves = ForEveryTop(QIn(Lhs(g, p)), Eps(g), dotIds[p][0], Keep)
  BY DEF ForEveryTop, Keep
<1>5. Lists(moves, Records(OnTurn))
  <2>1. ASSUME NEW t \in OnTurn
        PROVE  t.top \in StackSyms(g) /\ Encoded(t) = moves[StackId(t.top) + 1]
    <3>1. PICK top \in StackSyms(g) : t = ChoiceOf(p, top)
      BY <1>2, TurnIs DEF OnTurn
    <3>2. t.top = top
      BY <3>1 DEF ChoiceOf, Move
    <3>3. StackId(top) + 1 \in 1..NumStackSyms /\ (StackId(top) + 1) - 1 = StackId(top)
      BY <1>2, StackIndex
    <3>4. QED
      BY <3>1, <3>2, <3>3, RecordsOf
  <2>2. ASSUME NEW r \in StackSyms(g) PROVE \E t \in OnTurn : t.top = r
    <3>1. ChoiceOf(p, r) \in Delta(g) /\ Turn(ChoiceOf(p, r)) = at
      BY <1>2, MovesOf, TurnOf
    <3>2. ChoiceOf(p, r).top = r
      BY DEF ChoiceOf, Move
    <3>3. QED
      BY <3>1, <3>2 DEF OnTurn
  <2>3. DOMAIN moves = 1..NumStackSyms /\ \A n \in 1..NumStackSyms : moves[n].top = n - 1
    BY DEF Move
  <2>4. OnTurn \in SUBSET Delta(g)
    BY DEF OnTurn
  <2> HIDE DEF moves
  <2>5. QED
    BY <1>2, <2>1, <2>2, <2>3, <2>4, ListedByTops
<1> HIDE DEF moves
<1>6. at' = <<at[1], at[2] + 1>>
  BY <1>1, <1>2
<1>7. QED
  BY <1>1, <1>2, <1>3, <1>4, <1>5, <1>6, EmittedNext

LEMMA NetworkTerminal == IInv /\ NetworkInv /\ EmitTerminal => NetworkInv'
<1> SUFFICES ASSUME IInv, NetworkInv, EmitTerminal PROVE NetworkInv'
  OBVIOUS
<1>0. PICK p \in Prods(g) : \E i \in Symbols(p) :
        /\ Emitting(p, i)
        /\ IsTerminal(g, Rhs(g, p)[i])
        /\ trans' = trans \o ForEveryTop(dotIds[p][i - 1], TerminalId(g, Rhs(g, p)[i]), dotIds[p][i], Keep)
        /\ at' = <<p, i + 1>>
  BY DEF EmitTerminal, Symbols
<1>1. PICK i \in Symbols(p) :
        /\ Emitting(p, i)
        /\ IsTerminal(g, Rhs(g, p)[i])
        /\ trans' = trans \o ForEveryTop(dotIds[p][i - 1], TerminalId(g, Rhs(g, p)[i]), dotIds[p][i], Keep)
        /\ at' = <<p, i + 1>>
  BY <1>0
<1>2. /\ pc = "emit" /\ pc' = "emit" /\ at = <<p, i>> /\ UNCHANGED <<g, dotIds, nextDot>> /\ Numbered
  BY <1>1, LaterNumbered DEF Emitting, After
<1> DEFINE a == TerminalId(g, Rhs(g, p)[i])
<1>3. ForEveryTop(dotIds[p][i - 1], a, dotIds[p][i], Keep) \in Seq(Usable)
  <2>1. /\ Typed /\ IsCfg(g) /\ Validate(g) = "Ok" /\ Len(Rhs(g, p)) \in Nat
        /\ \A j \in 0..Len(Rhs(g, p)) : dotIds[p][j] \in StateIds
    BY <1>1, AtProduction
  <2>2. i \in 0..Len(Rhs(g, p)) /\ i - 1 \in 0..Len(Rhs(g, p))
    BY <2>1 DEF Symbols
  <2>3. /\ Rhs(g, p)[i] \in Nat /\ Rhs(g, p)[i] < g.nt + g.tm /\ g.nt \in Nat /\ g.tm \in Nat
    BY <2>1, GrammarFacts, ValidSymbols DEF Symbols
  <2>4. a \in 0..g.tm
    BY <1>1, <2>3 DEF IsTerminal, TerminalId
  <2>5. QED
    BY <2>1, <2>2, <2>4, KeepingUsable
<1> HIDE DEF a
<1> DEFINE moves == [n \in 1..NumStackSyms |-> Move(dotIds[p][i - 1], a, n - 1, dotIds[p][i], <<n - 1>>)]
<1>4. moves = ForEveryTop(dotIds[p][i - 1], a, dotIds[p][i], Keep)
  BY DEF ForEveryTop, Keep
<1>5. Lists(moves, Records(OnTurn))
  <2>1. ASSUME NEW t \in OnTurn
        PROVE  t.top \in StackSyms(g) /\ Encoded(t) = moves[StackId(t.top) + 1]
    <3>1. PICK top \in StackSyms(g) : t = TerminalOf(p, i, top)
      BY <1>1, <1>2, TurnIs DEF OnTurn
    <3>2. t.top = top
      BY <3>1 DEF TerminalOf, Move
    <3>3. StackId(top) + 1 \in 1..NumStackSyms /\ (StackId(top) + 1) - 1 = StackId(top)
      BY <1>2, StackIndex
    <3>4. moves[StackId(top) + 1]
            = Move(dotIds[p][i - 1], a, StackId(top), dotIds[p][i], <<StackId(top)>>)
      BY <3>3
    <3>5. Encoded(t) = Move(dotIds[p][i - 1], a, StackId(top), dotIds[p][i], <<StackId(top)>>)
      BY <3>1, RecordsOf DEF a
    <3>6. QED
      BY <3>2, <3>4, <3>5
  <2>2. ASSUME NEW r \in StackSyms(g) PROVE \E t \in OnTurn : t.top = r
    <3>1. TerminalOf(p, i, r) \in Delta(g) /\ Turn(TerminalOf(p, i, r)) = at
      BY <1>1, <1>2, MovesOf, TurnOf
    <3>2. TerminalOf(p, i, r).top = r
      BY DEF TerminalOf, Move
    <3>3. QED
      BY <3>1, <3>2 DEF OnTurn
  <2>3. DOMAIN moves = 1..NumStackSyms /\ \A n \in 1..NumStackSyms : moves[n].top = n - 1
    BY DEF Move
  <2>4. OnTurn \in SUBSET Delta(g)
    BY DEF OnTurn
  <2> HIDE DEF moves
  <2>5. QED
    BY <1>2, <2>1, <2>2, <2>3, <2>4, ListedByTops
<1> HIDE DEF moves
<1>6. at' = <<at[1], at[2] + 1>>
  BY <1>1, <1>2
<1>7. trans' = trans \o moves /\ moves \in Seq(Usable)
  BY <1>1, <1>3, <1>4 DEF a
<1>8. QED
  BY <1>2, <1>5, <1>6, <1>7, EmittedNext

LEMMA NetworkCall == IInv /\ NetworkInv /\ EmitCall => NetworkInv'
<1> SUFFICES ASSUME IInv, NetworkInv, EmitCall PROVE NetworkInv'
  OBVIOUS
<1>0. PICK p \in Prods(g) : \E i \in Symbols(p) :
        /\ Emitting(p, i)
        /\ ~IsTerminal(g, Rhs(g, p)[i])
        /\ trans' = trans \o [n \in 1..NumStackSyms |->
                      Move(dotIds[p][i - 1], Eps(g), n - 1, QIn(Rhs(g, p)[i]), <<RetAddr(p, i), n - 1>>)]
        /\ at' = <<p, i + 1>>
  BY DEF EmitCall, ForEveryTop, Symbols
<1>1. PICK i \in Symbols(p) :
        /\ Emitting(p, i)
        /\ ~IsTerminal(g, Rhs(g, p)[i])
        /\ trans' = trans \o [n \in 1..NumStackSyms |->
                      Move(dotIds[p][i - 1], Eps(g), n - 1, QIn(Rhs(g, p)[i]), <<RetAddr(p, i), n - 1>>)]
        /\ at' = <<p, i + 1>>
  BY <1>0
<1>2. /\ pc = "emit" /\ pc' = "emit" /\ at = <<p, i>> /\ UNCHANGED <<g, dotIds, nextDot>> /\ Numbered
  BY <1>1, LaterNumbered DEF Emitting, After
<1> DEFINE moves == [n \in 1..NumStackSyms |->
                       Move(dotIds[p][i - 1], Eps(g), n - 1, QIn(Rhs(g, p)[i]), <<RetAddr(p, i), n - 1>>)]
<1>3. moves \in Seq(Usable)
  BY <1>1, CallsUsable DEF Symbols
<1>4. Lists(moves, Records(OnTurn))
  <2>1. ASSUME NEW t \in OnTurn
        PROVE  t.top \in StackSyms(g) /\ Encoded(t) = moves[StackId(t.top) + 1]
    <3>1. PICK top \in StackSyms(g) : t = CallOf(p, i, top)
      BY <1>1, <1>2, TurnIs DEF OnTurn
    <3>2. t.top = top
      BY <3>1 DEF CallOf, Move
    <3>3. StackId(top) + 1 \in 1..NumStackSyms /\ (StackId(top) + 1) - 1 = StackId(top)
      BY <1>2, StackIndex
    <3>4. moves[StackId(top) + 1]
            = Move(dotIds[p][i - 1], Eps(g), StackId(top), QIn(Rhs(g, p)[i]), <<RetAddr(p, i), StackId(top)>>)
      BY <3>3
    <3>5. Encoded(t)
            = Move(dotIds[p][i - 1], Eps(g), StackId(top), QIn(Rhs(g, p)[i]), <<RetAddr(p, i), StackId(top)>>)
      BY <3>1, RecordsOf
    <3>6. QED
      BY <3>2, <3>4, <3>5
  <2>2. ASSUME NEW r \in StackSyms(g) PROVE \E t \in OnTurn : t.top = r
    <3>1. CallOf(p, i, r) \in Delta(g) /\ Turn(CallOf(p, i, r)) = at
      BY <1>1, <1>2, MovesOf, TurnOf
    <3>2. CallOf(p, i, r).top = r
      BY DEF CallOf, Move
    <3>3. QED
      BY <3>1, <3>2 DEF OnTurn
  <2>3. DOMAIN moves = 1..NumStackSyms /\ \A n \in 1..NumStackSyms : moves[n].top = n - 1
    BY DEF Move
  <2>4. OnTurn \in SUBSET Delta(g)
    BY DEF OnTurn
  <2> HIDE DEF moves
  <2>5. QED
    BY <1>2, <2>1, <2>2, <2>3, <2>4, ListedByTops
<1> HIDE DEF moves
<1>5. at' = <<at[1], at[2] + 1>> /\ trans' = trans \o moves
  BY <1>1, <1>2 DEF moves
<1>6. QED
  BY <1>2, <1>3, <1>4, <1>5, EmittedNext

LEMMA NetworkExit == IInv /\ NetworkInv /\ EmitExit => NetworkInv'
<1> SUFFICES ASSUME IInv, NetworkInv, EmitExit PROVE NetworkInv'
  OBVIOUS
<1>1. PICK p \in Prods(g) :
        /\ Emitting(p, Len(Rhs(g, p)) + 1)
        /\ trans' = trans \o ForEveryTop(dotIds[p][Len(Rhs(g, p))], Eps(g), QOut(Lhs(g, p)), Keep)
        /\ at' = <<p + 1, 0>>
  BY DEF EmitExit
<1>2. /\ pc = "emit" /\ pc' = "emit" /\ at = <<p, Len(Rhs(g, p)) + 1>>
      /\ UNCHANGED <<g, dotIds, nextDot>> /\ Numbered
  BY <1>1, LaterNumbered DEF Emitting, After
<1>3. ForEveryTop(dotIds[p][Len(Rhs(g, p))], Eps(g), QOut(Lhs(g, p)), Keep) \in Seq(Usable)
  <2>1. /\ Typed /\ Len(Rhs(g, p)) \in Nat /\ Lhs(g, p) \in 0..(g.nt - 1)
        /\ Eps(g) \in 0..g.tm /\ \A j \in 0..Len(Rhs(g, p)) : dotIds[p][j] \in StateIds
    BY <1>1, AtProduction
  <2>2. QOut(Lhs(g, p)) \in StateIds /\ dotIds[p][Len(Rhs(g, p))] \in StateIds
    BY <2>1, EntriesAreStates
  <2>3. QED
    BY <2>1, <2>2, KeepingUsable
<1> DEFINE moves == [n \in 1..NumStackSyms |->
                       Move(dotIds[p][Len(Rhs(g, p))], Eps(g), n - 1, QOut(Lhs(g, p)), <<n - 1>>)]
<1>4. moves = ForEveryTop(dotIds[p][Len(Rhs(g, p))], Eps(g), QOut(Lhs(g, p)), Keep)
  BY DEF ForEveryTop, Keep
<1>5. Lists(moves, Records(OnTurn))
  <2>1. ASSUME NEW t \in OnTurn
        PROVE  t.top \in StackSyms(g) /\ Encoded(t) = moves[StackId(t.top) + 1]
    <3>1. PICK top \in StackSyms(g) : t = ExitOf(p, top)
      BY <1>2, TurnIs DEF OnTurn
    <3>2. t.top = top
      BY <3>1 DEF ExitOf, Move
    <3>3. StackId(top) + 1 \in 1..NumStackSyms /\ (StackId(top) + 1) - 1 = StackId(top)
      BY <1>2, StackIndex
    <3>4. QED
      BY <3>1, <3>2, <3>3, RecordsOf
  <2>2. ASSUME NEW r \in StackSyms(g) PROVE \E t \in OnTurn : t.top = r
    <3>1. ExitOf(p, r) \in Delta(g) /\ Turn(ExitOf(p, r)) = at
      BY <1>2, MovesOf, TurnOf
    <3>2. ExitOf(p, r).top = r
      BY DEF ExitOf, Move
    <3>3. QED
      BY <3>1, <3>2 DEF OnTurn
  <2>3. DOMAIN moves = 1..NumStackSyms /\ \A n \in 1..NumStackSyms : moves[n].top = n - 1
    BY DEF Move
  <2>4. OnTurn \in SUBSET Delta(g)
    BY DEF OnTurn
  <2> HIDE DEF moves
  <2>5. QED
    BY <1>2, <2>1, <2>2, <2>3, <2>4, ListedByTops
<1> HIDE DEF moves
<1>6. QED
  BY <1>1, <1>2, <1>3, <1>4, <1>5, EmittedNext

\* A return address is a dot, and the state that the return leads to is its.
LEMMA NetworkReturns == IInv /\ NetworkInv /\ EmitReturns => NetworkInv'
<1> SUFFICES ASSUME IInv, NetworkInv, EmitReturns PROVE NetworkInv'
  OBVIOUS
<1>1. /\ pc = "emit" /\ pc' = "emit" /\ at[1] = Len(g.prods) + 1 /\ at[2] < g.nt
      /\ at' = <<at[1], at[2] + 1>> /\ UNCHANGED <<g, dotIds, nextDot>>
      /\ trans' = trans \o [r \in 1..(NumStackSyms - 1) |->
                              Move(QOut(at[2]), Eps(g), r, DotBase + (r - 1), <<>>)]
  BY DEF EmitReturns
<1>2. Numbered /\ at \in Nat \X Nat
  BY <1>1, LaterNumbered DEF IInv, Typed, After
<1>3. /\ NumStackSyms \in Nat /\ NumStackSyms >= 1 /\ DotBase \in Nat /\ g.nt \in Nat
      /\ NumStackSyms = 1 + (nextDot - DotBase) /\ nextDot \in Nat
  BY <1>2, NumberedFacts
<1>4. at[2] \in Nonterminals(g) /\ at = <<Len(g.prods) + 1, at[2]>>
  BY <1>1, <1>2, <1>3 DEF Nonterminals
<1> DEFINE moves == [r \in 1..(NumStackSyms - 1) |-> Move(QOut(at[2]), Eps(g), r, DotBase + (r - 1), <<>>)]
<1>5. moves \in Seq(Usable)
  BY <1>1, ReturnsUsable
<1>6. ASSUME NEW d \in Dots(g)
      PROVE  /\ StackId(d) \in 1..(NumStackSyms - 1) /\ moves[StackId(d)] = Encoded(ReturnOf(at[2], d))
             /\ ReturnOf(at[2], d) \in OnTurn
  <2>1. PICK p \in Prods(g) : \E i \in 0..Len(Rhs(g, p)) : d = Dot(p, i)
    BY DotFacts
  <2>2. PICK i \in 0..Len(Rhs(g, p)) : d = Dot(p, i)
    BY <2>1
  <2>3. dotIds[p][i] \in DotBase..(nextDot - 1)
    BY <1>2, NumberedFacts
  <2>4. StackId(d) = 1 + (dotIds[p][i] - DotBase) /\ StateId(d) = dotIds[p][i]
    BY <2>2, NumbersOf DEF RetAddr
  <2>5. StackId(d) \in 1..(NumStackSyms - 1) /\ DotBase + (StackId(d) - 1) = StateId(d)
    <3>1. \A x \in DotBase..(nextDot - 1) :
            1 + (x - DotBase) \in 1..(NumStackSyms - 1) /\ DotBase + ((1 + (x - DotBase)) - 1) = x
      BY <1>3
    <3>2. QED
      BY <2>3, <2>4, <3>1
  <2>6. moves[StackId(d)] = Encoded(ReturnOf(at[2], d))
    BY <2>5, RecordsOf
  <2>7. ReturnOf(at[2], d) \in Delta(g) /\ Turn(ReturnOf(at[2], d)) = at
    BY <1>2, <1>4, MovesOf, TurnOf
  <2>8. QED
    BY <2>5, <2>6, <2>7 DEF OnTurn
<1>7. Lists(moves, Records(OnTurn))
  <2>1. ASSUME NEW n \in 1..(NumStackSyms - 1) PROVE moves[n] \in Records(OnTurn)
    <3>1. n \in StackIds /\ n # 0
      BY <1>3 DEF StackIds
    <3>2. PICK r \in StackSyms(g) : StackId(r) = n
      BY <1>2, <3>1, StackIdExact
    <3>3. r \in Dots(g)
      BY <3>1, <3>2, NumbersOf DEF StackSyms
    <3>4. QED
      BY <1>6, <3>2, <3>3 DEF Records
  <2>2. ASSUME NEW t \in OnTurn PROVE \E n \in 1..(NumStackSyms - 1) : moves[n] = Encoded(t)
    <3>1. PICK d \in Dots(g) : t = ReturnOf(at[2], d)
      BY <1>2, <1>4, TurnIsReturn DEF OnTurn
    <3>2. QED
      BY <1>6, <3>1
  <2>3. ASSUME NEW m \in 1..(NumStackSyms - 1), NEW n \in 1..(NumStackSyms - 1), moves[m] = moves[n] PROVE m = n
    <3>1. moves[m].top = m /\ moves[n].top = n
      BY DEF Move
    <3>2. QED
      BY <2>3, <3>1
  <2>4. DOMAIN moves = 1..(NumStackSyms - 1)
    OBVIOUS
  <2> HIDE DEF moves
  <2>5. QED
    BY <2>1, <2>2, <2>3, <2>4 DEF Lists, Records
<1> HIDE DEF moves
<1>8. trans' = trans \o moves
  BY <1>1 DEF moves
<1>9. QED
  BY <1>1, <1>2, <1>5, <1>7, <1>8, EmittedNext


\* Before the first production the start move alone has had its turn.
LEMMA NetworkStart == IInv /\ NetworkInv /\ EmitStart => NetworkInv'
<1> SUFFICES ASSUME IInv, NetworkInv, EmitStart PROVE NetworkInv'
  OBVIOUS
<1>1. /\ pc = "number" /\ pc' = "emit" /\ Len(dotIds) = Len(g.prods)
      /\ trans' = <<Move(QStart, Eps(g), 0, QIn(g.start), <<0>>)>>
      /\ at' = at /\ UNCHANGED <<g, dotIds, nextDot>>
  BY DEF EmitStart
<1>2. Numbered /\ at = <<1, 0>>
  BY <1>1 DEF Numbered, NetworkInv
<1> DEFINE Gone == {t \in Delta(g) : Earlier(t)}
<1>3. StartOf \in Delta(g) /\ Turn(StartOf) = <<0, 0>>
  BY <1>2, MovesOf, TurnOf
<1>4. Gone = {StartOf}
  <2>1. Earlier(StartOf)
    BY <1>2, <1>3 DEF Earlier, Precedes
  <2>2. ASSUME NEW t \in Delta(g), Earlier(t) PROVE t = StartOf
    <3>1. Turn(t) \in Nat \X Nat
      BY <1>2, TurnBounds
    <3>2. Turn(t)[1] \in Nat /\ Turn(t)[2] \in Nat
      BY <3>1
    <3>3. Turn(t)[1] < 1 \/ (Turn(t)[1] = 1 /\ Turn(t)[2] < 0)
      BY <1>2, <2>2 DEF Earlier, Precedes
    <3>4. Turn(t)[1] = 0
      BY <3>2, <3>3
    <3>5. Len(g.prods) + 1 # 0 /\ \A p \in Prods(g) : p # 0
      BY <1>2, NumberedFacts
    <3>6. QED
      BY <1>2, <3>4, <3>5, TurnCases
  <2>3. QED
    BY <1>3, <2>1, <2>2
<1>5. Records(Gone) = {Encoded(StartOf)}
  BY <1>4 DEF Records
<1>6. trans' = <<Encoded(StartOf)>>
  BY <1>1, RecordsOf
<1>7. Lists(trans', Records(Gone))
  BY <1>5, <1>6, ListedOne
<1>8. Records({t \in Delta(g) : Earlier(t)})' = Records(Gone)
  BY <1>1, RecordsStand DEF Records, Earlier
<1>9. at'[1] >= 1
  BY <1>1, <1>2
<1>10. QED
  BY <1>1, <1>7, <1>8, <1>9 DEF NetworkInv

\* The loops end when every move has had its turn.
LEMMA NetworkProvides == IInv /\ NetworkInv /\ ProvideNonterminals => NetworkInv'
<1> SUFFICES ASSUME IInv, NetworkInv, ProvideNonterminals PROVE NetworkInv'
  OBVIOUS
<1>1. /\ pc = "emit" /\ pc' = "provenance" /\ at = <<Len(g.prods) + 1, g.nt>>
      /\ trans' = trans /\ UNCHANGED <<g, dotIds, nextDot>>
  BY DEF ProvideNonterminals
<1>2. Numbered
  BY <1>1, LaterNumbered DEF After
<1>3. Len(g.prods) \in Nat /\ g.nt \in Nat /\ Prods(g) = 1..Len(g.prods)
  BY <1>2, NumberedFacts
<1>4. ASSUME NEW t \in Delta(g) PROVE Earlier(t)
  <2>1. \A p \in Prods(g) : p < Len(g.prods) + 1
    BY <1>3
  <2>2. 0 < Len(g.prods) + 1
    BY <1>3
  <2>3. \/ Turn(t)[1] < Len(g.prods) + 1
        \/ Turn(t)[1] = Len(g.prods) + 1 /\ Turn(t)[2] < g.nt
    BY <1>2, <2>1, <2>2, TurnBounds
  <2>4. QED
    BY <1>1, <2>3 DEF Earlier, Precedes
<1>5. {t \in Delta(g) : Earlier(t)} = Delta(g)
  BY <1>4
<1>6. Lists(trans, Records(Delta(g)))
  BY <1>1, <1>5 DEF NetworkInv
<1>7. QED
  BY <1>1, <1>6, RecordsStand DEF NetworkInv

\* The steps that leave the array alone.
LEMMA NetworkKept ==
  ASSUME NetworkInv, UNCHANGED <<g, dotIds, nextDot, trans>>,
         pc \in {"provenance", "index"}, pc' \in {"provenance", "index", "Ok"}
  PROVE  NetworkInv'
BY RecordsStand DEF NetworkInv

LEMMA NetworkBeginsSort == IInv /\ NetworkInv /\ BeginSort => NetworkInv'
<1> SUFFICES ASSUME IInv, NetworkInv, BeginSort PROVE NetworkInv'
  OBVIOUS
<1>1. /\ pc = "provenance" /\ pc' = "sort" /\ todo' = trans /\ trans' = <<>>
      /\ UNCHANGED <<g, dotIds, nextDot>>
  BY DEF BeginSort
<1>2. Lists(todo', Records(Delta(g))')
  BY <1>1, RecordsStand DEF NetworkInv
<1>3. Lists(trans', {})
  BY <1>1 DEF Lists
<1>4. QED
  BY <1>1, <1>2, <1>3 DEF NetworkInv

LEMMA NetworkSorts == IInv /\ NetworkInv /\ SortIn => NetworkInv'
<1> SUFFICES ASSUME IInv, NetworkInv, SortIn PROVE NetworkInv'
  OBVIOUS
<1>1. /\ pc = "sort" /\ pc' = pc /\ todo # <<>> /\ todo' = Tail(todo)
      /\ UNCHANGED <<g, dotIds, nextDot>>
  BY DEF SortIn
<1>2. PICK pos \in 1..(Len(trans) + 1) : trans' = Inserted(trans, Head(todo), pos)
  BY DEF SortIn
<1>3. PICK R \in SUBSET Records(Delta(g)), T \in SUBSET Records(Delta(g)) :
        /\ R \cap T = {} /\ R \cup T = Records(Delta(g))
        /\ Lists(trans, R) /\ Lists(todo, T)
  BY <1>1 DEF NetworkInv
<1>4. trans \in Seq(Usable) /\ todo \in Seq(Usable)
  BY DEF IInv, TableUsable
<1>5. Head(todo) \in T /\ Lists(todo', T \ {Head(todo)})
  BY <1>1, <1>3, <1>4, ListedTail
<1>6. Lists(trans', R \cup {Head(todo)})
  BY <1>2, <1>3, <1>4, <1>5, ListedInserted
<1> DEFINE now == R \cup {Head(todo)}
           left == T \ {Head(todo)}
<1>7. /\ now \in SUBSET Records(Delta(g)) /\ left \in SUBSET Records(Delta(g))
      /\ now \cap left = {} /\ now \cup left = Records(Delta(g))
  BY <1>3, <1>5
<1>8. Records(Delta(g))' = Records(Delta(g))
  BY <1>1, RecordsStand
<1>9. /\ now \in SUBSET Records(Delta(g))' /\ left \in SUBSET Records(Delta(g))'
      /\ now \cap left = {} /\ now \cup left = Records(Delta(g))'
      /\ Lists(trans', now) /\ Lists(todo', left)
  BY <1>5, <1>6, <1>7, <1>8
<1> HIDE DEF now, left
<1>10. QED
  BY <1>1, <1>9 DEF NetworkInv

LEMMA NetworkBeginsIndex == IInv /\ NetworkInv /\ BeginIndex => NetworkInv'
<1> SUFFICES ASSUME IInv, NetworkInv, BeginIndex PROVE NetworkInv'
  OBVIOUS
<1>1. /\ pc = "sort" /\ pc' = "index" /\ todo = <<>> /\ trans' = trans
      /\ UNCHANGED <<g, dotIds, nextDot>>
  BY DEF BeginIndex
<1>2. PICK R \in SUBSET Records(Delta(g)), T \in SUBSET Records(Delta(g)) :
        /\ R \cup T = Records(Delta(g)) /\ Lists(trans, R) /\ Lists(todo, T)
  BY <1>1 DEF NetworkInv
<1>3. T = {}
  BY <1>1, <1>2 DEF Lists
<1>4. Lists(trans, Records(Delta(g)))
  BY <1>2, <1>3
<1>5. QED
  BY <1>1, <1>4, RecordsStand DEF NetworkInv

LEMMA NetworkInit == Init => NetworkInv
BY DEF Init, NetworkInv

LEMMA NetworkStep == IInv /\ NetworkInv /\ [Next]_vars => NetworkInv'
<1> SUFFICES ASSUME IInv, NetworkInv, [Next]_vars PROVE NetworkInv'
  OBVIOUS
<1>1. CASE CheckGrammar
  <2>1. /\ pc = "validate" /\ at' = at
        /\ pc' = IF Validate(g) = "Ok" THEN "number" ELSE Validate(g)
    BY <1>1 DEF CheckGrammar
  <2>2. Validate(g) \in {"Ok", "TerminalOnLhs", "UndefinedSymbol", "StartIsTerminal"}
    BY DEF Validate
  <2>3. QED
    BY <2>1, <2>2 DEF NetworkInv
<1>2. CASE NumberProduction
  BY <1>2 DEF NumberProduction, NetworkInv
<1>3. CASE EmitStart
  BY <1>3, NetworkStart
<1>4. CASE EmitChoice
  BY <1>4, NetworkChoice
<1>5. CASE EmitTerminal
  BY <1>5, NetworkTerminal
<1>6. CASE EmitCall
  BY <1>6, NetworkCall
<1>7. CASE EmitExit
  BY <1>7, NetworkExit
<1>8. CASE EmitReturns
  BY <1>8, NetworkReturns
<1>9. CASE ProvideNonterminals
  BY <1>9, NetworkProvides
<1>10. CASE ProvideProduction
  BY <1>10, NetworkKept DEF ProvideProduction
<1>11. CASE BeginSort
  BY <1>11, NetworkBeginsSort
<1>12. CASE SortIn
  BY <1>12, NetworkSorts
<1>13. CASE BeginIndex
  BY <1>13, NetworkBeginsIndex
<1>14. CASE IndexRecord
  BY <1>14, NetworkKept DEF IndexRecord
<1>15. CASE Finish
  BY <1>15, NetworkKept DEF Finish
<1>16. CASE UNCHANGED vars
  BY <1>16, RecordsStand DEF NetworkInv, vars, Earlier, Records
<1>17. CASE Returned
  BY <1>16, <1>17 DEF Returned
<1>18. QED
  BY <1>1, <1>2, <1>3, <1>4, <1>5, <1>6, <1>7, <1>8, <1>9, <1>10, <1>11, <1>12, <1>13, <1>14,
     <1>15, <1>16, <1>17 DEF Next

----------------------------------------------------------------------------
(* What is returned.                                                       *)

LEMMA NetworkReturned == IInv /\ IndexInv /\ NetworkInv => TableIsNetwork
<1> SUFFICES ASSUME IInv, IndexInv, NetworkInv, pc = "Ok"
             PROVE  /\ {trans[n] : n \in DOMAIN trans} = {Encoded(t) : t \in Delta(g)}
                    /\ \A m, n \in DOMAIN trans : trans[m] = trans[n] => m = n
                    /\ \A s, t \in Delta(g) : Encoded(s) = Encoded(t) => s = t
                    /\ SortedByKey(trans) /\ ExactRows(trans, Len(trans), offsets, counts)
                    /\ \A n \in DOMAIN trans : counts[trans[n].q] > 0
  BY DEF TableIsNetwork
<1>1. Numbered
  BY LaterNumbered DEF After
<1>2. Lists(trans, Records(Delta(g)))
  BY DEF NetworkInv
<1>3. IndexExact
  BY IndexReturned
<1>4. QED
  BY <1>1, <1>2, <1>3, EncodedExact DEF Lists, Records, IndexExact

\* Whatever the grammar, the machine that compile() returns is the recursive
\* transition network of the grammar: its records are the network's moves, one
\* each, none twice and none besides, sorted, and found by their row.
THEOREM NetworkAlways == Spec => []TableIsNetwork
BY NetworkReturned, NetworkInit, NetworkStep, IndexInit, IndexStep, InitInvariant, InvariantStep, PTL
   DEF Spec

\* Two moves of the network that no lookahead separates choose productions of
\* one nonterminal.
LEMMA SharedKey ==
  ASSUME Numbered, NEW s \in Delta(g), NEW t \in Delta(g),
         s.q = t.q, s.a = t.a, s.top = t.top, s # t
  PROVE  \E p, r \in Prods(g) : p # r /\ Lhs(g, p) = Lhs(g, r)
<1>1. /\ \A p \in Prods(g) : Len(Rhs(g, p)) \in Nat
      /\ \A p \in Prods(g) : \A i \in Symbols(p) : i \in Nat /\ i - 1 # Len(Rhs(g, p))
      /\ \A i, j \in Nat : i - 1 = j - 1 => i = j
  BY NumberedFacts DEF Symbols
<1>2. SUFFICES ASSUME \A p, r \in Prods(g) : Lhs(g, p) = Lhs(g, r) => p = r
               PROVE  s = t
  OBVIOUS
<1> USE DEF Move, Start, In, Out, Dot
<1>3. CASE s.q.k = "start"
  BY <1>3, MovesOf DEF StartOf, ChoiceOf, TerminalOf, CallOf, ExitOf, ReturnOf
<1>4. CASE s.q.k = "in"
  <2>1. PICK p \in Prods(g), top \in StackSyms(g) : s = ChoiceOf(p, top)
    BY <1>4, MovesOf DEF StartOf, ChoiceOf, TerminalOf, CallOf, ExitOf, ReturnOf
  <2>2. PICK r \in Prods(g), top2 \in StackSyms(g) : t = ChoiceOf(r, top2)
    BY <1>4, MovesOf DEF StartOf, ChoiceOf, TerminalOf, CallOf, ExitOf, ReturnOf
  <2>3. Lhs(g, p) = Lhs(g, r) /\ top = top2
    BY <2>1, <2>2 DEF ChoiceOf
  <2>4. QED
    BY <1>2, <2>1, <2>2, <2>3
<1>5. CASE s.q.k = "out"
  BY <1>5, MovesOf DEF StartOf, ChoiceOf, TerminalOf, CallOf, ExitOf, ReturnOf
<1>6. CASE s.q.k = "dot" /\ s.q.pos = Len(Rhs(g, s.q.ix))
  <2>1. PICK p \in Prods(g), top \in StackSyms(g) : s = ExitOf(p, top)
    BY <1>1, <1>6, MovesOf DEF StartOf, ChoiceOf, TerminalOf, CallOf, ExitOf, ReturnOf
  <2>2. PICK r \in Prods(g), top2 \in StackSyms(g) : t = ExitOf(r, top2)
    BY <1>1, <1>6, MovesOf DEF StartOf, ChoiceOf, TerminalOf, CallOf, ExitOf, ReturnOf
  <2>3. p = r /\ top = top2
    BY <2>1, <2>2 DEF ExitOf
  <2>4. QED
    BY <2>1, <2>2, <2>3
<1>7. CASE s.q.k = "dot" /\ s.q.pos # Len(Rhs(g, s.q.ix))
  <2>1. PICK p \in Prods(g), top \in StackSyms(g) : \E i \in Symbols(p) :
          IF IsTerminal(g, Rhs(g, p)[i]) THEN s = TerminalOf(p, i, top) ELSE s = CallOf(p, i, top)
    BY <1>1, <1>7, MovesOf DEF StartOf, ChoiceOf, TerminalOf, CallOf, ExitOf, ReturnOf
  <2>2. PICK i \in Symbols(p) :
          IF IsTerminal(g, Rhs(g, p)[i]) THEN s = TerminalOf(p, i, top) ELSE s = CallOf(p, i, top)
    BY <2>1
  <2>3. PICK r \in Prods(g), top2 \in StackSyms(g) : \E j \in Symbols(r) :
          IF IsTerminal(g, Rhs(g, r)[j]) THEN t = TerminalOf(r, j, top2) ELSE t = CallOf(r, j, top2)
    BY <1>1, <1>7, MovesOf DEF StartOf, ChoiceOf, TerminalOf, CallOf, ExitOf, ReturnOf
  <2>4. PICK j \in Symbols(r) :
          IF IsTerminal(g, Rhs(g, r)[j]) THEN t = TerminalOf(r, j, top2) ELSE t = CallOf(r, j, top2)
    BY <2>3
  <2>5. p = r /\ i - 1 = j - 1 /\ top = top2
    BY <2>2, <2>4 DEF TerminalOf, CallOf
  <2>6. i = j
    BY <1>1, <2>5
  <2>7. QED
    BY <2>2, <2>4, <2>5, <2>6
<1>8. s.q.k \in {"start", "in", "out", "dot"}
  BY MovesOf DEF StartOf, ChoiceOf, TerminalOf, CallOf, ExitOf, ReturnOf
<1>9. QED
  BY <1>3, <1>4, <1>5, <1>6, <1>7, <1>8

LEMMA KeysOfMoves ==
  ASSUME Numbered, NEW s \in Delta(g), NEW t \in Delta(g)
  PROVE  /\ Encoded(s).q = Encoded(t).q => s.q = t.q
         /\ Encoded(s).a = s.a /\ Encoded(t).a = t.a
         /\ Encoded(s).top = Encoded(t).top => s.top = t.top
<1>1. /\ \E q \in States(g), u \in States(g), a \in Nat, r \in StackSyms(g), x \in Seq(StackSyms(g)) :
           s = Move(q, a, r, u, x)
      /\ \E q \in States(g), u \in States(g), a \in Nat, r \in StackSyms(g), x \in Seq(StackSyms(g)) :
           t = Move(q, a, r, u, x)
  BY MoveTyped
<1>2. s.q \in States(g) /\ t.q \in States(g) /\ s.top \in StackSyms(g) /\ t.top \in StackSyms(g)
  BY <1>1 DEF Move
<1>3. /\ Encoded(s).q = StateId(s.q) /\ Encoded(t).q = StateId(t.q)
      /\ Encoded(s).a = s.a /\ Encoded(t).a = t.a
      /\ Encoded(s).top = StackId(s.top) /\ Encoded(t).top = StackId(t.top)
  BY DEF Encoded, Move
<1>4. QED
  BY <1>2, <1>3, StateIdExact, StackIdExact

\* The determinism of the compiled machine is that of the grammar: it is
\* deterministic exactly when no nonterminal has two productions.
THEOREM KindAlways == Spec => []KindOfMachine
<1>1. ASSUME IInv, NetworkInv, pc = "Ok"
      PROVE  Deterministic <=> \A p, r \in Prods(g) : Lhs(g, p) = Lhs(g, r) => p = r
  <2>1. Numbered /\ Lists(trans, Records(Delta(g)))
    BY <1>1, LaterNumbered DEF After, NetworkInv
  <2>2. ASSUME \A p, r \in Prods(g) : Lhs(g, p) = Lhs(g, r) => p = r,
               NEW m \in DOMAIN trans, NEW n \in DOMAIN trans,
               trans[m].q = trans[n].q, trans[m].a = trans[n].a, trans[m].top = trans[n].top
        PROVE  m = n
    <3>1. PICK s \in Delta(g) : trans[m] = Encoded(s)
      BY <2>1 DEF Lists, Records
    <3>2. PICK t \in Delta(g) : trans[n] = Encoded(t)
      BY <2>1 DEF Lists, Records
    <3>3. s.q = t.q /\ s.a = t.a /\ s.top = t.top
      BY <2>1, <2>2, <3>1, <3>2, KeysOfMoves
    <3>4. s = t
      BY <2>1, <2>2, <3>3, SharedKey
    <3>5. QED
      BY <2>1, <3>1, <3>2, <3>4 DEF Lists
  <2>3. ASSUME Deterministic, NEW p \in Prods(g), NEW r \in Prods(g), Lhs(g, p) = Lhs(g, r)
        PROVE  p = r
    <3>1. ChoiceOf(p, Bot) \in Delta(g) /\ ChoiceOf(r, Bot) \in Delta(g)
      BY <2>1, MovesOf DEF StackSyms
    <3>2. PICK m \in DOMAIN trans : trans[m] = Encoded(ChoiceOf(p, Bot))
      BY <2>1, <3>1 DEF Lists, Records
    <3>3. PICK n \in DOMAIN trans : trans[n] = Encoded(ChoiceOf(r, Bot))
      BY <2>1, <3>1 DEF Lists, Records
    <3>4. trans[m].q = trans[n].q /\ trans[m].a = trans[n].a /\ trans[m].top = trans[n].top
      <4>1. \A k \in Prods(g) : /\ Encoded(ChoiceOf(k, Bot)).q = QIn(Lhs(g, k))
                              /\ Encoded(ChoiceOf(k, Bot)).a = Eps(g)
                              /\ Encoded(ChoiceOf(k, Bot)).top = StackId(Bot)
        <5>1. ASSUME NEW k \in Prods(g)
              PROVE  Encoded(ChoiceOf(k, Bot)) = Move(QIn(Lhs(g, k)), Eps(g), StackId(Bot), dotIds[k][0], <<StackId(Bot)>>)
          BY RecordsOf
        <5>2. QED
          BY <5>1 DEF Move
      <4>2. QED
        BY <2>3, <3>2, <3>3, <4>1
    <3>5. Encoded(ChoiceOf(p, Bot)) = Encoded(ChoiceOf(r, Bot))
      BY <2>3, <3>2, <3>3, <3>4 DEF Deterministic
    <3>6. ChoiceOf(p, Bot) = ChoiceOf(r, Bot)
      BY <2>1, <3>1, <3>5, EncodedExact
    <3>7. QED
      BY <3>6 DEF ChoiceOf, Move, Dot
  <2>4. QED
    BY <2>2, <2>3 DEF Deterministic
<1>2. IInv /\ NetworkInv => KindOfMachine
  BY <1>1 DEF KindOfMachine
<1>3. QED
  BY <1>2, NetworkInit, NetworkStep, InitInvariant, InvariantStep, PTL DEF Spec
=============================================================================
