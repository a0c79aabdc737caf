----------------------------- MODULE RtnCompile -----------------------------
(***************************************************************************)
(* compile() of compile.rs, loop by loop: validation, the numbering of the *)
(* control states, the emission of the transitions, the provenance vector, *)
(* the stable sort and the CSR index.  Each action is one iteration of one *)
(* of its loops.  The grammar is an input, chosen from Grammars, which may *)
(* hold ill-formed grammars too.                                           *)
(***************************************************************************)
EXTENDS RtnTable, TransTable

CONSTANT Grammars
ASSUME GrammarsAssumption == \A g \in Grammars : IsCfg(g)

VARIABLES
  pc,        \* the loop being run
  g,         \* the grammar
  dotIds,    \* dot_ids: per production, a function from positions to ids
  nextDot,   \* next_dot, the first id not given out
  at,        \* cursor of the running loop: <<production, position>>
  trans,     \* transitions, as pushed and then as sorted so far
  todo,      \* the transitions still to be sorted in
  prov,      \* state_provenance
  offsets,   \* ctrl_offsets
  counts     \* ctrl_counts

vars == <<pc, g, dotIds, nextDot, at, trans, todo, prov, offsets, counts>>

----------------------------------------------------------------------------
(* The numbering: 0, then the entries, the exits and the dots.             *)

QStart == 0
QIn(A) == 1 + A
QOut(A) == 1 + g.nt + A
DotBase == 1 + 2 * g.nt
NumStates == nextDot
NumStackSyms == 1 + (nextDot - DotBase)
\* Faulty: a state id where the stack symbol is meant.
GlobalRetAddr(p, i) == 1 + dotIds[p][i]
RetAddr(p, i) == 1 + (dotIds[p][i] - DotBase)

EmptyTable == [q \in {} |-> 0]

Init ==
  /\ g \in Grammars
  /\ pc = "validate"
  /\ dotIds = <<>> /\ nextDot = DotBase
  /\ at = <<1, 0>>
  /\ trans = <<>> /\ todo = <<>>
  /\ prov = EmptyTable /\ offsets = EmptyTable /\ counts = EmptyTable

\* g.validate()? and the start_id guard.
CheckGrammar ==
  /\ pc = "validate"
  /\ pc' = IF Validate(g) = "Ok" THEN "number" ELSE Validate(g)
  /\ UNCHANGED <<g, dotIds, nextDot, at, trans, todo, prov, offsets, counts>>

\* Faulty: the dot after the last symbol is not counted.
LastDotNotCounted ==
  /\ pc = "number"
  /\ Len(dotIds) < Len(g.prods)
  /\ LET m == Len(Rhs(g, Len(dotIds) + 1))
     IN /\ dotIds' = Append(dotIds, [i \in 0..m |-> nextDot + i])
        /\ nextDot' = nextDot + m
  /\ UNCHANGED <<pc, g, at, trans, todo, prov, offsets, counts>>

\* One production's dots get the next ids.
NumberProduction ==
  /\ pc = "number"
  /\ Len(dotIds) < Len(g.prods)
  /\ LET m == Len(Rhs(g, Len(dotIds) + 1))
     IN /\ dotIds' = Append(dotIds, [i \in 0..m |-> nextDot + i])
        /\ nextDot' = nextDot + m + 1
  /\ UNCHANGED <<pc, g, at, trans, todo, prov, offsets, counts>>

----------------------------------------------------------------------------
(* Emission.  A loop "for top in 0..num_stack_syms" pushes one record per  *)
(* stack symbol; Push(f, top) is the pushed string it writes.              *)

ForEveryTop(q, a, next_q, Push(_)) ==
  [n \in 1..NumStackSyms |->
     Move(q, a, n - 1, next_q, Push(n - 1))]

Keep(top) == <<top>>

EmitStart ==
  /\ pc = "number"
  /\ Len(dotIds) = Len(g.prods)
  /\ pc' = "emit"
  /\ trans' = <<Move(QStart, Eps(g), 0, QIn(g.start), <<0>>)>>
  /\ UNCHANGED <<g, dotIds, nextDot, at, todo, prov, offsets, counts>>

Emitting(p, i) == /\ pc = "emit" /\ at = <<p, i>> /\ p \in Prods(g)
                  /\ UNCHANGED <<pc, g, dotIds, nextDot, todo, prov, offsets, counts>>

EmitChoice == \E p \in Prods(g) :
  /\ Emitting(p, 0)
  /\ trans' = trans \o ForEveryTop(QIn(Lhs(g, p)), Eps(g), dotIds[p][0], Keep)
  /\ at' = <<p, 1>>

EmitTerminal == \E p \in Prods(g) : \E i \in 1..Len(Rhs(g, p)) :
  /\ Emitting(p, i)
  /\ IsTerminal(g, Rhs(g, p)[i])
  /\ trans' = trans \o ForEveryTop(dotIds[p][i - 1], TerminalId(g, Rhs(g, p)[i]),
                                   dotIds[p][i], Keep)
  /\ at' = <<p, i + 1>>

EmitCall == \E p \in Prods(g) : \E i \in 1..Len(Rhs(g, p)) :
  LET PushReturn(top) == <<RetAddr(p, i), top>>
  IN /\ Emitting(p, i)
     /\ ~IsTerminal(g, Rhs(g, p)[i])
     /\ trans' = trans \o ForEveryTop(dotIds[p][i - 1], Eps(g),
                                      QIn(Rhs(g, p)[i]), PushReturn)
     /\ at' = <<p, i + 1>>

\* Faulty: the exit leaves from the first dot.
ExitFromFirstDot == \E p \in Prods(g) :
  /\ Emitting(p, Len(Rhs(g, p)) + 1)
  /\ trans' = trans \o ForEveryTop(dotIds[p][0], Eps(g), QOut(Lhs(g, p)), Keep)
  /\ at' = <<p + 1, 0>>

EmitExit == \E p \in Prods(g) :
  LET m == Len(Rhs(g, p))
  IN /\ Emitting(p, m + 1)
     /\ trans' = trans \o ForEveryTop(dotIds[p][m], Eps(g), QOut(Lhs(g, p)), Keep)
     /\ at' = <<p + 1, 0>>

\* Faulty: the shift by one for the bottom marker is not undone.
ReturnsToNextDot ==
  /\ pc = "emit" /\ at[1] = Len(g.prods) + 1 /\ at[2] < g.nt
  /\ trans' = trans \o [r \in 1..(NumStackSyms - 1) |->
                          Move(QOut(at[2]), Eps(g), r, DotBase + r, <<>>)]
  /\ at' = <<at[1], at[2] + 1>>
  /\ UNCHANGED <<pc, g, dotIds, nextDot, todo, prov, offsets, counts>>

\* The returns of one nonterminal, a record per return address; at[2]
\* counts the nonterminals done.
EmitReturns ==
  /\ pc = "emit" /\ at[1] = Len(g.prods) + 1 /\ at[2] < g.nt
  /\ trans' = trans \o [r \in 1..(NumStackSyms - 1) |->
                          Move(QOut(at[2]), Eps(g), r, DotBase + (r - 1), <<>>)]
  /\ at' = <<at[1], at[2] + 1>>
  /\ UNCHANGED <<pc, g, dotIds, nextDot, todo, prov, offsets, counts>>

----------------------------------------------------------------------------
(* Provenance, sort and index.                                             *)

\* The zero vector, then q_start and the entries and exits.
ProvideNonterminals ==
  /\ pc = "emit" /\ at = <<Len(g.prods) + 1, g.nt>>
  /\ pc' = "provenance" /\ at' = <<1, 0>>
  /\ prov' = [q \in 0..(NumStates - 1) |->
                IF q = QStart THEN g.start
                ELSE IF q < QOut(0) THEN q - QIn(0)
                ELSE IF q < DotBase THEN q - QOut(0) ELSE 0]
  /\ UNCHANGED <<g, dotIds, nextDot, trans, todo, offsets, counts>>

\* Faulty: the last dot of each production keeps phase 0.
LastDotNotProvided ==
  /\ pc = "provenance" /\ at[1] \in Prods(g)
  /\ prov' = [q \in DOMAIN prov |->
                IF \E i \in DOMAIN dotIds[at[1]] :
                     i < Len(Rhs(g, at[1])) /\ dotIds[at[1]][i] = q
                THEN Lhs(g, at[1]) ELSE prov[q]]
  /\ at' = <<at[1] + 1, 0>>
  /\ UNCHANGED <<pc, g, dotIds, nextDot, trans, todo, offsets, counts>>

\* The dots of one production get its left-hand side.
ProvideProduction ==
  /\ pc = "provenance" /\ at[1] \in Prods(g)
  /\ prov' = [q \in DOMAIN prov |->
                IF \E i \in DOMAIN dotIds[at[1]] : dotIds[at[1]][i] = q
                THEN Lhs(g, at[1]) ELSE prov[q]]
  /\ at' = <<at[1] + 1, 0>>
  /\ UNCHANGED <<pc, g, dotIds, nextDot, trans, todo, offsets, counts>>

BeginSort ==
  /\ pc = "provenance" /\ at[1] = Len(g.prods) + 1
  /\ pc' = "sort"
  /\ todo' = trans /\ trans' = <<>>
  /\ UNCHANGED <<g, dotIds, nextDot, at, prov, offsets, counts>>

\* transitions.sort_by_key, as an insertion sort: slice::sort_by_key is
\* stable, so its result is the one this loop ends with.
SortIn ==
  /\ pc = "sort" /\ todo # <<>>
  /\ \E pos \in 1..(Len(trans) + 1) :
       /\ SortPosition(trans, Head(todo), pos)
       /\ trans' = Inserted(trans, Head(todo), pos)
  /\ todo' = Tail(todo)
  /\ UNCHANGED <<pc, g, dotIds, nextDot, at, prov, offsets, counts>>

\* The sentinel offset is the array's length.
BeginIndex ==
  /\ pc = "sort" /\ todo = <<>>
  /\ pc' = "index" /\ at' = <<0, 0>>
  /\ offsets' = [q \in 0..(NumStates - 1) |-> Len(trans)]
  /\ counts' = [q \in 0..(NumStates - 1) |-> 0]
  /\ UNCHANGED <<g, dotIds, nextDot, trans, todo, prov>>

IndexRecord ==
  /\ pc = "index" /\ at[1] < Len(trans)
  /\ offsets' = NextOffsets(offsets, counts, at[1], trans[at[1] + 1])
  /\ counts' = NextCounts(counts, trans[at[1] + 1])
  /\ at' = <<at[1] + 1, 0>>
  /\ UNCHANGED <<pc, g, dotIds, nextDot, trans, todo, prov>>

Finish ==
  /\ pc = "index" /\ at[1] = Len(trans)
  /\ pc' = "Ok"
  /\ UNCHANGED <<g, dotIds, nextDot, at, trans, todo, prov, offsets, counts>>

Verdicts == {"Ok", "TerminalOnLhs", "UndefinedSymbol", "StartIsTerminal"}
Returned == pc \in Verdicts /\ UNCHANGED vars

Next ==
  \/ CheckGrammar \/ NumberProduction
  \/ EmitStart \/ EmitChoice \/ EmitTerminal \/ EmitCall \/ EmitExit \/ EmitReturns
  \/ ProvideNonterminals \/ ProvideProduction
  \/ BeginSort \/ SortIn \/ BeginIndex \/ IndexRecord \/ Finish
  \/ Returned

Spec == Init /\ [][Next]_vars
----------------------------------------------------------------------------
(* Properties.                                                             *)

Phases == {"validate", "number", "emit", "provenance", "sort", "index"}

\* Every dot gets an id of its own, no id between dot_base and next_dot is
\* skipped, and none collides with an entry or exit state: the numbering
\* that the IndexMapping comment of compile() wants, whose failure would
\* put the accepting state on the wrong state.
Numbering ==
  /\ \A p \in DOMAIN dotIds : \A i \in DOMAIN dotIds[p] :
       dotIds[p][i] \in DotBase..(nextDot - 1)
  /\ \A p, r \in DOMAIN dotIds : \A i \in DOMAIN dotIds[p] : \A j \in DOMAIN dotIds[r] :
       dotIds[p][i] = dotIds[r][j] => p = r /\ i = j
  /\ \A q \in DotBase..(nextDot - 1) : \E p \in DOMAIN dotIds :
       \E i \in DOMAIN dotIds[p] : dotIds[p][i] = q

\* state_provenance is total and is the phase that the field's comment defines
\* (the nonterminal being parsed).  Every transition that leaves the stack as
\* deep as it was keeps the phase: only a call leads into another one, that of
\* its entry state, and only a return leads back, to that of a dot.
PhaseHomology ==
  pc = "Ok" =>
    /\ DOMAIN prov = 0..(NumStates - 1)
    /\ prov[QStart] = g.start
    /\ \A A \in Nonterminals(g) : prov[QIn(A)] = A /\ prov[QOut(A)] = A
    /\ \A p \in Prods(g) : \A i \in DOMAIN dotIds[p] : prov[dotIds[p][i]] = Lhs(g, p)
    /\ \A n \in DOMAIN trans : Len(trans[n].push) = 1 =>
         prov[trans[n].q] = prov[trans[n].next_q]

\* The number that the table gives a state and a stack symbol of the network,
\* and the record it writes for a move.
StateId(s) ==
  CASE s.k = "start" -> QStart
    [] s.k = "in" -> QIn(s.ix)
    [] s.k = "out" -> QOut(s.ix)
    [] s.k = "dot" -> dotIds[s.ix][s.pos]
StackId(r) == IF r = Bot THEN 0 ELSE RetAddr(r.ix, r.pos)
Encoded(t) ==
  Move(StateId(t.q), t.a, StackId(t.top), StateId(t.next_q),
       [j \in DOMAIN t.push |-> StackId(t.push[j])])

\* What compile() returns is the network of the grammar: every move has one
\* record, no two moves share one, and nothing else is in the array.  The
\* array is sorted and its index exact: the row of a control state holds the
\* records of its moves and no others, and no record is outside a row.
TableIsNetwork ==
  pc = "Ok" =>
    /\ {trans[n] : n \in DOMAIN trans} = {Encoded(t) : t \in Delta(g)}
    /\ \A m, n \in DOMAIN trans : trans[m] = trans[n] => m = n
    /\ \A s, t \in Delta(g) : Encoded(s) = Encoded(t) => s = t
    /\ SortedByKey(trans) /\ ExactRows(trans, Len(trans), offsets, counts)
    /\ \A n \in DOMAIN trans : counts[trans[n].q] > 0

\* is_deterministic: no two transitions share (q, a, top).
Deterministic ==
  \A m, n \in DOMAIN trans :
    trans[m].q = trans[n].q /\ trans[m].a = trans[n].a /\ trans[m].top = trans[n].top
      => m = n

\* The choice of a production is an epsilon move, so no lookahead ever
\* separates two of them: the compiled machine is deterministic exactly when
\* no nonterminal has two productions.
KindOfMachine ==
  pc = "Ok" => (Deterministic <=> \A p, r \in Prods(g) : Lhs(g, p) = Lhs(g, r) => p = r)

\* What validate_bounds tests of one transition.
InBounds(t) ==
  /\ t.q < NumStates /\ t.next_q < NumStates
  /\ t.a <= g.tm
  /\ t.top < NumStackSyms
  /\ \A j \in DOMAIN t.push : t.push[j] < NumStackSyms

EmittedInBounds ==
  /\ \A n \in DOMAIN trans : InBounds(trans[n])
  /\ \A n \in DOMAIN todo : InBounds(todo[n])

\* The fields have the types that the code's declarations give them, and
\* every transition is in bounds: compile() builds its machine without
\* PdaMachine::new and never calls validate_bounds, but nothing it pushes
\* would be refused there.
TypeOK ==
  /\ pc \in Phases \cup Verdicts
  /\ g \in Grammars
  /\ dotIds \in Seq({dotIds[p] : p \in DOMAIN dotIds}) /\ Len(dotIds) <= Len(g.prods)
  /\ \A p \in DOMAIN dotIds : dotIds[p] \in [0..Len(Rhs(g, p)) -> Nat]
  /\ nextDot \in Nat
  /\ at \in Nat \X Nat
  /\ trans \in Seq(Transition) /\ todo \in Seq(Transition)
  /\ DOMAIN prov \subseteq Nat /\ \A q \in DOMAIN prov : prov[q] \in Nat
  /\ EmittedInBounds

=============================================================================
