------------------------------ MODULE Closure ------------------------------
(***************************************************************************)
(* What the epsilon-closure loops of machine.rs compute, and the mask,     *)
(* advance and acceptance operations built on them, as operators.  The     *)
(* loops themselves are the actions of EpsClosure.  Machines are Analysed.  *)
(***************************************************************************)
EXTENDS Machine, FiniteSets
LOCAL INSTANCE SequencesExt
LOCAL INSTANCE FiniteSetsExt

\* Everything that epsilon moves reach from the configurations in fresh.  A
\* configuration deeper than bound is kept and not expanded.
RECURSIVE ClosureFrom(_, _, _, _)
ClosureFrom(m, bound, known, fresh) ==
  LET next == UNION {ToSet(EpsSuccessors(m, c)) : c \in {d \in fresh : Len(d[2]) <= bound}}
  IN IF next \subseteq known THEN known
     ELSE ClosureFrom(m, bound, known \cup next, next \ known)

ClosureOf(m, bound, c) == ClosureFrom(m, bound, {c}, {c})

\* Faulty: the last symbol pushed is the one at the bottom.
TopAfterLast(top, push) == IF push = <<>> THEN top ELSE Last(push)
\* The top after a move; one that pops leaves it as it is.
TopAfter(top, push) == IF push = <<>> THEN top ELSE Head(push)
\* The closure of closure_table: pairs of a state and a stack top.
RECURSIVE PairsFrom(_, _, _)
PairsFrom(m, known, fresh) ==
  LET next == UNION {ToSet([j \in 1..Len(Lookup(m, p[1], EpsInput(m), p[2])) |->
                              LET t == Lookup(m, p[1], EpsInput(m), p[2])[j]
                              IN <<t.next_q, TopAfter(p[2], t.push)>>])
                       : p \in fresh}
  IN IF next \subseteq known THEN known ELSE PairsFrom(m, known \cup next, next \ known)

ClosureTable(m, q, top) == PairsFrom(m, {<<q, top>>}, {<<q, top>>})

\* max_closure_width: the size of the largest of these closures.
MaxClosureWidth(m) ==
  Max({Cardinality(ClosureTable(m, q, top)) : q \in 0..(m.states - 1), top \in 0..(m.syms - 1)})

\* mask_at_cfg.
MaskAt(m, c) ==
  IF m.tabled /\ ~m.grows
  THEN UNION {ReadableAt(m, <<p[1], <<p[2]>>>>) : p \in ClosureTable(m, c[1], TopOf(m, c[2]))}
  ELSE UNION {ReadableAt(m, d) : d \in ClosureOf(m, m.bound, c)}

\* Faulty: only the first configuration is looked at.
MaskOfOne(m, configs) == MaskAt(m, CHOOSE c \in configs : TRUE)
\* frontier_mask.
FrontierMask(m, configs) == UNION {MaskAt(m, c) : c \in configs}

\* Faulty: only the configurations of the frontier itself read.
AdvanceUnclosed(m, configs, a) == UNION {ToSet(Successors(m, c, a)) : c \in configs}
\* advance_eps_set.
AdvanceSet(m, configs, a) ==
  UNION {ToSet(Successors(m, d, a)) : d \in UNION {ClosureOf(m, m.states, c) : c \in configs}}

\* step_batch of one configuration: where no configuration of the closure
\* reads the input, the one stepped is held.
StepBatch(m, c, a) == IF AdvanceSet(m, {c}, a) = {} THEN {c} ELSE AdvanceSet(m, {c}, a)

\* Faulty: acceptance without the epsilon moves.
AcceptsUnclosed(m, c) == c[1] \in m.accepting
\* accepts_via_eps.
AcceptsViaEps(m, c) ==
  \E d \in ClosureOf(m, m.states, c) : Len(d[2]) <= m.states /\ d[1] \in m.accepting

\* Faulty: the epsilon input is not told from the others.
SettledWithEpsilon(m, q, top) == {t.a : t \in {u \in ToSet(m.trans) : u.q = q /\ u.top = top}}
\* mask_at_cfg_settled: no epsilon move is followed.
MaskSettled(m, q, top) ==
  {t.a : t \in {u \in ToSet(m.trans) : u.q = q /\ u.top = top /\ u.a < m.inputs}}
\* The mask of one lane of the pipeline.
LaneMask(m, c) == MaskSettled(m, c[1], TopOf(m, c[2]))

----------------------------------------------------------------------------
(* What a host may skip.                                                   *)

HasEpsilonSuccessor(m, q, top) == Lookup(m, q, EpsInput(m), top) # <<>>

\* Faulty: an epsilon move that keeps the stack counts as a shift.
IsNeutral(m, t) == t.push = <<t.top>>
IsShift(m, t) == t.a < m.inputs /\ t.push = <<t.top>>
\* is_passthrough.
IsPassthrough(m, q, top, a) == \E t \in ToSet(Lookup(m, q, a, top)) : IsShift(m, t)

\* passthrough_run: shifts are followed from state to state, whatever the
\* top, at most num_states of them.
RECURSIVE ShiftsFrom(_, _, _)
ShiftsFrom(m, q, cap) ==
  LET shifts == SelectSeq(m.trans, LAMBDA t : t.q = q /\ IsShift(m, t))
  IN IF cap = 0 \/ shifts = <<>> THEN 0 ELSE 1 + ShiftsFrom(m, Head(shifts).next_q, cap - 1)
PassthroughRun(m, q) == ShiftsFrom(m, q, m.states)

\* event_scan: how many of the inputs are shifts.  Each configuration reads
\* the input itself, so it is the first of its closure that advance_eps finds.
RECURSIVE EventScan(_, _, _)
EventScan(m, c, inputs) ==
  IF inputs = <<>> \/ ~IsPassthrough(m, c[1], TopOf(m, c[2]), Head(inputs)) THEN 0
  ELSE 1 + EventScan(m, Head(Successors(m, c, Head(inputs))), Tail(inputs))
=============================================================================
