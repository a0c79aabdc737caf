------------------------------ MODULE RtnNames ------------------------------
(***************************************************************************)
(* kappa() and rtn_state_names(): the number of control states and the     *)
(* name of each id, computed from the grammar alone, and so the machine    *)
(* that compile() returns, written down without its loops.                 *)
(***************************************************************************)
EXTENDS RtnTable, TransTable
LOCAL INSTANCE SequencesExt
LOCAL INSTANCE Functions

Kappa(g) == 1 + 2 * g.nt + SumFunction([p \in Prods(g) |-> Len(Rhs(g, p)) + 1])

\* rtn_state_names: the name of state id q is element q + 1.
StateNames(g) ==
  <<Start>> \o [n \in 1..g.nt |-> In(n - 1)] \o [n \in 1..g.nt |-> Out(n - 1)]
    \o FlattenSeq([p \in Prods(g) |-> [n \in 1..(Len(Rhs(g, p)) + 1) |-> Dot(p, n - 1)]])

\* Stack symbol 0 is the bottom marker, r > 0 the r-th dot.
StackNames(g) == <<Bot>> \o SubSeq(StateNames(g), 2 + 2 * g.nt, Kappa(g))

\* A transition of the compiled table, read with those names.
Named(g, t) ==
  LET names == StateNames(g)
      stackNames == StackNames(g)
  IN Move(names[t.q + 1], t.a, stackNames[t.top + 1], names[t.next_q + 1],
          [j \in 1..Len(t.push) |-> stackNames[t.push[j] + 1]])
=============================================================================
