--------------------------- MODULE MachineBounds ----------------------------
(***************************************************************************)
(* The depth bound that the epsilon loops of a machine start from, and the *)
(* Tarjan search for epsilon cycles that it depends on                     *)
(* (has_epsilon_growth_cycle).                                             *)
(***************************************************************************)
EXTENDS Machine, FiniteSets
LOCAL INSTANCE SequencesExt
LOCAL INSTANCE TLC

----------------------------------------------------------------------------
(* The search.  adj[v] is the adjacency list of node v in array order,     *)
(* nodes count from 0.  A search is a record: index and low of the nodes   *)
(* met so far, the stack (top first), and whether a component of two nodes *)
(* was closed.                                                             *)

Less(a, b) == IF a < b THEN a ELSE b

Unsearched == [index |-> <<>>, low |-> <<>>, stack |-> <<>>, large |-> FALSE]

\* The node gets the next index and goes on the stack.
Enter(s, v) ==
  LET n == Cardinality(DOMAIN s.index)
  IN [s EXCEPT !.index = (v :> n) @@ @, !.low = (v :> n) @@ @, !.stack = <<v>> \o @]

\* The root of a component takes everything above it off the stack.
CloseComponent(s, v) ==
  IF s.low[v] # s.index[v] THEN s
  ELSE LET size == CHOOSE i \in DOMAIN s.stack : s.stack[i] = v
       IN [s EXCEPT !.stack = SubSeq(@, size + 1, Len(@)), !.large = @ \/ size > 1]

\* A node met already lowers v to its index while it is on the stack; in a
\* closed component it does not.
Meet(s, v, w) == IF w \in ToSet(s.stack) THEN [s EXCEPT !.low[v] = Less(@, s.index[w])] ELSE s

RECURSIVE StrongConnect(_, _, _)
RECURSIVE Follow(_, _, _, _)
\* Along the edges from v that are left; a node not met yet is searched first.
\* After the last edge the component of v may be closed.
Follow(adj, v, s, targets) ==
  IF targets = <<>> THEN CloseComponent(s, v)
  ELSE LET w == Head(targets)
       IN IF w \in DOMAIN s.index THEN Follow(adj, v, Meet(s, v, w), Tail(targets))
          ELSE LET t == StrongConnect(adj, w, s)
               IN Follow(adj, v, [t EXCEPT !.low[v] = Less(@, t.low[w])], Tail(targets))

StrongConnect(adj, v, s) == Follow(adj, v, Enter(s, v), adj[v])

RECURSIVE SearchFrom(_, _, _)
\* The search from node v and every later one not met yet, in order.
SearchFrom(adj, v, s) ==
  IF v \notin DOMAIN adj THEN s
  ELSE SearchFrom(adj, v + 1, IF v \in DOMAIN s.index THEN s ELSE StrongConnect(adj, v, s))
Searched(adj) == SearchFrom(adj, 0, Unsearched)

HasLargeComponent(adj) == Searched(adj).large

----------------------------------------------------------------------------
\* The targets of the epsilon moves of state q, in array order.
EpsTargets(m, q) ==
  LET moves == SelectSeq(m.trans, LAMBDA t : t.q = q /\ t.a = EpsInput(m) /\ t.next_q < m.states)
  IN [j \in DOMAIN moves |-> moves[j].next_q]

\* A component of two states in the epsilon graph; which edges push is noted
\* in the code and not asked.
HasEpsilonGrowthCycle(m) ==
  HasLargeComponent([q \in 0..(m.states - 1) |-> EpsTargets(m, q)])

ClosureDepthBound(m) ==
  IF Classify(m) # "NonDeterministic" /\ ~HasEpsilonGrowthCycle(m)
  THEN MaxStackDepth(m) ELSE m.states

\* has_epsilon_growth_cycle() and closure_depth_bound() depend on the
\* machine alone.  The code computes them at every call; the models keep
\* them as two more fields of the record.
Analysed(m) == [grows |-> HasEpsilonGrowthCycle(m), bound |-> ClosureDepthBound(m)] @@ m
=============================================================================
