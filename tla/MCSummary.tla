----------------------------- MODULE MCSummary ------------------------------
(***************************************************************************)
(* Both summaries against the paths of the machine.                        *)
(***************************************************************************)
EXTENDS Summary, SampleGrammars, SampleMachines
LOCAL INSTANCE CompiledMachine
LOCAL INSTANCE MachineBounds
LOCAL INSTANCE SequencesExt
LOCAL INSTANCE FiniteSets

\* S -> A a, A -> eps
EmptyPrefix ==
  {[nt |-> 2, tm |-> 1, start |-> 0,
    prods |-> <<[lhs |-> 0, rhs |-> <<1, 2>>], [lhs |-> 1, rhs |-> <<>>]>>]}
\* S -> A B, A -> a, and B has no production
MissingPart ==
  {[nt |-> 3, tm |-> 1, start |-> 0,
    prods |-> <<[lhs |-> 0, rhs |-> <<1, 2>>], [lhs |-> 1, rhs |-> <<3>>]>>]}

ByHand == {AnBn, Branch, Cycle, Popping, Hidden, Conflict, Draining}
\* The sweeps of compute have as many orders as there are configurations.
Sample(operation) ==
  {Analysed(x) : x \in ByHand \cup
     {Compiled(y) : y \in {Single, Endless, Orphan, Loop} \cup
        IF operation = "compute" THEN {} ELSE {Nullable, Counting, Chain} \cup EmptyPrefix \cup MissingPart}}
OfMissingPart(operation) == {Analysed(x) : x \in {Compiled(g) : g \in MissingPart}}

----------------------------------------------------------------------------
\* prove_termination: from the start there is a path to acceptance.
ProvenIsReachable ==
  pc = "done" /\ Proven => \E c \in reachable : c[1] \in m.accepting
=============================================================================
