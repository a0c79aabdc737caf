------------------------------ MODULE MCGraph ------------------------------
(***************************************************************************)
(* Every list of up to three edges over up to three nodes, out of range    *)
(* included, and the two graphs the crate builds, replayed on machines.    *)
(***************************************************************************)
EXTENDS Graph, SampleGrammars, SampleMachines
LOCAL INSTANCE CompiledMachine
LOCAL INSTANCE MachineBounds
LOCAL INSTANCE SequencesExt

AnyEdges ==
  {[nodes |-> [v \in 1..n |-> Node("Sample", 1)], edges |-> s] :
     n \in 0..3, s \in SeqOf((0..3) \X (0..2), 3)}
\* Two steps that meet in one copy.
TwoSteps ==
  [nodes |-> <<Node("D2H", 0), Node("Advance", 1), Node("H2D", 0), Node("Advance", 1)>>,
   edges |-> <<<<2, 1>>, <<2, 3>>, <<1, 0>>, <<3, 0>>>>]
BuiltGraphs == {SingleTokenDecode(b) : b \in 0..2} \cup {Drafting(1), TwoSteps}
GraphsHere == AnyEdges \cup BuiltGraphs

Sessions ==
  {Analysed(Compiled(h)) : h \in {Counting, Readme, Chain, Nullable, TwoWays, Loop}}
    \cup {Analysed(x) : x \in {AnBn, Cycle, Branch, Draining}}
MachinesHere(G) == IF G \in BuiltGraphs THEN Sessions ELSE {Analysed(Draining)}

----------------------------------------------------------------------------
\* The states that n steps of the mock may lead to: each is a step of a
\* session that stands on the bottom marker, and holds where the mask of that
\* session does not have input 0.
RECURSIVE SteppedFrom(_, _)
SteppedFrom(q, n) ==
  IF n = 0 THEN {q}
  ELSE LET c == <<q, <<m.bottom>>>>
           next == IF 0 \in MaskAt(m, c) THEN {d[1] : d \in AdvanceSet(m, {c}, 0)} ELSE {q}
       IN UNION {SteppedFrom(r, n - 1) : r \in next}

\* A finished replay has taken as many steps as the graph has Advance nodes
\* with a sequence to advance, each the way the mask allows it.
ReplayFollowsMask ==
  pc = "order" /\ executed = Len(order) =>
    state \in SteppedFrom(m.start, Cardinality({i \in DOMAIN graph.nodes :
                graph.nodes[i].kind = "Advance" /\ graph.nodes[i].batch > 0}))
=============================================================================
