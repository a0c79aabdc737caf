------------------------------- MODULE Graph -------------------------------
(***************************************************************************)
(* PdaGraph::mock_replay (graph.rs): the nodes of a captured graph are     *)
(* executed in the order that topo_order returns.  Only Advance nodes      *)
(* change the state; masks and projections are computed and dropped.  The  *)
(* mock keeps one control state: every node starts from it on the bottom   *)
(* marker, and an Advance node steps a batch of equal configurations over  *)
(* input 0 with step_batch and keeps the first configuration of the first  *)
(* answer.                                                                 *)
(***************************************************************************)
EXTENDS TopoOrder, Closure
LOCAL INSTANCE SequencesExt

CONSTANT MachinesFor(_)   \* the machines a graph is replayed on

VARIABLES
  m,         \* the machine
  executed,  \* how many nodes of the order are executed
  state      \* the control state

vars == <<topoVars, m, executed, state>>

Node(kind, batch) == [kind |-> kind, batch |-> batch]

SingleTokenDecode(batch) ==
  [nodes |-> <<Node("H2D", 0), Node("ComputeMasks", batch), Node("Sample", batch),
               Node("Advance", batch), Node("D2H", 0)>>,
   edges |-> <<<<0, 1>>, <<1, 2>>, <<2, 3>>, <<3, 4>>>>]
Drafting(batch) ==
  [nodes |-> <<Node("H2D", 0), Node("ProjectMasks", batch), Node("D2H", 0)>>,
   edges |-> <<<<0, 1>>, <<1, 2>>>>]

ReplayInit ==
  /\ TopoInit
  /\ m \in MachinesFor(graph)
  /\ executed = 0 /\ state = m.start

\* The closure of advance_eps_set as the list it builds, from the configuration
\* at index i on.
RECURSIVE ClosureList(_, _, _)
ClosureList(x, list, i) ==
  IF i > Len(list) THEN list
  ELSE LET found == IF Len(list[i][2]) > x.states THEN <<>> ELSE EpsSuccessors(x, list[i])
       IN ClosureList(x, list \o SelectSeq(found, LAMBDA c : c \notin ToSet(list)), i + 1)

\* Faulty: a configuration that cannot read goes back to the start.
StepOrRestart(x, c, a) ==
  LET readers == SelectSeq(ClosureList(x, <<c>>, 1), LAMBDA d : Successors(x, d, a) # <<>>)
  IN IF readers = <<>> THEN <<x.start, <<x.bottom>>>> ELSE Successors(x, Head(readers), a)[1]
\* The first configuration of step_batch's answer; the one stepped where no
\* move reads the input.
FirstStep(x, c, a) ==
  LET readers == SelectSeq(ClosureList(x, <<c>>, 1), LAMBDA d : Successors(x, d, a) # <<>>)
  IN IF readers = <<>> THEN c ELSE Successors(x, Head(readers), a)[1]

ExecuteNode ==
  /\ pc = "order" /\ executed < Len(order)
  /\ LET node == graph.nodes[order[executed + 1] + 1]
     IN state' = IF node.kind = "Advance" /\ node.batch > 0
                 THEN FirstStep(m, <<state, <<m.bottom>>>>, 0)[1] ELSE state
  /\ executed' = executed + 1
  /\ UNCHANGED <<topoVars, m>>

\* The state, or the error Cycle.
Returned == (pc = "none" \/ (pc = "order" /\ executed = Len(order))) /\ UNCHANGED vars

Next ==
  \/ TopoNext /\ UNCHANGED <<m, executed, state>>
  \/ ExecuteNode
  \/ Returned

Spec == ReplayInit /\ [][Next]_vars
=============================================================================
