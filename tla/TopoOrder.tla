----------------------------- MODULE TopoOrder -----------------------------
(***************************************************************************)
(* PdaGraph::topo_order (graph.rs): Kahn's algorithm over the captured     *)
(* graph of kernel launches and copies.  A graph is a record               *)
(*    [nodes |-> sequence of nodes, edges |-> sequence of pairs],          *)
(* and nodes are numbered from 0.  The edges are whatever the caller wrote *)
(* down: out of range, repeated, from a node to itself, in a cycle.        *)
(*                                                                         *)
(* The adjacency list of a node is its edges in the order they were given; *)
(* relaxed are the edges whose target's degree is already lowered, so the  *)
(* inner loop is at the least edge that starts in an ordered node and is   *)
(* not relaxed.                                                            *)
(***************************************************************************)
EXTENDS Integers, Sequences, FiniteSets

CONSTANT Graphs
ASSUME GraphsAssumption ==
  \A G \in Graphs : Len(G.nodes) \in Nat /\ G.edges \in Seq(Nat \X Nat)

VARIABLES
  graph,
  pc,        \* "sort", "order" (Some) or "none"
  counted,   \* how many edges are counted in in_degree
  seeded,    \* how many nodes were looked at for the first queue
  inDegree,
  queue,
  order,
  relaxed    \* edges whose target's degree is lowered

topoVars == <<graph, pc, counted, seeded, inDegree, queue, order, relaxed>>

NumNodes == Len(graph.nodes)
Nodes == 0..(NumNodes - 1)
Edges == DOMAIN graph.edges
Src(e) == graph.edges[e][1]
Dst(e) == graph.edges[e][2]
Ordered(v) == \E i \in DOMAIN order : order[i] = v
Queued(v) == \E i \in DOMAIN queue : queue[i] = v

TopoInit ==
  /\ graph \in Graphs
  /\ pc = "sort"
  /\ counted = 0 /\ seeded = 0
  /\ inDegree = [v \in Nodes |-> 0]
  /\ queue = <<>> /\ order = <<>>
  /\ relaxed = {}

InRange(e) == Src(e) \in Nodes /\ Dst(e) \in Nodes

\* Faulty: a second edge into a node is not counted.
CountEdgeOnce ==
  /\ pc = "sort" /\ counted < Len(graph.edges) /\ InRange(counted + 1)
  /\ inDegree' = [inDegree EXCEPT ![Dst(counted + 1)] = 1]
  /\ counted' = counted + 1
  /\ UNCHANGED <<graph, pc, seeded, queue, order, relaxed>>
CountEdge ==
  /\ pc = "sort" /\ counted < Len(graph.edges) /\ InRange(counted + 1)
  /\ inDegree' = [inDegree EXCEPT ![Dst(counted + 1)] = @ + 1]
  /\ counted' = counted + 1
  /\ UNCHANGED <<graph, pc, seeded, queue, order, relaxed>>

OutOfRange ==
  /\ pc = "sort" /\ counted < Len(graph.edges) /\ ~InRange(counted + 1)
  /\ pc' = "none"
  /\ UNCHANGED <<graph, counted, seeded, inDegree, queue, order, relaxed>>

SeedNode ==
  /\ pc = "sort" /\ counted = Len(graph.edges) /\ seeded < NumNodes
  /\ queue' = IF inDegree[seeded] = 0 THEN Append(queue, seeded) ELSE queue
  /\ seeded' = seeded + 1
  /\ UNCHANGED <<graph, pc, counted, inDegree, order, relaxed>>

Sorting == pc = "sort" /\ counted = Len(graph.edges) /\ seeded = NumNodes

\* Faulty: the adjacency lists hold a repeated edge once.
PendingDistinct ==
  {e \in Edges \ relaxed :
     Ordered(Src(e)) /\ \A f \in 1..(e - 1) : graph.edges[f] # graph.edges[e]}
\* The edges of the ordered nodes that the inner loop has still to look at.
Pending == {e \in Edges \ relaxed : Ordered(Src(e))}

TakeNode ==
  /\ Sorting /\ Pending = {} /\ queue # <<>>
  /\ order' = Append(order, Head(queue))
  /\ queue' = Tail(queue)
  /\ UNCHANGED <<graph, pc, counted, seeded, inDegree, relaxed>>

RelaxEdge ==
  /\ Sorting
  /\ \E e \in Pending :
       /\ \A f \in Pending : e <= f
       /\ relaxed' = relaxed \cup {e}
       /\ inDegree' = [inDegree EXCEPT ![Dst(e)] = @ - 1]
       /\ queue' = IF inDegree[Dst(e)] = 1 THEN Append(queue, Dst(e)) ELSE queue
  /\ UNCHANGED <<graph, pc, counted, seeded, order>>

TopoFinish ==
  /\ Sorting /\ Pending = {} /\ queue = <<>>
  /\ pc' = IF Len(order) = NumNodes THEN "order" ELSE "none"
  /\ UNCHANGED <<graph, counted, seeded, inDegree, queue, order, relaxed>>

TopoNext ==
  \/ CountEdge \/ OutOfRange \/ SeedNode
  \/ TakeNode \/ RelaxEdge \/ TopoFinish

TopoSpec == TopoInit /\ [][TopoNext]_topoVars
----------------------------------------------------------------------------
\* No node is ordered before a node it depends on, whatever the edges are: in
\* every state each ordered node has all its sources before it.
SourcesFirst ==
  counted = Len(graph.edges) =>
    \A i \in DOMAIN order : \A e \in Edges :
      Dst(e) = order[i] => \E j \in 1..(i - 1) : order[j] = Src(e)

\* The order that is returned holds every node, and holds it once.
OrderIsComplete ==
  /\ \A i, j \in DOMAIN order : order[i] = order[j] => i = j
  /\ pc = "order" => \A v \in Nodes : Ordered(v)

\* topo_order ("the execution order"): what it returns is a permutation of the
\* nodes in which every edge leads forward, and on the way there no node runs
\* before one it depends on.
Topological == SourcesFirst /\ OrderIsComplete

\* Some nodes, each the target of an edge from one of them.
Cyclic ==
  \E s \in SUBSET Nodes : s # {} /\ \A v \in s : \E e \in Edges : Dst(e) = v /\ Src(e) \in s

\* topo_order fails exactly on what is no graph of its nodes or has a cycle
\* (GraphError::Cycle).
NoneIffCyclic ==
  /\ pc = "none" => Cyclic \/ \E e \in Edges : ~InRange(e)
  /\ pc = "order" => ~Cyclic /\ \A e \in Edges : InRange(e)
=============================================================================
