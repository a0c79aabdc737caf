---------------------------- MODULE MCEpsClosure ----------------------------
(***************************************************************************)
(* Closures from the configurations that sessions of up to two inputs      *)
(* reach, on compiled machines and on machines written by hand.            *)
(***************************************************************************)
EXTENDS EpsClosure, Closure, SampleGrammars, SampleMachines
LOCAL INSTANCE CompiledMachine
LOCAL INSTANCE MachineBounds
LOCAL INSTANCE SequencesExt
LOCAL INSTANCE TLC

CompiledSample ==
  {Compiled(g) : g \in {Counting, Readme, Single, Chain, LeftRecursive, RightRecursive,
                        Nullable, Loop}}
\* The search of has_epsilon_growth_cycle finds a component of two nodes exactly
\* where two nodes reach one another, in every graph of up to three nodes.
Joined(edges, n) ==
  LET through[k \in 0..n] ==
        IF k = 0 THEN edges
        ELSE LET old == through[k - 1]
             IN old \cup {<<e[1], f[2]>> : <<e, f>> \in {x \in old \X old :
                            x[1][2] = k - 1 /\ x[2][1] = k - 1}}
  IN through[n]
ASSUME SearchFindsComponents ==
  \A n \in 1..3 : \A edges \in SUBSET ((0..(n - 1)) \X (0..(n - 1))) :
    LET paths == Joined(edges, n)
        adj == [v \in 0..(n - 1) |-> SetToSeq({w \in 0..(n - 1) : <<v, w>> \in edges})]
    IN HasLargeComponent(adj)
         <=> \E e \in paths : e[1] # e[2] /\ <<e[2], e[1]>> \in paths

HandSample ==
  {AnBn, Cycle, Branch, Choosing, Conflict, Popping, Hidden, Unwinding, Shadowed, Climbing,
   Soaring, [Climbing EXCEPT !.indexed = FALSE, !.tabled = FALSE]}
SessionMachines == {Analysed(x) : x \in CompiledSample \cup HandSample}
PoppingOnly == {Analysed(Popping)}
HiddenOnly == {Analysed(Hidden)}
ChainOnly == {[width |-> MaxClosureWidth(x)] @@ Analysed(x) : x \in {Compiled(Chain)}}

RECURSIVE After(_, _, _)
After(x, configs, n) ==
  IF n = 0 THEN configs
  ELSE configs \cup After(x, UNION {AdvanceSet(x, configs, a) : a \in 0..(x.inputs - 1)}, n - 1)

SessionStarts(x) == After(x, {<<x.start, <<x.bottom>>>>}, 2)

Inputs == 0..(m.inputs - 1)

\* In the closure of the start no epsilon move pops a symbol off another one.
\* Only then is a pair of state and top all there is to know of a
\* configuration, which the table and the key of advance_eps rely on where the
\* machine has no epsilon cycle.
Full == ClosureOf(m, m.bound, start)
PopsKeepTop ==
  m.grows \/ \A c \in Full : \A t \in EpsMoves(m, c) :
               t.push = <<>> => TopOf(m, AfterMove(c[2], <<>>)) = t.top
\* No depth test cuts the closure off, that of the session (num_states) and that
\* of the others, or both are num_states.
SameDepth == m.grows \/ \A c \in Full : Len(c[2]) <= m.bound /\ Len(c[2]) <= m.states
\* Without the index advance_eps refuses an input with a choice.
InputsUnique ==
  m.indexed \/ \A c \in Full : \A a \in Inputs : Len(Successors(m, c, a)) <= 1

\* "It is exactly the set of inputs for which advance_eps succeeds" (the comment
\* of mask_at_cfg), and for which the session goes on (advance_eps_set): three
\* closures, by a table, by state and top and by whole stacks, with three depth
\* bounds, agree on every input, with the exceptions of the three definitions
\* above.  Whatever they are, what advance_eps returns is one of the
\* configurations of advance_eps_set, unless a push is longer than num_states.
\* And the closures that the other modules take as sets are those of the loops.
MaskIsAdvanceable ==
  verdict = "closed" =>
    /\ op = "advance_eps" => \A a \in Inputs :
         LET advances == AdvanceEps(a) # <<>>
             allowed  == a \in MaskAt(m, start)
             session  == AdvanceSet(m, {start}, a)
         IN /\ m.bound <= m.states => ToSet(AdvanceEps(a)) \subseteq session
            /\ PopsKeepTop /\ InputsUnique /\ (m.tabled => SameDepth) => (advances <=> allowed)
            /\ (m.tabled => PopsKeepTop) /\ SameDepth => (allowed <=> session # {})
    /\ ~ByStateAndTop => ToSet(closed) = ClosureOf(m, DepthBound, start)

\* Not an invariant (PoppingOnly and HiddenOnly refute it): the comment of
\* mask_at_cfg without the exceptions.
MaskIsAdvanceEps ==
  verdict = "closed" /\ op = "advance_eps" =>
    \A a \in Inputs : AdvanceEps(a) # <<>> <=> a \in MaskAt(m, start)

\* Not an invariant (ChainOnly refutes it): max_closure_width of the device
\* table, "the distinct (state, top) pairs reachable via epsilon moves from any
\* single config", which keeps the top of the stack when a move pops.
WidthSuffices ==
  verdict = "closed" => Cardinality({<<c[1], TopOf(m, c[2])>> : c \in ToSet(closed)}) <= m.width
=============================================================================
