---------------------------- MODULE MCRtnCompile ----------------------------
(***************************************************************************)
(* compile() on a sample of grammars, and what its result has to be: the   *)
(* recursive transition network of the grammar.                            *)
(***************************************************************************)
EXTENDS RtnCompile, SampleGrammars, FiniteSets
LOCAL INSTANCE RtnNames
LOCAL INSTANCE CompiledMachine
LOCAL INSTANCE MachineBounds

AllGrammars == WellFormed \cup IllFormed \cup SmallGrammars

\* The machine as the fields that has_epsilon_growth_cycle reads.
EpsMachine == [states |-> NumStates, inputs |-> g.tm, trans |-> trans]

\* What compile() returns is Compiled(g), the machine the simulators' models
\* run on: the network of the grammar numbered as rtn_state_names does and
\* sorted with choices in production order.  Its provenance is the phase of
\* each state's name.  Every exit may return to every dot, the last one of its
\* own production too, so its epsilon graph has a cycle
\* (has_epsilon_growth_cycle) as soon as there is a production, recursive or
\* not, and its closures are never bounded by max_stack_depth.
ReturnsCompiled ==
  pc = "Ok" =>
    /\ Compiled(g) = [states |-> NumStates, inputs |-> g.tm, syms |-> NumStackSyms,
                      start |-> QStart, bottom |-> 0, indexed |-> TRUE, tabled |-> TRUE,
                      accepting |-> {QOut(g.start)}, trans |-> trans]
    /\ prov = [q \in 0..(Kappa(g) - 1) |-> Phase(g, StateNames(g)[q + 1])]
    /\ HasEpsilonGrowthCycle(EpsMachine) <=> Prods(g) # {}
=============================================================================
