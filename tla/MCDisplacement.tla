--------------------------- MODULE MCDisplacement ---------------------------
(***************************************************************************)
(* Displacements on the compiled sample grammars and on machines written   *)
(* by hand, against the decoding session and its closures.                 *)
(***************************************************************************)
EXTENDS Displacement, SampleGrammars, SampleMachines
LOCAL INSTANCE Closure
LOCAL INSTANCE CompiledMachine
LOCAL INSTANCE MachineBounds
LOCAL INSTANCE SequencesExt
LOCAL INSTANCE TLC

\* Epsilon moves alone push for ever only on the last set: there only
\* reachable_in_configs returns, and no sequence is walked.
Written == {Analysed(x) : x \in {AnBn, Branch, Popping, Draining, Reordered}}
Walkable ==
  Written \cup {Analysed(Compiled(g)) : g \in {Counting, Readme, Single, Chain, RightRecursive,
                                               Nullable, Orphan}}
Growing == {Analysed(Compiled(g)) : g \in {LeftRecursive, Ambiguous, Loop}} \cup {Analysed(Cycle)}
SampleOf == Walkable \cup Growing

\* The words of n inputs out of k, in the order of the numbers they are read as.
WordsOf(k, n) == [j \in 1..(k^n) |-> [i \in 1..n |-> ((j - 1) \div k^(i - 1)) % k]]
\* All words of up to four inputs, of three on a compiled machine of two inputs:
\* among them the concatenations of the shorter ones.
CallsOf(x) ==
  LET longest == IF x.inputs = 1 \/ x \in Written THEN 4 ELSE 3
  IN IF x \in Growing THEN {<<>>} ELSE {FlattenSeq([n \in 1..(longest + 1) |-> WordsOf(x.inputs, n - 1)])}

----------------------------------------------------------------------------
\* All that the sessions of any length have in their frontiers, deep stacks
\* dropped.
RECURSIVE FrontiersFrom(_, _)
FrontiersFrom(known, fresh) ==
  LET next == UNION {AdvanceSet(m, fresh, a) : a \in 0..(m.inputs - 1)}
      kept == {c \in next : Len(c[2]) <= m.states} \ known
  IN IF kept = {} THEN known ELSE FrontiersFrom(known \cup kept, kept)

\* The stack stays within num_states: no move from the closure of an
\* in-configuration leads deeper.
StacksBounded ==
  \A c \in ToSet(inConfigs) : \A d \in ClosureOf(m, m.states, c) : \A a \in 0..m.inputs :
    \A e \in ToSet(Successors(m, d, a)) : Len(e[2]) <= m.states

\* reachable_in_configs lists, each once, exactly the configurations that
\* stand in the frontier of some session: its cap at num_states loses nothing
\* that the sessions, which have a cap of their own, still reach within it.
ReachIsSessions ==
  pc = "walk" /\ at = At(1, 1, 0) /\ scanned = 0 =>
    /\ IsInjective(inConfigs)
    /\ LET start == {<<m.start, <<m.bottom>>>>} IN ToSet(inConfigs) = FrontiersFrom(start, start)

\* A displacement says what a session does (advance_eps_set): from each
\* in-configuration the sequence leads to every configuration that the session
\* would have in its frontier, and to no other where stacks are bounded; what
\* it leads to there are in-configurations, so that displacements compose.
RECURSIVE Walked(_, _)
Walked(configs, w) == IF w = <<>> THEN configs ELSE Walked(AdvanceSet(m, configs, Head(w)), Tail(w))
RelationIsWalk ==
  pc = "done" =>
    \A w \in DOMAIN words : \A c \in ToSet(inConfigs) :
      LET outs == {p[2] : p \in {r \in ToSet(rels[w]) : r[1] = c}}
          session == Walked({c}, words[w])
      IN /\ session \subseteq outs
         /\ StacksBounded => session = outs /\ outs \subseteq ToSet(inConfigs)
=============================================================================
