------------------------------ MODULE Summary ------------------------------
(***************************************************************************)
(* The two constructors of BoundedSummary (summary.rs).  compute finds the *)
(* configurations reachable within a stack bound, then gives them          *)
(* distances to acceptance in sweeps over a hash set, whose order is any   *)
(* (in one call of the code the same for all sweeps, here not              *)
(* necessarily).  compute_unbounded goes backwards from acceptance, a      *)
(* level at a time, then finds the reachable configurations, and panics    *)
(* where the machine's own bound cut one off.  prove_termination and       *)
(* is_viable read the result.                                              *)
(***************************************************************************)
EXTENDS Machine, FiniteSets
LOCAL INSTANCE SequencesExt
LOCAL INSTANCE FiniteSetsExt

Ops == {"compute", "compute_unbounded"}
Configs == Nat \X Seq(Nat)

CONSTANTS Machines(_),   \* the machines, by operation
          Bounds,        \* the stack bounds given to compute
          Budgets        \* the numbers of tokens left given to is_viable
ASSUME MachinesAssumption ==
  \A o \in Ops : \A x \in Machines(o) :
    /\ x.trans \in Seq(Transition) /\ x.inputs \in Nat
    /\ x.start \in Nat /\ x.bottom \in Nat /\ x.accepting \subseteq Nat
ASSUME BoundsAssumption == Bounds \subseteq Nat /\ Budgets \subseteq Nat

VARIABLES
  m, op,
  h,             \* the stack bound
  pc,            \* "levels", "reach", "sweep", "done" or "panic"
  reachable,     \* configurations
  frontier,      \* those not yet expanded; the last one is taken
  truncated,     \* compute_unbounded: something was cut off
  distance,      \* of the configurations that have one
  level, dist,   \* compute_unbounded: this level and its distance
  todo, changed  \* compute: what the sweep has not visited, and whether it
                 \* found a distance

vars == <<m, op, h, pc, reachable, frontier, truncated, distance, level, dist, todo, changed>>
searched == <<reachable, frontier, truncated>>
leveled == <<level, dist>>
swept == <<todo, changed>>
given == <<m, op, h>>

StartConfig == <<m.start, <<m.bottom>>>>

\* compute_unbounded's bound: the longest push and one.
IntrinsicBound == MaxStackDepth(m) + 1

Init ==
  /\ op \in Ops
  /\ m \in Machines(op)
  /\ h \in IF op = "compute" THEN Bounds ELSE {IntrinsicBound}
  /\ pc = IF op = "compute" THEN "reach" ELSE "levels"
  /\ reachable = {StartConfig} /\ frontier = <<StartConfig>> /\ truncated = FALSE
  /\ level = IF op = "compute" THEN {} ELSE {<<q, <<m.bottom>>>> : q \in m.accepting}
  /\ dist = 0
  /\ distance = [c \in level |-> 0]
  /\ todo = {} /\ changed = TRUE

----------------------------------------------------------------------------
(* The forward search of both.                                             *)

\* The configurations that one move on this input leads to, in array order; a
\* configuration with an empty stack has no move here.
Applies(t, c, a) == c[2] # <<>> /\ t.q = c[1] /\ t.a = a /\ t.top = Head(c[2])
MovesOn(c, a) ==
  FlattenSeq([j \in DOMAIN m.trans |->
     IF Applies(m.trans[j], c, a) THEN <<<<m.trans[j].next_q, m.trans[j].push \o Tail(c[2])>>>> ELSE <<>>])
MovesOf(c) == FlattenSeq([k \in 1..(m.inputs + 1) |-> MovesOn(c, k - 1)])
Fits(c) == Len(c[2]) <= h

NotSeen(moves) ==
  LET new[n \in 0..Len(moves)] ==
        IF n = 0 THEN <<>>
        ELSE LET s == new[n - 1]
             IN IF ~Fits(moves[n]) \/ moves[n] \in reachable \cup ToSet(s) THEN s ELSE Append(s, moves[n])
  IN new[Len(moves)]

\* Faulty: truncation is only noticed at the last configuration.
ReachForgetting ==
  /\ pc = "reach" /\ frontier # <<>>
  /\ LET moves == MovesOf(Last(frontier))
         new == NotSeen(moves)
     IN /\ reachable' = reachable \cup ToSet(new) /\ frontier' = Front(frontier) \o new
        /\ truncated' = (op = "compute_unbounded" /\ \E d \in ToSet(moves) : ~Fits(d))
  /\ UNCHANGED <<given, pc, distance, leveled, swept>>
Reach ==
  /\ pc = "reach" /\ frontier # <<>>
  /\ LET moves == MovesOf(Last(frontier))
         new == NotSeen(moves)
     IN /\ reachable' = reachable \cup ToSet(new) /\ frontier' = Front(frontier) \o new
        /\ truncated' =
             (truncated \/ (op = "compute_unbounded" /\ \E d \in ToSet(moves) : ~Fits(d)))
  /\ UNCHANGED <<given, pc, distance, leveled, swept>>

ReachEndUnbounded ==
  /\ pc = "reach" /\ frontier = <<>> /\ op = "compute_unbounded"
  /\ pc' = IF truncated THEN "panic" ELSE "done"
  /\ UNCHANGED <<given, searched, distance, leveled, swept>>

\* distance.insert: these configurations are at this distance.
Recorded(known, configs, n) ==
  [c \in configs \cup DOMAIN known |-> IF c \in configs THEN n ELSE known[c]]

----------------------------------------------------------------------------
(* compute: the sweeps.                                                    *)

AcceptingIn(configs) == {c \in configs : c[1] \in m.accepting}

\* The accepting configurations, whatever their stack, are at distance 0.
ReachEnd ==
  /\ pc = "reach" /\ frontier = <<>> /\ op = "compute"
  /\ pc' = "sweep"
  /\ distance' = [c \in AcceptingIn(reachable) |-> 0]
  /\ todo' = reachable /\ changed' = FALSE
  /\ UNCHANGED <<given, searched, leveled>>

\* The first move on a to a configuration with a distance.  An input with one
\* overwrites what an earlier input gave.
After(known, c, a) ==
  LET moves == MovesOn(c, a)
      near == {j \in DOMAIN moves : Fits(moves[j]) /\ moves[j] \in DOMAIN known}
  IN IF near = {} THEN known
     ELSE Recorded(known, {c}, known[moves[CHOOSE j \in near : \A k \in near : j <= k]] + 1)
AfterAllInputs(c) ==
  LET upTo[k \in 0..(m.inputs + 1)] ==
        IF k = 0 THEN distance ELSE After(upTo[k - 1], c, k - 1)
  IN upTo[m.inputs + 1]

\* Faulty: the distance of the successor, not one more.
VisitAtSuccessor(c) ==
  /\ pc = "sweep"
  /\ todo' = todo \ {c}
  /\ LET near == {d \in ToSet(MovesOf(c)) : Fits(d) /\ d \in DOMAIN distance}
         new == IF c \in DOMAIN distance \/ near = {} THEN distance
                ELSE Recorded(distance, {c}, Min({distance[d] : d \in near}))
     IN distance' = new /\ changed' = (changed \/ new # distance)
  /\ UNCHANGED <<given, pc, searched, leveled>>
Visit(c) ==
  /\ pc = "sweep"
  /\ todo' = todo \ {c}
  /\ LET new == IF c \in DOMAIN distance THEN distance ELSE AfterAllInputs(c)
     IN distance' = new /\ changed' = (changed \/ new # distance)
  /\ UNCHANGED <<given, pc, searched, leveled>>
VisitAny == \E c \in todo : Visit(c)

SweepEnd ==
  /\ pc = "sweep" /\ todo = {}
  /\ IF changed THEN todo' = reachable /\ changed' = FALSE /\ pc' = pc
     ELSE pc' = "done" /\ UNCHANGED <<todo, changed>>
  /\ UNCHANGED <<given, searched, distance, leveled>>

----------------------------------------------------------------------------
(* compute_unbounded: the levels.                                          *)

\* Faulty: the pushed string is left on the stack.
PredsUnpopped(c) ==
  {d \in {<<t.q, <<t.top>> \o c[2]>> : t \in {u \in ToSet(m.trans) : u.next_q = c[1]}} :
     Len(d[2]) <= h}
\* The configurations one move before c.  As many symbols as the move pushes
\* are taken off c's stack, without a look at which they are.
Preds(c) ==
  {d \in {<<t.q, <<t.top>> \o SubSeq(c[2], Len(t.push) + 1, Len(c[2]))>> :
            t \in {u \in ToSet(m.trans) : /\ u.next_q = c[1] /\ u.a \in 0..m.inputs
                                          /\ Len(u.push) <= Len(c[2])}} :
     Len(d[2]) <= h}

Level ==
  /\ pc = "levels" /\ level # {}
  /\ LET new == {c \in UNION {Preds(d) : d \in level} :
                   c \in DOMAIN distance => distance[c] > dist + 1}
     IN level' = new /\ distance' = Recorded(distance, new, dist + 1)
  /\ dist' = dist + 1
  /\ UNCHANGED <<given, pc, searched, swept>>

LevelsEnd ==
  /\ pc = "levels" /\ level = {}
  /\ pc' = "reach"
  /\ UNCHANGED <<given, searched, distance, leveled, swept>>

Next ==
  \/ Reach \/ ReachEnd \/ ReachEndUnbounded
  \/ VisitAny \/ SweepEnd
  \/ Level \/ LevelsEnd
Spec == Init /\ [][Next]_vars

----------------------------------------------------------------------------
\* prove_termination: Proven, or how many reachable configurations are stuck.
Proven == StartConfig \in DOMAIN distance
StuckConfigs == Cardinality(reachable \ AcceptingIn(reachable))

\* Faulty: what has no distance is kept.
IsViableUnlessFar(c, budget) == c \in DOMAIN distance => distance[c] <= budget
\* is_viable: enough budget of tokens is left.
IsViable(c, budget) == c \in DOMAIN distance /\ distance[c] <= budget

Computed == op = "compute" /\ pc = "done"
ComputedUnbounded == op = "compute_unbounded" /\ pc = "done"

\* The reachable configurations from which k moves through such lead to the
\* given ones.
LeadingTo(ends) ==
  LET before[k \in Nat] ==
        IF k = 0 THEN ends
        ELSE LET next == before[k - 1]
             IN {c \in reachable : \E d \in ToSet(MovesOf(c)) : d \in next}
  IN before

\* Whatever the order of the sweeps, the reachable configurations from which
\* a path leads to acceptance are those with a distance, and the distance is
\* the length of some such path.  So prove_termination says Proven exactly
\* when a path leads from the start, and otherwise counts every configuration.
DistanceIsAPath ==
  Computed =>
    LET before == LeadingTo(AcceptingIn(reachable))
    IN /\ \A c \in DOMAIN distance : distance[c] \in Nat /\ c \in before[distance[c]]
       /\ \A k \in 0..Cardinality(reachable) : before[k] \subseteq DOMAIN distance
       /\ ~Proven => StuckConfigs = Cardinality(reachable)

\* The reachable configurations from which at most k inputs, and any epsilon
\* moves, lead to acceptance.
ByMovesOn(a, ends) == {c \in reachable : \E d \in ToSet(MovesOn(c, a)) : d \in ends}
ByEps(ends) ==
  LET more[n \in Nat] ==
        IF n = 0 THEN ends ELSE LET sofar == more[n - 1] IN sofar \cup ByMovesOn(EpsInput(m), sofar)
  IN more[Cardinality(reachable)]
EndingWithin ==
  LET within[k \in Nat] ==
        IF k = 0 THEN ByEps(AcceptingIn(reachable))
        ELSE LET ends == within[k - 1]
             IN ByEps(ends \cup UNION {ByMovesOn(a, ends) : a \in 0..(m.inputs - 1)})
  IN within

\* is_viable keeps no configuration that cannot end with the tokens left.
\* (It may refuse one that can: the distance counts epsilon moves too.)
ViableCanEnd ==
  Computed => \A budget \in Budgets : {c \in reachable : IsViable(c, budget)} \subseteq EndingWithin[budget]

\* No configuration that can end in acceptance is without a distance, and the
\* distance never says more than the shortest path to the bottom marker in an
\* accepting state.
NeverTooFar ==
  ComputedUnbounded =>
    \A k \in 0..Cardinality(reachable) :
      \A c \in LeadingTo({d \in reachable : d[1] \in m.accepting /\ d[2] = <<m.bottom>>})[k] :
        c \in DOMAIN distance /\ distance[c] <= k

\* A result without a panic is about all that the machine can reach: nothing
\* was cut off.  A panic means that something is deeper.
PanicsIffDeeper ==
  op = "compute_unbounded" /\ pc \in {"done", "panic"} =>
    (pc = "panic" <=> \E c \in reachable : \E d \in ToSet(MovesOf(c)) : d \notin reachable)
=============================================================================
