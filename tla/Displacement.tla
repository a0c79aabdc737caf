---------------------------- MODULE Displacement ----------------------------
(***************************************************************************)
(* The displacement of input sequences (machine.rs): which configurations  *)
(* a sequence leads to from every configuration that some input leads to.  *)
(*                                                                         *)
(*  - reachable_in_configs collects the configurations that stand at an    *)
(*    input boundary: an outer worklist, and for each of its entries an    *)
(*    inner one for the epsilon closure.  Stacks deeper than num_states    *)
(*    are dropped from both.                                               *)
(*  - displacement_from walks a sequence from each of them, again with a   *)
(*    worklist for the closure, this time without a bound on the stack.    *)
(*  - displacement_partition groups the sequences by what they do.         *)
(*                                                                         *)
(* The in-configurations depend on the machine only: they are computed     *)
(* once, as displacement_many does, and displacement_partition computes    *)
(* the same list for every sequence.  The parallel walks of                *)
(* displacement_many share nothing they write to, so their order is the    *)
(* sequential one.  All lists keep their order: it is part of a relation's *)
(* identity in displacement_partition.                                     *)
(***************************************************************************)
EXTENDS Machine
LOCAL INSTANCE SequencesExt

Configs == Nat \X Seq(Nat)

CONSTANTS Machines,   \* the machines
          Calls(_)    \* the lists of sequences to partition, by machine
ASSUME MachinesAssumption ==
  \A x \in Machines :
    /\ x.trans \in Seq(Transition) /\ x.inputs \in Nat /\ x.states \in Nat
    /\ x.start \in Nat /\ x.bottom \in Nat
ASSUME CallsAssumption ==
  \A x \in Machines : \A list \in Calls(x) : list \in Seq(Seq(Nat))

VARIABLES
  m,          \* the machine
  words,      \* the sequences
  pc,         \* "reach", "walk", "group" or "done"
  inConfigs,  \* in_configs, in the order found
  at,         \* cursor: word, in-configuration, and inputs of the word read
  closed,     \* the worklist of the closure being computed
  scanned,    \* how many of its entries are expanded
  rels,       \* per word, its displacement: a list of pairs <<in, out>>
  groups      \* the groups of word numbers

vars == <<m, words, pc, inConfigs, at, closed, scanned, rels, groups>>

At(w, c, n) == [word |-> w, config |-> c, read |-> n]

Init ==
  /\ m \in Machines /\ words \in Calls(m)
  /\ pc = "reach"
  /\ inConfigs = <<<<m.start, <<m.bottom>>>>>>
  /\ at = At(1, 1, 0)
  /\ closed = inConfigs /\ scanned = 0
  /\ rels = [w \in DOMAIN words |-> <<>>]
  /\ groups = <<>>

\* Faulty: configurations with one state and top count as one.
AppendByTop(list, found) ==
  LET more[n \in 0..Len(found)] ==
        IF n = 0 THEN list
        ELSE LET sofar == more[n - 1]
             IN IF \E c \in ToSet(sofar) : c[1] = found[n][1] /\ TopOf(m, c[2]) = TopOf(m, found[n][2])
                THEN sofar ELSE Append(sofar, found[n])
  IN more[Len(found)]
\* The list with what it did not hold yet at its end, each once.
AppendNew(list, found) ==
  LET more[n \in 0..Len(found)] ==
        IF n = 0 THEN list
        ELSE LET sofar == more[n - 1]
             IN IF found[n] \in ToSet(sofar) THEN sofar ELSE Append(sofar, found[n])
  IN more[Len(found)]

\* Stacks deeper than the number of states are dropped.
Shallow(c) == Len(c[2]) <= m.states
Kept(found) == FlattenSeq([j \in DOMAIN found |-> IF Shallow(found[j]) THEN <<found[j]>> ELSE <<>>])

\* The configurations one move on one of these inputs leads to, in array order.
\* (Without the index the code asks for one input after the other: the same
\* configurations, ordered by input where the array is not.)
Applies(t, c, inputs) == t.q = c[1] /\ t.a \in inputs /\ t.top = TopOf(m, c[2])
Moves(c, inputs) ==
  FlattenSeq([j \in DOMAIN m.trans |->
     IF Applies(m.trans[j], c, inputs)
     THEN <<<<m.trans[j].next_q, AfterMove(c[2], m.trans[j].push)>>>> ELSE <<>>])
AllMoves(list, inputs) == FlattenSeq([j \in DOMAIN list |-> Moves(list[j], inputs)])

EpsOnly == {EpsInput(m)}
Inputs == 0..(m.inputs - 1)

----------------------------------------------------------------------------
(* reachable_in_configs.                                                   *)

ReachClose ==
  /\ pc = "reach" /\ scanned < Len(closed)
  /\ closed' = AppendNew(closed, Kept(Moves(closed[scanned + 1], EpsOnly)))
  /\ scanned' = scanned + 1
  /\ UNCHANGED <<m, words, pc, inConfigs, at, rels, groups>>

\* Every configuration of the closure reads; then the next in-configuration
\* is taken, or the walks begin.
ReachRead ==
  /\ pc = "reach" /\ scanned = Len(closed)
  /\ inConfigs' = AppendNew(inConfigs, Kept(AllMoves(closed, Inputs)))
  /\ IF at.config < Len(inConfigs')
     THEN at' = At(1, at.config + 1, 0) /\ closed' = <<inConfigs'[at.config + 1]>> /\ UNCHANGED pc
     ELSE at' = At(1, 1, 0) /\ closed' = <<inConfigs'[1]>> /\ pc' = "walk"
  /\ scanned' = 0
  /\ UNCHANGED <<m, words, rels, groups>>

----------------------------------------------------------------------------
(* displacement_from.                                                      *)

Walking == pc = "walk" /\ at.word <= Len(words) /\ UNCHANGED <<m, words, pc, inConfigs, groups>>
Word == words[at.word]

WalkClose ==
  /\ Walking /\ at.read < Len(Word) /\ scanned < Len(closed)
  /\ closed' = AppendNew(closed, Moves(closed[scanned + 1], EpsOnly))
  /\ scanned' = scanned + 1
  /\ UNCHANGED <<at, rels>>

\* What the next input leads to from the closed frontier.
OnInput == AppendNew(<<>>, AllMoves(closed, {Word[at.read + 1]}))

WalkRead ==
  /\ Walking /\ at.read < Len(Word) /\ scanned = Len(closed)
  /\ OnInput # <<>>
  /\ closed' = OnInput /\ scanned' = 0
  /\ at' = [at EXCEPT !.read = @ + 1]
  /\ UNCHANGED rels

\* The next in-configuration, or the first one for the next word.
NextWalk ==
  LET next == IF at.config < Len(inConfigs) THEN At(at.word, at.config + 1, 0) ELSE At(at.word + 1, 1, 0)
  IN at' = next /\ closed' = <<inConfigs[next.config]>> /\ scanned' = 0

\* Faulty: a sequence that cannot be read on keeps what it has read.
DivergeKept ==
  /\ Walking /\ at.read < Len(Word) /\ scanned = Len(closed)
  /\ OnInput = <<>>
  /\ rels' = [rels EXCEPT ![at.word] = Append(@, <<inConfigs[at.config], closed[1]>>)]
  /\ NextWalk
WalkDiverge ==
  /\ Walking /\ at.read < Len(Word) /\ scanned = Len(closed)
  /\ OnInput = <<>>
  /\ NextWalk
  /\ UNCHANGED rels

WalkEnd ==
  /\ Walking /\ at.read = Len(Word)
  /\ rels' = [rels EXCEPT ![at.word] =
                @ \o [j \in DOMAIN closed |-> <<inConfigs[at.config], closed[j]>>]]
  /\ NextWalk

----------------------------------------------------------------------------
(* displacement_partition.                                                 *)

WalksDone ==
  /\ pc = "walk" /\ at.word > Len(words)
  /\ pc' = "group" /\ at' = At(1, 1, 0)
  /\ UNCHANGED <<m, words, inConfigs, closed, scanned, rels, groups>>

\* Faulty: only the first sequence of the list and the last group count.
SameAsLast(w) == {k \in DOMAIN groups : k = Len(groups) /\ rels[groups[k][1]] = rels[w]}
\* The groups whose first sequence has the displacement of word w: the lists
\* are compared as they are, order included.
SameAs(w) == {k \in DOMAIN groups : rels[groups[k][1]] = rels[w]}

Group ==
  /\ pc = "group" /\ at.word <= Len(words)
  /\ groups' = IF SameAs(at.word) = {} THEN Append(groups, <<at.word>>)
               ELSE LET first == CHOOSE k \in SameAs(at.word) : \A l \in SameAs(at.word) : k <= l
                    IN [groups EXCEPT ![first] = Append(@, at.word)]
  /\ at' = At(at.word + 1, 1, 0)
  /\ UNCHANGED <<m, words, pc, inConfigs, closed, scanned, rels>>

Finish ==
  /\ pc = "group" /\ at.word > Len(words)
  /\ pc' = "done"
  /\ UNCHANGED <<m, words, inConfigs, at, closed, scanned, rels, groups>>

Returned == pc = "done" /\ UNCHANGED vars

Next ==
  \/ ReachClose \/ ReachRead
  \/ WalkClose \/ WalkRead \/ WalkDiverge \/ WalkEnd \/ WalksDone
  \/ Group \/ Finish \/ Returned

Spec == Init /\ [][Next]_vars
----------------------------------------------------------------------------
\* Faulty: the outcome of the first is joined with the outcome of the second.
ComposeOuts(first, second) ==
  {<<y[1][1], y[2][1]>> : y \in {x \in ToSet(first) \X ToSet(second) : x[1][2] = x[2][2]}}
\* displacement_compose: the pairs that meet in the middle.  (The code's list
\* repeats a pair that meets in several places.)
Compose(first, second) ==
  {<<y[1][1], y[2][2]>> : y \in {x \in ToSet(first) \X ToSet(second) : x[1][2] = x[2][1]}}

\* D(s o t) is the composition of D(s) and D(t): nothing is joined that the
\* concatenation does not do, and nothing is missing unless s leads to a
\* configuration that is not among the in-configurations, which only those
\* whose stacks outgrow the cap are not.
ComposeExact ==
  pc = "done" =>
    \A u, v, w \in DOMAIN words : words[w] = words[u] \o words[v] =>
      LET joined == Compose(rels[u], rels[v])
      IN /\ joined \subseteq ToSet(rels[w])
         /\ (\A p \in ToSet(rels[u]) : p[2] \in ToSet(inConfigs)) => joined = ToSet(rels[w])

\* Two sequences share a group, and then one only, exactly when their
\* displacements are the same list.
Common(v, w) == {k \in 1..Len(groups) : v \in ToSet(groups[k]) /\ w \in ToSet(groups[k])}
GroupedByList ==
  \A v, w \in 1..Len(words) :
    /\ rels[v] = rels[w] => \E k \in 1..Len(groups) : Common(v, w) = {k}
    /\ rels[v] # rels[w] => Common(v, w) = {}

\* The words x and y differ in v and w alone, with u behind them or in front.
SameBehind(v, w, u, x, y) == words[x] = words[v] \o words[u] /\ words[y] = words[w] \o words[u]
SameBefore(v, w, u, x, y) == words[x] = words[u] \o words[v] /\ words[y] = words[u] \o words[w]

\* "The interchangeable tokens": whatever is read after one of them, it does
\* the same after the other; and so whatever was read before, unless that leads
\* out of the in-configurations, from which alone they were compared.
Interchangeable(v, w) ==
  \A u, x, y \in DOMAIN words :
    (\/ SameBehind(v, w, u, x, y)
     \/ SameBefore(v, w, u, x, y) /\ \A p \in ToSet(rels[u]) : p[2] \in ToSet(inConfigs))
    => ToSet(rels[x]) = ToSet(rels[y])

PartitionExact ==
  pc = "done" =>
    /\ GroupedByList
    /\ \A v, w \in DOMAIN words : Common(v, w) # {} => Interchangeable(v, w)
=============================================================================
