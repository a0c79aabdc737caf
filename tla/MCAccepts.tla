----------------------------- MODULE MCAccepts ------------------------------
(***************************************************************************)
(* The membership tests on compiled grammars and on machines written by    *)
(* hand, against the language and against all runs of the machine.         *)
(***************************************************************************)
EXTENDS Accepts, SampleGrammars, SampleMachines
LOCAL INSTANCE Closure
LOCAL INSTANCE SequencesExt
W == INSTANCE CfgWords

\* For CYK: chains of units, empty and k-ary productions, a production order
\* in which one sweep is not enough.
Sample == {Counting, Readme, Chain, Ambiguous, LeftRecursive, RightRecursive, Nullable, Loop,
           Orphan, TwoWays, Endless} \cup TwoProductions

\* For the path: no endless epsilon run in any of them.
EndingMachines ==
  {WithGrammar(h) : h \in {Single, Chain, Endless, Counting, RightRecursive} \cup OnePerNonterminal}
    \cup {AnBn, Branch, Popping, Hidden, Draining, Conflict}

LoopMachine == {WithGrammar(Loop)}
ConflictMachine == {Conflict}

WordsUpTo3(h) == SeqOf(0..(h.tm - 1), 3)
WordsUpTo4(x) == SeqOf(0..(x.inputs - 1), 4)

\* The configurations that some run reaches over w.  Six symbols are enough
\* for a shortest derivation of three terminals; the machines of the path
\* never have twenty.
Depth == IF sim = "dpda" THEN 20 ELSE 6
RECURSIVE ReachedOver(_, _)
ReachedOver(x, w) ==
  LET before == IF w = <<>> THEN {<<x.start, <<x.bottom>>>>}
                ELSE UNION {ToSet(Successors(x, c, Last(w))) : c \in ReachedOver(x, Front(w))}
  IN UNION {ClosureOf(x, Depth, c) : c \in before}

SomePathAccepts == \E c \in ReachedOver(m, word) : c[1] \in m.accepting /\ c[2] = <<m.bottom>>

\* The calls that promise an answer; accepts makes no other.
Answering == Dispatched \/ sim = "npda"

\* An epsilon move and an input move from one state and top: is_deterministic
\* lets them through, and the single path takes the epsilon move.
Conflicted(x) ==
  \E t, u \in ToSet(x.trans) : t.q = u.q /\ t.top = u.top /\ t.a = EpsInput(x) /\ u.a # EpsInput(x)

\* The verdict is whether some run of the machine accepts: a word accepted by
\* the single path is accepted by a run, a word rejected by it is accepted by
\* none unless the machine is Conflicted, and CYK, which never looks at the
\* machine, answers for it too.  On the machine of a grammar the verdict is
\* membership, whichever simulation accepts picks, and accepts_dpda refuses a
\* machine with a choice.
PathDecides ==
  Verdict => IF Answering
             THEN /\ pc = "accept" => SomePathAccepts
                  /\ SomePathAccepts => pc = "accept" \/ (sim = "dpda" /\ Conflicted(m))
                  /\ "gram" \in DOMAIN m => (pc = "accept" <=> W!InLanguage(m.gram, word))
             ELSE pc = "reject"

\* Not an invariant (ConflictMachine refutes it): accepts is true exactly where
\* some run accepts.
PathMissesNothing == Verdict /\ Answering => (pc = "accept" <=> SomePathAccepts)
=============================================================================
