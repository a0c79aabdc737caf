------------------------------ MODULE MCEarley ------------------------------
(***************************************************************************)
(* The Earley chart against the textbook language.                         *)
(***************************************************************************)
EXTENDS Earley, SampleGrammars
LOCAL INSTANCE SequencesExt
W == INSTANCE CfgWords

\* Every nonterminal derives a word.
Productive == {Counting, Readme, Chain, Ambiguous, LeftRecursive, RightRecursive, Nullable, TwoWays,
               Single} \cup TwoProductions
\* A start symbol of its own, S' -> S, before a grammar: one start production.
Augmented(h) == [nt |-> h.nt + 1, tm |-> h.tm, start |-> h.nt,
                 prods |-> [p \in DOMAIN h.prods |->
                              [lhs |-> h.prods[p].lhs,
                               rhs |-> [k \in DOMAIN h.prods[p].rhs |->
                                          IF h.prods[p].rhs[k] < h.nt THEN h.prods[p].rhs[k]
                                          ELSE h.prods[p].rhs[k] + 1]]]
                           \o <<[lhs |-> h.nt, rhs |-> <<h.start>>]>>]
Sample == Productive \cup {Augmented(h) : h \in Productive}
TwoStarts ==
  {[nt |-> 1, tm |-> 2, start |-> 0,
    prods |-> <<[lhs |-> 0, rhs |-> <<1, 0>>], [lhs |-> 0, rhs |-> <<2>>]>>]}
NullableTwice ==
  {[nt |-> 2, tm |-> 1, start |-> 0,
    prods |-> <<[lhs |-> 0, rhs |-> <<1, 1, 2>>], [lhs |-> 1, rhs |-> <<>>]>>]}

WordsUpTo3(h) == SeqOf(h.nt..(h.nt + h.tm - 1), 3)
WordsUpTo1(h) == SeqOf(h.nt..(h.nt + h.tm - 1), 1)

\* Both references say the same of what can come next.
ASSUME ViableAgrees ==
  \A h \in Productive : \A x \in SeqOf(0..(h.tm - 1), 2) : Viable(h, x) <=> W!Viable(h, x)

\* Not an invariant (TwoStarts and NullableTwice refute it): S[i] contains all
\* items of valid partial parses (earley_parse), and so the mask made from them
\* misses nothing.
MaskIsAllowed == pc = "done" => MaskMissesNothing
=============================================================================
