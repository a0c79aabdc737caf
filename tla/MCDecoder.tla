----------------------------- MODULE MCDecoder ------------------------------
(***************************************************************************)
(* Sessions over the compiled sample grammars, against the language of the *)
(* grammar.                                                                *)
(***************************************************************************)
EXTENDS Decoder, SampleGrammars
LOCAL INSTANCE CfgWords
LOCAL INSTANCE MaskClass
LOCAL INSTANCE SequencesExt

\* Every nonterminal derives a word.
Productive == {Counting, Readme, Single, Chain, Ambiguous, LeftRecursive, RightRecursive,
               Nullable, TwoWays} \cup TwoProductions
RightRecursiveOnly == {RightRecursive}
CountingOnly == {Counting}

\* The mask is what can come next: an input is in it exactly when some word
\* of the grammar begins with the draft and that input.
MaskExact ==
  live => \A a \in 0..(m.inputs - 1) : a \in mask <=> Viable(g, Append(draft, a))

\* No production calls the start symbol.
StartIsNotCalled ==
  \A p \in Prods(g) : \A i \in DOMAIN Rhs(g, p) : Rhs(g, p)[i] # g.start

\* Each of the inputs is the only one allowed when it comes, and none changes
\* the stack.
RECURSIVE Forced(_, _)
Forced(c, inputs) ==
  inputs # <<>> =>
    LET a == Head(inputs)
    IN /\ MaskAt(m, c) = {a} /\ ~HasEpsilonSuccessor(m, c[1], TopOf(m, c[2]))
       /\ IsPassthrough(m, c[1], TopOf(m, c[2]), a)
       /\ \E q \in 0..(m.states - 1) :
            AdvanceSet(m, {c}, a) = {<<q, c[2]>>} /\ Forced(<<q, c[2]>>, Tail(inputs))

\* The pass-through run of a configuration's state, which is computed without
\* its stack, can be taken without asking for a mask, and it is not cut short
\* (passthrough_run: shifts before the next control edge).  event_scan, which
\* is given the inputs and walks the stack, stops at the first that is not
\* forced.
RunIsForced ==
  live => \A c \in frontier :
    LET k == PassthroughRun(m, c[1])
        forced == {w \in SeqOf(0..(m.inputs - 1), k + 1) : Forced(c, w)}
    IN /\ {Len(w) : w \in forced} = 0..k
       /\ \A w \in SeqOf(0..(m.inputs - 1), 2) :
            \A n \in 1..Len(w) : EventScan(m, c, w) >= n <=> Forced(c, SubSeq(w, 1, n))

\* What the pipeline answers lane by lane.  A lane's mask is that of the
\* session where the configuration has no epsilon move, and empty where it has
\* one: it never names a part of the inputs.  A step gives back the
\* configuration itself exactly when the input was refused.
LanesAgree ==
  live => \A c \in frontier :
    /\ LaneMask(m, c) = IF HasEpsilonSuccessor(m, c[1], TopOf(m, c[2])) THEN {} ELSE MaskAt(m, c)
    /\ \A a \in 0..(m.inputs - 1) : StepBatch(m, c, a) = {c} <=> a \notin MaskAt(m, c)

\* The classifier's mask of a configuration's state and top names no input that
\* the session would refuse, and it names all of them or the epsilon id: a host
\* that reads masks from the codebook can tell where it has to ask the closure.
\* Two pairs have one class exactly when they have one mask.
ClassesBound ==
  live => LET classes == Build(m)
          IN /\ \A c \in frontier :
                  LET known == MaskOf(classes, c[1], TopOf(m, c[2]))
                  IN /\ known \ {EpsInput(m)} \subseteq MaskAt(m, c)
                     /\ EpsInput(m) \notin known => known = MaskAt(m, c)
             /\ \A p, r \in DOMAIN classes.classOf :
                  classes.classOf[p] = classes.classOf[r]
                    <=> Allowed(m, p[1], p[2]) = Allowed(m, r[1], r[2])

\* What the crate offers a host in place of the session's mask, where a stack
\* is not at hand: never more than the session allows, and told apart from the
\* whole of it.
StacklessMasks == LanesAgree /\ ClassesBound

\* A complete word may always be ended; where the start symbol is not called
\* nothing else may.
EndAnswer ==
  live => /\ InLanguage(g, draft) => MayEnd
          /\ StartIsNotCalled /\ MayEnd => InLanguage(g, draft)

\* Not an invariant (CountingOnly refutes it): accepts_via_eps holds when the
\* machine has finished the grammar, and then only.
EndExact == live => (MayEnd <=> InLanguage(g, draft))

\* advance_eps_set: the depth bound preserves the one-or-more loop.
LoopPreserved == live => \A a \in 0..(m.inputs - 1) : Viable(g, Append(draft, a)) => a \in mask
=============================================================================
