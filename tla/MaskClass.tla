----------------------------- MODULE MaskClass -----------------------------
(***************************************************************************)
(* mask_class.rs: the codebook of the distinct masks of a machine and the  *)
(* classifier that PscClassifier::build makes with it, over all control    *)
(* states and stack tops.  A classifier is a record of                     *)
(*    classes   the masks, the one of code k at position k + 1,            *)
(*    classOf   the code of each pair <<state, top>> that has one.         *)
(* A code is never taken back, so the codes in use are 0..next_class-1.    *)
(***************************************************************************)
EXTENDS Machine
LOCAL INSTANCE TLC

\* Faulty: the last input id is left out.
RealInputs(m) == 0..(m.inputs - 1)
\* build tries all ids up to num_inputs, which is the epsilon id.
ClassedInputs(m) == 0..m.inputs

\* The mask that build gives a pair.
Allowed(m, q, top) == {a \in ClassedInputs(m) : Lookup(m, q, a, top) # <<>>}

\* intern: the code of an equal mask, or the next one.
Intern(classes, allowed) ==
  IF \E k \in DOMAIN classes : classes[k] = allowed THEN classes ELSE Append(classes, allowed)
CodeOf(classes, allowed) == (CHOOSE k \in DOMAIN classes : classes[k] = allowed) - 1

\* One iteration of build's inner loop; a pair without moves has no class.
Classified(m, c, q, top) ==
  LET allowed == Allowed(m, q, top)
      classes == Intern(c.classes, allowed)
  IN IF allowed = {} THEN c
     ELSE [classes |-> classes, classOf |-> (<<q, top>> :> CodeOf(classes, allowed)) @@ c.classOf]

Build(m) ==
  LET after[n \in 0..(m.states * m.syms)] ==
        IF n = 0 THEN [classes |-> <<>>, classOf |-> [p \in {} |-> 0]]
        ELSE Classified(m, after[n - 1], (n - 1) \div m.syms, (n - 1) % m.syms)
  IN after[m.states * m.syms]

\* mask_of; the None of a pair without a class is the empty mask.
MaskOf(c, q, top) == IF <<q, top>> \in DOMAIN c.classOf THEN c.classes[c.classOf[<<q, top>>] + 1] ELSE {}
=============================================================================
