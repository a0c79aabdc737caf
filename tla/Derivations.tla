---------------------------- MODULE Derivations ----------------------------
(***************************************************************************)
(* The language of a grammar by derivation trees, the reference that the   *)
(* recognizers are compared with.  A fact <<A, from, to>> says that        *)
(* nonterminal A derives the terminals of w between two positions.  Words  *)
(* are sequences of terminal ids (from 0), positions lie between them.     *)
(***************************************************************************)
EXTENDS Cfg, FiniteSets

Facts(g, w) == {f \in Nonterminals(g) \X (0..Len(w)) \X (0..Len(w)) : f[2] <= f[3]}

\* Symbol s derives what stands between the positions, if the facts known say
\* so of the nonterminals.
Derives(g, w, known, s, from, to) ==
  IF IsTerminal(g, s) THEN to = from + 1 /\ w[to] = TerminalId(g, s)
  ELSE <<s, from, to>> \in known

\* So do the symbols of rhs, one after the other: cut[t] is where the t-th of
\* them ends.
AllDerive(g, w, known, rhs, from, to) ==
  \E cut \in [0..Len(rhs) -> from..to] :
    /\ cut[0] = from /\ cut[Len(rhs)] = to
    /\ \A t \in 1..Len(rhs) : Derives(g, w, known, rhs[t], cut[t - 1], cut[t])

\* The facts that one more production gives.
OneTaller(g, w, known) ==
  {f \in Facts(g, w) : \E p \in Prods(g) :
     Lhs(g, p) = f[1] /\ AllDerive(g, w, known, Rhs(g, p), f[2], f[3])}

\* By derivation trees of up to k productions on a path.
Trees(g, w) ==
  LET trees[k \in Nat] == IF k = 0 THEN {} ELSE {f : f \in OneTaller(g, w, trees[k - 1])}
  IN trees

\* A path of a smallest tree has no fact twice.
Derived(g, w) == Trees(g, w)[Cardinality(Facts(g, w))]

InLanguage(g, w) == <<g.start, 0, Len(w)>> \in Derived(g, w)

\* <<A, from>> says that nonterminal A may begin at a position.  Where it
\* does, each nonterminal of its productions may begin where the symbols
\* before it end.
DueWithin(g, w, known, d) ==
  {f \in Nonterminals(g) \X (d[2]..Len(w)) :
     \E p \in Prods(g) : Lhs(g, p) = d[1] /\
       \E t \in 1..Len(Rhs(g, p)) :
         Rhs(g, p)[t] = f[1] /\ AllDerive(g, w, known, SubSeq(Rhs(g, p), 1, t - 1), d[2], f[2])}

OneDeeper(g, w, known, due) ==
  {<<g.start, 0>>} \cup UNION {DueWithin(g, w, known, d) : d \in due}

Dues(g, w) ==
  LET known == Derived(g, w)
      dues[k \in Nat] == IF k = 0 THEN {} ELSE OneDeeper(g, w, known, dues[k - 1])
  IN dues
Due(g, w) == Dues(g, w)[Cardinality(Nonterminals(g) \X (0..Len(w)))]

\* w is the beginning of some word of a grammar whose nonterminals all derive
\* words: the input ends within a production that is due.
Viable(g, w) ==
  LET known == Derived(g, w)
  IN \E d \in Due(g, w), p \in Prods(g) : Lhs(g, p) = d[1] /\
       \E t \in 0..Len(Rhs(g, p)) : AllDerive(g, w, known, SubSeq(Rhs(g, p), 1, t), d[2], Len(w))
=============================================================================
