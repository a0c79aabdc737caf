-------------------------- MODULE CompiledMachine --------------------------
(***************************************************************************)
(* The PdaMachine that compile() returns for a valid grammar: the network  *)
(* of RtnTable numbered by rtn_state_names and sorted.  That compile()'s   *)
(* loops really produce it is the invariant ReturnsCompiled of             *)
(* MCRtnCompile.                                                           *)
(***************************************************************************)
EXTENDS RtnNames, Machine
LOCAL INSTANCE SequencesExt

LOCAL IdIn(seq, x) == (CHOOSE i \in DOMAIN seq : seq[i] = x) - 1

Numbered(g, t) ==
  LET states == StateNames(g)
      stackSyms == StackNames(g)
  IN Move(IdIn(states, t.q), t.a, IdIn(stackSyms, t.top), IdIn(states, t.next_q),
          [j \in DOMAIN t.push |-> IdIn(stackSyms, t.push[j])])

\* Only choices share a key; they stay in production order, which is the
\* order of their target states.
LOCAL RecordLess(s, t) == IF KeyLE(s, t) /\ KeyLE(t, s) THEN s.next_q < t.next_q ELSE KeyLE(s, t)

Compiled(g) ==
  [states |-> Kappa(g), inputs |-> g.tm, syms |-> Len(StackNames(g)),
   start |-> 0, bottom |-> 0, indexed |-> TRUE, tabled |-> TRUE, accepting |-> {1 + g.nt + g.start},
   trans |-> LET all == {Numbered(g, t) : t \in Delta(g)}
                 RowOf(q) == SortSeq(FoldSet(LAMBDA t, seq : Append(seq, t), <<>>,
                                           {t \in all : t.q = q}), RecordLess)
             IN FlattenSeq([n \in 1..Kappa(g) |-> RowOf(n - 1)])]
=============================================================================
