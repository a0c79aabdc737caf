------------------------------ MODULE Accepts ------------------------------
(***************************************************************************)
(* The membership tests of machine.rs.  accepts picks the simulation by    *)
(* the machine's determinism: accepts_dpda runs the machine, accepts_npda  *)
(* asks CYK about the grammar.  Each is a method of its own as well, and   *)
(* accepts_dpda may be called on any machine.  A compiled machine carries  *)
(* the grammar that its caller passes to accepts, in the field gram.       *)
(***************************************************************************)
EXTENDS Machine, Derivations
C == INSTANCE CompiledMachine

CONSTANTS Grammars,         \* those whose machine accepts_npda is called on
          Machines,         \* those that accepts_dpda is called on
          GrammarWords(_), MachineWords(_)
ASSUME GrammarsAssumption == \A g \in Grammars : Valid(g)
ASSUME WordsAssumption == \A g \in Grammars : \A w \in GrammarWords(g) : w \in Seq(Nat)

VARIABLES
  sim,                   \* "dpda" or "npda"
  m, word, pc,
  q, stack, i,           \* of accepts_dpda
  table, at, changed     \* of cyk_accepts

vars == <<sim, m, word, pc, q, stack, i, table, at, changed>>

Dpda == INSTANCE DpdaRun WITH Words <- MachineWords
Npda == INSTANCE Cyk WITH Words <- GrammarWords, g <- m.gram, w <- word

WithGrammar(h) ==
  LET compiled == C!Compiled(h)
  IN [f \in DOMAIN compiled \cup {"gram"} |-> IF f = "gram" THEN h ELSE compiled[f]]

CallDpda ==
  /\ sim = "dpda" /\ Dpda!Init
  /\ table = {} /\ at = <<1, 0, 0>> /\ changed = FALSE

CallNpda ==
  /\ sim = "npda"
  /\ m \in {WithGrammar(h) : h \in Grammars} /\ word \in GrammarWords(m.gram)
  /\ Npda!Init
  /\ q = m.start /\ stack = <<m.bottom>> /\ i = 0

Init == CallDpda \/ CallNpda

Next ==
  /\ UNCHANGED <<sim, m, word>>
  /\ \/ sim = "dpda" /\ Dpda!Next /\ UNCHANGED <<table, at, changed>>
     \/ sim = "npda" /\ Npda!Next /\ UNCHANGED <<q, stack, i>>

Spec == Init /\ [][Next]_vars /\ WF_vars(Next)
----------------------------------------------------------------------------
Verdict == pc \in {"accept", "reject"}

\* What accepts calls for this machine.
Dispatched == sim = IF IsDeterministic(m) THEN "dpda" ELSE "npda"

\* accepts_npda's answer is membership in the language of the grammar, though
\* it never looks at the machine (its comment: L(M) == L(G)) and though one
\* sweep of cyk_accepts reads cells that the same sweep has yet to fill.
DecidesMembership ==
  sim = "npda" /\ Verdict => (pc = "accept" <=> InLanguage(m.gram, word))

\* Every simulation comes back with a verdict.
Returns == <>Verdict
=============================================================================
