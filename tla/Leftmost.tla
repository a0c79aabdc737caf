------------------------------ MODULE Leftmost ------------------------------
(***************************************************************************)
(* What a recognizer of a grammar promises: it reads the word of a         *)
(* leftmost derivation.  consumed is the input read so far and form the    *)
(* rest of the sentential form; the word belongs to the language when form *)
(* is empty.                                                               *)
(***************************************************************************)
EXTENDS Cfg

CONSTANT Grammars
VARIABLES g, form, consumed
vars == <<g, form, consumed>>

Init == g \in Grammars /\ form = <<g.start>> /\ consumed = <<>>

\* The leftmost symbol is a nonterminal: replace it by a right-hand side.
Expand == \E p \in Prods(g) :
  /\ form # <<>> /\ Head(form) = Lhs(g, p)
  /\ form' = Rhs(g, p) \o Tail(form)
  /\ UNCHANGED <<g, consumed>>

\* The leftmost symbol is a terminal: read it.
Scan ==
  /\ form # <<>> /\ IsTerminal(g, Head(form))
  /\ form' = Tail(form)
  /\ consumed' = Append(consumed, TerminalId(g, Head(form)))
  /\ UNCHANGED g

Next == Expand \/ Scan
Spec == Init /\ [][Next]_vars
=============================================================================
