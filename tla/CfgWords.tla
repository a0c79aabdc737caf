------------------------------ MODULE CfgWords ------------------------------
(***************************************************************************)
(* The language of a grammar by its textbook definition, as a reference    *)
(* for the recognizers: yields(g, w) is the least relation between         *)
(* nonterminals and spans of w closed under the productions.  Words are    *)
(* sequences of terminal ids (from 0).                                     *)
(***************************************************************************)
EXTENDS Cfg

Spans(w) == {s \in (0..Len(w)) \X (0..Len(w)) : s[1] <= s[2]}

\* The right-hand side rhs[i..] derives the span, given the facts <<A, from,
\* to>> already known.
RECURSIVE Covers(_, _, _, _, _, _)
Covers(g, w, known, rhs, from, to) ==
  IF rhs = <<>> THEN from = to
  ELSE IF IsTerminal(g, Head(rhs))
  THEN /\ from < to /\ w[from + 1] = TerminalId(g, Head(rhs))
       /\ Covers(g, w, known, Tail(rhs), from + 1, to)
  ELSE \E mid \in from..to :
         /\ <<Head(rhs), from, mid>> \in known
         /\ Covers(g, w, known, Tail(rhs), mid, to)

RECURSIVE Closure(_, _, _)
Closure(g, w, known) ==
  LET more == known \cup
        {<<Lhs(g, p), s[1], s[2]>> : <<p, s>> \in
           {x \in Prods(g) \X Spans(w) :
              Covers(g, w, known, Rhs(g, x[1]), x[2][1], x[2][2])}}
  IN IF more = known THEN known ELSE Closure(g, w, more)

InLanguage(g, w) == <<g.start, 0, Len(w)>> \in Closure(g, w, {})

\* The right-hand side rhs[i..] derives some word that begins with the input
\* from position from on, when <<A, from>> in begins says so of nonterminals
\* and every nonterminal derives some word.
RECURSIVE Begins(_, _, _, _, _, _)
Begins(g, w, known, begins, rhs, from) ==
  \/ from = Len(w)
  \/ /\ rhs # <<>> /\ from < Len(w)
     /\ IF IsTerminal(g, Head(rhs))
        THEN /\ w[from + 1] = TerminalId(g, Head(rhs))
             /\ Begins(g, w, known, begins, Tail(rhs), from + 1)
        ELSE \/ <<Head(rhs), from>> \in begins
             \/ \E mid \in from..Len(w) :
                  /\ <<Head(rhs), from, mid>> \in known
                  /\ Begins(g, w, known, begins, Tail(rhs), mid)

RECURSIVE BeginClosure(_, _, _, _)
BeginClosure(g, w, known, begins) ==
  LET more == begins \cup
        {<<Lhs(g, x[1]), x[2]>> : x \in
           {y \in Prods(g) \X (0..Len(w)) : Begins(g, w, known, begins, Rhs(g, y[1]), y[2])}}
  IN IF more = begins THEN begins ELSE BeginClosure(g, w, known, more)

\* w is the beginning of some word of a grammar whose nonterminals all
\* derive words.
Viable(g, w) == <<g.start, 0>> \in BeginClosure(g, w, Closure(g, w, {}), {})
=============================================================================
