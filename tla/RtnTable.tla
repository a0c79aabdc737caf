------------------------------ MODULE RtnTable ------------------------------
(***************************************************************************)
(* The recursive transition network of a grammar with named states: what   *)
(* the table built by compile() stands for.  A control state is a record   *)
(*   [k |-> "start" | "in" | "out" | "dot", ix, pos]                       *)
(* where ix is the nonterminal of an entry or exit state and the           *)
(* production of a dot state, and pos is the dot's position.  The stack    *)
(* holds return addresses, which are dot states, above the marker Bot.     *)
(***************************************************************************)
EXTENDS Cfg

Start == [k |-> "start", ix |-> 0, pos |-> 0]
In(A) == [k |-> "in", ix |-> A, pos |-> 0]
Out(A) == [k |-> "out", ix |-> A, pos |-> 0]
Dot(p, i) == [k |-> "dot", ix |-> p, pos |-> i]
Bot == [k |-> "bot", ix |-> 0, pos |-> 0]

Dots(g) == UNION {{Dot(p, i) : i \in 0..Len(Rhs(g, p))} : p \in Prods(g)}
StackSyms(g) == {Bot} \cup Dots(g)
States(g) == {Start} \cup {In(A) : A \in Nonterminals(g)}
                     \cup {Out(A) : A \in Nonterminals(g)} \cup Dots(g)

\* The input id of an epsilon move is num_inputs.
Eps(g) == g.tm

Move(q, a, top, next_q, push) ==
  [q |-> q, a |-> a, top |-> top, next_q |-> next_q, push |-> push]

StartMoves(g) == {Move(Start, Eps(g), Bot, In(g.start), <<Bot>>)}

\* Faulty: any production from any entry state.
ChoiceOfAny(g) ==
  {Move(In(A), Eps(g), top, Dot(p, 0), <<top>>) :
     A \in Nonterminals(g), p \in Prods(g), top \in StackSyms(g)}
ChoiceMoves(g) ==
  {Move(In(Lhs(g, p)), Eps(g), top, Dot(p, 0), <<top>>) :
     p \in Prods(g), top \in StackSyms(g)}

\* The positions i of production p whose next symbol is a terminal.
TerminalDots(g) == {d \in Dots(g) : /\ d.pos < Len(Rhs(g, d.ix))
                                    /\ IsTerminal(g, Rhs(g, d.ix)[d.pos + 1])}
CallDots(g) == {d \in Dots(g) : /\ d.pos < Len(Rhs(g, d.ix))
                                /\ ~IsTerminal(g, Rhs(g, d.ix)[d.pos + 1])}
\* Faulty: the last symbol is not waited for.
LastDots(g) == {d \in Dots(g) : d.pos + 1 >= Len(Rhs(g, d.ix))}
FinalDots(g) == {d \in Dots(g) : d.pos = Len(Rhs(g, d.ix))}

\* The symbol after the dot, and the dot moved past it.
NextSym(g, d) == Rhs(g, d.ix)[d.pos + 1]
\* Faulty: the dot jumps over a symbol.
AdvancedTwice(d) == Dot(d.ix, d.pos + 2)
Advanced(d) == Dot(d.ix, d.pos + 1)

TerminalMoves(g) ==
  {Move(d, TerminalId(g, NextSym(g, d)), top, Advanced(d), <<top>>) :
     d \in TerminalDots(g), top \in StackSyms(g)}

\* Faulty: the call returns to the dot it left from.
CallMovesToItself(g) ==
  {Move(d, Eps(g), top, In(NextSym(g, d)), <<d, top>>) :
     d \in CallDots(g), top \in StackSyms(g)}
CallMoves(g) ==
  {Move(d, Eps(g), top, In(NextSym(g, d)), <<Advanced(d), top>>) :
     d \in CallDots(g), top \in StackSyms(g)}

ExitMoves(g) ==
  {Move(d, Eps(g), top, Out(Lhs(g, d.ix)), <<top>>) :
     d \in FinalDots(g), top \in StackSyms(g)}

\* Faulty: a return on the bottom marker too.
ReturnOnBottom(g) ==
  {Move(Out(B), Eps(g), r, IF r = Bot THEN In(B) ELSE r, <<Bot>>) :
     B \in Nonterminals(g), r \in StackSyms(g)}
\* One return for every nonterminal and every return address, whoever
\* pushed that address.
ReturnMoves(g) ==
  {Move(Out(B), Eps(g), r, r, <<>>) : B \in Nonterminals(g), r \in Dots(g)}

Delta(g) == StartMoves(g) \cup ChoiceMoves(g) \cup TerminalMoves(g)
              \cup CallMoves(g) \cup ExitMoves(g) \cup ReturnMoves(g)

\* The grammar phase of a state (state_provenance).
Phase(g, s) ==
  CASE s.k = "start" -> g.start
    [] s.k \in {"in", "out"} -> s.ix
    [] s.k = "dot" -> Lhs(g, s.ix)
=============================================================================
