-------------------------------- MODULE Rtn --------------------------------
(***************************************************************************)
(* A run of the compiled machine: control state, stack (top first) and the *)
(* input read so far.  A move pops the top and pushes its string, the      *)
(* first symbol of the string ending on top, as every simulator of         *)
(* machine.rs does; Fire takes some move of one family of the table.       *)
(* The environment supplies the input, so a terminal move may read any     *)
(* symbol the table has for it.                                            *)
(***************************************************************************)
EXTENDS RtnTable, Derivations
LOCAL INSTANCE SequencesExt

CONSTANTS Grammars,    \* the grammars compiled, all of them valid
          MaxStack,    \* bound on the stack of a run, for TLC
          MaxInput     \* bound on the input of a run, for TLC

ASSUME GrammarsAssumption == \A g \in Grammars : Valid(g)
ASSUME BoundsAssumption == MaxStack \in Nat \ {0} /\ MaxInput \in Nat

VARIABLES g, q, stack, consumed
vars == <<g, q, stack, consumed>>

Init ==
  /\ g \in Grammars
  /\ q = Start /\ stack = <<Bot>> /\ consumed = <<>>

\* The stack after a move that pushes a string.
Replaced(push) == push \o Tail(stack)

Take(t) ==
  /\ stack # <<>>
  /\ t.q = q /\ t.top = Head(stack)
  /\ Len(Replaced(t.push)) <= MaxStack
  /\ t.a # Eps(g) => Len(consumed) < MaxInput
  /\ q' = t.next_q
  /\ stack' = Replaced(t.push)
  /\ consumed' = IF t.a = Eps(g) THEN consumed ELSE Append(consumed, t.a)
  /\ g' = g

Fire(moves) == \E t \in moves : Take(t)

Begin == Fire(StartMoves(g))
Choose == Fire(ChoiceMoves(g))
Read == Fire(TerminalMoves(g))
Call == Fire(CallMoves(g))
Exit == Fire(ExitMoves(g))
Return == Fire(ReturnMoves(g))

Next == Begin \/ Choose \/ Read \/ Call \/ Exit \/ Return
Spec == Init /\ [][Next]_vars

\* accepts_dpda accepts here: an accepting state with nothing above the
\* bottom marker.
Accepting == q = Out(g.start) /\ stack = <<Bot>>

----------------------------------------------------------------------------
(* Properties.                                                             *)

TypeOK ==
  /\ g \in Grammars
  /\ q \in States(g)
  /\ stack \in Seq(StackSyms(g))
  /\ consumed \in Seq(0..(g.tm - 1))

\* The bottom marker is at the bottom and nowhere else: no move pops it and
\* no call pushes a second one.
BottomMarker ==
  /\ Len(stack) >= 1
  /\ \A k \in 1..Len(stack) : stack[k] = Bot <=> k = Len(stack)

\* The nonterminal being parsed k frames out.
Active(k) == IF k = 1 THEN Phase(g, q) ELSE Phase(g, stack[k - 1])

\* Calls and returns match: every return address stands just behind the
\* nonterminal that the frame above it is parsing, although the table has a
\* return from any nonterminal to any address; the outermost frame parses
\* the start symbol.  state_provenance thus names the nonterminal that is
\* being parsed.
CallsMatch ==
  /\ \A k \in 1..(Len(stack) - 1) :
       stack[k].pos > 0 /\ Rhs(g, stack[k].ix)[stack[k].pos] = Active(k)
  /\ Active(Len(stack)) = g.start

\* A run that accepts has nothing left to do: no epsilon move and no input
\* leads out of an accepting configuration.
AcceptingIsFinal == [][~Accepting]_vars

\* What a run has read is of the grammar, by derivation trees: it is the
\* beginning of a word, and a word when the run accepts.
ReadsOfGrammar ==
  /\ consumed # <<>> => Viable(g, consumed)
  /\ Accepting => InLanguage(g, consumed)

\* What is left of the right-hand side at a state or a return address.
Rest(h, s) ==
  CASE s.k = "start" -> <<h.start>>
    [] s.k = "in" -> <<s.ix>>
    [] s.k = "out" -> <<>>
    [] s.k = "dot" -> SubSeq(Rhs(h, s.ix), s.pos + 1, Len(Rhs(h, s.ix)))

\* The frames of a configuration: the state's, then the return addresses'.
FramesAt(h, s, st) ==
  [k \in 1..Len(st) |-> IF k = 1 THEN Rest(h, s) ELSE Rest(h, st[k - 1])]

FramesOf == FramesAt(g, q, stack)

\* Every run of the machine is a leftmost derivation of the grammar.
F == INSTANCE Frames WITH frames <- FramesOf
IsDerivation == F!Spec

\* The frames joined are the sentential form of a leftmost derivation.
L == INSTANCE Leftmost WITH form <- FlattenSeq(FramesOf)
IsLeftmost == L!Spec
=============================================================================
