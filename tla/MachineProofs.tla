--------------------------- MODULE MachineProofs ----------------------------
(***************************************************************************)
(* Proofs about the machine and its searches:                              *)
(*  - the runs of the compiled machine, for every set of valid grammars    *)
(*    and every bound;                                                     *)
(*  - the loops of EpsClosure that keep whole stacks apart, which end with *)
(*    exactly what epsilon moves reach within the depth bound, for every   *)
(*    machine;                                                             *)
(*  - topo_order, which returns a topological order of every graph, or     *)
(*    none where there is none.                                            *)
(***************************************************************************)
EXTENDS Rtn, TopoOrder, EpsClosure, SharedLemmas, FunctionTheorems
LOCAL INSTANCE SequencesExt

\* A sequence whose elements all lie in S is a sequence over S.
LEMMA SeqByElements ==
  ASSUME NEW S, NEW T, NEW s \in Seq(T), \A i \in 1..Len(s) : s[i] \in S
  PROVE  s \in Seq(S)
<1>1. Len(s) \in Nat /\ s \in [1..Len(s) -> T]
  BY LenProperties
<1>2. s \in [1..Len(s) -> S]
  BY <1>1
<1>3. QED
  BY <1>1, <1>2, SeqDef

(***************************************************************************)
(* The shape of a valid grammar.                                           *)
(***************************************************************************)
LEMMA ValidShape ==
  ASSUME NEW h, Valid(h)
  PROVE  /\ h.nt \in Nat /\ h.tm \in Nat /\ h.start \in Nonterminals(h)
         /\ \A p \in Prods(h) :
              /\ Lhs(h, p) \in Nonterminals(h)
              /\ Rhs(h, p) \in Seq(0..(h.nt + h.tm - 1))
<1>1. h \in [nt : Nat, tm : Nat, start : Nat, prods : Seq(Production)]
  BY DEF Valid, IsCfg
<1>2. /\ ~\E p \in Prods(h) : Lhs(h, p) >= h.nt
      /\ ~\E p \in Prods(h) : \E i \in 1..Len(Rhs(h, p)) : Rhs(h, p)[i] >= h.nt + h.tm
      /\ ~(h.start >= h.nt)
  BY DEF Valid, Validate
<1>3. ASSUME NEW p \in Prods(h)
      PROVE  /\ Lhs(h, p) \in Nonterminals(h)
             /\ Rhs(h, p) \in Seq(0..(h.nt + h.tm - 1))
  <2>1. h.prods[p] \in Production
    BY <1>1, ElementOfSeq DEF Prods
  <2>2. Lhs(h, p) \in Nat /\ Rhs(h, p) \in Seq(Nat)
    BY <2>1 DEF Production, Lhs, Rhs
  <2>3. \A i \in 1..Len(Rhs(h, p)) : Rhs(h, p)[i] \in 0..(h.nt + h.tm - 1)
    BY <1>1, <1>2, <2>2
  <2>4. Rhs(h, p) \in Seq(0..(h.nt + h.tm - 1))
    BY <2>2, <2>3, SeqByElements
  <2>5. QED
    BY <1>1, <1>2, <2>2, <2>4 DEF Nonterminals
<1>4. QED
  BY <1>1, <1>2, <1>3 DEF Nonterminals

LEMMA DotShape ==
  ASSUME NEW h, NEW d \in Dots(h)
  PROVE  /\ d.ix \in Prods(h) /\ d.pos \in 0..Len(Rhs(h, d.ix))
         /\ d = Dot(d.ix, d.pos) /\ d.k = "dot"
BY DEF Dots, Dot

LEMMA AdvancedShape ==
  ASSUME NEW h, Valid(h), NEW d \in Dots(h), d.pos < Len(Rhs(h, d.ix))
  PROVE  /\ Advanced(d) \in Dots(h)
         /\ Advanced(d).k = "dot" /\ Advanced(d).ix = d.ix
         /\ Advanced(d).pos = d.pos + 1
         /\ NextSym(h, d) \in 0..(h.nt + h.tm - 1)
         /\ NextSym(h, d) = Rhs(h, d.ix)[d.pos + 1]
<1>1. d.ix \in Prods(h) /\ d.pos \in 0..Len(Rhs(h, d.ix))
  BY DotShape
<1>2. Rhs(h, d.ix) \in Seq(0..(h.nt + h.tm - 1))
  BY <1>1, ValidShape
<1>3. Len(Rhs(h, d.ix)) \in Nat
  BY <1>2
<1>4. d.pos + 1 \in 0..Len(Rhs(h, d.ix)) /\ d.pos + 1 \in 1..Len(Rhs(h, d.ix))
  BY <1>1, <1>3
<1>5. Advanced(d) \in Dots(h)
  BY <1>1, <1>4 DEF Advanced, Dots
<1>6. NextSym(h, d) \in 0..(h.nt + h.tm - 1)
  BY <1>2, <1>4, ElementOfSeq DEF NextSym
<1>7. QED
  BY <1>5, <1>6 DEF Advanced, Dot, NextSym

(***************************************************************************)
(* What each action does, once its move is taken apart.                    *)
(***************************************************************************)
LEMMA StackShape ==
  ASSUME TypeOK, stack # <<>>
  PROVE  /\ <<Head(stack)>> \o Tail(stack) = stack
         /\ Head(stack) = stack[1]
         /\ Len(stack) \in Nat \ {0}
         /\ Tail(stack) \in Seq(StackSyms(g))
         /\ Len(Tail(stack)) = Len(stack) - 1
         /\ \A i \in 1..(Len(stack) - 1) : Tail(stack)[i] = stack[i + 1]
BY HeadTailProperties DEF TypeOK

LEMMA GrammarIsValid == TypeOK => Valid(g)
BY GrammarsAssumption DEF TypeOK

LEMMA TakeEffect ==
  ASSUME TypeOK, NEW from, NEW a, NEW top, NEW to, NEW push,
         Take(Move(from, a, top, to, push))
  PROVE  /\ stack # <<>> /\ q = from /\ top = stack[1]
         /\ q' = to /\ stack' = push \o Tail(stack)
         /\ consumed' = IF a = Eps(g) THEN consumed ELSE Append(consumed, a)
         /\ g' = g
BY StackShape DEF Take, Move, Replaced

\* A move that pushes back what it popped leaves the stack alone.
LEMMA KeepEffect ==
  ASSUME TypeOK, NEW from, NEW a, NEW top, NEW to,
         Take(Move(from, a, top, to, <<top>>))
  PROVE  stack # <<>> /\ stack' = stack
BY TakeEffect, StackShape

LEMMA BeginEffect ==
  ASSUME TypeOK, Begin
  PROVE  /\ q = Start /\ q' = In(g.start)
         /\ stack # <<>> /\ stack' = stack /\ consumed' = consumed /\ g' = g
<1>1. Take(Move(Start, Eps(g), Bot, In(g.start), <<Bot>>))
  BY DEF Begin, Fire, StartMoves
<1>2. QED
  BY <1>1, TakeEffect, KeepEffect

LEMMA ChooseEffect ==
  ASSUME TypeOK, Choose
  PROVE  \E p \in Prods(g) :
           /\ q = In(Lhs(g, p)) /\ q' = Dot(p, 0)
           /\ stack # <<>> /\ stack' = stack /\ consumed' = consumed /\ g' = g
<1>1. PICK p \in Prods(g), top \in StackSyms(g) :
        Take(Move(In(Lhs(g, p)), Eps(g), top, Dot(p, 0), <<top>>))
  BY DEF Choose, Fire, ChoiceMoves
<1>2. QED
  BY <1>1, TakeEffect, KeepEffect

LEMMA ReadEffect ==
  ASSUME TypeOK, Read
  PROVE  \E d \in TerminalDots(g) :
           /\ q = d /\ q' = Advanced(d)
           /\ TerminalId(g, NextSym(g, d)) \in 0..(g.tm - 1)
           /\ consumed' = Append(consumed, TerminalId(g, NextSym(g, d)))
           /\ stack # <<>> /\ stack' = stack /\ g' = g
<1>1. PICK d \in TerminalDots(g), top \in StackSyms(g) :
        Take(Move(d, TerminalId(g, NextSym(g, d)), top, Advanced(d), <<top>>))
  <2>1. PICK t \in TerminalMoves(g) : Take(t)
    BY DEF Read, Fire
  <2>2. PICK d \in TerminalDots(g), top \in StackSyms(g) :
          t = Move(d, TerminalId(g, NextSym(g, d)), top, Advanced(d), <<top>>)
    BY DEF TerminalMoves
  <2>3. QED
    BY <2>1, <2>2
<1>2. d \in Dots(g) /\ d.pos < Len(Rhs(g, d.ix)) /\ IsTerminal(g, NextSym(g, d))
  BY DEF TerminalDots, NextSym
<1>3. NextSym(g, d) \in 0..(g.nt + g.tm - 1)
  BY <1>2, AdvancedShape, GrammarIsValid
<1>4. TerminalId(g, NextSym(g, d)) \in 0..(g.tm - 1) /\ g.tm \in Nat
  BY <1>2, <1>3, ValidShape, GrammarIsValid DEF IsTerminal, TerminalId
<1>5. TerminalId(g, NextSym(g, d)) # Eps(g)
  BY <1>4 DEF Eps
<1>6. QED
  BY <1>1, <1>4, <1>5, TakeEffect, KeepEffect

LEMMA CallEffect ==
  ASSUME TypeOK, Call
  PROVE  \E d \in CallDots(g) :
           /\ q = d /\ q' = In(NextSym(g, d))
           /\ stack # <<>> /\ stack' = <<Advanced(d)>> \o stack
           /\ consumed' = consumed /\ g' = g
<1>1. PICK d \in CallDots(g), top \in StackSyms(g) :
        Take(Move(d, Eps(g), top, In(NextSym(g, d)), <<Advanced(d), top>>))
  BY DEF Call, Fire, CallMoves
<1>2. /\ stack # <<>> /\ q = d /\ top = stack[1] /\ q' = In(NextSym(g, d))
      /\ stack' = <<Advanced(d), top>> \o Tail(stack)
      /\ consumed' = consumed /\ g' = g
  BY <1>1, StackShape DEF Take, Move, Replaced
<1>3. <<Advanced(d), top>> \o Tail(stack) = <<Advanced(d)>> \o stack
  BY <1>2, StackShape
<1>4. QED
  BY <1>2, <1>3

LEMMA ExitEffect ==
  ASSUME TypeOK, Exit
  PROVE  \E d \in FinalDots(g) :
           /\ q = d /\ q' = Out(Lhs(g, d.ix))
           /\ stack # <<>> /\ stack' = stack /\ consumed' = consumed /\ g' = g
<1>1. PICK d \in FinalDots(g), top \in StackSyms(g) :
        Take(Move(d, Eps(g), top, Out(Lhs(g, d.ix)), <<top>>))
  BY DEF Exit, Fire, ExitMoves
<1>2. QED
  BY <1>1, TakeEffect, KeepEffect

LEMMA ReturnEffect ==
  ASSUME TypeOK, Return
  PROVE  \E B \in Nonterminals(g), r \in Dots(g) :
           /\ q = Out(B) /\ stack # <<>> /\ stack[1] = r /\ q' = r
           /\ stack' = Tail(stack) /\ consumed' = consumed /\ g' = g
<1>1. PICK B \in Nonterminals(g), r \in Dots(g) : Take(Move(Out(B), Eps(g), r, r, <<>>))
  BY DEF Return, Fire, ReturnMoves
<1>2. /\ stack # <<>> /\ stack' = <<>> \o Tail(stack)
  BY <1>1, TakeEffect
<1>3. <<>> \o Tail(stack) = Tail(stack)
  BY <1>2, StackShape, ConcatEmptySeq
<1>4. QED
  BY <1>1, <1>2, <1>3, TakeEffect

(***************************************************************************)
(* Type correctness.                                                       *)
(***************************************************************************)
LEMMA BotIsNoDot == \A h : Bot \notin Dots(h)
BY DotShape DEF Bot

\* A call's nonterminal is one of the grammar's.
LEMMA CalleeShape ==
  ASSUME NEW h, Valid(h), NEW d \in CallDots(h)
  PROVE  /\ NextSym(h, d) \in Nonterminals(h)
         /\ d \in Dots(h) /\ Advanced(d) \in Dots(h)
         /\ d.pos < Len(Rhs(h, d.ix))
<1>1. d \in Dots(h) /\ d.pos < Len(Rhs(h, d.ix)) /\ ~IsTerminal(h, NextSym(h, d))
  BY DEF CallDots, NextSym
<1>2. NextSym(h, d) \in 0..(h.nt + h.tm - 1) /\ Advanced(d) \in Dots(h)
  BY <1>1, AdvancedShape
<1>3. h.nt \in Nat /\ h.tm \in Nat
  BY ValidShape
<1>4. QED
  BY <1>1, <1>2, <1>3 DEF IsTerminal, Nonterminals

LEMMA TypeCorrectInit == Init => TypeOK
BY EmptySeq DEF Init, TypeOK, States, StackSyms

\* Every run stays within the network's states, stack symbols and inputs.
THEOREM TypeCorrect == Spec => []TypeOK
<1>1. Init => TypeOK
  BY TypeCorrectInit
<1>2. TypeOK /\ [Next]_vars => TypeOK'
  <2> SUFFICES ASSUME TypeOK, [Next]_vars PROVE TypeOK'
    OBVIOUS
  <2>1. CASE Begin
    <3>1. In(g.start) \in States(g)
      BY GrammarIsValid, ValidShape DEF States
    <3>2. QED
      BY <2>1, <3>1, BeginEffect DEF TypeOK
  <2>2. CASE Choose
    <3>1. PICK p \in Prods(g) :
            q' = Dot(p, 0) /\ stack' = stack /\ consumed' = consumed /\ g' = g
      BY <2>2, ChooseEffect
    <3>2. Rhs(g, p) \in Seq(0..(g.nt + g.tm - 1))
      BY GrammarIsValid, ValidShape
    <3>3. 0 \in 0..Len(Rhs(g, p))
      BY <3>2
    <3>4. Dot(p, 0) \in Dots(g)
      BY <3>3 DEF Dots
    <3>5. QED
      BY <3>1, <3>4 DEF TypeOK, States
  <2>3. CASE Read
    <3>1. PICK d \in TerminalDots(g) :
            /\ q' = Advanced(d) /\ stack' = stack /\ g' = g
            /\ TerminalId(g, NextSym(g, d)) \in 0..(g.tm - 1)
            /\ consumed' = Append(consumed, TerminalId(g, NextSym(g, d)))
      BY <2>3, ReadEffect
    <3>2. Advanced(d) \in States(g)
      BY AdvancedShape, GrammarIsValid DEF TerminalDots, States
    <3>3. consumed' \in Seq(0..(g.tm - 1))
      BY <3>1, AppendProperties DEF TypeOK
    <3>4. QED
      BY <3>1, <3>2, <3>3 DEF TypeOK
  <2>4. CASE Call
    <3>1. PICK d \in CallDots(g) :
            /\ q' = In(NextSym(g, d)) /\ stack' = <<Advanced(d)>> \o stack
            /\ consumed' = consumed /\ g' = g
      BY <2>4, CallEffect
    <3>2. In(NextSym(g, d)) \in States(g) /\ Advanced(d) \in StackSyms(g)
      BY CalleeShape, GrammarIsValid DEF States, StackSyms
    <3>3. <<Advanced(d)>> \in Seq(StackSyms(g))
      BY <3>2
    <3>4. stack' \in Seq(StackSyms(g))
      BY <3>1, <3>3, ConcatProperties DEF TypeOK
    <3>5. QED
      BY <3>1, <3>2, <3>4 DEF TypeOK
  <2>5. CASE Exit
    <3>1. PICK d \in FinalDots(g) :
            q' = Out(Lhs(g, d.ix)) /\ stack' = stack /\ consumed' = consumed /\ g' = g
      BY <2>5, ExitEffect
    <3>2. d.ix \in Prods(g)
      BY DotShape DEF FinalDots
    <3>3. Out(Lhs(g, d.ix)) \in States(g)
      BY <3>2, ValidShape, GrammarIsValid DEF States
    <3>4. QED
      BY <3>1, <3>3 DEF TypeOK
  <2>6. CASE Return
    <3>1. PICK r \in Dots(g) :
            /\ q' = r /\ stack # <<>> /\ stack' = Tail(stack)
            /\ consumed' = consumed /\ g' = g
      BY <2>6, ReturnEffect
    <3>2. Tail(stack) \in Seq(StackSyms(g)) /\ r \in States(g)
      BY <3>1, StackShape DEF States
    <3>3. QED
      BY <3>1, <3>2 DEF TypeOK
  <2>7. CASE UNCHANGED vars
    BY <2>7 DEF vars, TypeOK
  <2>8. QED
    BY <2>1, <2>2, <2>3, <2>4, <2>5, <2>6, <2>7 DEF Next
<1>3. QED
  BY <1>1, <1>2, PTL DEF Spec

(***************************************************************************)
(* The bottom marker and the matching of calls and returns.  CallsMatch    *)
(* needs the marker: a return address is on top exactly when the stack has *)
(* a frame to go back to.                                                  *)
(***************************************************************************)
StackInv == TypeOK /\ BottomMarker /\ CallsMatch

\* A state change within one nonterminal leaves the invariant alone.
LEMMA SamePhase ==
  ASSUME StackInv, TypeOK', stack' = stack, g' = g, Phase(g, q') = Phase(g, q)
  PROVE  StackInv'
<1>1. \A k \in 1..Len(stack) : Active(k)' = Active(k)
  BY DEF Active
<1>2. Len(stack) \in Nat /\ Len(stack) >= 1
  BY DEF StackInv, BottomMarker, TypeOK
<1>3. BottomMarker'
  BY DEF StackInv, BottomMarker
<1>4. CallsMatch'
  BY <1>1, <1>2 DEF StackInv, CallsMatch
<1>5. QED
  BY <1>3, <1>4 DEF StackInv

\* Phases of the states that the actions move between.
LEMMA PhaseOf ==
  ASSUME NEW h
  PROVE  /\ Phase(h, Start) = h.start
         /\ \A A : Phase(h, In(A)) = A /\ Phase(h, Out(A)) = A
         /\ \A p, i : Phase(h, Dot(p, i)) = Lhs(h, p)
BY DEF Phase, Start, In, Out, Dot

LEMMA AboveOne == \A n \in Nat \ {0} : n # 1 => n \in 2..(n + 1)
OBVIOUS

LEMMA CallKeepsInv ==
  ASSUME StackInv, TypeOK', Call
  PROVE  StackInv'
<1>1. PICK d \in CallDots(g) :
        /\ q = d /\ q' = In(NextSym(g, d)) /\ stack' = <<Advanced(d)>> \o stack /\ g' = g
  BY CallEffect DEF StackInv
<1>2. /\ d = Dot(d.ix, d.pos) /\ Advanced(d) \in Dots(g)
      /\ Advanced(d).ix = d.ix /\ Advanced(d).pos = d.pos + 1
      /\ d.pos \in Nat /\ NextSym(g, d) = Rhs(g, d.ix)[d.pos + 1]
      /\ Advanced(d) = Dot(d.ix, d.pos + 1)
  BY CalleeShape, DotShape, AdvancedShape, GrammarIsValid DEF StackInv, Advanced
<1>3. /\ Len(stack) \in Nat \ {0} /\ Len(stack') = Len(stack) + 1
      /\ stack'[1] = Advanced(d)
      /\ \A k \in 2..(Len(stack) + 1) : stack'[k] = stack[k - 1]
  <2>1. stack \in Seq(StackSyms(g)) /\ Len(stack) \in Nat \ {0}
    BY DEF StackInv, TypeOK, BottomMarker
  <2>2. QED
    BY <1>1, <2>1
<1>4. BottomMarker'
  <2>1. Advanced(d) # Bot
    BY <1>2, BotIsNoDot
  <2>2. \A k \in 2..(Len(stack) + 1) : stack'[k] = Bot <=> k = Len(stack) + 1
    BY <1>3 DEF StackInv, BottomMarker
  <2>3. QED
    BY <1>3, <2>1, <2>2 DEF BottomMarker
<1>5. /\ Active(1)' = NextSym(g, d)
      /\ \A k \in 1..Len(stack) : Active(k + 1)' = Active(k)
  <2>1. Active(1)' = NextSym(g, d)
    BY <1>1, PhaseOf DEF Active
  <2>2. Active(2)' = Active(1)
    <3>1. Active(2)' = Phase(g, Advanced(d)) /\ Active(1) = Phase(g, d)
      BY <1>1, <1>3 DEF Active
    <3>2. Phase(g, Advanced(d)) = Lhs(g, d.ix) /\ Phase(g, d) = Lhs(g, d.ix)
      BY <1>2, PhaseOf
    <3>3. QED
      BY <3>1, <3>2
  <2>3. ASSUME NEW k \in 2..Len(stack) PROVE Active(k + 1)' = Active(k)
    BY <1>1, <1>3 DEF Active
  <2>4. QED
    BY <1>3, <2>1, <2>2, <2>3
<1>6. CallsMatch'
  <2>1. ASSUME NEW k \in 1..(Len(stack') - 1)
        PROVE  stack'[k].pos > 0 /\ Rhs(g, stack'[k].ix)[stack'[k].pos] = Active(k)'
    <3>1. CASE k = 1
      BY <1>2, <1>3, <1>5, <3>1
    <3>2. CASE k # 1
      <4>1. k - 1 \in 1..(Len(stack) - 1) /\ stack'[k] = stack[k - 1]
        BY <1>3, <3>2
      <4>2. Active(k)' = Active(k - 1)
        BY <1>3, <1>5, <4>1
      <4>3. QED
        BY <4>1, <4>2 DEF StackInv, CallsMatch
    <3>3. QED
      BY <3>1, <3>2
  <2>2. (Active(Len(stack)) = g.start)'
    <3>1. Active(Len(stack)) = g.start
      BY DEF StackInv, CallsMatch
    <3>2. Phase(g, stack'[Len(stack)]) = Active(Len(stack))
      <4>1. Phase(g, Advanced(d)) = Phase(g, d)
        BY <1>2, PhaseOf
      <4>2. CASE Len(stack) = 1
        BY <1>1, <1>3, <4>1, <4>2 DEF Active
      <4>3. CASE Len(stack) # 1
        <5>1. Len(stack) \in 2..(Len(stack) + 1)
          <6>1. Len(stack) \in Nat \ {0}
            BY <1>3
          <6>2. QED
            BY <4>3, <6>1, AboveOne, Zenon
        <5>2. stack'[Len(stack)] = stack[Len(stack) - 1]
          BY <1>3, <5>1
        <5>3. QED
          BY <4>3, <5>2 DEF Active
      <4>4. QED
        BY <4>2, <4>3
    <3>3. QED
      BY <1>1, <1>3, <3>1, <3>2 DEF Active
  <2>3. QED
    BY <1>1, <2>1, <2>2 DEF CallsMatch
<1>7. QED
  BY <1>4, <1>6 DEF StackInv

LEMMA ReturnKeepsInv ==
  ASSUME StackInv, TypeOK', Return
  PROVE  StackInv'
<1>1. PICK r \in Dots(g) :
        stack # <<>> /\ stack[1] = r /\ q' = r /\ stack' = Tail(stack) /\ g' = g
  BY ReturnEffect DEF StackInv
<1>2. Len(stack) \in Nat /\ Len(stack) > 1
  <2>1. Len(stack) \in Nat \ {0} /\ stack[1] # Bot
    BY <1>1, BotIsNoDot DEF StackInv, TypeOK, BottomMarker
  <2>2. QED
    BY <2>1 DEF StackInv, BottomMarker
<1>3. /\ Len(stack') = Len(stack) - 1
      /\ \A k \in 1..(Len(stack) - 1) : stack'[k] = stack[k + 1]
  BY <1>1, StackShape DEF StackInv
<1>4. BottomMarker'
  <2>1. \A k \in 1..(Len(stack) - 1) : stack'[k] = Bot <=> k + 1 = Len(stack)
    BY <1>2, <1>3 DEF StackInv, BottomMarker
  <2>2. QED
    BY <1>2, <1>3, <2>1 DEF BottomMarker
<1>5. \A k \in 1..(Len(stack) - 1) : Active(k)' = Active(k + 1)
  BY <1>1, <1>2, <1>3 DEF Active
<1>6. CallsMatch'
  <2>1. ASSUME NEW k \in 1..(Len(stack') - 1)
        PROVE  stack'[k].pos > 0 /\ Rhs(g, stack'[k].ix)[stack'[k].pos] = Active(k)'
    <3>1. /\ k + 1 \in 1..(Len(stack) - 1) /\ stack'[k] = stack[k + 1]
          /\ Active(k)' = Active(k + 1)
      BY <1>2, <1>3, <1>5
    <3>2. QED
      BY <3>1 DEF StackInv, CallsMatch
  <2>2. (Active(Len(stack)) = g.start)'
    <3>1. Active(Len(stack)) = g.start
      BY DEF StackInv, CallsMatch
    <3>2. PICK n \in 1..(Len(stack) - 1) : n + 1 = Len(stack) /\ n = Len(stack')
      BY <1>2, <1>3
    <3>3. Active(n)' = g.start
      BY <1>5, <3>1, <3>2
    <3>4. QED
      BY <1>1, <3>2, <3>3 DEF Active
  <2>3. QED
    BY <1>1, <2>1, <2>2 DEF CallsMatch
<1>7. QED
  BY <1>4, <1>6 DEF StackInv

\* The bottom marker stays at the bottom, and calls and returns match, in
\* every run of the machine of every valid grammar.
THEOREM StackDiscipline == Spec => [](BottomMarker /\ CallsMatch)
<1>1. Init => StackInv
  <2> SUFFICES ASSUME Init PROVE StackInv
    OBVIOUS
  <2>1. TypeOK
    BY TypeCorrectInit
  <2>2. stack = <<Bot>> /\ Len(stack) = 1 /\ stack[1] = Bot
    BY DEF Init
  <2>3. Active(1) = g.start
    BY PhaseOf DEF Active, Init
  <2>4. QED
    BY <2>1, <2>2, <2>3 DEF StackInv, BottomMarker, CallsMatch
<1>2. StackInv /\ TypeOK' /\ [Next]_vars => StackInv'
  <2> SUFFICES ASSUME StackInv, TypeOK', [Next]_vars PROVE StackInv'
    OBVIOUS
  <2> USE DEF StackInv
  <2>1. CASE Begin
    BY <2>1, BeginEffect, PhaseOf, SamePhase
  <2>2. CASE Choose
    BY <2>2, ChooseEffect, PhaseOf, SamePhase
  <2>3. CASE Read
    <3>1. PICK d \in TerminalDots(g) :
            q = d /\ q' = Advanced(d) /\ stack' = stack /\ g' = g
      BY <2>3, ReadEffect
    <3>2. d = Dot(d.ix, d.pos) /\ Advanced(d) = Dot(d.ix, d.pos + 1)
      BY DotShape DEF TerminalDots, Advanced
    <3>3. Phase(g, q') = Phase(g, q)
      BY <3>1, <3>2, PhaseOf
    <3>4. QED
      BY <3>1, <3>3, SamePhase
  <2>4. CASE Call
    BY <2>4, CallKeepsInv
  <2>5. CASE Exit
    <3>1. PICK d \in FinalDots(g) :
            q = d /\ q' = Out(Lhs(g, d.ix)) /\ stack' = stack /\ g' = g
      BY <2>5, ExitEffect
    <3>2. d = Dot(d.ix, d.pos)
      BY DotShape DEF FinalDots
    <3>3. Phase(g, q') = Phase(g, q)
      BY <3>1, <3>2, PhaseOf
    <3>4. QED
      BY <3>1, <3>3, SamePhase
  <2>6. CASE Return
    BY <2>6, ReturnKeepsInv
  <2>7. CASE UNCHANGED vars
    BY <2>7, SamePhase DEF vars
  <2>8. QED
    BY <2>1, <2>2, <2>3, <2>4, <2>5, <2>6, <2>7 DEF Next
<1>3. QED
  BY <1>1, <1>2, TypeCorrect, PTL DEF Spec, StackInv

\* No run continues from an accepting configuration.
THEOREM AcceptanceIsFinal == Spec => AcceptingIsFinal
<1>1. TypeOK /\ [Next]_vars => [~Accepting]_vars
  <2> SUFFICES ASSUME TypeOK, Next, Accepting PROVE FALSE
    OBVIOUS
  <2>1. q.k = "out" /\ stack # <<>> /\ stack[1] = Bot
    BY DEF Accepting, Out
  <2>2. CASE Begin
    BY <2>1, <2>2, BeginEffect DEF Start
  <2>3. CASE Choose
    BY <2>1, <2>3, ChooseEffect DEF In
  <2>4. CASE Read
    BY <2>1, <2>4, ReadEffect, DotShape DEF TerminalDots
  <2>5. CASE Call
    BY <2>1, <2>5, CallEffect, DotShape DEF CallDots
  <2>6. CASE Exit
    BY <2>1, <2>6, ExitEffect, DotShape DEF FinalDots
  <2>7. CASE Return
    BY <2>1, <2>7, ReturnEffect, BotIsNoDot
  <2>8. QED
    BY <2>2, <2>3, <2>4, <2>5, <2>6, <2>7 DEF Next
<1>2. QED
  BY <1>1, TypeCorrect, PTL DEF Spec, AcceptingIsFinal

(***************************************************************************)
(* The machine implements Frames.  First the frames of one configuration,  *)
(* then how a change of the stack shows in them.                           *)
(***************************************************************************)
Word == Seq(Nat)

LEMMA RestShape ==
  ASSUME NEW h, Valid(h)
  PROVE  /\ Rest(h, Start) = <<h.start>> /\ h.start \in Nat
         /\ \A A : Rest(h, In(A)) = <<A>> /\ Rest(h, Out(A)) = <<>>
         /\ \A d \in Dots(h) : /\ Rest(h, d) = SubSeq(Rhs(h, d.ix), d.pos + 1, Len(Rhs(h, d.ix)))
                               /\ Rest(h, d) \in Word
<1>1. h.start \in Nat
  BY ValidShape DEF Nonterminals
<1>2. ASSUME NEW d \in Dots(h)
      PROVE  /\ Rest(h, d) = SubSeq(Rhs(h, d.ix), d.pos + 1, Len(Rhs(h, d.ix)))
             /\ Rest(h, d) \in Word
  <2>1. d.k = "dot" /\ d.ix \in Prods(h) /\ d.pos \in 0..Len(Rhs(h, d.ix))
    BY DotShape
  <2>2. Rest(h, d) = SubSeq(Rhs(h, d.ix), d.pos + 1, Len(Rhs(h, d.ix)))
    BY <2>1 DEF Rest
  <2>3. Rhs(h, d.ix) \in Seq(Nat)
    <3>1. Rhs(h, d.ix) \in Seq(0..(h.nt + h.tm - 1))
      BY <2>1, ValidShape
    <3>2. 0..(h.nt + h.tm - 1) \subseteq Nat
      BY ValidShape
    <3>3. QED
      BY <3>1, <3>2, SeqMonotonic
  <2>4. \A i \in (d.pos + 1)..Len(Rhs(h, d.ix)) : Rhs(h, d.ix)[i] \in Nat
    BY <2>1, <2>3
  <2>5. d.pos + 1 \in Int /\ Len(Rhs(h, d.ix)) \in Int
    BY <2>1, <2>3
  <2>6. QED
    BY <2>2, <2>4, <2>5, SubSeqProperties DEF Word
<1>3. QED
  BY <1>1, <1>2 DEF Rest, Start, In, Out

LEMMA RestOfState ==
  ASSUME NEW h, Valid(h), NEW s \in States(h)
  PROVE  Rest(h, s) \in Word
<1>1. \A A \in Nonterminals(h) : <<A>> \in Word
  BY ValidShape DEF Nonterminals, Word
<1>2. <<h.start>> \in Word /\ <<>> \in Word
  BY RestShape DEF Word
<1>3. QED
  BY <1>1, <1>2, RestShape DEF States

LEMMA FramesShape ==
  ASSUME NEW h, Valid(h), NEW s \in States(h), NEW st \in Seq(StackSyms(h)),
         Len(st) >= 1, \A k \in 1..(Len(st) - 1) : st[k] # Bot
  PROVE  /\ FramesAt(h, s, st) \in Seq(Word)
         /\ Len(FramesAt(h, s, st)) = Len(st)
         /\ FramesAt(h, s, st)[1] = Rest(h, s)
         /\ \A k \in 2..Len(st) : FramesAt(h, s, st)[k] = Rest(h, st[k - 1])
<1>1. Len(st) \in Nat
  OBVIOUS
<1>2. \A k \in 1..Len(st) : (IF k = 1 THEN Rest(h, s) ELSE Rest(h, st[k - 1])) \in Word
  <2> TAKE k \in 1..Len(st)
  <2>1. CASE k = 1
    BY <2>1, RestOfState
  <2>2. CASE k # 1
    <3>1. k - 1 \in 1..(Len(st) - 1) /\ st[k - 1] \in StackSyms(h)
      BY <1>1, <2>2
    <3>2. st[k - 1] \in Dots(h)
      BY <3>1 DEF StackSyms
    <3>3. QED
      BY <2>2, <3>2, RestShape
  <2>3. QED
    BY <2>1, <2>2
<1>3. FramesAt(h, s, st) \in [1..Len(st) -> Word]
  BY <1>2 DEF FramesAt
<1>4. FramesAt(h, s, st) \in Seq(Word)
  BY <1>1, <1>3, SeqDef
<1>5. Len(FramesAt(h, s, st)) = Len(st)
  BY <1>1, <1>3, <1>4
<1>6. QED
  BY <1>1, <1>4, <1>5 DEF FramesAt

\* Three changes of a sequence of frames, element by element and as Frames
\* writes them.
LEMMA HeadReplaced ==
  ASSUME NEW s \in Seq(Word), NEW t \in Seq(Word), NEW x \in Word,
         Len(s) >= 1, Len(t) = Len(s), t[1] = x, \A k \in 2..Len(s) : t[k] = s[k]
  PROVE  t = <<x>> \o Tail(s)
<1>1. s # <<>> /\ Len(s) \in Nat
  OBVIOUS
<1>2. /\ Tail(s) \in Seq(Word) /\ Len(Tail(s)) = Len(s) - 1
      /\ \A i \in 1..(Len(s) - 1) : Tail(s)[i] = s[i + 1]
  BY <1>1, HeadTailProperties
<1>3. <<x>> \in Seq(Word) /\ Len(<<x>>) = 1 /\ <<x>>[1] = x
  OBVIOUS
<1>4. /\ <<x>> \o Tail(s) \in Seq(Word) /\ Len(<<x>> \o Tail(s)) = Len(t)
      /\ \A i \in 1..Len(t) : (<<x>> \o Tail(s))[i] = IF i <= 1 THEN <<x>>[i] ELSE Tail(s)[i - 1]
  BY <1>1, <1>2, <1>3, ConcatProperties
<1>5. \A i \in 1..Len(t) : t[i] = (<<x>> \o Tail(s))[i]
  BY <1>1, <1>2, <1>3, <1>4
<1>6. QED
  BY <1>4, <1>5, SeqEqual

LEMMA HeadSplit ==
  ASSUME NEW s \in Seq(Word), NEW t \in Seq(Word), NEW x \in Word, NEW y \in Word,
         Len(s) >= 1, Len(t) = Len(s) + 1, t[1] = x, t[2] = y,
         \A k \in 2..Len(s) : t[k + 1] = s[k]
  PROVE  t = <<x, y>> \o Tail(s)
<1>1. s # <<>> /\ Len(s) \in Nat
  OBVIOUS
<1>2. /\ Tail(s) \in Seq(Word) /\ Len(Tail(s)) = Len(s) - 1
      /\ \A i \in 1..(Len(s) - 1) : Tail(s)[i] = s[i + 1]
  BY <1>1, HeadTailProperties
<1>3. <<x, y>> \in Seq(Word) /\ Len(<<x, y>>) = 2 /\ <<x, y>>[1] = x /\ <<x, y>>[2] = y
  OBVIOUS
<1>4. /\ <<x, y>> \o Tail(s) \in Seq(Word) /\ Len(<<x, y>> \o Tail(s)) = Len(t)
      /\ \A i \in 1..Len(t) :
           (<<x, y>> \o Tail(s))[i] = IF i <= 2 THEN <<x, y>>[i] ELSE Tail(s)[i - 2]
  BY <1>1, <1>2, <1>3, ConcatProperties
<1>5. ASSUME NEW i \in 1..Len(t) PROVE t[i] = (<<x, y>> \o Tail(s))[i]
  <2>1. CASE i <= 2
    BY <1>3, <1>4, <2>1
  <2>2. CASE i > 2
    <3>1. i - 2 \in 1..(Len(s) - 1) /\ i - 1 \in 2..Len(s)
      BY <1>1, <2>2
    <3>2. (<<x, y>> \o Tail(s))[i] = s[i - 1]
      BY <1>2, <1>4, <2>2, <3>1
    <3>3. t[i] = s[i - 1]
      BY <3>1
    <3>4. QED
      BY <3>2, <3>3
  <2>3. QED
    BY <2>1, <2>2
<1>6. QED
  BY <1>4, <1>5, SeqEqual

LEMMA HeadPopped ==
  ASSUME NEW s \in Seq(Word), NEW t \in Seq(Word),
         Len(s) >= 1, Len(t) = Len(s) - 1, \A k \in 1..Len(t) : t[k] = s[k + 1]
  PROVE  t = Tail(s)
<1>1. s # <<>>
  OBVIOUS
<1>2. /\ Tail(s) \in Seq(Word) /\ Len(Tail(s)) = Len(s) - 1
      /\ \A i \in 1..Len(Tail(s)) : Tail(s)[i] = s[i + 1]
  BY <1>1, HeadTailProperties
<1>3. QED
  BY <1>2, SeqEqual

\* The frames of the run, now and after a step.
LEMMA FramesNow ==
  ASSUME StackInv
  PROVE  /\ FramesOf \in Seq(Word) /\ Len(FramesOf) = Len(stack) /\ Len(stack) >= 1
         /\ FramesOf[1] = Rest(g, q)
         /\ \A k \in 2..Len(stack) : FramesOf[k] = Rest(g, stack[k - 1])
BY FramesShape, GrammarIsValid DEF StackInv, TypeOK, BottomMarker, FramesOf

LEMMA FramesNext ==
  ASSUME StackInv'
  PROVE  /\ FramesOf' \in Seq(Word) /\ Len(FramesOf') = Len(stack') /\ Len(stack') >= 1
         /\ FramesOf'[1] = Rest(g', q')
         /\ \A k \in 2..Len(stack') : FramesOf'[k] = Rest(g', stack'[k - 1])
<1>1. /\ g' \in Grammars /\ q' \in States(g') /\ stack' \in Seq(StackSyms(g'))
      /\ Len(stack') >= 1
      /\ \A k \in 1..Len(stack') : stack'[k] = Bot <=> k = Len(stack')
  BY DEF StackInv, TypeOK, BottomMarker
<1>2. Valid(g') /\ \A k \in 1..(Len(stack') - 1) : stack'[k] # Bot
  BY <1>1, GrammarsAssumption
<1>3. QED
  BY <1>1, <1>2, FramesShape DEF FramesOf

\* A state change with the same rest and the same stack keeps the frames.
LEMMA FramesKept ==
  ASSUME StackInv, stack' = stack, g' = g, Rest(g, q') = Rest(g, q)
  PROVE  FramesOf' = FramesOf
BY DEF FramesOf, FramesAt

\* With the same stack a new rest replaces the first frame.
LEMMA FirstFrameReplaced ==
  ASSUME StackInv, StackInv', stack' = stack, g' = g
  PROVE  FramesOf' = <<Rest(g, q')>> \o Tail(FramesOf)
<1>1. Rest(g, q') \in Word
  BY RestOfState, GrammarIsValid DEF StackInv, TypeOK
<1>2. QED
  BY <1>1, FramesNow, FramesNext, HeadReplaced

\* The rest at a dot that is not at the end.
LEMMA RestAtDot ==
  ASSUME NEW h, Valid(h), NEW d \in Dots(h), d.pos < Len(Rhs(h, d.ix))
  PROVE  /\ Rest(h, d) # <<>> /\ Head(Rest(h, d)) = NextSym(h, d)
         /\ Tail(Rest(h, d)) = Rest(h, Advanced(d))
<1>1. d.ix \in Prods(h) /\ d.pos \in 0..Len(Rhs(h, d.ix))
  BY DotShape
<1>2. Rhs(h, d.ix) \in Seq(0..(h.nt + h.tm - 1))
  BY <1>1, ValidShape
<1>3. /\ d.pos + 1 \in 1..Len(Rhs(h, d.ix))
      /\ Len(Rhs(h, d.ix)) \in (d.pos + 1)..Len(Rhs(h, d.ix))
  BY <1>1, <1>2
<1>4. /\ Rest(h, d) = SubSeq(Rhs(h, d.ix), d.pos + 1, Len(Rhs(h, d.ix)))
      /\ Rest(h, Advanced(d)) = SubSeq(Rhs(h, d.ix), (d.pos + 1) + 1, Len(Rhs(h, d.ix)))
  BY RestShape, AdvancedShape
<1>5. /\ Head(Rest(h, d)) = Rhs(h, d.ix)[d.pos + 1]
      /\ Tail(Rest(h, d)) = Rest(h, Advanced(d))
  BY <1>2, <1>3, <1>4, HeadTailOfSubSeq
<1>6. Rest(h, d) # <<>>
  <2>1. \A i \in (d.pos + 1)..Len(Rhs(h, d.ix)) : Rhs(h, d.ix)[i] \in 0..(h.nt + h.tm - 1)
    <3> TAKE i \in (d.pos + 1)..Len(Rhs(h, d.ix))
    <3>1. i \in 1..Len(Rhs(h, d.ix))
      BY <1>1
    <3>2. QED
      BY <1>2, <3>1, ElementOfSeq
  <2>2. Len(Rest(h, d)) = Len(Rhs(h, d.ix)) - (d.pos + 1) + 1
    BY <1>2, <1>3, <1>4, <2>1, SubSeqProperties
  <2>3. QED
    BY <1>1, <1>2, <1>3, <2>2
<1>7. QED
  BY <1>5, <1>6 DEF NextSym

LEMMA StepRefines ==
  ASSUME StackInv, StackInv', [Next]_vars
  PROVE  [F!Next]_(F!vars)
<1> USE DEF F!vars
<1>1. CASE Begin
  <2>1. Rest(g, q') = Rest(g, q)
    BY <1>1, BeginEffect, RestShape, GrammarIsValid DEF StackInv
  <2>2. QED
    BY <1>1, <2>1, BeginEffect, FramesKept DEF StackInv
<1>2. CASE Choose
  <2>1. PICK p \in Prods(g) :
          /\ q = In(Lhs(g, p)) /\ q' = Dot(p, 0)
          /\ stack' = stack /\ consumed' = consumed /\ g' = g
    BY <1>2, ChooseEffect DEF StackInv
  <2>2. Rhs(g, p) \in Seq(0..(g.nt + g.tm - 1))
    BY ValidShape, GrammarIsValid DEF StackInv
  <2>3. Rest(g, q') = Rhs(g, p)
    <3>1. Dot(p, 0) \in Dots(g) /\ Dot(p, 0).ix = p /\ Dot(p, 0).pos = 0
      BY <2>2 DEF Dots, Dot
    <3>2. Rest(g, Dot(p, 0)) = SubSeq(Rhs(g, p), 0 + 1, Len(Rhs(g, p)))
      <4>1. Valid(g)
        BY GrammarIsValid DEF StackInv
      <4>2. \A d \in Dots(g) :
              Rest(g, d) = SubSeq(Rhs(g, d.ix), d.pos + 1, Len(Rhs(g, d.ix)))
        BY <4>1, RestShape
      <4>3. QED
        BY <3>1, <4>2
    <3>3. SubSeq(Rhs(g, p), 0 + 1, Len(Rhs(g, p))) = Rhs(g, p)
      BY <2>2, SubSeqFull
    <3>4. QED
      BY <2>1, <3>2, <3>3
  <2>4. FramesOf[1] = <<Lhs(g, p)>>
    BY <2>1, FramesNow, RestShape, GrammarIsValid DEF StackInv
  <2>5. Rhs(g, p) \o Tail(FramesOf[1]) = Rhs(g, p)
    <3>1. Tail(FramesOf[1]) = <<>>
      BY <2>4
    <3>2. QED
      BY <2>2, <3>1, ConcatEmptySeq
  <2>6. FramesOf' = <<Rhs(g, p) \o Tail(FramesOf[1])>> \o Tail(FramesOf)
    BY <2>1, <2>3, <2>5, FirstFrameReplaced
  <2>7. FramesOf[1] # <<>> /\ Head(FramesOf[1]) = Lhs(g, p)
    BY <2>4
  <2>8. F!Expand
    BY <2>1, <2>6, <2>7 DEF F!Expand, F!Prods, F!Lhs, F!Rhs, Prods, Lhs, Rhs
  <2>9. QED
    BY <2>8 DEF F!Next
<1>3. CASE Read
  <2>1. PICK d \in TerminalDots(g) :
          /\ q = d /\ q' = Advanced(d)
          /\ consumed' = Append(consumed, TerminalId(g, NextSym(g, d)))
          /\ stack' = stack /\ g' = g
    BY <1>3, ReadEffect DEF StackInv
  <2>2. d \in Dots(g) /\ d.pos < Len(Rhs(g, d.ix)) /\ IsTerminal(g, NextSym(g, d))
    BY DEF TerminalDots, NextSym
  <2>3. /\ FramesOf[1] # <<>> /\ Head(FramesOf[1]) = NextSym(g, d)
        /\ Rest(g, q') = Tail(FramesOf[1])
    BY <2>1, <2>2, RestAtDot, FramesNow, GrammarIsValid DEF StackInv
  <2>4. FramesOf' = <<Tail(FramesOf[1])>> \o Tail(FramesOf)
    BY <2>1, <2>3, FirstFrameReplaced
  <2>5. F!Scan
    BY <2>1, <2>2, <2>3, <2>4 DEF F!Scan, F!IsTerminal, F!TerminalId, IsTerminal, TerminalId
  <2>6. QED
    BY <2>5 DEF F!Next
<1>4. CASE Call
  <2>1. PICK d \in CallDots(g) :
          /\ q = d /\ q' = In(NextSym(g, d)) /\ stack' = <<Advanced(d)>> \o stack
          /\ consumed' = consumed /\ g' = g
    BY <1>4, CallEffect DEF StackInv
  <2>2. /\ d \in Dots(g) /\ d.pos < Len(Rhs(g, d.ix)) /\ Advanced(d) \in Dots(g)
        /\ ~IsTerminal(g, NextSym(g, d)) /\ NextSym(g, d) \in Nat
    BY CalleeShape, GrammarIsValid DEF CallDots, NextSym, StackInv, Nonterminals
  <2>3. /\ FramesOf[1] # <<>> /\ Head(FramesOf[1]) = NextSym(g, d)
        /\ Tail(FramesOf[1]) = Rest(g, Advanced(d))
    BY <2>1, <2>2, RestAtDot, FramesNow, GrammarIsValid DEF StackInv
  <2>4. /\ Len(stack) \in Nat /\ Len(stack') = Len(stack) + 1
        /\ stack'[1] = Advanced(d)
        /\ \A k \in 2..(Len(stack) + 1) : stack'[k] = stack[k - 1]
    <3>1. stack \in Seq(StackSyms(g))
      BY DEF StackInv, TypeOK
    <3>2. QED
      BY <2>1, <3>1
  <2>5. FramesOf'[1] = <<NextSym(g, d)>> /\ FramesOf'[2] = Rest(g, Advanced(d))
    BY <2>1, <2>4, FramesNow, FramesNext, RestShape, GrammarIsValid DEF StackInv
  <2>6. \A k \in 2..Len(stack) : FramesOf'[k + 1] = FramesOf[k]
    <3> TAKE k \in 2..Len(stack)
    <3>1. k + 1 \in 2..Len(stack') /\ stack'[k] = stack[k - 1]
      BY <2>4
    <3>2. FramesOf'[k + 1] = Rest(g, stack'[(k + 1) - 1]) /\ FramesOf[k] = Rest(g, stack[k - 1])
      BY <2>1, <3>1, FramesNow, FramesNext
    <3>3. (k + 1) - 1 = k
      OBVIOUS
    <3>4. QED
      BY <3>1, <3>2, <3>3
  <2>7. <<NextSym(g, d)>> \in Word /\ Rest(g, Advanced(d)) \in Word
    BY <2>2, RestShape, GrammarIsValid DEF StackInv, Word
  <2>8. FramesOf' = <<<<NextSym(g, d)>>, Rest(g, Advanced(d))>> \o Tail(FramesOf)
    <3>1. /\ FramesOf \in Seq(Word) /\ FramesOf' \in Seq(Word) /\ Len(FramesOf) >= 1
          /\ Len(FramesOf') = Len(FramesOf) + 1 /\ Len(FramesOf) = Len(stack)
      BY <2>4, FramesNow, FramesNext
    <3>2. QED
      BY <2>5, <2>6, <2>7, <3>1, HeadSplit
  <2>9. F!Descend
    BY <2>1, <2>2, <2>3, <2>8 DEF F!Descend, F!IsTerminal, IsTerminal
  <2>10. QED
    BY <2>9 DEF F!Next
<1>5. CASE Exit
  <2>1. PICK d \in FinalDots(g) :
          /\ q = d /\ q' = Out(Lhs(g, d.ix)) /\ stack' = stack
          /\ consumed' = consumed /\ g' = g
    BY <1>5, ExitEffect DEF StackInv
  <2>2. d \in Dots(g) /\ d.pos = Len(Rhs(g, d.ix)) /\ d.pos \in Nat
    <3>1. d \in Dots(g) /\ d.pos = Len(Rhs(g, d.ix))
      BY DEF FinalDots
    <3>2. QED
      BY <3>1, DotShape
  <2>3. Rest(g, d) = <<>>
    BY <2>2, RestShape, GrammarIsValid, SubSeqEmpty DEF StackInv
  <2>4. Rest(g, q') = Rest(g, q)
    BY <2>1, <2>3, RestShape, GrammarIsValid DEF StackInv
  <2>5. QED
    BY <2>1, <2>4, FramesKept
<1>6. CASE Return
  <2>1. PICK B \in Nonterminals(g), r \in Dots(g) :
          /\ q = Out(B) /\ stack # <<>> /\ stack[1] = r /\ q' = r
          /\ stack' = Tail(stack) /\ consumed' = consumed /\ g' = g
    BY <1>6, ReturnEffect DEF StackInv
  <2>2. /\ Len(stack) \in Nat /\ Len(stack') = Len(stack) - 1
        /\ \A k \in 1..(Len(stack) - 1) : stack'[k] = stack[k + 1]
    BY <2>1, StackShape DEF StackInv
  <2>3. FramesOf[1] = <<>>
    BY <2>1, FramesNow, RestShape, GrammarIsValid DEF StackInv
  <2>4. Len(FramesOf) > 1
    BY <2>2, FramesNow, FramesNext
  <2>5. \A k \in 1..(Len(stack) - 1) : FramesOf'[k] = FramesOf[k + 1]
    <3> TAKE k \in 1..(Len(stack) - 1)
    <3>1. CASE k = 1
      <4>1. 2 \in 2..Len(stack)
        BY <2>2, <3>1
      <4>2. FramesOf[2] = Rest(g, stack[2 - 1])
        BY <4>1, FramesNow
      <4>3. FramesOf'[1] = Rest(g, stack[1])
        BY <2>1, FramesNext
      <4>4. QED
        BY <3>1, <4>2, <4>3
    <3>2. CASE k # 1
      <4>1. k \in 2..Len(stack') /\ k - 1 \in 1..(Len(stack) - 1) /\ k + 1 \in 2..Len(stack)
        BY <2>2, <3>2
      <4>2. stack'[k - 1] = stack[k]
        BY <2>2, <4>1
      <4>3. QED
        BY <2>1, <4>1, <4>2, FramesNow, FramesNext
    <3>3. QED
      BY <3>1, <3>2
  <2>6. FramesOf' = Tail(FramesOf)
    BY <2>2, <2>5, FramesNow, FramesNext, HeadPopped
  <2>7. F!Ascend
    BY <2>1, <2>3, <2>4, <2>6 DEF F!Ascend
  <2>8. QED
    BY <2>7 DEF F!Next
<1>7. CASE UNCHANGED vars
  BY <1>7 DEF vars, FramesOf, FramesAt
<1>8. QED
  BY <1>1, <1>2, <1>3, <1>4, <1>5, <1>6, <1>7 DEF Next

\* Every run of the compiled machine is a leftmost derivation of its
\* grammar, with the stack in the role of the unfinished right-hand sides.
THEOREM RunsAreDerivations == Spec => IsDerivation
<1>1. Init => F!Init
  <2> SUFFICES ASSUME Init PROVE F!Init
    OBVIOUS
  <2>1. FramesOf = <<Rest(g, Start)>>
    BY DEF Init, FramesOf, FramesAt
  <2>2. Rest(g, Start) = <<g.start>>
    BY RestShape, GrammarsAssumption DEF Init
  <2>3. QED
    BY <2>1, <2>2 DEF Init, F!Init
<1>2. StackInv /\ StackInv' /\ [Next]_vars => [F!Next]_(F!vars)
  BY StepRefines
<1>3. Spec => []StackInv
  BY TypeCorrect, StackDiscipline, PTL DEF StackInv
<1>4. QED
  BY <1>1, <1>2, <1>3, PTL DEF Spec, IsDerivation, F!Spec


----------------------------------------------------------------------------
(* The frames joined.                                                      *)

LEMMA JoinedForm ==
  ASSUME NEW s \in Seq(Word)
  PROVE  FlattenSeq(s) = Joined(s)
BY DEF FlattenSeq, Joined

LEMMA WordsAssociate ==
  ASSUME NEW x \in Word, NEW y \in Word, NEW z \in Word
  PROVE  (x \o y) \o z = x \o (y \o z)
<1>1. x \in Seq(Nat) /\ y \in Seq(Nat) /\ z \in Seq(Nat)
  BY DEF Word
<1>2. QED
  BY <1>1, ConcatAssociative, SMTT(40)

\* The first frame stands before the others.
LEMMA FormFirst ==
  ASSUME NEW x \in Word, NEW t \in Seq(Word)
  PROVE  /\ FlattenSeq(<<x>> \o t) = x \o FlattenSeq(t)
         /\ FlattenSeq(t) \in Word
<1>1. <<x>> \in Seq(Word) /\ <<x>> \o t \in Seq(Word)
  BY ConcatProperties
<1>2. x \in Seq(Nat) /\ t \in Seq(Seq(Nat)) /\ Word = Seq(Nat)
  BY DEF Word
<1>3. Joined(<<x>> \o t) = x \o Joined(t) /\ Joined(t) \in Word
  BY <1>2, JoinFirst
<1>4. QED
  BY <1>1, <1>3, JoinedForm

\* The form with its first frame apart.
LEMMA FormParts ==
  ASSUME NEW s \in Seq(Word), Len(s) >= 1
  PROVE  /\ s[1] \in Word /\ Tail(s) \in Seq(Word) /\ FlattenSeq(Tail(s)) \in Word
         /\ FlattenSeq(s) = s[1] \o FlattenSeq(Tail(s))
<1>1. s # <<>> /\ s[1] \in Word /\ Tail(s) \in Seq(Word)
  <2>1. s # <<>> /\ 1 \in 1..Len(s)
    OBVIOUS
  <2>2. QED
    BY <2>1, HeadTailProperties, ElementOfSeq
<1>2. \A i \in 1..Len(s) : s[i] = s[i]
  OBVIOUS
<1>3. s = <<s[1]>> \o Tail(s)
  BY <1>1, HeadReplaced
<1>4. QED
  BY <1>1, <1>3, FormFirst

\* Two words put together, the first of them not empty.
LEMMA HeadOfConcat ==
  ASSUME NEW x \in Word, NEW y \in Word, x # <<>>
  PROVE  /\ x \o y # <<>> /\ Head(x \o y) = Head(x) /\ Tail(x \o y) = Tail(x) \o y
         /\ Head(x) \in Nat /\ Tail(x) \in Word /\ x = <<Head(x)>> \o Tail(x)
<1>1. x \in Seq(Nat) /\ y \in Seq(Nat) /\ Head(x) \in Nat /\ Tail(x) \in Seq(Nat)
  BY HeadTailProperties DEF Word
<1>2. x = <<Head(x)>> \o Tail(x)
  BY <1>1
<1>3. <<Head(x)>> \in Seq(Nat) /\ Tail(x) \o y \in Seq(Nat)
  BY <1>1, ConcatProperties
<1>4. x \o y = <<Head(x)>> \o (Tail(x) \o y)
  BY <1>1, <1>2, <1>3, ConcatAssociative
<1> DEFINE h == Head(x)
           r == Tail(x) \o y
<1> HIDE DEF h, r
<1>5. ASSUME NEW n \in Nat, NEW rest \in Seq(Nat)
      PROVE  <<n>> \o rest # <<>> /\ Head(<<n>> \o rest) = n /\ Tail(<<n>> \o rest) = rest
  OBVIOUS
<1>6. <<h>> \o r # <<>> /\ Head(<<h>> \o r) = h /\ Tail(<<h>> \o r) = r
  <2>1. h \in Nat /\ r \in Seq(Nat)
    BY <1>1, <1>3 DEF h, r
  <2>2. QED
    BY <1>5, <2>1
<1>7. x \o y # <<>> /\ Head(x \o y) = Head(x) /\ Tail(x \o y) = Tail(x) \o y
  BY <1>4, <1>6 DEF h, r
<1>8. QED
  BY <1>1, <1>2, <1>7 DEF Word

\* A form whose first two frames are apart.
LEMMA TwoFrames ==
  ASSUME NEW h \in Word, NEW r \in Word, NEW others \in Seq(Word)
  PROVE  FlattenSeq(<<h, r>> \o others) = h \o (r \o FlattenSeq(others))
<1>1. <<h>> \in Seq(Word) /\ <<r>> \in Seq(Word) /\ <<h, r>> = <<h>> \o <<r>>
  BY PairSplit
<1>4. <<r>> \o others \in Seq(Word)
  BY <1>1, ConcatProperties
<1>2. <<h, r>> \o others = <<h>> \o (<<r>> \o others)
  BY <1>1, ConcatThree
<1>3. FlattenSeq(<<r>> \o others) = r \o FlattenSeq(others)
  BY FormFirst
<1>5. QED
  BY <1>2, <1>3, <1>4, FormFirst

\* A step of the frames is a step of the form, or leaves the form as it is.
LEMMA FramesStepDerives ==
  ASSUME StackInv, StackInv', [F!Next]_(F!vars)
  PROVE  [L!Next]_(L!vars)
<1> DEFINE s == FramesOf
           x == s[1]
           J == FlattenSeq(Tail(s))
           form == FlattenSeq(FramesOf)
<1>1. s \in Seq(Word) /\ Len(s) >= 1
  BY FramesNow
<1>2. x \in Word /\ Tail(s) \in Seq(Word) /\ J \in Word /\ form = x \o J
  BY <1>1, FormParts
<1> HIDE DEF s, x, J, form
<1>3. x # <<>> => /\ form # <<>> /\ Head(form) = Head(x) /\ Tail(form) = Tail(x) \o J
                  /\ Head(x) \in Nat /\ Tail(x) \in Word /\ x = <<Head(x)>> \o Tail(x)
  BY <1>2, HeadOfConcat
<1>4. CASE F!Descend
  <2>1. /\ x # <<>> /\ FramesOf' = <<<<Head(x)>>, Tail(x)>> \o Tail(s)
        /\ UNCHANGED <<g, consumed>>
    BY <1>4 DEF F!Descend, s, x
  <2>2. Head(x) \in Nat /\ Tail(x) \in Word /\ x = <<Head(x)>> \o Tail(x)
    BY <1>3, <2>1
  <2>3. <<Head(x)>> \in Word /\ Tail(x) \in Word
    BY <2>2 DEF Word
  <2>4. FlattenSeq(<<<<Head(x)>>, Tail(x)>> \o Tail(s)) = <<Head(x)>> \o (Tail(x) \o J)
    BY <1>2, <2>3, TwoFrames DEF J
  <2>5. <<Head(x)>> \o (Tail(x) \o J) = x \o J
    <3>1. (<<Head(x)>> \o Tail(x)) \o J = <<Head(x)>> \o (Tail(x) \o J)
      BY <1>2, <2>3, WordsAssociate
    <3>2. QED
      BY <2>2, <3>1
  <2>6. FlattenSeq(FramesOf)' = FlattenSeq(<<<<Head(x)>>, Tail(x)>> \o Tail(s))
    BY <2>1 DEF FlattenSeq
  <2>7. FlattenSeq(FramesOf)' = FlattenSeq(FramesOf)
    BY <1>2, <2>4, <2>5, <2>6 DEF form
  <2>8. QED
    BY <2>1, <2>7 DEF L!vars
<1>5. CASE F!Expand
  <2>1. PICK p \in F!Prods(g) :
          /\ x # <<>> /\ Head(x) = F!Lhs(g, p)
          /\ FramesOf' = <<F!Rhs(g, p) \o Tail(x)>> \o Tail(s)
          /\ UNCHANGED <<g, consumed>>
    BY <1>5 DEF F!Expand, s, x
  <2> DEFINE rhs == Rhs(g, p)
  <2>2. p \in Prods(g) /\ rhs \in Word
    <3>1. p \in Prods(g) /\ Valid(g)
      BY <2>1, GrammarIsValid DEF F!Prods, Prods, StackInv
    <3>2. rhs \in Seq(0..(g.nt + g.tm - 1)) /\ g.nt \in Nat /\ g.tm \in Nat
      BY <3>1, ValidShape
    <3>3. 0..(g.nt + g.tm - 1) \subseteq Nat
      BY <3>2
    <3>4. QED
      BY <3>1, <3>2, <3>3, SeqMonotonic DEF Word
  <2>3. FlattenSeq(FramesOf)' = FlattenSeq(<<rhs \o Tail(x)>> \o Tail(s))
    BY <2>1 DEF FlattenSeq, F!Rhs, Rhs
  <2> HIDE DEF rhs
  <2>4. Tail(x) \in Word /\ rhs \o Tail(x) \in Word
    BY <1>3, <2>1, <2>2, ConcatProperties DEF Word
  <2>5. FlattenSeq(<<rhs \o Tail(x)>> \o Tail(s)) = (rhs \o Tail(x)) \o J
    BY <1>2, <2>4, FormFirst DEF J
  <2>6. (rhs \o Tail(x)) \o J = rhs \o (Tail(x) \o J)
    BY <1>2, <2>2, <2>4, WordsAssociate
  <2>7. FlattenSeq(FramesOf)' = rhs \o Tail(form)
    BY <1>3, <2>1, <2>3, <2>5, <2>6
  <2>8. form # <<>> /\ Head(form) = Lhs(g, p)
    BY <1>3, <2>1 DEF F!Lhs, Lhs
  <2>9. L!Expand
    BY <2>1, <2>2, <2>7, <2>8 DEF form, L!Expand, L!Prods, L!Lhs, L!Rhs, Prods, Lhs, Rhs, rhs
  <2>10. QED
    BY <2>9 DEF L!Next
<1>6. CASE F!Scan
  <2>1. /\ x # <<>> /\ F!IsTerminal(g, Head(x))
        /\ FramesOf' = <<Tail(x)>> \o Tail(s)
        /\ consumed' = Append(consumed, F!TerminalId(g, Head(x)))
        /\ UNCHANGED g
    BY <1>6 DEF F!Scan, s, x
  <2>2. Tail(x) \in Word
    BY <1>3, <2>1
  <2>3. FlattenSeq(FramesOf)' = FlattenSeq(<<Tail(x)>> \o Tail(s))
    BY <2>1 DEF FlattenSeq
  <2>4. FlattenSeq(<<Tail(x)>> \o Tail(s)) = Tail(x) \o J
    BY <1>2, <2>2, FormFirst DEF J
  <2>5. FlattenSeq(FramesOf)' = Tail(form) /\ form # <<>> /\ Head(form) = Head(x)
    BY <1>3, <2>1, <2>3, <2>4
  <2>6. L!Scan
    BY <2>1, <2>5 DEF form, L!Scan, L!IsTerminal, L!TerminalId, F!IsTerminal, F!TerminalId
  <2>7. QED
    BY <2>6 DEF L!Next
<1>7. CASE F!Ascend
  <2>1. x = <<>> /\ FramesOf' = Tail(s) /\ UNCHANGED <<g, consumed>>
    BY <1>7 DEF F!Ascend, s, x
  <2>2. form = J
    BY <1>2, <2>1, ConcatEmptySeq DEF Word
  <2>3. FlattenSeq(FramesOf)' = FlattenSeq(Tail(s))
    BY <2>1 DEF FlattenSeq
  <2>4. QED
    BY <2>1, <2>2, <2>3 DEF L!vars, J, form
<1>8. CASE UNCHANGED F!vars
  <2>1. FramesOf' = FramesOf /\ g' = g /\ consumed' = consumed
    BY <1>8 DEF F!vars
  <2>2. FlattenSeq(FramesOf)' = FlattenSeq(FramesOf)
    BY <2>1 DEF FlattenSeq
  <2>3. QED
    BY <2>1, <2>2 DEF L!vars
<1>9. QED
  BY <1>4, <1>5, <1>6, <1>7, <1>8 DEF F!Next

\* Every run of the compiled machine spells a leftmost derivation of its
\* grammar: what it has read and what its frames still hold, joined, is the
\* sentential form.
THEOREM RunsAreLeftmost == Spec => IsLeftmost
<1>1. Init => L!Init
  <2> SUFFICES ASSUME Init PROVE L!Init
    OBVIOUS
  <2>1. FramesOf = <<Rest(g, Start)>>
    BY DEF Init, FramesOf, FramesAt
  <2>2. Rest(g, Start) = <<g.start>> /\ g.start \in Nat
    BY RestShape, GrammarsAssumption DEF Init
  <2>3. FlattenSeq(<<<<g.start>>>>) = <<g.start>>
    <3> DEFINE x == <<g.start>>
    <3>1. x \in Word /\ <<>> \in Seq(Word) /\ FlattenSeq(<<>>) = <<>>
      BY <2>2, EmptySeq DEF Word, FlattenSeq
    <3> HIDE DEF x
    <3>2. FlattenSeq(<<x>> \o <<>>) = x \o <<>>
      BY <3>1, FormFirst
    <3>3. <<x>> \o <<>> = <<x>> /\ x \o <<>> = x
      BY <3>1, ConcatEmptySeq DEF Word
    <3>4. QED
      BY <3>2, <3>3 DEF x
  <2>4. QED
    BY <2>1, <2>2, <2>3 DEF Init, L!Init
<1>2. StackInv /\ StackInv' /\ [Next]_vars => [L!Next]_(L!vars)
  BY StepRefines, FramesStepDerives
<1>3. Spec => []StackInv
  BY TypeCorrect, StackDiscipline, PTL DEF StackInv
<1>4. QED
  BY <1>1, <1>2, <1>3, PTL DEF Spec, IsLeftmost, L!Spec
----------------------------------------------------------------------------
(* What a run reads, by derivation trees.  A configuration of grammar h is *)
(* a state s, a stack st and the input w read so far; a move leads to the  *)
(* next one.  Here the stack and the input may grow without bound.         *)

Moves(h, c, d) == \E t \in Delta(h) :
  /\ c[2] # <<>> /\ t.q = c[1] /\ t.top = Head(c[2])
  /\ d = <<t.next_q, t.push \o Tail(c[2]), IF t.a = Eps(h) THEN c[3] ELSE Append(c[3], t.a)>>

\* The state of the k-th frame and the nonterminal parsed there.
FrameState(s, st, k) == IF k = 1 THEN s ELSE st[k - 1]
Parsing(h, s, st, k) == Phase(h, FrameState(s, st, k))

Configuration(h, s, st, w) ==
  /\ s \in States(h) /\ st \in Seq(StackSyms(h)) /\ w \in Seq(0..(h.tm - 1))
  /\ Len(st) >= 1 /\ st[Len(st)] = Bot
  /\ \A k \in 1..(Len(st) - 1) : st[k] \in Dots(h)

\* The innermost frame, begun at from, has got to the end of the input.
Innermost(h, w, s, from) ==
  /\ s.k \in {"start", "in"} => from = Len(w)
  /\ s.k = "dot" => AllDerive(h, w, Derived(h, w), SubSeq(Rhs(h, s.ix), 1, s.pos), from, Len(w))
  /\ s.k = "out" => <<s.ix, from, Len(w)>> \in Derived(h, w)

\* A caller, begun at from, waits for nonterminal A, begun at to.
Suspended(h, w, d, A, from, to) ==
  /\ d.pos > 0 /\ Rhs(h, d.ix)[d.pos] = A
  /\ AllDerive(h, w, Derived(h, w), SubSeq(Rhs(h, d.ix), 1, d.pos - 1), from, to)

\* Frame k was begun at at[k], where its nonterminal is due.
BegunAt(h, s, st, w, at) ==
  /\ at \in [1..Len(st) -> 0..Len(w)] /\ at[Len(st)] = 0
  /\ \A k \in 1..Len(st) : <<Parsing(h, s, st, k), at[k]>> \in Due(h, w)
  /\ \A k \in 1..(Len(st) - 1) :
       at[k + 1] <= at[k] /\ Suspended(h, w, st[k], Parsing(h, s, st, k), at[k + 1], at[k])

Consistent(h, s, st, w) ==
  Configuration(h, s, st, w) /\ \E at : BegunAt(h, s, st, w, at) /\ Innermost(h, w, s, at[1])

\* More input leaves the facts about what was read before.
LEMMA LongerInput ==
  ASSUME NEW h, Valid(h), NEW w \in Seq(0..(h.tm - 1)), NEW a \in 0..(h.tm - 1)
  PROVE  LET v == Append(w, a)
         IN /\ v \in Seq(0..(h.tm - 1)) /\ Len(w) \in Nat /\ Len(v) = Len(w) + 1 /\ v[Len(w) + 1] = a
            /\ Agree(w, v, Len(w))
            /\ \A d \in Due(h, w) : d[2] <= Len(w) => d \in Due(h, v)
            /\ \A A, b, e : <<A, b, e>> \in Derived(h, w) /\ e <= Len(w) => <<A, b, e>> \in Derived(h, v)
<1> DEFINE v == Append(w, a)
<1>1. /\ v \in Seq(0..(h.tm - 1)) /\ Len(w) \in Nat /\ Len(v) = Len(w) + 1 /\ v[Len(w) + 1] = a
      /\ \A t \in 1..Len(w) : v[t] = w[t]
  <2>1. Len(w) \in Nat
    OBVIOUS
  <2>2. /\ v \in Seq(0..(h.tm - 1)) /\ Len(v) = Len(w) + 1 /\ v[Len(w) + 1] = a
        /\ \A t \in 1..Len(w) : v[t] = w[t]
    BY AppendProperties
  <2>3. QED
    BY <2>1, <2>2
<1> HIDE DEF v
<1>2. Agree(w, v, Len(w)) /\ Len(v) \in Nat
  BY <1>1 DEF Agree
<1>3. \A d \in Due(h, w) : d[2] <= Len(w) => d \in Due(h, v)
  BY <1>1, <1>2, DueLocal
<1>4. \A A, b, e : <<A, b, e>> \in Derived(h, w) /\ e <= Len(w) => <<A, b, e>> \in Derived(h, v)
  BY <1>1, <1>2, DerivedLocal
<1>5. QED
  BY <1>1, <1>2, <1>3, <1>4 DEF v

LEMMA RhsShape ==
  ASSUME NEW h, Valid(h), NEW d \in Dots(h)
  PROVE  /\ d.ix \in Prods(h) /\ Rhs(h, d.ix) \in Seq(Nat) /\ Len(Rhs(h, d.ix)) \in Nat
         /\ d.pos \in 0..Len(Rhs(h, d.ix)) /\ d.k = "dot"
<1>1. d.ix \in Prods(h) /\ d.pos \in 0..Len(Rhs(h, d.ix)) /\ d.k = "dot"
  BY DotShape
<1>2. Rhs(h, d.ix) \in Seq(Nat)
  BY <1>1, ValidParts
<1>3. QED
  BY <1>1, <1>2

LEMMA SuspendedLonger ==
  ASSUME NEW h, Valid(h), NEW w \in Seq(0..(h.tm - 1)), NEW a \in 0..(h.tm - 1),
         NEW d \in Dots(h), NEW A, NEW from \in Nat, NEW to \in Nat, to <= Len(w),
         Suspended(h, w, d, A, from, to)
  PROVE  Suspended(h, Append(w, a), d, A, from, to)
<1> DEFINE v == Append(w, a)
           front == SubSeq(Rhs(h, d.ix), 1, d.pos - 1)
           K == Derived(h, w)
           M == Derived(h, v)
<1>1. Len(w) \in Nat /\ Len(v) \in Nat /\ Agree(w, v, Len(w))
  <2>1. Len(w) \in Nat /\ Len(v) = Len(w) + 1 /\ Agree(w, v, Len(w))
    BY LongerInput
  <2> HIDE DEF v
  <2>2. QED
    BY <2>1
<1>2. \A B, b, e : <<B, b, e>> \in K /\ e <= Len(w) => <<B, b, e>> \in M
  BY LongerInput
<1>3. Len(front) \in Nat
  <2>1. Rhs(h, d.ix) \in Seq(Nat) /\ d.pos \in 0..Len(Rhs(h, d.ix))
    BY RhsShape
  <2>2. d.pos > 0
    BY DEF Suspended
  <2>3. d.pos - 1 \in 0..Len(Rhs(h, d.ix))
    BY <2>1, <2>2
  <2>4. QED
    BY <2>1, <2>3
<1>4. AllDerive(h, w, K, front, from, to)
  BY DEF Suspended
<1> HIDE DEF v, front, K, M
<1>5. AllDerive(h, v, M, front, from, to)
  BY <1>1, <1>2, <1>3, <1>4, AllDeriveLocal
<1>6. QED
  BY <1>5 DEF Suspended, v, front, M

\* Reading on leaves the begun frames as they are.
LEMMA BegunLonger ==
  ASSUME NEW h, Valid(h), NEW s, NEW st, NEW w, Configuration(h, s, st, w),
         NEW at, BegunAt(h, s, st, w, at), NEW a \in 0..(h.tm - 1)
  PROVE  BegunAt(h, s, st, Append(w, a), at)
<1> DEFINE v == Append(w, a)
<1>1. /\ w \in Seq(0..(h.tm - 1)) /\ Len(w) \in Nat /\ Len(v) = Len(w) + 1
      /\ \A d \in Due(h, w) : d[2] <= Len(w) => d \in Due(h, v)
  BY LongerInput DEF Configuration
<1> HIDE DEF v
<1>2. at \in [1..Len(st) -> 0..Len(w)] /\ at[Len(st)] = 0
  BY DEF BegunAt
<1>3. at \in [1..Len(st) -> 0..Len(v)]
  <2>1. \A x \in 0..Len(w) : x \in 0..Len(v)
    BY <1>1
  <2>2. QED
    BY <1>2, <2>1
<1>4. ASSUME NEW k \in 1..Len(st) PROVE <<Parsing(h, s, st, k), at[k]>> \in Due(h, v)
  <2>1. <<Parsing(h, s, st, k), at[k]>> \in Due(h, w)
    BY DEF BegunAt
  <2>2. at[k] <= Len(w)
    BY <1>1, <1>2
  <2>3. QED
    BY <1>1, <2>1, <2>2
<1>5. ASSUME NEW k \in 1..(Len(st) - 1)
      PROVE  at[k + 1] <= at[k] /\ Suspended(h, v, st[k], Parsing(h, s, st, k), at[k + 1], at[k])
  <2>1. at[k + 1] <= at[k] /\ Suspended(h, w, st[k], Parsing(h, s, st, k), at[k + 1], at[k])
    BY DEF BegunAt
  <2>2. st[k] \in Dots(h) /\ Len(st) \in Nat
    BY DEF Configuration
  <2>3. k \in 1..Len(st) /\ k + 1 \in 1..Len(st)
    BY <2>2
  <2>4. at[k] \in Nat /\ at[k + 1] \in Nat /\ at[k] <= Len(w)
    BY <1>1, <1>2, <2>3
  <2>5. Suspended(h, Append(w, a), st[k], Parsing(h, s, st, k), at[k + 1], at[k])
    BY <1>1, <2>1, <2>2, <2>4, SuspendedLonger
  <2>6. QED
    BY <2>1, <2>5 DEF v
<1>6. QED
  BY <1>2, <1>3, <1>4, <1>5 DEF BegunAt, v

\* A step within one nonterminal.
LEMMA SameFrames ==
  ASSUME NEW h, NEW s, NEW st, NEW w, NEW s2, Phase(h, s2) = Phase(h, s),
         NEW at, BegunAt(h, s, st, w, at)
  PROVE  BegunAt(h, s2, st, w, at)
<1>1. \A k : Parsing(h, s2, st, k) = Parsing(h, s, st, k)
  BY DEF Parsing, FrameState
<1>2. QED
  BY <1>1 DEF BegunAt

\* The start state, choosing a production and leaving one.
LEMMA DueStarts ==
  ASSUME NEW h, Valid(h), NEW w \in Seq(0..(h.tm - 1))
  PROVE  <<h.start, 0>> \in Due(h, w)
<1>1. h.nt \in Nat /\ h.start \in Nonterminals(h) /\ Len(w) \in Nat
  BY ValidParts
<1>2. OneDeeper(h, w, Derived(h, w), Due(h, w)) = Due(h, w)
  BY <1>1, DueClosed
<1>3. <<h.start, 0>> \in OneDeeper(h, w, Derived(h, w), Due(h, w))
  BY DEF OneDeeper
<1>4. QED
  BY <1>2, <1>3

\* A complete production derives what it spans.
LEMMA ProductionDerives ==
  ASSUME NEW h, Valid(h), NEW w \in Seq(0..(h.tm - 1)), NEW p \in Prods(h),
         NEW from \in 0..Len(w), NEW to \in 0..Len(w), from <= to,
         AllDerive(h, w, Derived(h, w), Rhs(h, p), from, to)
  PROVE  <<Lhs(h, p), from, to>> \in Derived(h, w)
<1> DEFINE f == <<Lhs(h, p), from, to>>
<1>1. h.nt \in Nat /\ Lhs(h, p) \in Nonterminals(h) /\ Len(w) \in Nat
  BY ValidParts
<1>2. f \in Facts(h, w)
  BY <1>1 DEF Facts
<1>3. f[1] = Lhs(h, p) /\ f[2] = from /\ f[3] = to
  OBVIOUS
<1> HIDE DEF f
<1>4. f \in OneTaller(h, w, Derived(h, w))
  BY <1>2, <1>3 DEF OneTaller
<1>5. OneTaller(h, w, Derived(h, w)) = Derived(h, w)
  BY <1>1, DerivedClosed
<1>6. QED
  BY <1>4, <1>5 DEF f

\* The derived facts' spans, and a production for each.
LEMMA DerivedParts ==
  ASSUME NEW h, Valid(h), NEW w \in Seq(0..(h.tm - 1)), NEW A, NEW from, NEW to,
         <<A, from, to>> \in Derived(h, w)
  PROVE  /\ from \in 0..Len(w) /\ to \in 0..Len(w) /\ from <= to
         /\ \E p \in Prods(h) : Lhs(h, p) = A /\ AllDerive(h, w, Derived(h, w), Rhs(h, p), from, to)
<1> DEFINE f == <<A, from, to>>
<1>1. h.nt \in Nat /\ Len(w) \in Nat
  BY ValidParts
<1>2. OneTaller(h, w, Derived(h, w)) = Derived(h, w)
  BY <1>1, DerivedClosed
<1>3. f[1] = A /\ f[2] = from /\ f[3] = to
  OBVIOUS
<1> HIDE DEF f
<1>4. f \in OneTaller(h, w, Derived(h, w))
  BY <1>2 DEF f
<1>5. f \in Facts(h, w) /\ \E p \in Prods(h) : Lhs(h, p) = f[1] /\ AllDerive(h, w, Derived(h, w), Rhs(h, p), f[2], f[3])
  BY <1>4 DEF OneTaller
<1>6. f[2] \in 0..Len(w) /\ f[3] \in 0..Len(w) /\ f[2] <= f[3]
  BY <1>5 DEF Facts
<1>7. QED
  BY <1>3, <1>5, <1>6

\* The symbol after the dot is derived: the dot moves past it.
LEMMA DotPasses ==
  ASSUME NEW h, Valid(h), NEW w, NEW d \in Dots(h), d.pos < Len(Rhs(h, d.ix)),
         NEW K, NEW from \in Nat, NEW mid \in Nat, NEW to \in Nat, from <= mid, mid <= to,
         AllDerive(h, w, K, SubSeq(Rhs(h, d.ix), 1, d.pos), from, mid),
         Derives(h, w, K, Rhs(h, d.ix)[d.pos + 1], mid, to)
  PROVE  AllDerive(h, w, K, SubSeq(Rhs(h, d.ix), 1, d.pos + 1), from, to)
<1> DEFINE rhs == Rhs(h, d.ix)
           n == d.pos
           front == SubSeq(rhs, 1, n)
           s == rhs[n + 1]
<1>1. rhs \in Seq(Nat) /\ n \in 0..Len(rhs) /\ n < Len(rhs)
  BY RhsShape
<1> HIDE DEF rhs, n
<1>2. front \in Seq(Nat) /\ s \in Nat /\ SubSeq(rhs, 1, n + 1) = Append(front, s)
  BY <1>1, OneLonger
<1>3. AllDerive(h, w, K, front, from, mid) /\ Derives(h, w, K, s, mid, to)
  BY DEF rhs, n
<1> HIDE DEF front, s
<1>4. AllDerive(h, w, K, Append(front, s), from, to)
  BY <1>2, <1>3, OneMoreSymbol
<1>5. QED
  BY <1>2, <1>4 DEF rhs, n

LEMMA TopKept ==
  ASSUME NEW S, NEW st \in Seq(S), st # <<>>
  PROVE  <<Head(st)>> \o Tail(st) = st /\ Head(st) = st[1] /\ Head(st) \in S
BY HeadTailProperties

LEMMA DotPhase ==
  ASSUME NEW h, NEW d \in Dots(h)
  PROVE  Phase(h, d) = Lhs(h, d.ix)
<1>1. d.k = "dot"
  BY DotShape
<1>2. QED
  BY <1>1 DEF Phase

LEMMA BeginReads ==
  ASSUME NEW h, Valid(h), NEW st, NEW w, Consistent(h, Start, st, w)
  PROVE  Consistent(h, In(h.start), st, w)
<1>1. PICK at : BegunAt(h, Start, st, w, at) /\ Innermost(h, w, Start, at[1])
  BY DEF Consistent
<1>2. BegunAt(h, In(h.start), st, w, at)
  BY <1>1, PhaseOf, SameFrames
<1>3. Innermost(h, w, In(h.start), at[1])
  BY <1>1 DEF Innermost, Start, In
<1>4. In(h.start) \in States(h)
  BY ValidParts DEF States
<1>5. Configuration(h, In(h.start), st, w)
  BY <1>4 DEF Consistent, Configuration
<1>6. QED
  BY <1>2, <1>3, <1>5 DEF Consistent

LEMMA ChooseReads ==
  ASSUME NEW h, Valid(h), NEW p \in Prods(h), NEW st, NEW w, Consistent(h, In(Lhs(h, p)), st, w)
  PROVE  Consistent(h, Dot(p, 0), st, w)
<1>1. PICK at : BegunAt(h, In(Lhs(h, p)), st, w, at) /\ Innermost(h, w, In(Lhs(h, p)), at[1])
  BY DEF Consistent
<1>2. BegunAt(h, Dot(p, 0), st, w, at)
  BY <1>1, PhaseOf, SameFrames
<1>3. Rhs(h, p) \in Seq(Nat) /\ Len(w) \in Nat
  BY ValidParts DEF Consistent, Configuration
<1>4. Innermost(h, w, Dot(p, 0), at[1])
  <2>1. at[1] = Len(w)
    BY <1>1 DEF Innermost, In
  <2>2. SubSeq(Rhs(h, p), 1, 0) = <<>>
    BY <1>3
  <2>3. AllDerive(h, w, Derived(h, w), <<>>, Len(w), Len(w))
    BY <1>3, NoSymbols
  <2>4. QED
    BY <2>1, <2>2, <2>3 DEF Innermost, Dot
<1>5. Dot(p, 0) \in States(h)
  <2>1. 0 \in 0..Len(Rhs(h, p))
    BY <1>3
  <2>2. QED
    BY <2>1 DEF States, Dots
<1>6. Configuration(h, Dot(p, 0), st, w)
  BY <1>5 DEF Consistent, Configuration
<1>7. QED
  BY <1>2, <1>4, <1>6 DEF Consistent

LEMMA ExitReads ==
  ASSUME NEW h, Valid(h), NEW d \in FinalDots(h), NEW st, NEW w, Consistent(h, d, st, w)
  PROVE  Consistent(h, Out(Lhs(h, d.ix)), st, w)
<1>1. PICK at : BegunAt(h, d, st, w, at) /\ Innermost(h, w, d, at[1])
  BY DEF Consistent
<1>2. d \in Dots(h) /\ d.pos = Len(Rhs(h, d.ix))
  BY DEF FinalDots
<1>3. d.ix \in Prods(h) /\ Rhs(h, d.ix) \in Seq(Nat) /\ d.k = "dot" /\ d = Dot(d.ix, d.pos)
  BY <1>2, RhsShape, DotShape
<1>4. BegunAt(h, Out(Lhs(h, d.ix)), st, w, at)
  <2>1. Phase(h, d) = Lhs(h, d.ix)
    BY <1>2, DotPhase
  <2>2. Phase(h, Out(Lhs(h, d.ix))) = Lhs(h, d.ix)
    BY PhaseOf
  <2>3. Phase(h, Out(Lhs(h, d.ix))) = Phase(h, d)
    BY <2>1, <2>2
  <2>4. QED
    BY <1>1, <2>3, SameFrames
<1>5. w \in Seq(0..(h.tm - 1)) /\ Len(w) \in Nat /\ Len(st) \in Nat /\ Len(st) >= 1
  BY DEF Consistent, Configuration
<1>6. at[1] \in 0..Len(w) /\ Len(w) \in 0..Len(w) /\ at[1] <= Len(w)
  <2>1. at \in [1..Len(st) -> 0..Len(w)] /\ 1 \in 1..Len(st)
    BY <1>1, <1>5 DEF BegunAt
  <2>2. QED
    BY <1>5, <2>1
<1>7. AllDerive(h, w, Derived(h, w), Rhs(h, d.ix), at[1], Len(w))
  <2>1. SubSeq(Rhs(h, d.ix), 1, d.pos) = Rhs(h, d.ix)
    BY <1>2, <1>3
  <2>2. QED
    BY <1>1, <1>3, <2>1 DEF Innermost
<1>8. <<Lhs(h, d.ix), at[1], Len(w)>> \in Derived(h, w)
  BY <1>3, <1>5, <1>6, <1>7, ProductionDerives
<1>9. Innermost(h, w, Out(Lhs(h, d.ix)), at[1])
  BY <1>8 DEF Innermost, Out
<1>10. Configuration(h, Out(Lhs(h, d.ix)), st, w)
  <2>1. Lhs(h, d.ix) \in Nonterminals(h)
    BY <1>3, ValidParts
  <2>2. QED
    BY <2>1 DEF Consistent, Configuration, States
<1>11. QED
  BY <1>4, <1>9, <1>10 DEF Consistent

LEMMA ReadReads ==
  ASSUME NEW h, Valid(h), NEW d \in TerminalDots(h), NEW st, NEW w, Consistent(h, d, st, w)
  PROVE  Consistent(h, Advanced(d), st, Append(w, TerminalId(h, NextSym(h, d))))
<1> DEFINE s == NextSym(h, d)
           a == TerminalId(h, s)
           v == Append(w, a)
<1>1. PICK at : BegunAt(h, d, st, w, at) /\ Innermost(h, w, d, at[1])
  BY DEF Consistent
<1>2. d \in Dots(h) /\ d.pos < Len(Rhs(h, d.ix)) /\ IsTerminal(h, s)
  BY DEF TerminalDots, NextSym
<1>3. /\ Advanced(d) \in Dots(h) /\ Advanced(d).k = "dot" /\ Advanced(d).ix = d.ix
      /\ Advanced(d).pos = d.pos + 1 /\ Advanced(d) = Dot(d.ix, d.pos + 1)
      /\ s \in 0..(h.nt + h.tm - 1) /\ s = Rhs(h, d.ix)[d.pos + 1]
  BY <1>2, AdvancedShape DEF Advanced
<1>4. /\ d.ix \in Prods(h) /\ d.k = "dot" /\ d = Dot(d.ix, d.pos)
      /\ Rhs(h, d.ix) \in Seq(Nat) /\ Len(Rhs(h, d.ix)) \in Nat /\ d.pos \in 0..Len(Rhs(h, d.ix))
  BY <1>2, RhsShape, DotShape
<1>5. a \in 0..(h.tm - 1)
  BY <1>2, <1>3, ValidShape DEF IsTerminal, TerminalId
<1>6. Configuration(h, d, st, w)
  BY DEF Consistent
<1>7. /\ w \in Seq(0..(h.tm - 1)) /\ v \in Seq(0..(h.tm - 1))
      /\ Len(w) \in Nat /\ Len(v) = Len(w) + 1 /\ v[Len(w) + 1] = a /\ Agree(w, v, Len(w))
      /\ \A A, b, e : <<A, b, e>> \in Derived(h, w) /\ e <= Len(w) => <<A, b, e>> \in Derived(h, v)
  <2>1. w \in Seq(0..(h.tm - 1))
    BY <1>6 DEF Configuration
  <2>2. QED
    BY <1>5, <2>1, LongerInput
<1>8. BegunAt(h, Advanced(d), st, v, at)
  <2>1. BegunAt(h, d, st, v, at)
    BY <1>1, <1>5, <1>6, BegunLonger
  <2>2. Phase(h, d) = Lhs(h, d.ix) /\ Phase(h, Advanced(d)) = Lhs(h, d.ix)
    BY <1>2, <1>3, DotPhase
  <2>3. Phase(h, Advanced(d)) = Phase(h, d)
    BY <2>2
  <2> HIDE DEF v
  <2>4. QED
    BY <2>1, <2>3, SameFrames
<1>9. at[1] \in Nat /\ at[1] <= Len(w)
  <2>1. Len(st) \in Nat /\ Len(st) >= 1
    BY <1>6 DEF Configuration
  <2>2. at \in [1..Len(st) -> 0..Len(w)] /\ 1 \in 1..Len(st)
    BY <1>1, <2>1 DEF BegunAt
  <2>3. QED
    BY <1>7, <2>2
<1> HIDE DEF s, a, v
<1>10. AllDerive(h, v, Derived(h, v), SubSeq(Rhs(h, d.ix), 1, d.pos), at[1], Len(w))
  <2> DEFINE front == SubSeq(Rhs(h, d.ix), 1, d.pos)
             from == at[1]
             K == Derived(h, w)
             M == Derived(h, v)
  <2>1. Len(front) \in Nat /\ Len(v) \in Nat
    BY <1>4, <1>7
  <2>2. AllDerive(h, w, K, front, from, Len(w))
    BY <1>1, <1>4 DEF Innermost
  <2>3. from \in Nat /\ from <= Len(w)
    BY <1>9
  <2>4. \A A, b, e : <<A, b, e>> \in K /\ e <= Len(w) => <<A, b, e>> \in M
    BY <1>7
  <2> HIDE DEF front, from, K, M
  <2>5. AllDerive(h, v, M, front, from, Len(w))
    BY <1>7, <2>1, <2>2, <2>3, <2>4, AllDeriveLocal
  <2>6. QED
    BY <2>5 DEF front, from, M
<1>11. Derives(h, v, Derived(h, v), Rhs(h, d.ix)[d.pos + 1], Len(w), Len(w) + 1)
  <2>1. IsTerminal(h, Rhs(h, d.ix)[d.pos + 1]) /\ v[Len(w) + 1] = TerminalId(h, Rhs(h, d.ix)[d.pos + 1])
    BY <1>2, <1>3, <1>7 DEF a
  <2>2. QED
    BY <2>1 DEF Derives
<1>12. AllDerive(h, v, Derived(h, v), SubSeq(Rhs(h, d.ix), 1, d.pos + 1), at[1], Len(w) + 1)
  <2>1. Len(w) + 1 \in Nat /\ Len(w) <= Len(w) + 1
    BY <1>7
  <2>2. QED
    BY <1>2, <1>7, <1>9, <1>10, <1>11, <2>1, DotPasses
<1>13. Innermost(h, v, Advanced(d), at[1])
  BY <1>3, <1>7, <1>12 DEF Innermost
<1>14. Configuration(h, Advanced(d), st, v)
  BY <1>3, <1>6, <1>7 DEF Configuration, States
<1>15. QED
  BY <1>8, <1>13, <1>14 DEF Consistent, v, a, s

\* A call: the caller is suspended and its nonterminal is due where the input
\* ends.
LEMMA CallReads ==
  ASSUME NEW h, Valid(h), NEW d \in CallDots(h), NEW st, NEW w, Consistent(h, d, st, w)
  PROVE  Consistent(h, In(NextSym(h, d)), <<Advanced(d)>> \o st, w)
<1> DEFINE A == NextSym(h, d)
           up == <<Advanced(d)>> \o st
           n == Len(st)
<1>1. PICK at : BegunAt(h, d, st, w, at) /\ Innermost(h, w, d, at[1])
  BY DEF Consistent
<1>2. /\ A \in Nonterminals(h) /\ d \in Dots(h) /\ Advanced(d) \in Dots(h)
      /\ d.pos < Len(Rhs(h, d.ix))
  BY CalleeShape
<1>3. /\ d.ix \in Prods(h) /\ d.k = "dot" /\ d = Dot(d.ix, d.pos)
      /\ Rhs(h, d.ix) \in Seq(Nat) /\ Len(Rhs(h, d.ix)) \in Nat /\ d.pos \in 0..Len(Rhs(h, d.ix))
  BY <1>2, RhsShape, DotShape
<1>4. /\ Advanced(d).ix = d.ix /\ Advanced(d).pos = d.pos + 1 /\ Advanced(d) = Dot(d.ix, d.pos + 1)
      /\ A = Rhs(h, d.ix)[d.pos + 1]
  BY <1>2, AdvancedShape DEF Advanced
<1>5. Configuration(h, d, st, w)
  BY DEF Consistent
<1>6. /\ st \in Seq(StackSyms(h)) /\ n \in Nat /\ n >= 1 /\ st[n] = Bot
      /\ \A k \in 1..(n - 1) : st[k] \in Dots(h)
      /\ w \in Seq(0..(h.tm - 1)) /\ Len(w) \in Nat
  BY <1>5 DEF Configuration
<1>7. /\ up \in Seq(StackSyms(h)) /\ Len(up) = n + 1 /\ up[1] = Advanced(d)
      /\ \A k \in 2..(n + 1) : up[k] = st[k - 1]
  <2>1. <<Advanced(d)>> \in Seq(StackSyms(h)) /\ Len(<<Advanced(d)>>) = 1
    BY <1>2 DEF StackSyms
  <2>2. up \in Seq(StackSyms(h))
    BY <1>6, <2>1, ConcatProperties
  <2>3. Len(up) = n + 1 /\ up[1] = Advanced(d) /\ \A k \in 2..(n + 1) : up[k] = st[k - 1]
    BY <1>6, <2>1
  <2>4. QED
    BY <2>2, <2>3
<1>8. at \in [1..n -> 0..Len(w)] /\ at[n] = 0
  BY <1>1 DEF BegunAt
<1> HIDE DEF A, up, n
<1> DEFINE at2 == [k \in 1..(n + 1) |-> IF k = 1 THEN Len(w) ELSE at[k - 1]]
<1>9. /\ at2 \in [1..(n + 1) -> 0..Len(w)] /\ at2[1] = Len(w)
      /\ \A k \in 2..(n + 1) : at2[k] = at[k - 1]
  <2>1. \A k \in 1..(n + 1) : k # 1 => k - 1 \in 1..n
    BY <1>6
  <2>2. Len(w) \in 0..Len(w)
    BY <1>6
  <2>3. 1 \in 1..(n + 1) /\ \A k \in 2..(n + 1) : k \in 1..(n + 1) /\ k # 1
    BY <1>6
  <2>4. QED
    BY <1>8, <2>1, <2>2, <2>3
<1> HIDE DEF at2
<1>10. /\ Parsing(h, In(A), up, 1) = A
       /\ \A k \in 2..(n + 1) : Parsing(h, In(A), up, k) = Parsing(h, d, st, k - 1)
  <2>1. Parsing(h, In(A), up, 1) = A
    BY PhaseOf DEF Parsing, FrameState
  <2>2. Parsing(h, In(A), up, 2) = Parsing(h, d, st, 1)
    <3>1. Phase(h, d) = Lhs(h, d.ix) /\ Phase(h, Advanced(d)) = Lhs(h, d.ix)
      BY <1>2, <1>4, DotPhase
    <3>2. FrameState(In(A), up, 2) = Advanced(d) /\ FrameState(d, st, 1) = d
      BY <1>7 DEF FrameState
    <3>3. QED
      BY <3>1, <3>2 DEF Parsing
  <2>3. ASSUME NEW k \in 3..(n + 1) PROVE Parsing(h, In(A), up, k) = Parsing(h, d, st, k - 1)
    <3>1. k - 1 \in 2..(n + 1) /\ k # 1 /\ k - 1 # 1
      BY <1>6
    <3>2. up[k - 1] = st[(k - 1) - 1]
      BY <1>7, <3>1
    <3>3. QED
      BY <3>1, <3>2 DEF Parsing, FrameState
  <2>4. \A k \in 2..(n + 1) : k = 2 \/ k \in 3..(n + 1)
    BY <1>6
  <2>5. QED
    BY <2>1, <2>2, <2>3, <2>4
<1>11. AllDerive(h, w, Derived(h, w), SubSeq(Rhs(h, d.ix), 1, d.pos), at[1], Len(w))
  BY <1>1, <1>3 DEF Innermost
<1>12. 1 \in 1..n /\ at[1] \in 0..Len(w)
  BY <1>6, <1>8
<1>13. <<A, Len(w)>> \in Due(h, w)
  <2> DEFINE b == <<Lhs(h, d.ix), at[1]>>
             f == <<A, Len(w)>>
             t == d.pos + 1
  <2>1. b \in Due(h, w)
    <3>1. <<Parsing(h, d, st, 1), at[1]>> \in Due(h, w)
      BY <1>1, <1>12 DEF BegunAt, n
    <3>2. Parsing(h, d, st, 1) = Lhs(h, d.ix)
      BY <1>2, DotPhase DEF Parsing, FrameState
    <3>3. QED
      BY <3>1, <3>2
  <2>2. b[1] = Lhs(h, d.ix) /\ b[2] = at[1] /\ f[1] = A /\ f[2] = Len(w)
    OBVIOUS
  <2>3. f \in Nonterminals(h) \X (b[2]..Len(w))
    BY <1>2, <1>6, <1>12 DEF A
  <2>4. t \in 1..Len(Rhs(h, d.ix)) /\ t - 1 = d.pos
    BY <1>2, <1>3
  <2>5. Rhs(h, d.ix)[t] = A
    BY <1>4
  <2> HIDE DEF b, f, t
  <2>6. AllDerive(h, w, Derived(h, w), SubSeq(Rhs(h, d.ix), 1, t - 1), b[2], f[2])
    BY <1>11, <2>2, <2>4
  <2>7. f \in DueWithin(h, w, Derived(h, w), b)
    BY <1>3, <2>2, <2>3, <2>4, <2>5, <2>6 DEF DueWithin
  <2>8. f \in OneDeeper(h, w, Derived(h, w), Due(h, w))
    BY <2>1, <2>7 DEF OneDeeper
  <2>9. h.nt \in Nat /\ h.start \in Nonterminals(h)
    BY ValidParts
  <2>10. OneDeeper(h, w, Derived(h, w), Due(h, w)) = Due(h, w)
    BY <1>6, <2>9, DueClosed
  <2>11. QED
    BY <2>8, <2>10 DEF f
<1>14. BegunAt(h, In(A), up, w, at2)
  <2>1. at2[Len(up)] = 0
    <3>1. n + 1 \in 2..(n + 1) /\ (n + 1) - 1 = n
      BY <1>6
    <3>2. QED
      BY <1>7, <1>8, <1>9, <3>1
  <2>2. ASSUME NEW k \in 1..(n + 1) PROVE <<Parsing(h, In(A), up, k), at2[k]>> \in Due(h, w)
    <3>1. CASE k = 1
      BY <1>9, <1>10, <1>13, <3>1
    <3>2. CASE k # 1
      <4>1. k \in 2..(n + 1) /\ k - 1 \in 1..n
        BY <1>6, <3>2
      <4>2. <<Parsing(h, d, st, k - 1), at[k - 1]>> \in Due(h, w)
        BY <1>1, <4>1 DEF BegunAt, n
      <4>3. QED
        BY <1>9, <1>10, <4>1, <4>2
    <3>3. QED
      BY <3>1, <3>2
  <2>3. ASSUME NEW k \in 1..n
        PROVE  at2[k + 1] <= at2[k] /\ Suspended(h, w, up[k], Parsing(h, In(A), up, k), at2[k + 1], at2[k])
    <3>1. CASE k = 1
      <4>1. 2 \in 2..(n + 1)
        BY <1>6
      <4>2. at2[2] = at[1] /\ at2[1] = Len(w)
        BY <1>9, <4>1
      <4>3. at[1] <= Len(w)
        BY <1>6, <1>12
      <4>4. Advanced(d).pos > 0 /\ Advanced(d).pos - 1 = d.pos
        BY <1>3, <1>4
      <4>5. Suspended(h, w, Advanced(d), A, at[1], Len(w))
        BY <1>4, <1>11, <4>4 DEF Suspended
      <4>6. QED
        BY <1>7, <1>10, <3>1, <4>2, <4>3, <4>5
    <3>2. CASE k # 1
      <4>1. k \in 2..(n + 1) /\ k + 1 \in 2..(n + 1) /\ k - 1 \in 1..(n - 1) /\ (k + 1) - 1 = (k - 1) + 1
        BY <1>6, <3>2
      <4> DEFINE j == k - 1
      <4>2. at[j + 1] <= at[j] /\ Suspended(h, w, st[j], Parsing(h, d, st, j), at[j + 1], at[j])
        BY <1>1, <4>1 DEF BegunAt, n
      <4>3. at2[k + 1] = at[j + 1] /\ at2[k] = at[j] /\ up[k] = st[j] /\ Parsing(h, In(A), up, k) = Parsing(h, d, st, j)
        BY <1>7, <1>9, <1>10, <4>1
      <4> HIDE DEF j
      <4>4. QED
        BY <4>2, <4>3
    <3>3. QED
      BY <3>1, <3>2
  <2>4. Len(up) - 1 = n
    BY <1>6, <1>7
  <2>5. QED
    BY <1>7, <1>9, <2>1, <2>2, <2>3, <2>4 DEF BegunAt
<1>15. Innermost(h, w, In(A), at2[1])
  BY <1>9 DEF Innermost, In
<1>16. Configuration(h, In(A), up, w)
  <2>1. In(A) \in States(h)
    BY <1>2 DEF States, A
  <2>2. Len(up) >= 1 /\ Len(up) - 1 = n /\ n + 1 \in 2..(n + 1) /\ (n + 1) - 1 = n
    BY <1>6, <1>7
  <2>3. up[Len(up)] = Bot
    BY <1>6, <1>7, <2>2
  <2>4. ASSUME NEW k \in 1..n PROVE up[k] \in Dots(h)
    <3>1. k = 1 \/ (k \in 2..(n + 1) /\ k - 1 \in 1..(n - 1))
      BY <1>6
    <3>2. QED
      BY <1>2, <1>6, <1>7, <3>1
  <2>5. QED
    BY <1>6, <1>7, <2>1, <2>2, <2>3, <2>4 DEF Configuration
<1>17. QED
  BY <1>14, <1>15, <1>16 DEF Consistent, A, up

LEMMA OutState ==
  ASSUME NEW h, NEW B, Out(B) \in States(h)
  PROVE  B \in Nonterminals(h)
<1>1. Out(B).k = "out" /\ Out(B).ix = B
  BY DEF Out
<1>2. Out(B) # Start /\ \A A : Out(B) # In(A)
  BY DEF Out, Start, In
<1>3. Out(B) \notin Dots(h)
  BY <1>1, DotShape
<1>4. PICK A \in Nonterminals(h) : Out(B) = Out(A)
  BY <1>2, <1>3 DEF States
<1>5. B = A
  BY <1>1, <1>4 DEF Out
<1>6. QED
  BY <1>5

\* A return: the dot of the caller, which waits for the nonterminal just
\* derived, is past it.
LEMMA ReturnReads ==
  ASSUME NEW h, Valid(h), NEW B, NEW st, NEW w, Consistent(h, Out(B), st, w), st[1] \in Dots(h)
  PROVE  Consistent(h, st[1], Tail(st), w)
<1> DEFINE r == st[1]
           down == Tail(st)
           n == Len(st)
<1>1. PICK at : BegunAt(h, Out(B), st, w, at) /\ Innermost(h, w, Out(B), at[1])
  BY DEF Consistent
<1>2. Configuration(h, Out(B), st, w)
  BY DEF Consistent
<1>3. /\ st \in Seq(StackSyms(h)) /\ n \in Nat /\ n >= 1 /\ st[n] = Bot
      /\ \A k \in 1..(n - 1) : st[k] \in Dots(h)
      /\ w \in Seq(0..(h.tm - 1)) /\ Len(w) \in Nat
  BY <1>2 DEF Configuration
<1>4. n > 1
  <2> HIDE DEF n
  <2>1. n # 1
    BY <1>3, BotIsNoDot
  <2>2. QED
    BY <1>3, <2>1
<1>5. /\ down \in Seq(StackSyms(h)) /\ Len(down) = n - 1
      /\ \A k \in 1..(n - 1) : down[k] = st[k + 1]
  <2>1. st # <<>>
    BY <1>3
  <2>2. QED
    BY <1>3, <2>1, HeadTailProperties
<1>6. at \in [1..n -> 0..Len(w)] /\ at[n] = 0
  BY <1>1 DEF BegunAt
<1>7. 1 \in 1..n /\ 2 \in 1..n /\ 1 \in 1..(n - 1) /\ 1 + 1 = 2
  BY <1>3, <1>4
<1>8. r.ix \in Prods(h) /\ Rhs(h, r.ix) \in Seq(Nat) /\ Len(Rhs(h, r.ix)) \in Nat /\ r.pos \in 0..Len(Rhs(h, r.ix)) /\ r.k = "dot"
  BY RhsShape
<1>9. /\ at[2] <= at[1] /\ r.pos > 0 /\ Rhs(h, r.ix)[r.pos] = B
      /\ AllDerive(h, w, Derived(h, w), SubSeq(Rhs(h, r.ix), 1, r.pos - 1), at[2], at[1])
  <2>1. at[1 + 1] <= at[1] /\ Suspended(h, w, st[1], Parsing(h, Out(B), st, 1), at[1 + 1], at[1])
    BY <1>1, <1>7 DEF BegunAt, n
  <2>2. Parsing(h, Out(B), st, 1) = B
    BY PhaseOf DEF Parsing, FrameState
  <2>3. QED
    BY <1>7, <2>1, <2>2 DEF Suspended
<1> HIDE DEF r, down, n
<1>10. at[1] \in Nat /\ at[2] \in Nat /\ at[1] <= Len(w)
  BY <1>3, <1>6, <1>7
<1>11. AllDerive(h, w, Derived(h, w), SubSeq(Rhs(h, r.ix), 1, r.pos), at[2], Len(w))
  <2> DEFINE d == Dot(r.ix, r.pos - 1)
             K == Derived(h, w)
             here == at[1]
             from == at[2]
  <2>1. d.ix = r.ix /\ d.pos = r.pos - 1 /\ d.pos + 1 = r.pos
    BY <1>8 DEF Dot
  <2>2. r.pos - 1 \in 0..Len(Rhs(h, r.ix)) /\ r.pos - 1 < Len(Rhs(h, r.ix))
    BY <1>8, <1>9
  <2>3. d \in Dots(h)
    BY <1>8, <2>2 DEF Dots
  <2>4. <<B, here, Len(w)>> \in K
    BY <1>1 DEF Innermost, Out
  <2>5. AllDerive(h, w, K, SubSeq(Rhs(h, d.ix), 1, d.pos), from, here)
    BY <1>9, <2>1
  <2>6. from \in Nat /\ here \in Nat /\ from <= here /\ here <= Len(w) /\ Rhs(h, d.ix)[d.pos + 1] = B
    BY <1>9, <1>10, <2>1
  <2>7. d.pos < Len(Rhs(h, d.ix))
    BY <2>1, <2>2
  <2>8. ~IsTerminal(h, B)
    <3>1. Out(B) \in States(h)
      BY <1>2 DEF Configuration
    <3>2. B \in Nonterminals(h)
      BY <3>1, OutState
    <3>3. h.nt \in Nat
      BY ValidParts
    <3>4. QED
      BY <3>2, <3>3 DEF Nonterminals, IsTerminal
  <2> HIDE DEF d, K, here, from
  <2>9. Derives(h, w, K, Rhs(h, d.ix)[d.pos + 1], here, Len(w))
    BY <2>4, <2>6, <2>8 DEF Derives
  <2>10. AllDerive(h, w, K, SubSeq(Rhs(h, d.ix), 1, d.pos + 1), from, Len(w))
    BY <1>3, <2>3, <2>5, <2>6, <2>7, <2>9, DotPasses
  <2>11. QED
    BY <2>1, <2>10 DEF K, from
<1> DEFINE at2 == [k \in 1..(n - 1) |-> at[k + 1]]
<1>12. at2 \in [1..(n - 1) -> 0..Len(w)] /\ \A k \in 1..(n - 1) : at2[k] = at[k + 1]
  <2>1. \A k \in 1..(n - 1) : k + 1 \in 1..n
    BY <1>3
  <2>2. QED
    BY <1>6, <2>1
<1> HIDE DEF at2
<1>13. \A k \in 1..(n - 1) : Parsing(h, r, down, k) = Parsing(h, Out(B), st, k + 1)
  <2> TAKE k \in 1..(n - 1)
  <2>1. CASE k = 1
    <3>1. FrameState(r, down, 1) = r /\ FrameState(Out(B), st, 2) = r
      BY DEF FrameState, r
    <3>2. QED
      BY <1>7, <2>1, <3>1 DEF Parsing
  <2>2. CASE k # 1
    <3>1. k - 1 \in 1..(n - 1) /\ k + 1 # 1 /\ (k + 1) - 1 = (k - 1) + 1
      BY <1>3, <2>2
    <3>2. down[k - 1] = st[(k - 1) + 1]
      BY <1>5, <3>1
    <3>3. FrameState(r, down, k) = down[k - 1] /\ FrameState(Out(B), st, k + 1) = st[(k + 1) - 1]
      BY <2>2, <3>1 DEF FrameState
    <3>4. QED
      BY <3>1, <3>2, <3>3 DEF Parsing
  <2>3. QED
    BY <2>1, <2>2
<1>14. BegunAt(h, r, down, w, at2)
  <2>1. at2[Len(down)] = 0
    <3>1. n - 1 \in 1..(n - 1) /\ (n - 1) + 1 = n
      BY <1>3, <1>4
    <3>2. QED
      BY <1>5, <1>6, <1>12, <3>1
  <2>2. ASSUME NEW k \in 1..(n - 1) PROVE <<Parsing(h, r, down, k), at2[k]>> \in Due(h, w)
    <3>1. k + 1 \in 1..n
      BY <1>3
    <3>2. <<Parsing(h, Out(B), st, k + 1), at[k + 1]>> \in Due(h, w)
      BY <1>1, <3>1 DEF BegunAt, n
    <3>3. QED
      BY <1>12, <1>13, <3>2
  <2>3. ASSUME NEW k \in 1..(n - 2)
        PROVE  at2[k + 1] <= at2[k] /\ Suspended(h, w, down[k], Parsing(h, r, down, k), at2[k + 1], at2[k])
    <3>1. k \in 1..(n - 1) /\ k + 1 \in 1..(n - 1)
      BY <1>3
    <3> DEFINE j == k + 1
    <3>2. at[j + 1] <= at[j] /\ Suspended(h, w, st[j], Parsing(h, Out(B), st, j), at[j + 1], at[j])
      BY <1>1, <3>1 DEF BegunAt, n
    <3>3. at2[k + 1] = at[j + 1] /\ at2[k] = at[j] /\ down[k] = st[j] /\ Parsing(h, r, down, k) = Parsing(h, Out(B), st, j)
      BY <1>5, <1>12, <1>13, <3>1
    <3> HIDE DEF j
    <3>4. QED
      BY <3>2, <3>3
  <2>4. Len(down) - 1 = n - 2
    BY <1>3, <1>5
  <2>5. QED
    BY <1>5, <1>12, <2>1, <2>2, <2>3, <2>4 DEF BegunAt
<1>15. Innermost(h, w, r, at2[1])
  <2>1. at2[1] = at[2]
    BY <1>7, <1>12
  <2>2. QED
    BY <1>8, <1>11, <2>1 DEF Innermost
<1>16. Configuration(h, r, down, w)
  <2>1. r \in States(h)
    BY DEF States, r
  <2>2. Len(down) >= 1 /\ n - 1 \in 1..(n - 1) /\ (n - 1) + 1 = n
    BY <1>3, <1>4, <1>5
  <2>3. down[Len(down)] = Bot
    BY <1>3, <1>5, <2>2
  <2>4. ASSUME NEW k \in 1..(Len(down) - 1) PROVE down[k] \in Dots(h)
    <3>1. k \in 1..(n - 1) /\ k + 1 \in 1..(n - 1)
      BY <1>3, <1>5
    <3>2. QED
      BY <1>3, <1>5, <3>1
  <2>5. QED
    BY <1>3, <1>5, <2>1, <2>2, <2>3, <2>4 DEF Configuration
<1>17. QED
  BY <1>14, <1>15, <1>16 DEF Consistent, r, down

LEMMA PushTwo ==
  ASSUME NEW S, NEW x, NEW st \in Seq(S), st # <<>>
  PROVE  <<x, Head(st)>> \o Tail(st) = <<x>> \o st
<1>1. /\ <<Head(st)>> \o Tail(st) = st /\ Head(st) = st[1] /\ Len(st) \in Nat \ {0}
      /\ Tail(st) \in Seq(S) /\ Len(Tail(st)) = Len(st) - 1
      /\ \A i \in 1..(Len(st) - 1) : Tail(st)[i] = st[i + 1]
  BY HeadTailProperties
<1>2. QED
  BY <1>1

\* Every move keeps a configuration of the grammar.
LEMMA MoveReads ==
  ASSUME NEW h, Valid(h), NEW s, NEW st, NEW w, Consistent(h, s, st, w),
         NEW d, Moves(h, <<s, st, w>>, d)
  PROVE  Consistent(h, d[1], d[2], d[3])
<1>1. PICK t \in Delta(h) :
        /\ st # <<>> /\ t.q = s /\ t.top = Head(st)
        /\ d = <<t.next_q, t.push \o Tail(st), IF t.a = Eps(h) THEN w ELSE Append(w, t.a)>>
  BY DEF Moves
<1>2. st \in Seq(StackSyms(h)) /\ <<Head(st)>> \o Tail(st) = st /\ Head(st) = st[1]
  <2>1. st \in Seq(StackSyms(h))
    BY DEF Consistent, Configuration
  <2>2. QED
    BY <1>1, <2>1, TopKept
<1>3. CASE t \in StartMoves(h)
  <2>1. t.q = Start /\ t.a = Eps(h) /\ t.next_q = In(h.start) /\ t.push = <<t.top>>
    BY <1>3 DEF StartMoves, Move
  <2>2. d = <<In(h.start), st, w>>
    BY <1>1, <1>2, <2>1
  <2>3. Consistent(h, In(h.start), st, w)
    BY <1>1, <2>1, BeginReads
  <2>4. QED
    BY <2>2, <2>3
<1>4. CASE t \in ChoiceMoves(h)
  <2>1. PICK p \in Prods(h) :
          t.q = In(Lhs(h, p)) /\ t.a = Eps(h) /\ t.next_q = Dot(p, 0) /\ t.push = <<t.top>>
    BY <1>4 DEF ChoiceMoves, Move
  <2>2. d = <<Dot(p, 0), st, w>>
    BY <1>1, <1>2, <2>1
  <2>3. Consistent(h, Dot(p, 0), st, w)
    BY <1>1, <2>1, ChooseReads
  <2>4. QED
    BY <2>2, <2>3
<1>5. CASE t \in TerminalMoves(h)
  <2>1. PICK e \in TerminalDots(h) :
          /\ t.q = e /\ t.a = TerminalId(h, NextSym(h, e)) /\ t.next_q = Advanced(e)
          /\ t.push = <<t.top>>
    BY <1>5 DEF TerminalMoves, Move
  <2>2. t.a # Eps(h)
    <3>1. e \in Dots(h) /\ e.pos < Len(Rhs(h, e.ix)) /\ IsTerminal(h, NextSym(h, e))
      BY DEF TerminalDots, NextSym
    <3>2. NextSym(h, e) \in 0..(h.nt + h.tm - 1) /\ h.nt \in Nat /\ h.tm \in Nat
      BY <3>1, AdvancedShape, ValidShape
    <3>3. QED
      BY <2>1, <3>2 DEF TerminalId, Eps
  <2>3. d = <<Advanced(e), st, Append(w, TerminalId(h, NextSym(h, e)))>>
    BY <1>1, <1>2, <2>1, <2>2
  <2>4. Consistent(h, Advanced(e), st, Append(w, TerminalId(h, NextSym(h, e))))
    BY <1>1, <2>1, ReadReads
  <2>5. QED
    BY <2>3, <2>4
<1>6. CASE t \in CallMoves(h)
  <2>1. PICK e \in CallDots(h) :
          /\ t.q = e /\ t.a = Eps(h) /\ t.next_q = In(NextSym(h, e))
          /\ t.push = <<Advanced(e), t.top>>
    BY <1>6 DEF CallMoves, Move
  <2>2. <<Advanced(e), t.top>> \o Tail(st) = <<Advanced(e)>> \o st
    BY <1>1, <1>2, PushTwo
  <2>3. d = <<In(NextSym(h, e)), <<Advanced(e)>> \o st, w>>
    BY <1>1, <2>1, <2>2
  <2>4. Consistent(h, In(NextSym(h, e)), <<Advanced(e)>> \o st, w)
    BY <1>1, <2>1, CallReads
  <2>5. QED
    BY <2>3, <2>4
<1>7. CASE t \in ExitMoves(h)
  <2>1. PICK e \in FinalDots(h) :
          t.q = e /\ t.a = Eps(h) /\ t.next_q = Out(Lhs(h, e.ix)) /\ t.push = <<t.top>>
    BY <1>7 DEF ExitMoves, Move
  <2>2. d = <<Out(Lhs(h, e.ix)), st, w>>
    BY <1>1, <1>2, <2>1
  <2>3. Consistent(h, Out(Lhs(h, e.ix)), st, w)
    BY <1>1, <2>1, ExitReads
  <2>4. QED
    BY <2>2, <2>3
<1>8. CASE t \in ReturnMoves(h)
  <2>1. PICK B \in Nonterminals(h), r \in Dots(h) :
          t.q = Out(B) /\ t.a = Eps(h) /\ t.top = r /\ t.next_q = r /\ t.push = <<>>
    BY <1>8 DEF ReturnMoves, Move
  <2>2. st[1] = r /\ <<>> \o Tail(st) = Tail(st)
    <3>1. Tail(st) \in Seq(StackSyms(h))
      BY <1>1, <1>2, HeadTailProperties
    <3>2. QED
      BY <1>1, <1>2, <2>1, <3>1, ConcatEmptySeq
  <2>3. d = <<st[1], Tail(st), w>>
    BY <1>1, <2>1, <2>2
  <2>4. Consistent(h, st[1], Tail(st), w)
    BY <1>1, <2>1, <2>2, ReturnReads
  <2>5. QED
    BY <2>3, <2>4
<1>9. QED
  BY <1>3, <1>4, <1>5, <1>6, <1>7, <1>8 DEF Delta

LEMMA StartReads ==
  ASSUME NEW h, Valid(h)
  PROVE  Consistent(h, Start, <<Bot>>, <<>>)
<1> DEFINE at == [k \in 1..1 |-> 0]
<1>1. Len(<<Bot>>) = 1 /\ <<Bot>>[1] = Bot /\ Len(<<>>) = 0 /\ 1 - 1 = 0 /\ 1..0 = {}
  OBVIOUS
<1>2. <<>> \in Seq(0..(h.tm - 1)) /\ <<Bot>> \in Seq(StackSyms(h)) /\ Start \in States(h)
  BY DEF StackSyms, States
<1>3. Configuration(h, Start, <<Bot>>, <<>>)
  BY <1>1, <1>2 DEF Configuration
<1>4. at \in [1..1 -> 0..0] /\ at[1] = 0
  OBVIOUS
<1> HIDE DEF at
<1>5. Parsing(h, Start, <<Bot>>, 1) = h.start
  BY PhaseOf DEF Parsing, FrameState
<1>6. <<h.start, 0>> \in Due(h, <<>>)
  BY <1>2, DueStarts
<1>7. BegunAt(h, Start, <<Bot>>, <<>>, at)
  BY <1>1, <1>4, <1>5, <1>6 DEF BegunAt
<1>8. Innermost(h, <<>>, Start, at[1])
  BY <1>1, <1>4 DEF Innermost, Start
<1>9. QED
  BY <1>3, <1>7, <1>8 DEF Consistent

LEMMA StateKinds ==
  ASSUME NEW h, NEW s \in States(h)
  PROVE  /\ s.k \in {"start", "in", "out", "dot"}
         /\ s.k = "dot" => s \in Dots(h)
<1>1. CASE s \in Dots(h)
  BY <1>1, DotShape
<1>2. CASE s = Start
  BY <1>2 DEF Start
<1>3. CASE \E A : s = In(A)
  BY <1>3 DEF In
<1>4. CASE \E A : s = Out(A)
  BY <1>4 DEF Out
<1>5. QED
  BY <1>1, <1>2, <1>3, <1>4 DEF States

\* A production that is due spans the rest of the input as far as its dot.
LEMMA ViableAt ==
  ASSUME NEW h, NEW w, NEW p \in Prods(h), NEW t \in 0..Len(Rhs(h, p)), NEW from,
         <<Lhs(h, p), from>> \in Due(h, w),
         AllDerive(h, w, Derived(h, w), SubSeq(Rhs(h, p), 1, t), from, Len(w))
  PROVE  Viable(h, w)
<1> DEFINE d == <<Lhs(h, p), from>>
<1>1. d \in Due(h, w) /\ d[1] = Lhs(h, p) /\ d[2] = from
  OBVIOUS
<1> HIDE DEF d
<1>2. AllDerive(h, w, Derived(h, w), SubSeq(Rhs(h, p), 1, t), d[2], Len(w))
  BY <1>1
<1>3. QED
  BY <1>1, <1>2 DEF Viable

\* The input of a configuration of the grammar is the beginning of a word.
LEMMA ConsistentViable ==
  ASSUME NEW h, Valid(h), NEW s, NEW st, NEW w, Consistent(h, s, st, w), w # <<>>
  PROVE  Viable(h, w)
<1>1. Configuration(h, s, st, w)
  BY DEF Consistent
<1>2. PICK at : BegunAt(h, s, st, w, at) /\ Innermost(h, w, s, at[1])
  BY DEF Consistent
<1>3. /\ s \in States(h) /\ w \in Seq(0..(h.tm - 1)) /\ Len(w) \in Nat /\ Len(w) # 0
      /\ Len(st) \in Nat /\ Len(st) >= 1
      /\ \A k \in 1..(Len(st) - 1) : st[k] \in Dots(h)
  BY <1>1 DEF Configuration
<1>4. 1 \in 1..Len(st) /\ <<Phase(h, s), at[1]>> \in Due(h, w)
  <2>1. 1 \in 1..Len(st)
    BY <1>3
  <2>2. <<Parsing(h, s, st, 1), at[1]>> \in Due(h, w)
    BY <1>2, <2>1 DEF BegunAt
  <2>3. Parsing(h, s, st, 1) = Phase(h, s)
    BY DEF Parsing, FrameState
  <2>4. QED
    BY <2>1, <2>2, <2>3
<1>5. CASE s.k = "dot"
  <2>1. s \in Dots(h)
    BY <1>3, <1>5, StateKinds
  <2>2. s.ix \in Prods(h) /\ s.pos \in 0..Len(Rhs(h, s.ix)) /\ Phase(h, s) = Lhs(h, s.ix)
    BY <2>1, DotShape, DotPhase
  <2>3. <<Lhs(h, s.ix), at[1]>> \in Due(h, w)
    BY <1>4, <2>2
  <2>4. AllDerive(h, w, Derived(h, w), SubSeq(Rhs(h, s.ix), 1, s.pos), at[1], Len(w))
    BY <1>2, <1>5 DEF Innermost
  <2>5. QED
    BY <2>2, <2>3, <2>4, ViableAt
<1>6. CASE s.k = "out"
  <2>1. <<s.ix, at[1], Len(w)>> \in Derived(h, w)
    BY <1>2, <1>6 DEF Innermost
  <2>2. PICK p \in Prods(h) : Lhs(h, p) = s.ix /\ AllDerive(h, w, Derived(h, w), Rhs(h, p), at[1], Len(w))
    BY <1>3, <2>1, DerivedParts
  <2>3. Phase(h, s) = s.ix
    BY <1>6 DEF Phase
  <2>4. Rhs(h, p) \in Seq(Nat)
    BY ValidParts
  <2>5. Len(Rhs(h, p)) \in 0..Len(Rhs(h, p)) /\ SubSeq(Rhs(h, p), 1, Len(Rhs(h, p))) = Rhs(h, p)
    BY <2>4
  <2>6. <<Lhs(h, p), at[1]>> \in Due(h, w)
    BY <1>4, <2>2, <2>3
  <2>7. AllDerive(h, w, Derived(h, w), SubSeq(Rhs(h, p), 1, Len(Rhs(h, p))), at[1], Len(w))
    BY <2>2, <2>5
  <2>8. QED
    BY <2>5, <2>6, <2>7, ViableAt
<1>7. CASE s.k \in {"start", "in"}
  <2>1. at[1] = Len(w)
    BY <1>2, <1>7 DEF Innermost
  <2>2. Len(st) # 1
    <3>1. at[Len(st)] = 0
      BY <1>2 DEF BegunAt
    <3>2. QED
      BY <1>3, <2>1, <3>1
  <2>3. 1 \in 1..(Len(st) - 1) /\ 2 \in 1..Len(st) /\ 1 + 1 = 2
    <3> DEFINE n == Len(st)
    <3>1. n \in Nat /\ n >= 1 /\ n # 1
      BY <1>3, <2>2
    <3> HIDE DEF n
    <3>2. 1 \in 1..(n - 1) /\ 2 \in 1..n /\ 1 + 1 = 2
      BY <3>1
    <3>3. QED
      BY <3>2 DEF n
  <2> DEFINE r == st[1]
  <2>4. r \in Dots(h)
    BY <1>3, <2>3
  <2>5. /\ r.ix \in Prods(h) /\ r.pos \in 0..Len(Rhs(h, r.ix)) /\ Phase(h, r) = Lhs(h, r.ix)
        /\ Len(Rhs(h, r.ix)) \in Nat
    BY <2>4, RhsShape, DotPhase
  <2>6. Suspended(h, w, r, Parsing(h, s, st, 1), at[2], at[1])
    BY <1>2, <2>3 DEF BegunAt
  <2>7. r.pos > 0 /\ AllDerive(h, w, Derived(h, w), SubSeq(Rhs(h, r.ix), 1, r.pos - 1), at[2], Len(w))
    BY <2>1, <2>6 DEF Suspended
  <2>8. <<Lhs(h, r.ix), at[2]>> \in Due(h, w)
    <3>1. <<Parsing(h, s, st, 2), at[2]>> \in Due(h, w)
      BY <1>2, <2>3 DEF BegunAt
    <3>2. Parsing(h, s, st, 2) = Phase(h, r)
      BY DEF Parsing, FrameState
    <3>3. QED
      BY <2>5, <3>1, <3>2
  <2> HIDE DEF r
  <2>9. r.pos - 1 \in 0..Len(Rhs(h, r.ix))
    BY <2>5, <2>7
  <2>10. QED
    BY <2>5, <2>7, <2>8, <2>9, ViableAt
<1>8. QED
  BY <1>3, <1>5, <1>6, <1>7, StateKinds

\* The accepting configurations have read words.
LEMMA ConsistentWord ==
  ASSUME NEW h, NEW w, Consistent(h, Out(h.start), <<Bot>>, w)
  PROVE  InLanguage(h, w)
<1>1. PICK at : BegunAt(h, Out(h.start), <<Bot>>, w, at) /\ Innermost(h, w, Out(h.start), at[1])
  BY DEF Consistent
<1>2. at[1] = 0
  <2>1. Len(<<Bot>>) = 1
    OBVIOUS
  <2>2. QED
    BY <1>1, <2>1 DEF BegunAt
<1>3. Out(h.start).k = "out" /\ Out(h.start).ix = h.start
  BY DEF Out
<1>4. QED
  BY <1>1, <1>2, <1>3 DEF Innermost, InLanguage

\* A step of the machine is a move.
LEMMA NextMoves ==
  ASSUME Next
  PROVE  Moves(g, <<q, stack, consumed>>, <<q', stack', consumed'>>) /\ g' = g
<1>1. PICK t \in Delta(g) : Take(t)
  BY DEF Next, Begin, Choose, Read, Call, Exit, Return, Fire, Delta
<1> DEFINE c == <<q, stack, consumed>>
           d == <<q', stack', consumed'>>
<1>2. c[1] = q /\ c[2] = stack /\ c[3] = consumed
  OBVIOUS
<1>3. d = <<t.next_q, t.push \o Tail(c[2]), IF t.a = Eps(g) THEN c[3] ELSE Append(c[3], t.a)>>
  BY <1>1, <1>2 DEF Take, Replaced
<1>4. c[2] # <<>> /\ t.q = c[1] /\ t.top = Head(c[2])
  BY <1>1, <1>2 DEF Take
<1> HIDE DEF c, d
<1>5. Moves(g, c, d)
  BY <1>3, <1>4 DEF Moves
<1>6. g' = g
  BY <1>1 DEF Take
<1>7. QED
  BY <1>5, <1>6 DEF c, d

\* Whatever a run of the compiled machine has read is the beginning of a word
\* of the grammar, and a whole word when the machine accepts: by derivation
\* trees, for every valid grammar and every length of stack and input.
THEOREM RunsReadTheGrammar == Spec => []ReadsOfGrammar
<1> DEFINE Reading == Consistent(g, q, stack, consumed)
<1>1. Init => Reading
  <2> SUFFICES ASSUME Init PROVE Reading
    OBVIOUS
  <2>1. Valid(g) /\ q = Start /\ stack = <<Bot>> /\ consumed = <<>>
    BY GrammarsAssumption DEF Init
  <2>2. QED
    BY <2>1, StartReads
<1>2. Valid(g) /\ Reading /\ [Next]_vars => Reading'
  <2> SUFFICES ASSUME Valid(g), Reading, [Next]_vars PROVE Reading'
    OBVIOUS
  <2>1. CASE Next
    <3>1. Moves(g, <<q, stack, consumed>>, <<q', stack', consumed'>>) /\ g' = g
      BY <2>1, NextMoves
    <3>2. Consistent(g, q', stack', consumed')
      <4> DEFINE d == <<q', stack', consumed'>>
      <4>1. Consistent(g, d[1], d[2], d[3])
        <5> HIDE DEF d
        <5>1. Moves(g, <<q, stack, consumed>>, d)
          BY <3>1 DEF d
        <5>2. QED
          BY <5>1, MoveReads
      <4>2. d[1] = q' /\ d[2] = stack' /\ d[3] = consumed'
        OBVIOUS
      <4> HIDE DEF d
      <4>3. QED
        BY <4>1, <4>2
    <3>3. QED
      BY <3>1, <3>2
  <2>2. CASE UNCHANGED vars
    BY <2>2 DEF vars
  <2>3. QED
    BY <2>1, <2>2
<1>3. Valid(g) /\ Reading => ReadsOfGrammar
  <2> SUFFICES ASSUME Valid(g), Reading PROVE ReadsOfGrammar
    OBVIOUS
  <2>1. consumed # <<>> => Viable(g, consumed)
    BY ConsistentViable
  <2>2. Accepting => InLanguage(g, consumed)
    BY ConsistentWord DEF Accepting
  <2>3. QED
    BY <2>1, <2>2 DEF ReadsOfGrammar
<1>4. TypeOK => Valid(g)
  BY GrammarIsValid
<1>5. Spec => []TypeOK
  BY TypeCorrect
<1> HIDE DEF Reading
<1>6. QED
  BY <1>1, <1>2, <1>3, <1>4, <1>5, PTL DEF Spec
----------------------------------------------------------------------------
(* The language of the machine.  A configuration is reached by finitely    *)
(* many moves, whose stacks and inputs nothing bounds.                     *)

IsRun(h, run, n, c, d) ==
  /\ DOMAIN run = 0..n /\ run[0] = c /\ run[n] = d
  /\ \A k \in 0..(n - 1) : Moves(h, run[k], run[k + 1])

Reaches(h, c, d) == \E n \in Nat : \E run : IsRun(h, run, n, c, d)

Initially == <<Start, <<Bot>>, <<>>>>
Accepted(h, w) == Reaches(h, Initially, <<Out(h.start), <<Bot>>, w>>)
Readable(h, w) == \E s, st : Reaches(h, Initially, <<s, st, w>>)

LEMMA ReachesItself ==
  ASSUME NEW h, NEW c
  PROVE  Reaches(h, c, c)
<1> DEFINE run == [k \in 0..0 |-> c]
<1>1. DOMAIN run = 0..0 /\ run[0] = c /\ 0 \in Nat
  OBVIOUS
<1> HIDE DEF run
<1>2. \A k \in 0..(0 - 1) : Moves(h, run[k], run[k + 1])
  <2>1. 0..(0 - 1) = {}
    OBVIOUS
  <2>2. QED
    BY <2>1
<1>3. QED
  BY <1>1, <1>2 DEF Reaches, IsRun

\* One more move.
LEMMA ReachesOn ==
  ASSUME NEW h, NEW c, NEW d, NEW e, Reaches(h, c, d), Moves(h, d, e)
  PROVE  Reaches(h, c, e)
<1>1. PICK n \in Nat : \E run : IsRun(h, run, n, c, d)
  BY DEF Reaches
<1>2. PICK run : IsRun(h, run, n, c, d)
  BY <1>1
<1>3. /\ DOMAIN run = 0..n /\ run[0] = c /\ run[n] = d
      /\ \A k \in 0..(n - 1) : Moves(h, run[k], run[k + 1])
  BY <1>2 DEF IsRun
<1> DEFINE more == [k \in 0..(n + 1) |-> IF k = n + 1 THEN e ELSE run[k]]
<1>4. DOMAIN more = 0..(n + 1) /\ more[n + 1] = e /\ \A k \in 0..n : more[k] = run[k]
  <2>1. n + 1 \in 0..(n + 1) /\ \A k \in 0..n : k \in 0..(n + 1) /\ k # n + 1
    OBVIOUS
  <2>2. QED
    BY <2>1
<1> HIDE DEF more
<1>5. ASSUME NEW k \in 0..n PROVE Moves(h, more[k], more[k + 1])
  <2>1. CASE k = n
    BY <1>3, <1>4, <2>1
  <2>2. CASE k # n
    <3>1. k \in 0..(n - 1) /\ k + 1 \in 0..n
      BY <2>2
    <3>2. QED
      BY <1>3, <1>4, <3>1
  <2>3. QED
    BY <2>1, <2>2
<1>6. n + 1 \in Nat /\ (n + 1) - 1 = n /\ 0 \in 0..n
  OBVIOUS
<1>7. DOMAIN more = 0..(n + 1) /\ more[0] = c /\ more[n + 1] = e
      /\ \A k \in 0..((n + 1) - 1) : Moves(h, more[k], more[k + 1])
  BY <1>3, <1>4, <1>5, <1>6
<1>8. QED
  BY <1>6, <1>7 DEF Reaches, IsRun

\* What every move keeps is kept: an induction over the run.
LEMMA ReachesKeeps ==
  ASSUME NEW h, NEW c, NEW d, Reaches(h, c, d), NEW P, c \in P,
         \A x, y : x \in P /\ Moves(h, x, y) => y \in P
  PROVE  d \in P
<1>1. PICK n \in Nat : \E run : IsRun(h, run, n, c, d)
  BY DEF Reaches
<1>2. PICK run : IsRun(h, run, n, c, d)
  BY <1>1
<1>3. /\ DOMAIN run = 0..n /\ run[0] = c /\ run[n] = d
      /\ \A k \in 0..(n - 1) : Moves(h, run[k], run[k + 1])
  BY <1>2 DEF IsRun
<1> DEFINE T == {k \in Nat : k <= n => run[k] \in P}
<1>4. 0 \in T
  BY <1>3
<1>5. ASSUME NEW k \in Nat, k \in T PROVE k + 1 \in T
  <2> SUFFICES ASSUME k + 1 <= n PROVE run[k + 1] \in P
    OBVIOUS
  <2>1. k \in 0..(n - 1) /\ k <= n
    OBVIOUS
  <2>2. QED
    BY <1>3, <1>5, <2>1
<1> HIDE DEF T
<1>6. n \in T
  BY <1>4, <1>5, Induction
<1>7. QED
  BY <1>3, <1>6 DEF T

LEMMA ReachesFurther ==
  ASSUME NEW h, NEW c, NEW d, NEW e, Reaches(h, c, d), Reaches(h, d, e)
  PROVE  Reaches(h, c, e)
<1>1. PICK n \in Nat : \E run : IsRun(h, run, n, d, e)
  BY DEF Reaches
<1>2. PICK run : IsRun(h, run, n, d, e)
  BY <1>1
<1>3. /\ DOMAIN run = 0..n /\ run[0] = d /\ run[n] = e
      /\ \A k \in 0..(n - 1) : Moves(h, run[k], run[k + 1])
  BY <1>2 DEF IsRun
<1> DEFINE T == {k \in Nat : k <= n => Reaches(h, c, run[k])}
<1>4. 0 \in T
  BY <1>3
<1>5. ASSUME NEW k \in Nat, k \in T PROVE k + 1 \in T
  <2> SUFFICES ASSUME k + 1 <= n PROVE Reaches(h, c, run[k + 1])
    OBVIOUS
  <2>1. k \in 0..(n - 1) /\ k <= n
    OBVIOUS
  <2>2. Reaches(h, c, run[k]) /\ Moves(h, run[k], run[k + 1])
    BY <1>3, <1>5, <2>1
  <2>3. QED
    BY <2>2, ReachesOn
<1> HIDE DEF T
<1>6. n \in T
  BY <1>4, <1>5, Induction
<1>7. QED
  BY <1>3, <1>6 DEF T

LEMMA ReachesByMove ==
  ASSUME NEW h, NEW c, NEW d, Moves(h, c, d)
  PROVE  Reaches(h, c, d)
BY ReachesItself, ReachesOn

\* The moves of each family, on any stack with the right top.
LEMMA TableMoves ==
  ASSUME NEW h, NEW t \in Delta(h), NEW st, st # <<>>, t.top = Head(st), NEW w
  PROVE  Moves(h, <<t.q, st, w>>,
               <<t.next_q, t.push \o Tail(st), IF t.a = Eps(h) THEN w ELSE Append(w, t.a)>>)
BY DEF Moves

LEMMA KeptMoves ==
  ASSUME NEW h, NEW s, NEW a, NEW top, NEW to, Move(s, a, top, to, <<top>>) \in Delta(h),
         NEW st \in Seq(StackSyms(h)), st # <<>>, top = Head(st), NEW w
  PROVE  Moves(h, <<s, st, w>>, <<to, st, IF a = Eps(h) THEN w ELSE Append(w, a)>>)
<1> DEFINE t == Move(s, a, top, to, <<top>>)
<1>1. t.q = s /\ t.a = a /\ t.top = top /\ t.next_q = to /\ t.push = <<top>>
  BY DEF Move
<1> HIDE DEF t
<1>2. t.push \o Tail(st) = st
  BY <1>1, TopKept
<1>3. t \in Delta(h)
  BY DEF t
<1>4. Moves(h, <<t.q, st, w>>,
            <<t.next_q, t.push \o Tail(st), IF t.a = Eps(h) THEN w ELSE Append(w, t.a)>>)
  BY <1>1, <1>3, TableMoves
<1>5. QED
  BY <1>1, <1>2, <1>4

LEMMA BeginsRun ==
  ASSUME NEW h, NEW w
  PROVE  Moves(h, <<Start, <<Bot>>, w>>, <<In(h.start), <<Bot>>, w>>)
<1>1. Move(Start, Eps(h), Bot, In(h.start), <<Bot>>) \in Delta(h)
  BY DEF Delta, StartMoves
<1>2. <<Bot>> \in Seq(StackSyms(h)) /\ <<Bot>> # <<>> /\ Bot = Head(<<Bot>>)
  BY DEF StackSyms
<1>3. QED
  BY <1>1, <1>2, KeptMoves

LEMMA Chooses ==
  ASSUME NEW h, NEW p \in Prods(h), NEW st \in Seq(StackSyms(h)), st # <<>>, NEW w
  PROVE  Moves(h, <<In(Lhs(h, p)), st, w>>, <<Dot(p, 0), st, w>>)
<1> DEFINE top == Head(st)
<1>1. top \in StackSyms(h)
  BY TopKept
<1> HIDE DEF top
<1>2. Move(In(Lhs(h, p)), Eps(h), top, Dot(p, 0), <<top>>) \in ChoiceMoves(h)
  BY <1>1 DEF ChoiceMoves
<1>3. Move(In(Lhs(h, p)), Eps(h), top, Dot(p, 0), <<top>>) \in Delta(h)
  BY <1>2 DEF Delta
<1>4. QED
  BY <1>3, KeptMoves DEF top

LEMMA Exits ==
  ASSUME NEW h, NEW d \in FinalDots(h), NEW st \in Seq(StackSyms(h)), st # <<>>, NEW w
  PROVE  Moves(h, <<d, st, w>>, <<Out(Lhs(h, d.ix)), st, w>>)
<1> DEFINE top == Head(st)
<1>1. top \in StackSyms(h)
  BY TopKept
<1> HIDE DEF top
<1>2. Move(d, Eps(h), top, Out(Lhs(h, d.ix)), <<top>>) \in ExitMoves(h)
  BY <1>1 DEF ExitMoves
<1>3. Move(d, Eps(h), top, Out(Lhs(h, d.ix)), <<top>>) \in Delta(h)
  BY <1>2 DEF Delta
<1>4. QED
  BY <1>3, KeptMoves DEF top

LEMMA Reads ==
  ASSUME NEW h, Valid(h), NEW d \in TerminalDots(h), NEW st \in Seq(StackSyms(h)), st # <<>>, NEW w
  PROVE  Moves(h, <<d, st, w>>, <<Advanced(d), st, Append(w, TerminalId(h, NextSym(h, d)))>>)
<1> DEFINE top == Head(st)
           a == TerminalId(h, NextSym(h, d))
<1>1. top \in StackSyms(h)
  BY TopKept
<1>2. a # Eps(h)
  <2>1. d \in Dots(h) /\ d.pos < Len(Rhs(h, d.ix)) /\ IsTerminal(h, NextSym(h, d))
    BY DEF TerminalDots, NextSym
  <2>2. NextSym(h, d) \in 0..(h.nt + h.tm - 1) /\ h.nt \in Nat /\ h.tm \in Nat
    BY <2>1, AdvancedShape, ValidShape
  <2>3. QED
    BY <2>2 DEF TerminalId, Eps
<1> HIDE DEF top
<1>3. Move(d, a, top, Advanced(d), <<top>>) \in TerminalMoves(h)
  BY <1>1 DEF TerminalMoves
<1> HIDE DEF a
<1>4. Move(d, a, top, Advanced(d), <<top>>) \in Delta(h)
  BY <1>3 DEF Delta
<1>5. Moves(h, <<d, st, w>>, <<Advanced(d), st, IF a = Eps(h) THEN w ELSE Append(w, a)>>)
  BY <1>4, KeptMoves DEF top
<1>6. QED
  BY <1>2, <1>5 DEF a

LEMMA Calls ==
  ASSUME NEW h, NEW d \in CallDots(h), NEW st \in Seq(StackSyms(h)), st # <<>>, NEW w
  PROVE  Moves(h, <<d, st, w>>, <<In(NextSym(h, d)), <<Advanced(d)>> \o st, w>>)
<1> DEFINE top == Head(st)
           t == Move(d, Eps(h), top, In(NextSym(h, d)), <<Advanced(d), top>>)
<1>1. top \in StackSyms(h)
  BY TopKept
<1>2. <<Advanced(d), top>> \o Tail(st) = <<Advanced(d)>> \o st
  BY PushTwo
<1> HIDE DEF top
<1>3. t \in CallMoves(h)
  BY <1>1 DEF CallMoves
<1>4. /\ t.q = d /\ t.a = Eps(h) /\ t.top = top /\ t.next_q = In(NextSym(h, d))
      /\ t.push = <<Advanced(d), top>>
  BY DEF Move
<1> HIDE DEF t
<1>5. t \in Delta(h)
  BY <1>3 DEF Delta
<1>6. Moves(h, <<t.q, st, w>>,
            <<t.next_q, t.push \o Tail(st), IF t.a = Eps(h) THEN w ELSE Append(w, t.a)>>)
  BY <1>4, <1>5, TableMoves DEF top
<1>7. QED
  BY <1>2, <1>4, <1>6

LEMMA Returns ==
  ASSUME NEW h, NEW B \in Nonterminals(h), NEW r \in Dots(h), NEW st \in Seq(StackSyms(h)), NEW w
  PROVE  Moves(h, <<Out(B), <<r>> \o st, w>>, <<r, st, w>>)
<1> DEFINE up == <<r>> \o st
           t == Move(Out(B), Eps(h), r, r, <<>>)
<1>1. up # <<>> /\ Head(up) = r /\ Tail(up) = st
  <2>1. <<r>> \in Seq(StackSyms(h))
    BY DEF StackSyms
  <2>2. QED
    BY <2>1
<1> HIDE DEF up
<1>2. t \in ReturnMoves(h)
  BY DEF ReturnMoves
<1>3. t.q = Out(B) /\ t.a = Eps(h) /\ t.top = r /\ t.next_q = r /\ t.push = <<>>
  BY DEF Move
<1>4. <<>> \o st = st
  BY ConcatEmptySeq
<1> HIDE DEF t
<1>5. t \in Delta(h)
  BY <1>2 DEF Delta
<1>6. Moves(h, <<t.q, up, w>>,
            <<t.next_q, t.push \o Tail(up), IF t.a = Eps(h) THEN w ELSE Append(w, t.a)>>)
  BY <1>1, <1>3, <1>5, TableMoves
<1>7. QED
  BY <1>1, <1>3, <1>4, <1>6 DEF up

\* Every run of the machine from s to s2, on any stack, reads w between two
\* positions.
Stacks(h) == Seq(StackSyms(h)) \ {<<>>}
Spans(h, w, s, from, s2, to) == \A st \in Stacks(h) :
  Reaches(h, <<s, st, SubSeq(w, 1, from)>>, <<s2, st, SubSeq(w, 1, to)>>)

LEMMA SpansFurther ==
  ASSUME NEW h, NEW w, NEW s, NEW s2, NEW s3, NEW from, NEW mid, NEW to,
         Spans(h, w, s, from, s2, mid), Spans(h, w, s2, mid, s3, to)
  PROVE  Spans(h, w, s, from, s3, to)
<1> SUFFICES ASSUME NEW st \in Stacks(h)
             PROVE  Reaches(h, <<s, st, SubSeq(w, 1, from)>>, <<s3, st, SubSeq(w, 1, to)>>)
  BY DEF Spans
<1> DEFINE c == <<s, st, SubSeq(w, 1, from)>>
           d == <<s2, st, SubSeq(w, 1, mid)>>
           e == <<s3, st, SubSeq(w, 1, to)>>
<1>1. Reaches(h, c, d) /\ Reaches(h, d, e)
  BY DEF Spans
<1> HIDE DEF c, d, e
<1>2. Reaches(h, c, e)
  BY <1>1, ReachesFurther
<1>3. QED
  BY <1>2 DEF c, e

\* Reading the next terminal of the word.
LEMMA TerminalSpans ==
  ASSUME NEW h, Valid(h), NEW w \in Seq(0..(h.tm - 1)), NEW d \in TerminalDots(h),
         NEW from \in 0..Len(w), from < Len(w), w[from + 1] = TerminalId(h, NextSym(h, d))
  PROVE  Spans(h, w, d, from, Advanced(d), from + 1)
<1> SUFFICES ASSUME NEW st \in Stacks(h)
             PROVE  Reaches(h, <<d, st, SubSeq(w, 1, from)>>, <<Advanced(d), st, SubSeq(w, 1, from + 1)>>)
  BY DEF Spans
<1>1. SubSeq(w, 1, from + 1) = Append(SubSeq(w, 1, from), w[from + 1])
  <2>1. w \in Seq(Nat)
    <3>1. Len(w) \in Nat /\ \A i \in 1..Len(w) : w[i] \in Nat
      <4>1. h.tm \in Nat
        BY ValidShape
      <4>2. QED
        BY <4>1
    <3>2. QED
      BY <3>1, SeqByElements
  <2>2. QED
    BY <2>1, OneLonger
<1>2. st \in Seq(StackSyms(h)) /\ st # <<>>
  BY DEF Stacks
<1>3. Moves(h, <<d, st, SubSeq(w, 1, from)>>,
            <<Advanced(d), st, Append(SubSeq(w, 1, from), TerminalId(h, NextSym(h, d)))>>)
  BY <1>2, Reads
<1>4. QED
  BY <1>1, <1>3, ReachesByMove

\* Calling a nonterminal, which spans what it derives, and coming back.
LEMMA CallSpans ==
  ASSUME NEW h, Valid(h), NEW w, NEW d \in CallDots(h), NEW from, NEW to,
         Spans(h, w, In(NextSym(h, d)), from, Out(NextSym(h, d)), to)
  PROVE  Spans(h, w, d, from, Advanced(d), to)
<1> DEFINE B == NextSym(h, d)
           r == Advanced(d)
           u == SubSeq(w, 1, from)
           v == SubSeq(w, 1, to)
<1> SUFFICES ASSUME NEW st \in Stacks(h) PROVE Reaches(h, <<d, st, u>>, <<r, st, v>>)
  BY DEF Spans
<1> DEFINE up == <<r>> \o st
<1>1. B \in Nonterminals(h) /\ r \in Dots(h)
  BY CalleeShape
<1>2. st \in Seq(StackSyms(h)) /\ st # <<>>
  BY DEF Stacks
<1>3. up \in Stacks(h)
  <2>1. <<r>> \in Seq(StackSyms(h))
    BY <1>1 DEF StackSyms
  <2>2. QED
    BY <1>2, <2>1 DEF Stacks
<1>4. Reaches(h, <<In(B), up, u>>, <<Out(B), up, v>>)
  BY <1>3 DEF Spans
<1>5. Moves(h, <<d, st, u>>, <<In(B), up, u>>)
  BY <1>2, Calls
<1>6. Moves(h, <<Out(B), up, v>>, <<r, st, v>>)
  BY <1>1, <1>2, Returns
<1> HIDE DEF B, r, u, v, up
<1>7. Reaches(h, <<d, st, u>>, <<Out(B), up, v>>)
  BY <1>4, <1>5, ReachesByMove, ReachesFurther
<1>8. QED
  BY <1>6, <1>7, ReachesOn

\* So the dot moves past a symbol that derives what stands there.
LEMMA DotSpans ==
  ASSUME NEW h, Valid(h), NEW w \in Seq(0..(h.tm - 1)), NEW d \in Dots(h), d.pos < Len(Rhs(h, d.ix)),
         NEW K, \A B, b, e : <<B, b, e>> \in K => Spans(h, w, In(B), b, Out(B), e),
         NEW from \in 0..Len(w), NEW to \in 0..Len(w), Derives(h, w, K, NextSym(h, d), from, to)
  PROVE  Spans(h, w, d, from, Advanced(d), to)
<1>1. CASE IsTerminal(h, NextSym(h, d))
  <2>1. to = from + 1 /\ w[to] = TerminalId(h, NextSym(h, d))
    BY <1>1 DEF Derives
  <2>2. d \in TerminalDots(h)
    BY <1>1 DEF TerminalDots, NextSym
  <2>3. Len(w) \in Nat
    OBVIOUS
  <2>4. from < Len(w)
    BY <2>1, <2>3
  <2>5. QED
    BY <2>1, <2>2, <2>4, TerminalSpans
<1>2. CASE ~IsTerminal(h, NextSym(h, d))
  <2>1. <<NextSym(h, d), from, to>> \in K
    BY <1>2 DEF Derives
  <2>2. d \in CallDots(h)
    BY <1>2 DEF CallDots, NextSym
  <2>3. QED
    BY <2>1, <2>2, CallSpans
<1>3. QED
  BY <1>1, <1>2

\* And past any number of them.
LEMMA FrontSpans ==
  ASSUME NEW h, Valid(h), NEW w \in Seq(0..(h.tm - 1)),
         NEW K, \A B, b, e : <<B, b, e>> \in K => Spans(h, w, In(B), b, Out(B), e),
         NEW p \in Prods(h), NEW n \in 0..Len(Rhs(h, p)),
         NEW from \in 0..Len(w), NEW to \in 0..Len(w),
         AllDerive(h, w, K, SubSeq(Rhs(h, p), 1, n), from, to)
  PROVE  Spans(h, w, Dot(p, 0), from, Dot(p, n), to)
<1> DEFINE rhs == Rhs(h, p)
           front == SubSeq(rhs, 1, n)
<1>1. rhs \in Seq(Nat) /\ Len(rhs) \in Nat /\ n \in Nat /\ n <= Len(rhs) /\ Len(w) \in Nat
  <2>1. rhs \in Seq(Nat)
    BY ValidParts
  <2>2. QED
    BY <2>1
<1>2. Len(front) = n /\ \A t \in 1..n : front[t] = rhs[t]
  BY <1>1
<1> HIDE DEF front
<1>3. PICK cut \in [0..n -> from..to] :
        /\ cut[0] = from /\ cut[n] = to
        /\ \A t \in 1..n : Derives(h, w, K, front[t], cut[t - 1], cut[t])
  BY <1>2 DEF AllDerive, front
<1>4. \A t \in 0..n : cut[t] \in 0..Len(w)
  <2>1. \A x \in from..to : x \in 0..Len(w)
    BY <1>1
  <2>2. QED
    BY <1>3, <2>1
<1> DEFINE T == {t \in Nat : t <= n => Spans(h, w, Dot(p, 0), from, Dot(p, t), cut[t])}
<1>5. 0 \in T
  <2>1. Spans(h, w, Dot(p, 0), from, Dot(p, 0), from)
    BY ReachesItself DEF Spans
  <2>2. QED
    BY <1>3, <2>1
<1>6. ASSUME NEW t \in Nat, t \in T PROVE t + 1 \in T
  <2> SUFFICES ASSUME t + 1 <= n PROVE Spans(h, w, Dot(p, 0), from, Dot(p, t + 1), cut[t + 1])
    OBVIOUS
  <2> DEFINE d == Dot(p, t)
  <2>1. t \in 0..Len(rhs) /\ t < Len(rhs) /\ t \in 0..n /\ t + 1 \in 1..n /\ t + 1 \in 0..n /\ (t + 1) - 1 = t
    BY <1>1
  <2>2. d \in Dots(h) /\ d.ix = p /\ d.pos = t
    BY <2>1 DEF Dots, Dot
  <2>3. NextSym(h, d) = rhs[t + 1] /\ Advanced(d) = Dot(p, t + 1)
    BY <2>2 DEF NextSym, Advanced
  <2>4. Derives(h, w, K, front[t + 1], cut[t], cut[t + 1]) /\ front[t + 1] = rhs[t + 1]
    BY <1>2, <1>3, <2>1
  <2>5. cut[t] \in 0..Len(w) /\ cut[t + 1] \in 0..Len(w)
    BY <1>4, <2>1
  <2>6. d.pos < Len(Rhs(h, d.ix))
    BY <2>1, <2>2
  <2> HIDE DEF d, rhs
  <2>7. Spans(h, w, d, cut[t], Advanced(d), cut[t + 1])
    BY <2>2, <2>3, <2>4, <2>5, <2>6, DotSpans
  <2>8. Spans(h, w, Dot(p, 0), from, d, cut[t])
    BY <1>6, <2>1 DEF d
  <2>9. Spans(h, w, Dot(p, 0), from, Advanced(d), cut[t + 1])
    BY <2>7, <2>8, SpansFurther
  <2>10. QED
    BY <2>3, <2>9
<1> HIDE DEF T
<1>7. n \in T
  BY <1>1, <1>5, <1>6, Induction
<1>8. QED
  BY <1>3, <1>7 DEF T

LEMMA ChoiceSpans ==
  ASSUME NEW h, NEW p \in Prods(h), NEW w, NEW from
  PROVE  Spans(h, w, In(Lhs(h, p)), from, Dot(p, 0), from)
<1> SUFFICES ASSUME NEW st \in Stacks(h)
             PROVE  Reaches(h, <<In(Lhs(h, p)), st, SubSeq(w, 1, from)>>, <<Dot(p, 0), st, SubSeq(w, 1, from)>>)
  BY DEF Spans
<1>1. st \in Seq(StackSyms(h)) /\ st # <<>>
  BY DEF Stacks
<1>2. QED
  BY <1>1, Chooses, ReachesByMove

\* What a nonterminal derives, the machine reads between its entry and exit.
LEMMA DerivedSpans ==
  ASSUME NEW h, Valid(h), NEW w \in Seq(0..(h.tm - 1))
  PROVE  \A B, b, e : <<B, b, e>> \in Derived(h, w) => Spans(h, w, In(B), b, Out(B), e)
<1> DEFINE K == {f \in Facts(h, w) : Spans(h, w, In(f[1]), f[2], Out(f[1]), f[3])}
<1>1. \A B, b, e : <<B, b, e>> \in K => Spans(h, w, In(B), b, Out(B), e)
  <2> TAKE B, b, e
  <2> DEFINE f == <<B, b, e>>
  <2>1. f[1] = B /\ f[2] = b /\ f[3] = e
    OBVIOUS
  <2> HIDE DEF f
  <2>2. f \in K => Spans(h, w, In(B), b, Out(B), e)
    BY <2>1
  <2>3. QED
    BY <2>2 DEF f
<1>2. ASSUME NEW f \in OneTaller(h, w, K) PROVE f \in K
  <2>1. PICK p \in Prods(h) : Lhs(h, p) = f[1] /\ AllDerive(h, w, K, Rhs(h, p), f[2], f[3])
    BY DEF OneTaller
  <2>2. f \in Facts(h, w) /\ f[2] \in 0..Len(w) /\ f[3] \in 0..Len(w)
    BY DEF OneTaller, Facts
  <2> DEFINE from == f[2]
             to == f[3]
             n == Len(Rhs(h, p))
  <2>3. n \in 0..n /\ SubSeq(Rhs(h, p), 1, n) = Rhs(h, p)
    <3>1. Rhs(h, p) \in Seq(Nat)
      BY ValidParts
    <3>2. QED
      BY <3>1
  <2>4. AllDerive(h, w, K, SubSeq(Rhs(h, p), 1, n), from, to)
    BY <2>1, <2>3
  <2>5. from \in 0..Len(w) /\ to \in 0..Len(w)
    BY <2>2
  <2> HIDE DEF K, from, to
  <2>6. Spans(h, w, Dot(p, 0), from, Dot(p, n), to)
    BY <1>1, <2>3, <2>4, <2>5, FrontSpans
  <2>7. Spans(h, w, Dot(p, n), to, Out(Lhs(h, p)), to)
    <3> SUFFICES ASSUME NEW st \in Stacks(h)
                 PROVE  Reaches(h, <<Dot(p, n), st, SubSeq(w, 1, to)>>, <<Out(Lhs(h, p)), st, SubSeq(w, 1, to)>>)
      BY DEF Spans
    <3> DEFINE d == Dot(p, n)
    <3>1. d.ix = p /\ d.pos = n
      BY DEF Dot
    <3>2. d \in FinalDots(h)
      BY <2>3, <3>1 DEF FinalDots, Dots
    <3>3. st \in Seq(StackSyms(h)) /\ st # <<>>
      BY DEF Stacks
    <3> HIDE DEF d
    <3>4. Moves(h, <<d, st, SubSeq(w, 1, to)>>, <<Out(Lhs(h, p)), st, SubSeq(w, 1, to)>>)
      BY <3>1, <3>2, <3>3, Exits
    <3>5. QED
      BY <3>4, ReachesByMove DEF d
  <2>8. Spans(h, w, In(Lhs(h, p)), from, Out(Lhs(h, p)), to)
    BY <2>6, <2>7, ChoiceSpans, SpansFurther
  <2>9. QED
    BY <2>1, <2>2, <2>8 DEF K, from, to
<1>3. h.nt \in Nat /\ Len(w) \in Nat
  BY ValidParts
<1>4. OneTaller(h, w, K) \subseteq K
  BY <1>2
<1> HIDE DEF K
<1>5. Derived(h, w) \subseteq K
  BY <1>3, <1>4, DerivedLeast
<1>6. QED
  BY <1>1, <1>5

\* Where a nonterminal may begin, a run gets to its entry state.
EntryReached(h, w, d) == \E st \in Stacks(h) :
  Reaches(h, Initially, <<In(d[1]), st, SubSeq(w, 1, d[2])>>)

LEMMA FrontReached ==
  ASSUME NEW h, Valid(h), NEW w \in Seq(0..(h.tm - 1)), NEW p \in Prods(h), NEW n \in 0..Len(Rhs(h, p)),
         NEW from \in 0..Len(w), NEW to \in 0..Len(w), NEW st \in Stacks(h),
         Reaches(h, Initially, <<In(Lhs(h, p)), st, SubSeq(w, 1, from)>>),
         AllDerive(h, w, Derived(h, w), SubSeq(Rhs(h, p), 1, n), from, to)
  PROVE  Reaches(h, Initially, <<Dot(p, n), st, SubSeq(w, 1, to)>>)
<1> DEFINE K == Derived(h, w)
<1>1. \A B, b, e : <<B, b, e>> \in K => Spans(h, w, In(B), b, Out(B), e)
  BY DerivedSpans
<1> HIDE DEF K
<1>2. Spans(h, w, Dot(p, 0), from, Dot(p, n), to)
  BY <1>1, FrontSpans DEF K
<1>3. Spans(h, w, In(Lhs(h, p)), from, Dot(p, n), to)
  BY <1>2, ChoiceSpans, SpansFurther
<1>4. Reaches(h, <<In(Lhs(h, p)), st, SubSeq(w, 1, from)>>, <<Dot(p, n), st, SubSeq(w, 1, to)>>)
  BY <1>3 DEF Spans
<1>5. QED
  BY <1>4, ReachesFurther

LEMMA InitialEntry ==
  ASSUME NEW h, NEW w, Len(w) \in Nat
  PROVE  /\ <<Bot>> \in Stacks(h) /\ SubSeq(w, 1, 0) = <<>>
         /\ Reaches(h, Initially, <<In(h.start), <<Bot>>, <<>>>>)
<1>1. <<Bot>> \in Stacks(h)
  BY DEF Stacks, StackSyms
<1>2. SubSeq(w, 1, 0) = <<>>
  OBVIOUS
<1>3. Reaches(h, Initially, <<In(h.start), <<Bot>>, <<>>>>)
  BY BeginsRun, ReachesByMove DEF Initially
<1>4. QED
  BY <1>1, <1>2, <1>3

LEMMA DueReached ==
  ASSUME NEW h, Valid(h), NEW w \in Seq(0..(h.tm - 1))
  PROVE  \A d \in Due(h, w) : d[1] \in Nonterminals(h) /\ d[2] \in 0..Len(w) /\ EntryReached(h, w, d)
<1> DEFINE K == {d \in Begins(h, w) : EntryReached(h, w, d)}
<1>1. h.nt \in Nat /\ h.start \in Nonterminals(h) /\ Len(w) \in Nat
  BY ValidParts
<1>2. ASSUME NEW f \in OneDeeper(h, w, Derived(h, w), K) PROVE f \in K
  <2>1. CASE f = <<h.start, 0>>
    <3>1. f[1] = h.start /\ f[2] = 0 /\ f \in Begins(h, w)
      <4>1. 0 \in 0..Len(w)
        BY <1>1
      <4>2. QED
        BY <1>1, <2>1, <4>1 DEF Begins
    <3>2. EntryReached(h, w, f)
      BY <1>1, <3>1, InitialEntry DEF EntryReached
    <3>3. QED
      BY <3>1, <3>2
  <2>2. CASE \E d \in K : f \in DueWithin(h, w, Derived(h, w), d)
    <3>1. PICK d \in K : f \in DueWithin(h, w, Derived(h, w), d)
      BY <2>2
    <3>2. d[1] \in Nonterminals(h) /\ d[2] \in 0..Len(w) /\ EntryReached(h, w, d)
      BY DEF Begins
    <3> DEFINE Leads(p, t) == /\ Lhs(h, p) = d[1] /\ Rhs(h, p)[t] = f[1]
                              /\ AllDerive(h, w, Derived(h, w), SubSeq(Rhs(h, p), 1, t - 1), d[2], f[2])
    <3>0. PICK p \in Prods(h) : \E t \in 1..Len(Rhs(h, p)) : Leads(p, t)
      BY <3>1 DEF DueWithin
    <3>3. PICK t \in 1..Len(Rhs(h, p)) : Leads(p, t)
      BY <3>0
    <3>4. f \in Begins(h, w) /\ f[1] \in Nonterminals(h) /\ f[2] \in 0..Len(w)
      <4>1. f \in Nonterminals(h) \X (d[2]..Len(w))
        BY <3>1 DEF DueWithin
      <4>2. \A x \in d[2]..Len(w) : x \in 0..Len(w)
        BY <1>1, <3>2
      <4>3. QED
        BY <4>1, <4>2 DEF Begins
    <3>5. PICK st \in Stacks(h) : Reaches(h, Initially, <<In(Lhs(h, p)), st, SubSeq(w, 1, d[2])>>)
      BY <3>2, <3>3 DEF EntryReached
    <3> DEFINE n == t - 1
               c == Dot(p, n)
               from == d[2]
               to == f[2]
               up == <<Advanced(c)>> \o st
    <3>6. Len(Rhs(h, p)) \in Nat
      BY ValidParts
    <3>7. n \in 0..Len(Rhs(h, p)) /\ n < Len(Rhs(h, p)) /\ n + 1 = t
      BY <3>6
    <3>8. c.ix = p /\ c.pos = n /\ c \in Dots(h)
      BY <3>7 DEF Dot, Dots
    <3> HIDE DEF n, K
    <3>9. NextSym(h, c) = f[1] /\ ~IsTerminal(h, f[1])
      <4>1. NextSym(h, c) = f[1]
        BY <3>3, <3>7, <3>8 DEF NextSym
      <4>2. ~IsTerminal(h, f[1])
        BY <1>1, <3>4 DEF Nonterminals, IsTerminal
      <4>3. QED
        BY <4>1, <4>2
    <3>10. c \in CallDots(h)
      BY <3>7, <3>8, <3>9 DEF CallDots, NextSym
    <3>11. from \in 0..Len(w) /\ to \in 0..Len(w)
      BY <3>2, <3>4
    <3>12. Reaches(h, Initially, <<In(Lhs(h, p)), st, SubSeq(w, 1, from)>>)
      BY <3>5
    <3>13. AllDerive(h, w, Derived(h, w), SubSeq(Rhs(h, p), 1, n), from, to)
      BY <3>3 DEF n
    <3> HIDE DEF c, from, to
    <3>14. Reaches(h, Initially, <<c, st, SubSeq(w, 1, to)>>)
      BY <3>7, <3>11, <3>12, <3>13, FrontReached DEF c
    <3>15. st \in Seq(StackSyms(h)) /\ st # <<>>
      BY DEF Stacks
    <3>16. Reaches(h, Initially, <<In(NextSym(h, c)), up, SubSeq(w, 1, to)>>)
      BY <3>10, <3>14, <3>15, Calls, ReachesOn
    <3>17. up \in Stacks(h)
      <4>1. Advanced(c) \in Dots(h)
        BY <3>10, CalleeShape
      <4>2. <<Advanced(c)>> \in Seq(StackSyms(h))
        BY <4>1 DEF StackSyms
      <4>3. QED
        BY <3>15, <4>2 DEF Stacks
    <3> HIDE DEF up
    <3>18. EntryReached(h, w, f)
      BY <3>9, <3>16, <3>17 DEF EntryReached, to
    <3>19. QED
      BY <3>4, <3>18 DEF K
  <2>3. QED
    BY <2>1, <2>2 DEF OneDeeper
<1>3. K \in SUBSET Begins(h, w)
  OBVIOUS
<1>4. \A d \in K : d[1] \in Nonterminals(h) /\ d[2] \in 0..Len(w) /\ EntryReached(h, w, d)
  BY DEF Begins
<1> HIDE DEF K
<1>5. OneDeeper(h, w, Derived(h, w), K) \subseteq K
  BY <1>2
<1>6. Due(h, w) \subseteq K
  BY <1>1, <1>3, <1>5, DueLeast
<1>7. QED
  BY <1>4, <1>6

\* What a run has read is of the grammar.
LEMMA ReachedReads ==
  ASSUME NEW h, Valid(h), NEW s, NEW st, NEW w, Reaches(h, Initially, <<s, st, w>>)
  PROVE  Consistent(h, s, st, w)
<1> DEFINE Pushed == Seq(StackSyms(h))
           Reading == Seq(0..(h.tm - 1))
           P == {c \in States(h) \X Pushed \X Reading : Consistent(h, c[1], c[2], c[3])}
           first == <<Start, <<Bot>>, <<>>>>
           last == <<s, st, w>>
<1>1. \A x, y, z : Consistent(h, x, y, z) => x \in States(h) /\ y \in Pushed /\ z \in Reading
  BY DEF Consistent, Configuration
<1>2. first \in P
  <2>1. Consistent(h, Start, <<Bot>>, <<>>)
    BY StartReads
  <2>2. Start \in States(h) /\ <<Bot>> \in Pushed /\ <<>> \in Reading
    BY <1>1, <2>1
  <2> HIDE DEF Pushed, Reading
  <2>3. QED
    BY <2>1, <2>2
<1>3. ASSUME NEW x, NEW y, x \in P, Moves(h, x, y) PROVE y \in P
  <2>1. x = <<x[1], x[2], x[3]>> /\ Consistent(h, x[1], x[2], x[3])
    BY <1>3
  <2>2. Moves(h, <<x[1], x[2], x[3]>>, y)
    BY <1>3, <2>1
  <2>3. Consistent(h, y[1], y[2], y[3])
    BY <2>1, <2>2, MoveReads
  <2>4. y[1] \in States(h) /\ y[2] \in Pushed /\ y[3] \in Reading
    BY <1>1, <2>3
  <2>5. y = <<y[1], y[2], y[3]>>
    <3>1. PICK t \in Delta(h) :
            y = <<t.next_q, t.push \o Tail(x[2]), IF t.a = Eps(h) THEN x[3] ELSE Append(x[3], t.a)>>
      BY <1>3 DEF Moves
    <3>2. QED
      BY <3>1
  <2> HIDE DEF Pushed, Reading
  <2>6. y \in States(h) \X Pushed \X Reading
    BY <2>4, <2>5
  <2>7. QED
    BY <2>3, <2>6
<1>4. last \in P => Consistent(h, s, st, w)
  <2>1. last[1] = s /\ last[2] = st /\ last[3] = w
    OBVIOUS
  <2> HIDE DEF last
  <2>2. QED
    BY <2>1
<1>5. Reaches(h, first, last)
  BY DEF Initially
<1> HIDE DEF P, first, last
<1>6. last \in P
  BY <1>2, <1>3, <1>5, ReachesKeeps
<1>7. QED
  BY <1>4, <1>6

\* The machine compiled from a valid grammar accepts exactly the words of the
\* grammar's language, by derivation trees: whatever its empty, unit or
\* left-recursive productions, and although its table has a return from every
\* exit to every return address.
THEOREM AcceptsTheLanguage ==
  ASSUME NEW h, Valid(h), NEW w \in Seq(0..(h.tm - 1))
  PROVE  Accepted(h, w) <=> InLanguage(h, w)
<1>1. ASSUME Accepted(h, w) PROVE InLanguage(h, w)
  <2>1. Consistent(h, Out(h.start), <<Bot>>, w)
    BY <1>1, ReachedReads DEF Accepted
  <2>2. QED
    BY <2>1, ConsistentWord
<1>2. ASSUME InLanguage(h, w) PROVE Accepted(h, w)
  <2>1. <<h.start, 0, Len(w)>> \in Derived(h, w)
    BY <1>2 DEF InLanguage
  <2>2. Spans(h, w, In(h.start), 0, Out(h.start), Len(w))
    BY <2>1, DerivedSpans
  <2>3. Len(w) \in Nat /\ SubSeq(w, 1, Len(w)) = w
    OBVIOUS
  <2>4. <<Bot>> \in Stacks(h) /\ SubSeq(w, 1, 0) = <<>> /\ Reaches(h, Initially, <<In(h.start), <<Bot>>, <<>>>>)
    BY <2>3, InitialEntry
  <2>5. Reaches(h, <<In(h.start), <<Bot>>, <<>>>>, <<Out(h.start), <<Bot>>, w>>)
    <3>1. Reaches(h, <<In(h.start), <<Bot>>, SubSeq(w, 1, 0)>>, <<Out(h.start), <<Bot>>, SubSeq(w, 1, Len(w))>>)
      BY <2>2, <2>4 DEF Spans
    <3>2. QED
      BY <2>3, <2>4, <3>1
  <2>6. QED
    BY <2>4, <2>5, ReachesFurther DEF Accepted
<1>3. QED
  BY <1>1, <1>2

\* What some run of the machine reads is exactly what the derivation trees
\* allow to begin with: nothing at all, or the input of a production that is
\* due.
THEOREM ReadsTheBeginnings ==
  ASSUME NEW h, Valid(h), NEW w \in Seq(0..(h.tm - 1))
  PROVE  Readable(h, w) <=> w = <<>> \/ Viable(h, w)
<1>1. ASSUME Readable(h, w), w # <<>> PROVE Viable(h, w)
  <2>1. PICK s, st : Reaches(h, Initially, <<s, st, w>>)
    BY <1>1 DEF Readable
  <2>2. Consistent(h, s, st, w)
    BY <2>1, ReachedReads
  <2>3. QED
    BY <1>1, <2>2, ConsistentViable
<1>2. ASSUME w = <<>> PROVE Readable(h, w)
  BY <1>2, ReachesItself DEF Readable, Initially
<1>3. ASSUME Viable(h, w) PROVE Readable(h, w)
  <2>0. PICK d \in Due(h, w), p \in Prods(h) : Lhs(h, p) = d[1] /\ \E t \in 0..Len(Rhs(h, p)) :
          AllDerive(h, w, Derived(h, w), SubSeq(Rhs(h, p), 1, t), d[2], Len(w))
    BY <1>3 DEF Viable
  <2>1. PICK t \in 0..Len(Rhs(h, p)) :
          Lhs(h, p) = d[1] /\ AllDerive(h, w, Derived(h, w), SubSeq(Rhs(h, p), 1, t), d[2], Len(w))
    BY <2>0
  <2>2. d[2] \in 0..Len(w) /\ EntryReached(h, w, d)
    BY DueReached
  <2>3. PICK st \in Stacks(h) : Reaches(h, Initially, <<In(Lhs(h, p)), st, SubSeq(w, 1, d[2])>>)
    BY <2>1, <2>2 DEF EntryReached
  <2> DEFINE from == d[2]
             to == Len(w)
  <2>4. from \in 0..Len(w) /\ to \in 0..Len(w) /\ SubSeq(w, 1, to) = w
    BY <2>2
  <2>5. AllDerive(h, w, Derived(h, w), SubSeq(Rhs(h, p), 1, t), from, to)
    BY <2>1
  <2>6. Reaches(h, Initially, <<In(Lhs(h, p)), st, SubSeq(w, 1, from)>>)
    BY <2>3
  <2> HIDE DEF from, to
  <2>7. Reaches(h, Initially, <<Dot(p, t), st, SubSeq(w, 1, to)>>)
    BY <2>4, <2>5, <2>6, FrontReached
  <2>8. QED
    BY <2>4, <2>7 DEF Readable
<1>4. QED
  BY <1>1, <1>2, <1>3

----------------------------------------------------------------------------
(* The epsilon closures: what the loops hold.                              *)

EpsTyped ==
  /\ m \in Machines /\ op \in Ops
  /\ start \in Starts(m)
  /\ closed \in Seq(Configs) /\ waiting \in Seq(Configs)
  /\ start \in ToSet(closed) /\ ToSet(waiting) \subseteq ToSet(closed)
  /\ verdict \in {"running", "closed", "accepted"}

----------------------------------------------------------------------------
(* Configurations and moves.                                               *)

LEMMA MachineTyped ==
  ASSUME NEW x \in Machines
  PROVE  /\ x.trans \in Seq(Transition) /\ Len(x.trans) \in Nat
         /\ \A k \in 1..Len(x.trans) : x.trans[k] \in Transition
         /\ ToSet(x.trans) = {x.trans[k] : k \in 1..Len(x.trans)}
         /\ ToSet(x.trans) \subseteq Transition
         /\ x.states \in Nat /\ x.bound \in Nat
         /\ Starts(x) \subseteq Configs
<1>1. x.trans \in Seq(Transition) /\ x.states \in Nat /\ x.bound \in Nat /\ Starts(x) \subseteq Configs
  BY MachinesAssumption
<1>2. Len(x.trans) \in Nat /\ \A k \in 1..Len(x.trans) : x.trans[k] \in Transition
  BY <1>1
<1>3. ToSet(x.trans) = {x.trans[k] : k \in 1..Len(x.trans)}
  BY <1>1 DEF ToSet
<1>4. QED
  BY <1>1, <1>2, <1>3

LEMMA MovedTyped ==
  ASSUME NEW c \in Configs, NEW t \in Transition
  PROVE  Moved(c, t) \in Configs
<1>1. t.next_q \in Nat /\ t.push \in Seq(Nat) /\ c[2] \in Seq(Nat)
  BY DEF Transition, Configs
<1>2. AfterMove(c[2], t.push) \in Seq(Nat)
  <2>1. CASE c[2] = <<>>
    <3>1. AfterMove(c[2], t.push) = t.push \o <<>>
      BY <2>1 DEF AfterMove
    <3>2. QED
      BY <1>1, <3>1
  <2>2. CASE c[2] # <<>>
    <3>1. \A s \in Seq(Nat) : s # <<>> => Tail(s) \in Seq(Nat)
      OBVIOUS
    <3>2. Tail(c[2]) \in Seq(Nat)
      BY <1>1, <2>2, <3>1
    <3>3. AfterMove(c[2], t.push) = t.push \o Tail(c[2])
      BY <2>2 DEF AfterMove
    <3>4. QED
      BY <1>1, <3>2, <3>3
  <2>3. QED
    BY <2>1, <2>2
<1>3. QED
  BY <1>1, <1>2 DEF Moved, Configs

LEMMA Members ==
  ASSUME NEW S, NEW s \in Seq(S), NEW t \in Seq(S)
  PROVE  /\ Len(s) \in Nat /\ Len(s \o t) = Len(s) + Len(t) /\ s \o t \in Seq(S)
         /\ ToSet(s) = {s[i] : i \in 1..Len(s)} /\ ToSet(s) \subseteq S
         /\ ToSet(s \o t) = ToSet(s) \cup ToSet(t)
         /\ ToSet(<<>>) = {}
<1>1. Len(s) \in Nat /\ Len(t) \in Nat /\ Len(s \o t) = Len(s) + Len(t) /\ s \o t \in Seq(S)
  OBVIOUS
<1>2. \A u \in Seq(S) : ToSet(u) = {u[i] : i \in 1..Len(u)}
  BY DEF ToSet
<1>3. ToSet(s \o t) = ToSet(s) \cup ToSet(t)
  <2>1. s \in Seq(S) /\ t \in Seq(S)
    OBVIOUS
  <2>2. ElementsOf(s \o t) = ElementsOf(s) \cup ElementsOf(t)
    BY <2>1, ElementsOfBoth, ZenonT(60)
  <2>3. QED
    BY <2>2 DEF ElementsOf, ToSet
<1>4. ToSet(<<>>) = {}
  BY DEF ToSet
<1>5. ToSet(s) \subseteq S
  BY <1>2
<1>6. QED
  BY <1>1, <1>2, <1>3, <1>4, <1>5

LEMMA OneMore ==
  ASSUME NEW S, NEW s \in Seq(S), NEW x \in S
  PROVE  Append(s, x) \in Seq(S) /\ ToSet(Append(s, x)) = ToSet(s) \cup {x}
<1>1. /\ Append(s, x) \in Seq(S) /\ Len(Append(s, x)) = Len(s) + 1 /\ Len(s) \in Nat
      /\ Append(s, x)[Len(s) + 1] = x /\ \A i \in 1..Len(s) : Append(s, x)[i] = s[i]
  OBVIOUS
<1>2. \A u \in Seq(S) : ToSet(u) = {u[i] : i \in 1..Len(u)}
  BY DEF ToSet
<1> DEFINE longer == Append(s, x)
<1>3. longer \in Seq(S) /\ ToSet(longer) = {longer[i] : i \in 1..Len(longer)}
  BY <1>1, <1>2
<1>4. 1..Len(longer) = 1..Len(s) \cup {Len(s) + 1}
  BY <1>1
<1>5. ToSet(s) = {longer[i] : i \in 1..Len(s)}
  BY <1>1, <1>2
<1>6. longer[Len(s) + 1] = x
  BY <1>1
<1> HIDE DEF longer
<1>7. ToSet(longer) = ToSet(s) \cup {x}
  BY <1>3, <1>4, <1>5, <1>6
<1>8. QED
  BY <1>3, <1>7 DEF longer

\* What is taken is the last or the first that waits; the others wait on.
LEMMA TakenAndOthers ==
  ASSUME EpsTyped, waiting # <<>>
  PROVE  /\ Taken \in ToSet(waiting) /\ Taken \in Configs
         /\ Others \in Seq(Configs)
         /\ ToSet(waiting) = ToSet(Others) \cup {Taken}
<1>1. waiting \in Seq(Configs) /\ Len(waiting) \in Nat /\ Len(waiting) > 0
  BY DEF EpsTyped
<1>2. \A u \in Seq(Configs) : ToSet(u) = {u[i] : i \in 1..Len(u)}
  BY DEF ToSet
<1> HIDE DEF Configs
<1>3. CASE Lifo
  <2>1. Taken = waiting[Len(waiting)] /\ Others = SubSeq(waiting, 1, Len(waiting) - 1)
    BY <1>3 DEF Taken, Others, Last, Front
  <2> DEFINE n == Len(waiting) - 1
  <2>2. Others \in Seq(Configs) /\ Len(Others) = n /\ \A i \in 1..n : Others[i] = waiting[i]
    <3>1. n \in Nat /\ n <= Len(waiting)
      BY <1>1
    <3>2. \A k \in Nat : k <= Len(waiting) =>
            /\ SubSeq(waiting, 1, k) \in Seq(Configs) /\ Len(SubSeq(waiting, 1, k)) = k
            /\ \A i \in 1..k : SubSeq(waiting, 1, k)[i] = waiting[i]
      BY <1>1
    <3>3. QED
      BY <2>1, <3>1, <3>2
  <2>3. \A i \in 1..(Len(waiting) - 1) : Others[i] = waiting[i]
    BY <2>2
  <2>4. Len(waiting) \in 1..Len(waiting) /\ Taken \in Configs
    BY <1>1, <2>1
  <2>5. 1..Len(waiting) = 1..(Len(waiting) - 1) \cup {Len(waiting)}
    BY <1>1
  <2>6. ToSet(Others) = {waiting[i] : i \in 1..(Len(waiting) - 1)}
    BY <1>2, <2>2, <2>3
  <2>7. ToSet(waiting) = {waiting[i] : i \in 1..Len(waiting)}
    BY <1>1, <1>2
  <2>8. Taken = waiting[Len(waiting)]
    BY <2>1
  <2>9. ToSet(waiting) = ToSet(Others) \cup {Taken}
    BY <2>5, <2>6, <2>7, <2>8
  <2>10. QED
    BY <2>2, <2>4, <2>9
<1>4. CASE ~Lifo
  <2>1. Taken = Head(waiting) /\ Others = Tail(waiting)
    BY <1>4 DEF Taken, Others
  <2>2. Others \in Seq(Configs) /\ Len(Others) = Len(waiting) - 1 /\ Taken = waiting[1]
    BY <1>1, <2>1
  <2>3. \A i \in 1..(Len(waiting) - 1) : Others[i] = waiting[i + 1]
    BY <1>1, <2>1
  <2>4. 1 \in 1..Len(waiting) /\ Taken \in Configs
    BY <1>1, <2>2
  <2>5. ASSUME NEW i \in 1..Len(waiting) PROVE waiting[i] = Taken \/ waiting[i] \in ToSet(Others)
    <3>1. CASE i = 1
      BY <2>2, <3>1
    <3>2. CASE i # 1
      <4>1. i - 1 \in 1..Len(Others) /\ Others[i - 1] = waiting[i]
        BY <1>1, <2>2, <2>3, <3>2
      <4>2. QED
        BY <1>2, <2>2, <4>1
    <3>3. QED
      BY <3>1, <3>2
  <2>6. ASSUME NEW i \in 1..Len(Others) PROVE Others[i] \in ToSet(waiting)
    <3>1. i + 1 \in 1..Len(waiting) /\ Others[i] = waiting[i + 1]
      BY <1>1, <2>2, <2>3
    <3>2. QED
      BY <1>1, <1>2, <3>1
  <2>7. QED
    BY <1>1, <1>2, <2>2, <2>4, <2>5, <2>6
<1>5. QED
  BY <1>3, <1>4
----------------------------------------------------------------------------
(* The scan of the array.                                                  *)

\* The key of d is that of a configuration seen, or of one found in the scan.
SeenWith(d, found) == \E c \in ToSet(closed) \cup ToSet(found) : Key(c) = Key(d)
ScanStep(moves, t, found) ==
  IF t \in moves /\ ~SeenWith(Moved(Taken, t), found)
  THEN Append(found, Moved(Taken, t)) ELSE found
IsScan(moves, new) ==
  new = [k \in 0..Len(m.trans) |->
           IF k = 0 THEN <<>> ELSE ScanStep(moves, m.trans[k], new[k - 1])]
HasScan(moves) == \E new : IsScan(moves, new)

LEMMA ScanStepTyped ==
  ASSUME NEW moves, Taken \in Configs, NEW t \in Transition, NEW found \in Seq(Configs)
  PROVE  /\ ScanStep(moves, t, found) \in Seq(Configs)
         /\ \/ ToSet(ScanStep(moves, t, found)) = ToSet(found)
            \/ t \in moves /\ ToSet(ScanStep(moves, t, found)) = ToSet(found) \cup {Moved(Taken, t)}
         /\ t \in moves => SeenWith(Moved(Taken, t), ScanStep(moves, t, found))
<1> DEFINE d == Moved(Taken, t)
<1>1. d \in Configs
  BY MovedTyped
<1>2. Append(found, d) \in Seq(Configs) /\ ToSet(Append(found, d)) = ToSet(found) \cup {d}
  BY <1>1, OneMore
<1>3. CASE t \in moves /\ ~SeenWith(d, found)
  <2>1. ScanStep(moves, t, found) = Append(found, d)
    BY <1>3 DEF ScanStep
  <2>2. SeenWith(d, Append(found, d))
    BY <1>2 DEF SeenWith
  <2>3. QED
    BY <1>2, <1>3, <2>1, <2>2
<1>4. CASE ~(t \in moves /\ ~SeenWith(d, found))
  <2>1. ScanStep(moves, t, found) = found
    BY <1>4 DEF ScanStep
  <2>2. QED
    BY <1>4, <2>1
<1>5. QED
  BY <1>3, <1>4

LEMMA ScanExists ==
  ASSUME EpsTyped, waiting # <<>>, NEW moves
  PROVE  HasScan(moves)
<1> DEFINE len == Len(m.trans)
           S == Seq(Configs)
           first == <<>>
           step == [x \in Nat \X S |->
                      IF x[1] + 1 \in 1..len THEN ScanStep(moves, m.trans[x[1] + 1], x[2]) ELSE x[2]]
<1>1. Taken \in Configs
  BY TakenAndOthers
<1>2. len \in Nat /\ \A k \in 1..len : m.trans[k] \in Transition
  BY MachineTyped DEF EpsTyped
<1>3. first \in S
  OBVIOUS
<1>4. step \in [Nat \X S -> S]
  <2>1. ASSUME NEW x \in Nat \X S
        PROVE  (IF x[1] + 1 \in 1..len THEN ScanStep(moves, m.trans[x[1] + 1], x[2]) ELSE x[2]) \in S
    <3> HIDE DEF S, len
    <3>1. x[2] \in S
      OBVIOUS
    <3>2. CASE x[1] + 1 \in 1..len
      <4>1. m.trans[x[1] + 1] \in Transition
        BY <1>2, <3>2
      <4>2. ScanStep(moves, m.trans[x[1] + 1], x[2]) \in S
        BY <1>1, <3>1, <4>1, ScanStepTyped DEF S
      <4>3. QED
        BY <3>2, <4>2
    <3>3. CASE x[1] + 1 \notin 1..len
      BY <3>1, <3>3
    <3>4. QED
      BY <3>2, <3>3
  <2> HIDE DEF S, len
  <2>2. QED
    BY <2>1
<1>5. PICK h : h \in [Nat -> S] /\ h[0] = first /\ \A k \in Nat : h[k + 1] = step[<<k, h[k]>>]
  <2> HIDE DEF S, first, step
  <2>1. HasRecursive(S, first, step)
    BY <1>3, <1>4, Recursion
  <2>2. QED
    BY <2>1 DEF HasRecursive, Recursive
<1> DEFINE new == [k \in 0..len |-> h[k]]
<1>6. ASSUME NEW k \in 0..len
      PROVE  new[k] = IF k = 0 THEN <<>> ELSE ScanStep(moves, m.trans[k], new[k - 1])
  <2>1. CASE k = 0
    BY <1>5, <2>1
  <2>2. CASE k # 0
    <3>1. k - 1 \in Nat /\ (k - 1) + 1 = k /\ k \in 1..len /\ k - 1 \in 0..len
      BY <1>2, <2>2
    <3>2. h[(k - 1) + 1] = step[<<k - 1, h[k - 1]>>] /\ h[k - 1] \in S
      BY <1>5, <3>1
    <3>3. step[<<k - 1, h[k - 1]>>] = ScanStep(moves, m.trans[k], h[k - 1])
      <4> HIDE DEF S, len
      <4>1. <<k - 1, h[k - 1]>> \in Nat \X S
        BY <3>1, <3>2
      <4>2. QED
        BY <3>1, <4>1
    <3>4. new[k] = h[k] /\ new[k - 1] = h[k - 1]
      BY <3>1
    <3> HIDE DEF new, step
    <3>5. QED
      BY <2>2, <3>1, <3>2, <3>3, <3>4
  <2>3. QED
    BY <2>1, <2>2
<1>7. IsScan(moves, new)
  <2>1. new = [k \in 0..len |-> new[k]]
    OBVIOUS
  <2>2. [k \in 0..len |-> new[k]]
          = [k \in 0..len |-> IF k = 0 THEN <<>> ELSE ScanStep(moves, m.trans[k], new[k - 1])]
    <3> HIDE DEF new
    <3>1. QED
      BY <1>6
  <2> HIDE DEF new
  <2>3. QED
    BY <2>1, <2>2 DEF IsScan, len
<1>8. QED
  <2> HIDE DEF new
  <2>1. QED
    BY <1>7 DEF HasScan

LEMMA UnseenIsScan ==
  ASSUME EpsTyped, waiting # <<>>, NEW moves
  PROVE  \E new : IsScan(moves, new) /\ Unseen(moves) = new[Len(m.trans)]
<1> DEFINE chosen == CHOOSE new : IsScan(moves, new)
<1>1. IsScan(moves, chosen)
  BY ScanExists DEF HasScan
<1>2. Unseen(moves) = chosen[Len(m.trans)]
  BY DEF Unseen, IsScan, ScanStep, SeenWith
<1>3. QED
  BY <1>1, <1>2

\* The scan finds nothing but where the moves lead to, and leaves nothing out
\* whose key was not seen.
LEMMA UnseenExact ==
  ASSUME EpsTyped, waiting # <<>>, NEW moves \in SUBSET ToSet(m.trans)
  PROVE  /\ Unseen(moves) \in Seq(Configs)
         /\ ToSet(Unseen(moves)) \subseteq {Moved(Taken, t) : t \in moves}
         /\ \A t \in moves : SeenWith(Moved(Taken, t), Unseen(moves))
<1> DEFINE len == Len(m.trans)
<1>1. PICK new : IsScan(moves, new) /\ Unseen(moves) = new[len]
  BY UnseenIsScan
<1>2. Taken \in Configs
  BY TakenAndOthers
<1>3. /\ len \in Nat /\ \A k \in 1..len : m.trans[k] \in Transition
      /\ ToSet(m.trans) = {m.trans[k] : k \in 1..len}
  BY MachineTyped DEF EpsTyped
<1>4. new[0] = <<>> /\ \A k \in 1..len : new[k] = ScanStep(moves, m.trans[k], new[k - 1])
  BY <1>1, <1>3 DEF IsScan
<1> DEFINE Good(k) == /\ new[k] \in Seq(Configs)
                      /\ ToSet(new[k]) \subseteq {Moved(Taken, t) : t \in moves}
                      /\ \A i \in 1..k : m.trans[i] \in moves
                                           => SeenWith(Moved(Taken, m.trans[i]), new[k])
           T == {k \in Nat : k <= len => Good(k)}
<1>5. 0 \in T
  <2>1. ToSet(<<>>) = {} /\ <<>> \in Seq(Configs)
    BY DEF ToSet
  <2>2. Good(0)
    <3>1. \A i \in 1..0 : FALSE
      OBVIOUS
    <3>2. new[0] \in Seq(Configs) /\ ToSet(new[0]) = {}
      BY <1>4, <2>1
    <3>3. QED
      BY <3>1, <3>2
  <2> HIDE DEF Good
  <2>3. QED
    BY <2>2
<1>6. ASSUME NEW k \in Nat, k \in T PROVE k + 1 \in T
  <2> SUFFICES ASSUME k + 1 <= len PROVE Good(k + 1)
    OBVIOUS
  <2>1. k + 1 \in 1..len /\ (k + 1) - 1 = k /\ k <= len
    BY <1>3
  <2>2. Good(k)
    BY <1>6, <2>1
  <2> DEFINE t == m.trans[k + 1]
             next == new[k + 1]
  <2>3. next = ScanStep(moves, t, new[k]) /\ t \in Transition
    BY <1>3, <1>4, <2>1
  <2>4. /\ next \in Seq(Configs)
        /\ \/ ToSet(next) = ToSet(new[k])
           \/ t \in moves /\ ToSet(next) = ToSet(new[k]) \cup {Moved(Taken, t)}
        /\ t \in moves => SeenWith(Moved(Taken, t), next)
    <3>1. new[k] \in Seq(Configs)
      BY <2>2
    <3> DEFINE before == new[k]
    <3> HIDE DEF next, t, before
    <3>2. next = ScanStep(moves, t, before) /\ t \in Transition /\ before \in Seq(Configs)
      BY <2>3, <3>1 DEF before
    <3>3. /\ ScanStep(moves, t, before) \in Seq(Configs)
          /\ \/ ToSet(ScanStep(moves, t, before)) = ToSet(before)
             \/ t \in moves /\ ToSet(ScanStep(moves, t, before)) = ToSet(before) \cup {Moved(Taken, t)}
          /\ t \in moves => SeenWith(Moved(Taken, t), ScanStep(moves, t, before))
      BY <1>2, <3>2, ScanStepTyped
    <3>4. QED
      BY <3>2, <3>3 DEF before
  <2> HIDE DEF next, t
  <2>5. ToSet(next) \subseteq {Moved(Taken, u) : u \in moves}
    BY <2>2, <2>4
  <2>6. \A d : SeenWith(d, new[k]) => SeenWith(d, next)
    BY <2>4 DEF SeenWith
  <2>7. ASSUME NEW i \in 1..(k + 1), m.trans[i] \in moves
        PROVE  SeenWith(Moved(Taken, m.trans[i]), next)
    <3>1. CASE i = k + 1
      BY <2>4, <2>7, <3>1 DEF t
    <3>2. CASE i # k + 1
      <4>1. i \in 1..k
        BY <3>2
      <4>2. QED
        BY <2>2, <2>6, <2>7, <4>1
    <3>3. QED
      BY <3>1, <3>2
  <2>8. QED
    BY <2>4, <2>5, <2>7 DEF next
<1> HIDE DEF T, Good
<1>7. Nat \subseteq T
  BY <1>5, <1>6, Induction
<1>8. Good(len)
  <2>1. len \in T
    BY <1>3, <1>7
  <2>2. QED
    BY <1>3, <2>1 DEF T
<1>9. \A t \in moves : \E i \in 1..len : t = m.trans[i]
  BY <1>3
<1>10. QED
  BY <1>1, <1>8, <1>9 DEF Good
----------------------------------------------------------------------------
(* What epsilon moves reach.                                               *)

OneFurther(x, bound, K) == K \cup UNION {Beyond(x, bound, d) : d \in K}
IsReach(x, bound, c, reached) ==
  reached = [k \in Nat |-> IF k = 0 THEN {c} ELSE OneFurther(x, bound, reached[k - 1])]
HasReach(x, bound, c) == \E reached : IsReach(x, bound, c, reached)

LEMMA BeyondTyped ==
  ASSUME NEW x \in Machines, NEW bound, NEW c \in Configs
  PROVE  Beyond(x, bound, c) \subseteq Configs
<1>1. EpsMoves(x, c) \subseteq Transition
  BY MachineTyped DEF EpsMoves
<1>2. \A t \in EpsMoves(x, c) : Moved(c, t) \in Configs
  BY <1>1, MovedTyped
<1>3. QED
  BY <1>2 DEF Beyond

LEMMA ReachExists ==
  ASSUME NEW x \in Machines, NEW bound, NEW c \in Configs
  PROVE  HasReach(x, bound, c)
<1> DEFINE All == SUBSET Configs
           first == {c}
           step == [y \in Nat \X All |-> OneFurther(x, bound, y[2])]
<1>1. PICK h : h \in [Nat -> All] /\ h[0] = first /\ \A k \in Nat : h[k + 1] = step[<<k, h[k]>>]
  <2>1. first \in All
    OBVIOUS
  <2>2. \A K \in All : OneFurther(x, bound, K) \in All
    BY BeyondTyped DEF OneFurther
  <2>3. step \in [Nat \X All -> All]
    <3> HIDE DEF All
    <3>1. QED
      BY <2>2
  <2> HIDE DEF All, first, step
  <2>4. HasRecursive(All, first, step)
    BY <2>1, <2>3, Recursion
  <2>5. QED
    BY <2>4 DEF HasRecursive, Recursive
<1>2. ASSUME NEW k \in Nat PROVE h[k + 1] = OneFurther(x, bound, h[k])
  <2> HIDE DEF All
  <2>1. <<k, h[k]>> \in Nat \X All
    BY <1>1
  <2>2. QED
    BY <1>1, <2>1
<1>3. ASSUME NEW k \in Nat
      PROVE  h[k] = IF k = 0 THEN {c} ELSE OneFurther(x, bound, h[k - 1])
  <2>1. CASE k = 0
    BY <1>1, <2>1
  <2>2. CASE k # 0
    <3>1. k - 1 \in Nat /\ (k - 1) + 1 = k
      BY <2>2
    <3>2. QED
      BY <1>2, <2>2, <3>1
  <2>3. QED
    BY <2>1, <2>2
<1>4. h = [k \in Nat |-> h[k]]
  BY <1>1
<1>5. h = [k \in Nat |-> IF k = 0 THEN {c} ELSE OneFurther(x, bound, h[k - 1])]
  BY <1>3, <1>4
<1>6. IsReach(x, bound, c, h)
  BY <1>5 DEF IsReach
<1>7. QED
  BY <1>6 DEF HasReach

LEMMA ReachedSteps ==
  ASSUME NEW x \in Machines, NEW bound, NEW c \in Configs
  PROVE  /\ ReachedIn(x, bound, c)[0] = {c}
         /\ \A k \in Nat : ReachedIn(x, bound, c)[k + 1]
                             = OneFurther(x, bound, ReachedIn(x, bound, c)[k])
<1> DEFINE R == ReachedIn(x, bound, c)
<1>1. R = CHOOSE reached : IsReach(x, bound, c, reached)
  BY DEF ReachedIn, IsReach, OneFurther
<1>2. IsReach(x, bound, c, R)
  BY <1>1, ReachExists DEF HasReach
<1> HIDE DEF R
<1>3. R = [k \in Nat |-> IF k = 0 THEN {c} ELSE OneFurther(x, bound, R[k - 1])]
  BY <1>2 DEF IsReach
<1>4. ASSUME NEW k \in Nat PROVE R[k + 1] = OneFurther(x, bound, R[k])
  <2>1. k + 1 \in Nat /\ k + 1 # 0 /\ (k + 1) - 1 = k
    OBVIOUS
  <2>2. QED
    BY <1>3, <2>1
<1>5. R[0] = {c}
  BY <1>3
<1>6. QED
  BY <1>4, <1>5 DEF R

LEMMA ReachedMonotone ==
  ASSUME NEW x \in Machines, NEW bound, NEW c \in Configs, NEW i \in Nat, NEW j \in Nat, i <= j
  PROVE  ReachedIn(x, bound, c)[i] \subseteq ReachedIn(x, bound, c)[j]
<1> DEFINE R == ReachedIn(x, bound, c)
           T == {n \in Nat : R[i] \subseteq R[i + n]}
<1>1. \A k \in Nat : R[k] \subseteq R[k + 1]
  BY ReachedSteps DEF OneFurther
<1> HIDE DEF R
<1>2. 0 \in T
  <2>1. i + 0 = i
    OBVIOUS
  <2>2. QED
    BY <2>1
<1>3. ASSUME NEW n \in Nat, n \in T PROVE n + 1 \in T
  <2>1. i + n \in Nat /\ (i + n) + 1 = i + (n + 1)
    OBVIOUS
  <2>2. R[i + n] \subseteq R[i + (n + 1)]
    BY <1>1, <2>1
  <2>3. QED
    BY <1>3, <2>2
<1> HIDE DEF T
<1>4. Nat \subseteq T
  BY <1>2, <1>3, Induction
<1>5. j - i \in Nat /\ i + (j - i) = j
  OBVIOUS
<1>6. R[i] \subseteq R[i + (j - i)]
  BY <1>4, <1>5 DEF T
<1>7. QED
  BY <1>5, <1>6 DEF R

\* A set that holds the start and is closed under epsilon moves holds all that
\* any number of them reaches.
LEMMA ReachedLeast ==
  ASSUME NEW x \in Machines, NEW bound, NEW c \in Configs,
         NEW K, c \in K, \A d \in K : Beyond(x, bound, d) \subseteq K
  PROVE  \A n \in Nat : ReachedIn(x, bound, c)[n] \subseteq K
<1> DEFINE R == ReachedIn(x, bound, c)
           T == {n \in Nat : R[n] \subseteq K}
<1>1. R[0] = {c} /\ \A k \in Nat : R[k + 1] = OneFurther(x, bound, R[k])
  BY ReachedSteps
<1> HIDE DEF R
<1>2. 0 \in T
  BY <1>1
<1>3. ASSUME NEW n \in Nat, n \in T PROVE n + 1 \in T
  BY <1>1, <1>3 DEF OneFurther
<1> HIDE DEF T
<1>4. Nat \subseteq T
  BY <1>2, <1>3, Induction
<1>5. QED
  BY <1>4 DEF T, R
----------------------------------------------------------------------------
(* The invariant: a configuration seen is in reach; one that no longer     *)
(* waits has all its moves accounted for, and did not end the acceptance   *)
(* test.                                                                   *)

Settled(d) ==
  /\ Beyond(m, DepthBound, d) \subseteq ToSet(closed)
  /\ Lifo /\ Len(d[2]) <= DepthBound => d[1] \notin m.accepting

EpsInv ==
  /\ EpsTyped
  /\ ToSet(closed) \subseteq Reached
  /\ ~ByStateAndTop /\ verdict # "accepted"
       => \A d \in ToSet(closed) : d \in ToSet(waiting) \/ Settled(d)
  /\ verdict = "closed" => waiting = <<>>
  /\ verdict = "accepted"
       => Lifo /\ \E d \in ToSet(closed) : Len(d[2]) <= DepthBound /\ d[1] \in m.accepting

LEMMA InitHolds == EpsInit => EpsInv
<1> SUFFICES ASSUME EpsInit PROVE EpsInv
  OBVIOUS
<1>1. m \in Machines /\ op \in Ops /\ start \in Starts(m) /\ start \in Configs
  BY MachineTyped DEF EpsInit
<1>2. closed = <<start>> /\ waiting = <<start>> /\ verdict = "running"
  BY DEF EpsInit
<1>3. <<start>> \in Seq(Configs) /\ Len(<<start>>) = 1 /\ ToSet(<<start>>) = {start}
  BY <1>1 DEF ToSet
<1>4. start \in Reached
  <2>1. start \in ReachedIn(m, DepthBound, start)[0]
    BY <1>1, ReachedSteps
  <2>2. Len(closed) + Further \in Nat /\ 0 <= Len(closed) + Further
    BY <1>2, <1>3, FurtherAssumption
  <2>3. QED
    BY <1>1, <2>1, <2>2, ReachedMonotone DEF Reached
<1>5. EpsTyped
  BY <1>1, <1>2, <1>3 DEF EpsTyped
<1>6. QED
  BY <1>2, <1>3, <1>4, <1>5 DEF EpsInv

\* What stays as it is while the loop runs.
LEMMA RunningFixed ==
  ASSUME UNCHANGED <<m, op, start>>
  PROVE  /\ DepthBound' = DepthBound /\ ByStateAndTop' = ByStateAndTop /\ Lifo' = Lifo
         /\ m' = m /\ start' = start
  BY DEF DepthBound, ByStateAndTop, Lifo

LEMMA BoundTyped ==
  ASSUME m \in Machines
  PROVE  DepthBound \in Nat
  BY MachineTyped DEF DepthBound

\* The two ways to leave a configuration without new ones: it is too deep, or
\* it ends the acceptance test.
LEMMA SkipHolds ==
  ASSUME EpsInv, Skip
  PROVE  EpsInv'
<1>1. /\ waiting # <<>> /\ verdict = "running" /\ UNCHANGED <<m, op, start, closed, verdict>>
      /\ TooDeep /\ waiting' = Others
  BY DEF Skip, Running
<1>2. EpsTyped /\ m \in Machines
  BY DEF EpsInv, EpsTyped
<1>3. /\ Taken \in Configs /\ Taken \in ToSet(waiting)
      /\ Others \in Seq(Configs) /\ ToSet(waiting) = ToSet(Others) \cup {Taken}
  BY <1>1, <1>2, TakenAndOthers
<1>4. EpsTyped'
  BY <1>1, <1>2, <1>3 DEF EpsTyped
<1>5. DepthBound' = DepthBound /\ ByStateAndTop' = ByStateAndTop /\ Lifo' = Lifo
  BY <1>1, RunningFixed
<1>6. (ToSet(closed) \subseteq Reached)'
  BY <1>1, <1>5 DEF EpsInv, Reached
<1>7. Settled(Taken)
  <2>1. Len(Taken[2]) \in Nat /\ DepthBound \in Nat
    BY <1>2, <1>3, BoundTyped DEF Configs
  <2>2. Len(Taken[2]) > DepthBound /\ ~(Len(Taken[2]) <= DepthBound)
    BY <1>1, <2>1 DEF TooDeep
  <2>3. QED
    BY <2>2 DEF Settled, Beyond
<1>8. \A d : Settled(d)' <=> Settled(d)
  BY <1>1, <1>5 DEF Settled
<1>9. (~ByStateAndTop /\ verdict # "accepted"
         => \A d \in ToSet(closed) : d \in ToSet(waiting) \/ Settled(d))'
  <2> SUFFICES ASSUME ~ByStateAndTop, NEW d \in ToSet(closed)
               PROVE  d \in ToSet(Others) \/ Settled(d)
    BY <1>1, <1>5, <1>8
  <2>1. d \in ToSet(waiting) \/ Settled(d)
    BY <1>1 DEF EpsInv
  <2>2. QED
    BY <1>3, <1>7, <2>1
<1>10. QED
  BY <1>1, <1>4, <1>6, <1>9 DEF EpsInv

LEMMA AcceptEarlyHolds ==
  ASSUME EpsInv, AcceptEarly
  PROVE  EpsInv'
<1>1. /\ waiting # <<>> /\ verdict = "running" /\ UNCHANGED <<m, op, start, closed>>
      /\ ~TooDeep /\ Lifo /\ Taken[1] \in m.accepting
      /\ waiting' = Others /\ verdict' = "accepted"
  BY DEF AcceptEarly, Running
<1>2. EpsTyped /\ m \in Machines
  BY DEF EpsInv, EpsTyped
<1>3. /\ Taken \in Configs /\ Taken \in ToSet(waiting)
      /\ Others \in Seq(Configs) /\ ToSet(waiting) = ToSet(Others) \cup {Taken}
  BY <1>1, <1>2, TakenAndOthers
<1>4. EpsTyped'
  BY <1>1, <1>2, <1>3 DEF EpsTyped
<1>5. DepthBound' = DepthBound /\ Lifo' = Lifo
  BY <1>1, RunningFixed
<1>6. (ToSet(closed) \subseteq Reached)'
  BY <1>1, <1>5 DEF EpsInv, Reached
<1>7. Len(Taken[2]) <= DepthBound /\ Taken \in ToSet(closed)
  <2>1. Len(Taken[2]) \in Nat /\ DepthBound \in Nat
    BY <1>2, <1>3, BoundTyped DEF Configs
  <2>2. QED
    BY <1>1, <1>2, <1>3, <2>1 DEF TooDeep, EpsTyped
<1>8. (Lifo /\ \E d \in ToSet(closed) : Len(d[2]) <= DepthBound /\ d[1] \in m.accepting)'
  BY <1>1, <1>5, <1>7
<1>9. QED
  BY <1>1, <1>4, <1>6, <1>8 DEF EpsInv

LEMMA ExpandHolds ==
  ASSUME EpsInv, Expand
  PROVE  EpsInv'
<1> DEFINE moves == EpsMoves(m, Taken)
           new == Unseen(moves)
<1>1. /\ waiting # <<>> /\ verdict = "running" /\ UNCHANGED <<m, op, start, verdict>>
      /\ ~TooDeep /\ (Lifo => Taken[1] \notin m.accepting)
      /\ closed' = closed \o new /\ waiting' = Others \o new
  BY DEF Expand, Running
<1>2. EpsTyped /\ m \in Machines /\ start \in Configs /\ closed \in Seq(Configs)
  BY MachineTyped DEF EpsInv, EpsTyped
<1>3. /\ Taken \in Configs /\ Taken \in ToSet(waiting) /\ Taken \in ToSet(closed)
      /\ Others \in Seq(Configs) /\ ToSet(waiting) = ToSet(Others) \cup {Taken}
      /\ ToSet(Others) \subseteq ToSet(closed)
  BY <1>1, <1>2, TakenAndOthers DEF EpsTyped
<1>4. moves \in SUBSET ToSet(m.trans)
  BY DEF EpsMoves
<1>5. Beyond(m, DepthBound, Taken) = {Moved(Taken, t) : t \in moves}
  BY <1>1 DEF Beyond, TooDeep
<1> HIDE DEF new, moves
<1>6. /\ new \in Seq(Configs)
      /\ ToSet(new) \subseteq {Moved(Taken, t) : t \in moves}
      /\ \A t \in moves : SeenWith(Moved(Taken, t), new)
  BY <1>1, <1>2, <1>4, UnseenExact DEF new
<1>7. /\ closed' \in Seq(Configs) /\ waiting' \in Seq(Configs)
      /\ Len(closed') = Len(closed) + Len(new) /\ Len(closed) \in Nat /\ Len(new) \in Nat
      /\ ToSet(closed)' = ToSet(closed) \cup ToSet(new)
      /\ ToSet(waiting)' = ToSet(Others) \cup ToSet(new)
  <2>1. closed \o new \in Seq(Configs) /\ ToSet(closed \o new) = ToSet(closed) \cup ToSet(new)
    BY <1>2, <1>6, Members
  <2>2. Others \o new \in Seq(Configs) /\ ToSet(Others \o new) = ToSet(Others) \cup ToSet(new)
    BY <1>3, <1>6, Members
  <2>3. Len(closed \o new) = Len(closed) + Len(new) /\ Len(closed) \in Nat /\ Len(new) \in Nat
    BY <1>2, <1>6
  <2>4. ToSet(closed)' = ToSet(closed') /\ ToSet(waiting)' = ToSet(waiting')
    BY DEF ToSet
  <2>5. QED
    BY <1>1, <2>1, <2>2, <2>3, <2>4
<1>8. EpsTyped'
  BY <1>1, <1>2, <1>3, <1>7 DEF EpsTyped
<1>9. DepthBound' = DepthBound /\ ByStateAndTop' = ByStateAndTop /\ Lifo' = Lifo
  BY <1>1, RunningFixed
<1>10. (ToSet(closed) \subseteq Reached)'
  <2> DEFINE R == ReachedIn(m, DepthBound, start)
             n == Len(closed) + Further
  <2>1. Reached = R[n] /\ Reached' = R[Len(closed') + Further]
    BY <1>1, <1>9 DEF Reached
  <2>2. n \in Nat /\ Len(closed') + Further \in Nat /\ n <= Len(closed') + Further
    BY <1>7, FurtherAssumption
  <2>3. ToSet(closed) \subseteq R[n]
    BY <2>1 DEF EpsInv
  <2>4. CASE new = <<>>
    <3>1. ToSet(new) = {} /\ Len(new) = 0
      BY <2>4 DEF ToSet
    <3>2. QED
      BY <1>7, <2>1, <2>3, <3>1
  <2>5. CASE new # <<>>
    <3>1. Len(new) > 0
      BY <1>6, <2>5
    <3>2. n + 1 \in Nat /\ n + 1 <= Len(closed') + Further
      BY <1>7, <2>2, <3>1, FurtherAssumption
    <3>3. R[n + 1] \subseteq R[Len(closed') + Further] /\ R[n] \subseteq R[n + 1]
      <4>1. n <= n + 1
        BY <2>2
      <4> HIDE DEF n
      <4>2. QED
        BY <1>2, <2>2, <3>2, <4>1, ReachedMonotone
    <3>4. R[n + 1] = OneFurther(m, DepthBound, R[n])
      <4> HIDE DEF n
      <4>1. \A k \in Nat : ReachedIn(m, DepthBound, start)[k + 1]
                             = OneFurther(m, DepthBound, ReachedIn(m, DepthBound, start)[k])
        BY <1>2, ReachedSteps
      <4>2. QED
        BY <2>2, <4>1
    <3>5. ToSet(new) \subseteq R[n + 1]
      BY <1>3, <1>5, <1>6, <2>3, <3>4 DEF OneFurther
    <3>6. QED
      BY <1>7, <2>1, <2>3, <3>3, <3>5
  <2>6. QED
    BY <2>4, <2>5
<1>11. (~ByStateAndTop /\ verdict # "accepted"
          => \A d \in ToSet(closed) : d \in ToSet(waiting) \/ Settled(d))'
  <2> SUFFICES ASSUME ~ByStateAndTop, NEW d \in ToSet(closed) \cup ToSet(new)
               PROVE  d \in ToSet(Others) \cup ToSet(new) \/ Settled(d)'
    BY <1>7, <1>9
  <2>1. \A c : Settled(c) => Settled(c)'
    BY <1>1, <1>7, <1>9 DEF Settled
  <2> PICK e : e = Taken
    OBVIOUS
  <2>2. Settled(e)'
    <3>1. \A t \in moves : Moved(Taken, t) \in ToSet(closed) \cup ToSet(new)
      BY <1>6 DEF SeenWith, Key
    <3>2. Beyond(m, DepthBound, Taken) \subseteq ToSet(closed) \cup ToSet(new)
      BY <1>5, <3>1
    <3>3. Beyond(m', DepthBound', e) \subseteq ToSet(closed)'
      BY <1>1, <1>7, <1>9, <3>2
    <3>4. Lifo' => e[1] \notin m'.accepting
      BY <1>1, <1>9
    <3>5. QED
      BY <3>3, <3>4 DEF Settled
  <2>3. d \in ToSet(closed) => d \in ToSet(waiting) \/ Settled(d)
    BY <1>1 DEF EpsInv
  <2>4. QED
    BY <1>3, <2>1, <2>2, <2>3
<1>12. QED
  BY <1>1, <1>8, <1>10, <1>11 DEF EpsInv

LEMMA FinishHolds ==
  ASSUME EpsInv, Finish
  PROVE  EpsInv'
<1>1. /\ waiting = <<>> /\ verdict = "running" /\ verdict' = "closed"
      /\ UNCHANGED <<m, op, start, closed, waiting>>
  BY DEF Finish
<1>2. DepthBound' = DepthBound /\ ByStateAndTop' = ByStateAndTop /\ Lifo' = Lifo
  BY <1>1, RunningFixed
<1>3. EpsTyped'
  BY <1>1 DEF EpsInv, EpsTyped
<1>4. (ToSet(closed) \subseteq Reached)'
  BY <1>1, <1>2 DEF EpsInv, Reached
<1>5. \A d : Settled(d)' <=> Settled(d)
  BY <1>1, <1>2 DEF Settled
<1>6. (~ByStateAndTop /\ verdict # "accepted"
         => \A d \in ToSet(closed) : d \in ToSet(waiting) \/ Settled(d))'
  BY <1>1, <1>2, <1>5 DEF EpsInv
<1>7. QED
  BY <1>1, <1>3, <1>4, <1>6 DEF EpsInv

LEMMA NextHolds == EpsInv /\ [EpsNext]_epsVars => EpsInv'
<1> SUFFICES ASSUME EpsInv, [EpsNext]_epsVars PROVE EpsInv'
  OBVIOUS
<1>1. CASE Skip
  BY <1>1, SkipHolds
<1>2. CASE AcceptEarly
  BY <1>2, AcceptEarlyHolds
<1>3. CASE Expand
  BY <1>3, ExpandHolds
<1>4. CASE Finish
  BY <1>4, FinishHolds
<1>5. CASE UNCHANGED epsVars
  BY <1>5 DEF epsVars, EpsInv, EpsTyped, Settled, Reached, DepthBound, ByStateAndTop, Lifo
<1>6. QED
  BY <1>1, <1>2, <1>3, <1>4, <1>5 DEF EpsNext

LEMMA EpsInvAlways == EpsSpec => []EpsInv
  BY InitHolds, NextHolds, PTL DEF EpsSpec

----------------------------------------------------------------------------
LEMMA InvComplete == EpsInv => ClosureComplete
<1> SUFFICES ASSUME EpsInv, verdict = "closed", ~ByStateAndTop
             PROVE  ToSet(closed) = Reached
  BY DEF ClosureComplete
<1>1. m \in Machines /\ start \in Configs /\ start \in ToSet(closed) /\ closed \in Seq(Configs)
  BY MachineTyped DEF EpsInv, EpsTyped
<1>2. ToSet(waiting) = {}
  BY DEF EpsInv, ToSet
<1>3. \A d \in ToSet(closed) : Beyond(m, DepthBound, d) \subseteq ToSet(closed)
  BY <1>2 DEF EpsInv, Settled
<1>4. Len(closed) + Further \in Nat
  BY <1>1, FurtherAssumption
<1>5. Reached \subseteq ToSet(closed)
  BY <1>1, <1>3, <1>4, ReachedLeast DEF Reached
<1>6. QED
  BY <1>5 DEF EpsInv

LEMMA InvAcceptance == EpsInv => AcceptanceFound
<1> SUFFICES ASSUME EpsInv, op = "accepts_via_eps", verdict # "running"
             PROVE  verdict = "accepted"
                      <=> \E d \in Reached : Len(d[2]) <= m.states /\ d[1] \in m.accepting
  BY DEF AcceptanceFound
<1>1. Lifo /\ DepthBound = m.states /\ ~ByStateAndTop
  BY DEF Lifo, DepthBound, ByStateAndTop
<1>2. CASE verdict = "accepted"
  BY <1>1, <1>2 DEF EpsInv
<1>3. CASE verdict = "closed"
  <2>1. ToSet(closed) = Reached
    BY <1>1, <1>3, InvComplete DEF ClosureComplete
  <2>2. ToSet(waiting) = {}
    BY <1>3 DEF EpsInv, ToSet
  <2>3. \A d \in Reached : ~(Len(d[2]) <= m.states /\ d[1] \in m.accepting)
    BY <1>1, <1>3, <2>1, <2>2 DEF EpsInv, Settled
  <2>4. QED
    BY <1>3, <2>3
<1>4. QED
  BY <1>2, <1>3 DEF EpsInv, EpsTyped

\* advance_eps on a machine with epsilon cycles, advance_eps_set and
\* mask_at_cfg end with exactly the configurations that any number of epsilon
\* moves reach from theirs, one beyond the depth bound not being left, for every
\* machine.
THEOREM ClosureAlwaysComplete == EpsSpec => []ClosureComplete
  BY EpsInvAlways, InvComplete, PTL

\* accepts_via_eps answers yes exactly when epsilon moves reach an accepting
\* state within the depth bound, for every machine: neither the order of its
\* stack nor its early return decides the answer.
THEOREM AcceptanceAlwaysFound == EpsSpec => []AcceptanceFound
  BY EpsInvAlways, InvAcceptance, PTL

----------------------------------------------------------------------------
(* topo_order: in_degree counts, for every node, the edges into it that    *)
(* are counted and not relaxed.  A node is queued when its last edge is    *)
(* relaxed, an edge is relaxed when its source is ordered, so a queued     *)
(* node has all its sources in the order.                                  *)

\* The edges into v that are counted and not relaxed.
Into(v) == {e \in 1..counted : e \notin relaxed /\ Dst(e) = v}

TopoTyped ==
  /\ graph \in Graphs
  /\ pc \in {"sort", "order", "none"}
  /\ counted \in 0..Len(graph.edges) /\ seeded \in 0..NumNodes
  /\ inDegree \in [Nodes -> Nat]
  /\ queue \in Seq(Nodes) /\ order \in Seq(Nodes)
  /\ relaxed \in SUBSET (1..counted)

\* The loops run one after the other.
Stages ==
  /\ \A e \in 1..counted : InRange(e)
  /\ counted < Len(graph.edges) => seeded = 0
  /\ seeded < NumNodes => order = <<>> /\ relaxed = {}
  /\ seeded = 0 /\ counted < Len(graph.edges) => queue = <<>> /\ order = <<>> /\ relaxed = {}

DegreesCount == \A v \in Nodes : inDegree[v] = Cardinality(Into(v))

QueuedHaveNoEdges ==
  \A v \in Nodes : Queued(v) \/ Ordered(v) => inDegree[v] = 0 /\ v < seeded

RelaxedAfterSource == \A e \in relaxed : Ordered(Src(e))

NothingTwice ==
  /\ \A i, j \in DOMAIN order : order[i] = order[j] => i = j
  /\ \A i, j \in DOMAIN queue : queue[i] = queue[j] => i = j
  /\ \A v \in Nodes : ~(Queued(v) /\ Ordered(v))

ReturnsAll == pc = "order" => Len(order) = NumNodes

IInv ==
  /\ TopoTyped /\ Stages /\ DegreesCount /\ QueuedHaveNoEdges
  /\ RelaxedAfterSource /\ NothingTwice /\ SourcesFirst /\ ReturnsAll

----------------------------------------------------------------------------
(* Sequences that grow at one end and shrink at the other.                 *)

LEMMA Appended ==
  ASSUME NEW S, NEW s \in Seq(S), NEW x \in S
  PROVE  /\ Append(s, x) \in Seq(S) /\ Len(s) \in Nat /\ Len(Append(s, x)) = Len(s) + 1
         /\ DOMAIN s = 1..Len(s) /\ DOMAIN Append(s, x) = 1..(Len(s) + 1)
         /\ \A i \in 1..Len(s) : Append(s, x)[i] = s[i]
         /\ Append(s, x)[Len(s) + 1] = x
         /\ \A v : (\E i \in DOMAIN Append(s, x) : Append(s, x)[i] = v)
                     <=> (\E i \in DOMAIN s : s[i] = v) \/ v = x
<1>1. /\ Append(s, x) \in Seq(S) /\ Len(s) \in Nat /\ Len(Append(s, x)) = Len(s) + 1
      /\ \A i \in 1..Len(s) : Append(s, x)[i] = s[i]
      /\ Append(s, x)[Len(s) + 1] = x
  BY AppendProperties, LenProperties
<1>2. DOMAIN s = 1..Len(s) /\ DOMAIN Append(s, x) = 1..(Len(s) + 1)
  BY <1>1, LenProperties
<1>3. 1..(Len(s) + 1) = 1..Len(s) \cup {Len(s) + 1}
  BY <1>1
<1>4. QED
  BY <1>1, <1>2, <1>3

Holds(s, v) == \E i \in DOMAIN s : s[i] = v

LEMMA AppendedHolds ==
  ASSUME NEW S, NEW s \in Seq(S), NEW x \in S
  PROVE  \A v : Holds(Append(s, x), v) <=> Holds(s, v) \/ v = x
BY Appended DEF Holds

LEMMA HeadRemoved ==
  ASSUME NEW S, NEW s \in Seq(S), s # <<>>
  PROVE  /\ Tail(s) \in Seq(S) /\ Head(s) \in S /\ Head(s) = s[1]
         /\ Len(s) \in Nat \ {0}
         /\ DOMAIN s = 1..Len(s) /\ DOMAIN Tail(s) = 1..(Len(s) - 1)
         /\ \A i \in 1..(Len(s) - 1) : Tail(s)[i] = s[i + 1]
<1>1. Tail(s) \in Seq(S) /\ Head(s) \in S /\ Len(Tail(s)) = Len(s) - 1
      /\ \A i \in 1..Len(Tail(s)) : Tail(s)[i] = s[i + 1]
  BY HeadTailProperties
<1>2. DOMAIN s = 1..Len(s) /\ DOMAIN Tail(s) = 1..Len(Tail(s)) /\ Len(s) \in Nat \ {0}
  BY <1>1, LenProperties, EmptySeq
<1>3. Head(s) = s[1]
  BY <1>2
<1>4. QED
  BY <1>1, <1>2, <1>3

LEMMA AppendedOnce ==
  ASSUME NEW S, NEW s \in Seq(S), NEW x \in S, ~\E i \in DOMAIN s : s[i] = x,
         \A i, j \in DOMAIN s : s[i] = s[j] => i = j
  PROVE  \A i, j \in DOMAIN Append(s, x) : Append(s, x)[i] = Append(s, x)[j] => i = j
BY Appended

LEMMA RemovedOnce ==
  ASSUME NEW S, NEW s \in Seq(S), s # <<>>, \A i, j \in DOMAIN s : s[i] = s[j] => i = j
  PROVE  /\ \A i, j \in DOMAIN Tail(s) : Tail(s)[i] = Tail(s)[j] => i = j
         /\ \A v : (\E i \in DOMAIN Tail(s) : Tail(s)[i] = v)
                     <=> (\E i \in DOMAIN s : s[i] = v) /\ v # Head(s)
<1>1. /\ Head(s) = s[1] /\ Len(s) \in Nat \ {0}
      /\ DOMAIN s = 1..Len(s) /\ DOMAIN Tail(s) = 1..(Len(s) - 1)
      /\ \A i \in 1..(Len(s) - 1) : Tail(s)[i] = s[i + 1]
  BY HeadRemoved
<1>2. ASSUME NEW i \in DOMAIN Tail(s), NEW j \in DOMAIN Tail(s), Tail(s)[i] = Tail(s)[j]
      PROVE  i = j
  BY <1>1, <1>2
<1>3. ASSUME NEW v, NEW i \in DOMAIN Tail(s), Tail(s)[i] = v
      PROVE  (\E k \in DOMAIN s : s[k] = v) /\ v # Head(s)
  <2>1. i + 1 \in DOMAIN s /\ s[i + 1] = v /\ i + 1 # 1 /\ 1 \in DOMAIN s
    BY <1>1, <1>3
  <2>2. QED
    BY <1>1, <2>1
<1>4. ASSUME NEW v, NEW k \in DOMAIN s, s[k] = v, v # Head(s)
      PROVE  \E i \in DOMAIN Tail(s) : Tail(s)[i] = v
  <2>1. k - 1 \in DOMAIN Tail(s) /\ Tail(s)[k - 1] = s[(k - 1) + 1] /\ (k - 1) + 1 = k
    BY <1>1, <1>4
  <2>2. QED
    BY <1>4, <2>1
<1>5. QED
  BY <1>2, <1>3, <1>4

----------------------------------------------------------------------------
(* The graph, and the edges into a node.                                   *)

LEMMA GraphShape ==
  ASSUME graph \in Graphs
  PROVE  /\ NumNodes \in Nat /\ Len(graph.edges) \in Nat
         /\ Edges = 1..Len(graph.edges)
         /\ \A e \in Edges : Src(e) \in Nat /\ Dst(e) \in Nat
<1>1. Len(graph.nodes) \in Nat /\ graph.edges \in Seq(Nat \X Nat)
  BY GraphsAssumption
<1>2. Len(graph.edges) \in Nat /\ Edges = 1..Len(graph.edges)
  BY <1>1, LenProperties DEF Edges
<1>3. ASSUME NEW e \in Edges PROVE Src(e) \in Nat /\ Dst(e) \in Nat
  <2>1. graph.edges[e] \in Nat \X Nat
    BY <1>1, <1>2, <1>3, ElementOfSeq
  <2>2. QED
    BY <2>1 DEF Src, Dst
<1>4. QED
  BY <1>1, <1>2, <1>3 DEF NumNodes

LEMMA IntoFinite ==
  ASSUME counted \in Nat, NEW v
  PROVE  IsFiniteSet(Into(v)) /\ Cardinality(Into(v)) \in Nat
<1>1. IsFiniteSet(1..counted)
  BY FS_Interval
<1>2. Into(v) \in SUBSET (1..counted)
  BY DEF Into
<1>3. IsFiniteSet(Into(v))
  BY <1>1, <1>2, FS_Subset
<1>4. QED
  BY <1>3, FS_CardinalityType

\* A node whose degree is zero has only relaxed edges into it.
LEMMA NoDegreeNoEdge ==
  ASSUME IInv, NEW v \in Nodes, inDegree[v] = 0, NEW e \in 1..counted, Dst(e) = v
  PROVE  e \in relaxed
<1>1. counted \in Nat
  BY GraphShape DEF IInv, TopoTyped
<1>2. Cardinality(Into(v)) = 0
  BY DEF IInv, DegreesCount
<1>3. Into(v) = {}
  BY <1>1, <1>2, IntoFinite, FS_EmptySet
<1>4. QED
  BY <1>3 DEF Into

----------------------------------------------------------------------------
(* The invariant: initially, and over every step.                          *)

LEMMA InitInv == TopoInit => IInv
<1> SUFFICES ASSUME TopoInit PROVE IInv
  OBVIOUS
<1>1. /\ graph \in Graphs /\ pc = "sort" /\ counted = 0 /\ seeded = 0
      /\ inDegree = [v \in Nodes |-> 0] /\ queue = <<>> /\ order = <<>> /\ relaxed = {}
  BY DEF TopoInit
<1>2. NumNodes \in Nat /\ Len(graph.edges) \in Nat
  BY <1>1, GraphShape
<1>3. 1..counted = {} /\ DOMAIN queue = {} /\ DOMAIN order = {}
  BY <1>1
<1>4. TopoTyped
  BY <1>1, <1>2, <1>3, EmptySeq DEF TopoTyped
<1>5. DegreesCount
  <2>1. \A v : Into(v) = {}
    BY <1>3 DEF Into
  <2>2. QED
    BY <1>1, <2>1, FS_EmptySet DEF DegreesCount
<1>6. QED
  BY <1>1, <1>3, <1>4, <1>5 DEF IInv, Stages, QueuedHaveNoEdges, Queued, Ordered,
     RelaxedAfterSource, NothingTwice, SourcesFirst, ReturnsAll

\* Counting an edge raises the degree of its target, which gains one edge.
LEMMA CountEdgeInv == IInv /\ CountEdge => IInv'
<1> SUFFICES ASSUME IInv, CountEdge PROVE IInv'
  OBVIOUS
<1> DEFINE e == counted + 1
<1>1. /\ pc = "sort" /\ counted < Len(graph.edges) /\ InRange(e)
      /\ inDegree' = [inDegree EXCEPT ![Dst(e)] = @ + 1] /\ counted' = e
      /\ graph' = graph /\ pc' = pc /\ seeded' = seeded /\ queue' = queue
      /\ order' = order /\ relaxed' = relaxed
  BY DEF CountEdge
<1>2. /\ counted \in Nat /\ Len(graph.edges) \in Nat /\ inDegree \in [Nodes -> Nat]
      /\ NumNodes \in Nat /\ Edges = 1..Len(graph.edges)
  BY GraphShape DEF IInv, TopoTyped
<1>3. seeded = 0 /\ queue = <<>> /\ order = <<>> /\ relaxed = {}
  BY <1>1 DEF IInv, Stages
<1>4. 1..e = 1..counted \cup {e} /\ e \notin 1..counted
  BY <1>2
<1>5. Dst(e) \in Nodes
  BY <1>1 DEF InRange
<1>6. Nodes' = Nodes /\ NumNodes' = NumNodes /\ Edges' = Edges
      /\ (\A f : Src(f)' = Src(f) /\ Dst(f)' = Dst(f))
  BY <1>1 DEF Nodes, NumNodes, Edges, Src, Dst
<1>7. TopoTyped'
  BY <1>1, <1>2, <1>3, <1>4, <1>5, <1>6 DEF IInv, TopoTyped
<1>8. Stages'
  BY <1>1, <1>3, <1>4, <1>6 DEF IInv, Stages, InRange
<1>9. DegreesCount'
  <2> SUFFICES ASSUME NEW v \in Nodes PROVE inDegree'[v] = Cardinality(Into(v)')
    BY <1>6 DEF DegreesCount
  <2>1. IsFiniteSet(Into(v)) /\ inDegree[v] = Cardinality(Into(v)) /\ e \notin Into(v)
    BY <1>2, <1>4, IntoFinite DEF IInv, DegreesCount, Into
  <2>2. CASE v = Dst(e)
    <3>1. Into(v)' = Into(v) \cup {e}
      BY <1>1, <1>3, <1>4, <1>6, <2>2 DEF Into
    <3>2. Cardinality(Into(v)') = Cardinality(Into(v)) + 1
      BY <2>1, <3>1, FS_AddElement
    <3>3. QED
      BY <1>1, <1>2, <2>1, <2>2, <3>2
  <2>3. CASE v # Dst(e)
    <3>1. Into(v)' = Into(v)
      BY <1>1, <1>3, <1>4, <1>6, <2>3 DEF Into
    <3>2. QED
      BY <1>1, <1>2, <2>1, <2>3, <3>1
  <2>4. QED
    BY <2>2, <2>3
<1>10. DOMAIN queue' = {} /\ DOMAIN order' = {}
  BY <1>1, <1>3
<1>11. QED
  BY <1>1, <1>3, <1>7, <1>8, <1>9, <1>10 DEF IInv, QueuedHaveNoEdges, Queued, Ordered,
     RelaxedAfterSource, NothingTwice, SourcesFirst, ReturnsAll

\* The steps that only end the loops.
LEMMA VerdictInv ==
  ASSUME IInv, UNCHANGED <<graph, counted, seeded, inDegree, queue, order, relaxed>>,
         pc' \in {"sort", "order", "none"}, pc' = "order" => Len(order) = NumNodes
  PROVE  IInv'
<1>1. TopoTyped'
  BY DEF IInv, TopoTyped, Nodes, NumNodes
<1>2. Stages'
  BY DEF IInv, Stages, InRange, Nodes, NumNodes, Src, Dst
<1>3. DegreesCount'
  BY DEF IInv, DegreesCount, Into, Dst, Nodes, NumNodes
<1>4. QueuedHaveNoEdges' /\ RelaxedAfterSource'
  BY DEF IInv, QueuedHaveNoEdges, RelaxedAfterSource, Queued, Ordered, Nodes, NumNodes, Src
<1>5. NothingTwice'
  BY DEF IInv, NothingTwice, Queued, Ordered, Nodes, NumNodes
<1>6. SourcesFirst'
  BY DEF IInv, SourcesFirst, Edges, Src, Dst
<1>7. ReturnsAll'
  BY DEF IInv, ReturnsAll, NumNodes
<1>8. QED
  BY <1>1, <1>2, <1>3, <1>4, <1>5, <1>6, <1>7 DEF IInv

LEMMA OutOfRangeInv == IInv /\ OutOfRange => IInv'
BY VerdictInv DEF OutOfRange

LEMMA FinishInv == IInv /\ TopoFinish => IInv'
BY VerdictInv DEF TopoFinish

\* A node whose degree is zero is queued, the first time it is looked at.
LEMMA SeedNodeInv == IInv /\ SeedNode => IInv'
<1> SUFFICES ASSUME IInv, SeedNode PROVE IInv'
  OBVIOUS
<1>1. /\ pc = "sort" /\ counted = Len(graph.edges) /\ seeded < NumNodes
      /\ queue' = IF inDegree[seeded] = 0 THEN Append(queue, seeded) ELSE queue
      /\ seeded' = seeded + 1
      /\ graph' = graph /\ pc' = pc /\ counted' = counted /\ inDegree' = inDegree
      /\ order' = order /\ relaxed' = relaxed
  BY DEF SeedNode
<1>2. /\ NumNodes \in Nat /\ Len(graph.edges) \in Nat /\ seeded \in 0..NumNodes
      /\ queue \in Seq(Nodes) /\ order \in Seq(Nodes)
  BY GraphShape DEF IInv, TopoTyped
<1>3. seeded \in Nodes
  BY <1>1, <1>2 DEF Nodes
<1>4. Nodes' = Nodes /\ NumNodes' = NumNodes /\ Edges' = Edges
      /\ (\A f : Src(f)' = Src(f) /\ Dst(f)' = Dst(f) /\ Into(f)' = Into(f) /\ Ordered(f)' = Ordered(f))
  BY <1>1 DEF Nodes, NumNodes, Edges, Src, Dst, Into, Ordered
<1>5. order = <<>> /\ relaxed = {}
  BY <1>1, <1>2 DEF IInv, Stages
<1>6. ~Queued(seeded) /\ \A v : ~Ordered(v)
  <2>1. ~Queued(seeded)
    BY <1>2, <1>3 DEF IInv, QueuedHaveNoEdges
  <2>2. QED
    BY <1>5, <2>1 DEF Ordered
<1>7. \A v : Queued(v)' <=> Queued(v) \/ (inDegree[seeded] = 0 /\ v = seeded)
  BY <1>1, <1>2, <1>3, Appended DEF Queued
<1>8. TopoTyped'
  <2>1. queue' \in Seq(Nodes)
    BY <1>1, <1>2, <1>3, Appended
  <2>2. seeded' \in 0..NumNodes
    BY <1>1, <1>2
  <2>3. QED
    BY <1>1, <1>4, <2>1, <2>2 DEF IInv, TopoTyped
<1>9. Stages'
  BY <1>1, <1>2, <1>4, <1>5 DEF IInv, Stages, InRange
<1>10. DegreesCount'
  BY <1>1, <1>4 DEF IInv, DegreesCount
<1>11. QueuedHaveNoEdges'
  <2> SUFFICES ASSUME NEW v \in Nodes, Queued(v)' PROVE inDegree[v] = 0 /\ v < seeded + 1
    BY <1>1, <1>4, <1>6 DEF QueuedHaveNoEdges
  <2>1. CASE Queued(v)
    BY <1>2, <2>1 DEF IInv, QueuedHaveNoEdges, Nodes
  <2>2. CASE inDegree[seeded] = 0 /\ v = seeded
    BY <1>2, <2>2
  <2>3. QED
    BY <1>7, <2>1, <2>2
<1>12. NothingTwice'
  <2>1. \A i, j \in DOMAIN queue' : queue'[i] = queue'[j] => i = j
    <3>1. \A i, j \in DOMAIN queue : queue[i] = queue[j] => i = j
      BY DEF IInv, NothingTwice
    <3>2. CASE inDegree[seeded] = 0
      BY <1>1, <1>2, <1>3, <1>6, <3>1, <3>2, AppendedOnce DEF Queued
    <3>3. CASE inDegree[seeded] # 0
      BY <1>1, <3>1, <3>3
    <3>4. QED
      BY <3>2, <3>3
  <2>2. \A v \in Nodes : ~Ordered(v)'
    BY <1>4, <1>6
  <2>3. QED
    BY <1>1, <1>4, <1>5, <2>1, <2>2 DEF NothingTwice
<1>13. RelaxedAfterSource' /\ SourcesFirst' /\ ReturnsAll'
  BY <1>1, <1>4, <1>5 DEF RelaxedAfterSource, SourcesFirst, ReturnsAll
<1>14. QED
  BY <1>8, <1>9, <1>10, <1>11, <1>12, <1>13 DEF IInv

\* The node taken has only relaxed edges into it, so its sources are ordered.
LEMMA TakeNodeInv == IInv /\ TakeNode => IInv'
<1> SUFFICES ASSUME IInv, TakeNode PROVE IInv'
  OBVIOUS
<1> DEFINE u == Head(queue)
<1>1. /\ pc = "sort" /\ counted = Len(graph.edges) /\ seeded = NumNodes /\ queue # <<>>
      /\ order' = Append(order, u) /\ queue' = Tail(queue)
      /\ graph' = graph /\ pc' = pc /\ counted' = counted /\ seeded' = seeded
      /\ inDegree' = inDegree /\ relaxed' = relaxed
  BY DEF TakeNode, Sorting
<1>2. /\ NumNodes \in Nat /\ Len(graph.edges) \in Nat /\ Edges = 1..Len(graph.edges)
      /\ queue \in Seq(Nodes) /\ order \in Seq(Nodes)
  BY GraphShape DEF IInv, TopoTyped
<1>3. Nodes' = Nodes /\ NumNodes' = NumNodes /\ Edges' = Edges
      /\ (\A f : Src(f)' = Src(f) /\ Dst(f)' = Dst(f) /\ Into(f)' = Into(f))
  BY <1>1 DEF Nodes, NumNodes, Edges, Src, Dst, Into
<1>4. /\ u \in Nodes /\ u = queue[1] /\ 1 \in DOMAIN queue /\ queue' \in Seq(Nodes)
  BY <1>1, <1>2, HeadRemoved
<1>5. /\ order' \in Seq(Nodes) /\ Len(order) \in Nat /\ DOMAIN order = 1..Len(order)
      /\ DOMAIN order' = 1..(Len(order) + 1) /\ order'[Len(order) + 1] = u
      /\ \A i \in 1..Len(order) : order'[i] = order[i]
  BY <1>1, <1>2, <1>4, Appended
<1>6. \A v : Ordered(v)' <=> Ordered(v) \/ v = u
  <2>1. \A v : Holds(Append(order, u), v) <=> Holds(order, v) \/ v = u
    BY <1>2, <1>4, AppendedHolds
  <2>2. \A v : Holds(order', v) <=> Holds(order, v) \/ v = u
    BY <1>1, <2>1
  <2>3. QED
    BY <2>2 DEF Ordered, Holds
<1>7. Queued(u) /\ \A v : Queued(v)' <=> Queued(v) /\ v # u
  <2>1. \A i, j \in DOMAIN queue : queue[i] = queue[j] => i = j
    BY DEF IInv, NothingTwice
  <2>2. \A v : (\E i \in DOMAIN Tail(queue) : Tail(queue)[i] = v)
                 <=> (\E i \in DOMAIN queue : queue[i] = v) /\ v # Head(queue)
    BY <1>1, <1>2, <2>1, RemovedOnce
  <2>3. \A v : (\E i \in DOMAIN queue' : queue'[i] = v)
                 <=> (\E i \in DOMAIN queue : queue[i] = v) /\ v # u
    BY <1>1, <2>2
  <2>4. Queued(u)
    BY <1>4 DEF Queued
  <2>5. QED
    BY <2>3, <2>4 DEF Queued
<1>8. ~Ordered(u) /\ inDegree[u] = 0
  BY <1>4, <1>7 DEF IInv, NothingTwice, QueuedHaveNoEdges
<1>9. TopoTyped'
  BY <1>1, <1>3, <1>4, <1>5 DEF IInv, TopoTyped
<1>10. Stages' /\ DegreesCount' /\ ReturnsAll'
  BY <1>1, <1>2, <1>3 DEF IInv, Stages, InRange, DegreesCount, ReturnsAll
<1>11. QueuedHaveNoEdges' /\ RelaxedAfterSource'
  BY <1>1, <1>3, <1>6, <1>7 DEF IInv, QueuedHaveNoEdges, RelaxedAfterSource
<1>12. NothingTwice'
  <2>1. \A i, j \in DOMAIN order' : order'[i] = order'[j] => i = j
    BY <1>1, <1>2, <1>4, <1>8, AppendedOnce DEF IInv, NothingTwice, Ordered
  <2>2. \A i, j \in DOMAIN queue' : queue'[i] = queue'[j] => i = j
    BY <1>1, <1>2, RemovedOnce DEF IInv, NothingTwice
  <2>3. \A v \in Nodes : ~(Queued(v)' /\ Ordered(v)')
    BY <1>6, <1>7 DEF IInv, NothingTwice
  <2>4. QED
    BY <1>3, <2>1, <2>2, <2>3 DEF NothingTwice
<1>13. SourcesFirst'
  <2> SUFFICES ASSUME NEW i \in DOMAIN order', NEW e \in Edges, Dst(e) = order'[i]
               PROVE  \E j \in 1..(i - 1) : order'[j] = Src(e)
    BY <1>3 DEF SourcesFirst
  <2>1. CASE i \in 1..Len(order)
    <3>1. PICK j \in 1..(i - 1) : order[j] = Src(e)
      BY <1>1, <1>5, <2>1 DEF IInv, SourcesFirst
    <3>2. j \in 1..Len(order)
      BY <1>5, <2>1
    <3>3. QED
      BY <1>5, <3>1, <3>2
  <2>2. CASE i = Len(order) + 1
    <3>1. e \in relaxed
      BY <1>1, <1>2, <1>4, <1>5, <1>8, <2>2, NoDegreeNoEdge
    <3>2. PICK j \in DOMAIN order : order[j] = Src(e)
      BY <3>1 DEF IInv, RelaxedAfterSource, Ordered
    <3>3. j \in 1..(i - 1)
      BY <1>5, <2>2
    <3>4. QED
      BY <1>5, <3>2, <3>3
  <2>3. QED
    BY <1>5, <2>1, <2>2
<1>14. QED
  BY <1>9, <1>10, <1>11, <1>12, <1>13 DEF IInv

\* Relaxing an edge lowers the degree of its target, which loses one edge; a
\* target that loses its last edge was neither queued nor ordered before.
LEMMA RelaxEdgeInv == IInv /\ RelaxEdge => IInv'
<1> SUFFICES ASSUME IInv, RelaxEdge PROVE IInv'
  OBVIOUS
<1>1. PICK e \in Pending :
        /\ relaxed' = relaxed \cup {e}
        /\ inDegree' = [inDegree EXCEPT ![Dst(e)] = @ - 1]
        /\ queue' = IF inDegree[Dst(e)] = 1 THEN Append(queue, Dst(e)) ELSE queue
  BY DEF RelaxEdge
<1> DEFINE d == Dst(e)
<1>2. /\ pc = "sort" /\ counted = Len(graph.edges) /\ seeded = NumNodes
      /\ graph' = graph /\ pc' = pc /\ counted' = counted /\ seeded' = seeded
      /\ order' = order
  BY DEF RelaxEdge, Sorting
<1>3. /\ NumNodes \in Nat /\ counted \in Nat /\ Edges = 1..counted
      /\ queue \in Seq(Nodes) /\ order \in Seq(Nodes) /\ inDegree \in [Nodes -> Nat]
      /\ relaxed \in SUBSET (1..counted)
  BY <1>2, GraphShape DEF IInv, TopoTyped
<1>4. e \in 1..counted /\ e \notin relaxed /\ Ordered(Src(e))
  BY <1>3 DEF Pending
<1>5. d \in Nodes
  BY <1>4 DEF IInv, Stages, InRange
<1>6. Nodes' = Nodes /\ NumNodes' = NumNodes /\ Edges' = Edges
      /\ (\A f : Src(f)' = Src(f) /\ Dst(f)' = Dst(f) /\ Ordered(f)' = Ordered(f))
  BY <1>2 DEF Nodes, NumNodes, Edges, Src, Dst, Ordered
<1>7. /\ IsFiniteSet(Into(d)) /\ Cardinality(Into(d)) \in Nat /\ e \in Into(d)
      /\ inDegree[d] = Cardinality(Into(d)) /\ inDegree[d] # 0
  <2>1. IsFiniteSet(Into(d)) /\ Cardinality(Into(d)) \in Nat
    BY <1>3, IntoFinite
  <2>2. e \in Into(d)
    BY <1>4 DEF Into
  <2>3. Cardinality(Into(d)) # 0
    BY <2>1, <2>2, FS_EmptySet
  <2>4. inDegree[d] = Cardinality(Into(d))
    BY <1>5 DEF IInv, DegreesCount
  <2>5. QED
    BY <2>1, <2>2, <2>3, <2>4
<1>8. ~Queued(d) /\ ~Ordered(d)
  BY <1>5, <1>7 DEF IInv, QueuedHaveNoEdges
<1>9. /\ inDegree' \in [Nodes -> Nat] /\ inDegree'[d] = inDegree[d] - 1
      /\ \A v \in Nodes : v # d => inDegree'[v] = inDegree[v]
  <2>1. inDegree[d] \in Nat /\ inDegree[d] - 1 \in Nat
    BY <1>3, <1>5, <1>7
  <2>2. QED
    BY <1>1, <1>3, <1>5, <2>1
<1>10. queue' \in Seq(Nodes) /\ \A v : Queued(v)' <=> Queued(v) \/ (inDegree[d] = 1 /\ v = d)
  <2>1. CASE inDegree[d] = 1
    <3>1. Append(queue, d) \in Seq(Nodes)
      BY <1>3, <1>5, Appended
    <3>2. \A v : Holds(Append(queue, d), v) <=> Holds(queue, v) \/ v = d
      BY <1>3, <1>5, AppendedHolds
    <3>3. queue' = Append(queue, d)
      BY <1>1, <2>1
    <3>4. \A v : Holds(queue', v) <=> Holds(queue, v) \/ v = d
      BY <3>2, <3>3
    <3>5. QED
      BY <2>1, <3>1, <3>3, <3>4 DEF Queued, Holds
  <2>2. CASE inDegree[d] # 1
    BY <1>1, <1>3, <2>2 DEF Queued
  <2>3. QED
    BY <2>1, <2>2
<1>11. TopoTyped'
  BY <1>1, <1>2, <1>3, <1>4, <1>6, <1>9, <1>10 DEF IInv, TopoTyped
<1>12. Stages'
  <2>1. \A f \in 1..counted : InRange(f)
    BY DEF IInv, Stages
  <2>2. order # <<>>
    BY <1>4 DEF Ordered
  <2>3. QED
    BY <1>2, <1>3, <1>6, <2>1 DEF Stages, InRange
<1>13. DegreesCount'
  <2> SUFFICES ASSUME NEW v \in Nodes PROVE inDegree'[v] = Cardinality(Into(v)')
    BY <1>6 DEF DegreesCount
  <2>1. CASE v = d
    <3>1. Into(v)' = Into(d) \ {e}
      BY <1>1, <1>2, <1>6, <2>1 DEF Into
    <3>2. Cardinality(Into(d) \ {e}) = Cardinality(Into(d)) - 1
      BY <1>7, FS_RemoveElement
    <3>3. QED
      BY <1>7, <1>9, <2>1, <3>1, <3>2
  <2>2. CASE v # d
    <3>1. Into(v)' = Into(v)
      BY <1>1, <1>2, <1>6, <2>2 DEF Into
    <3>2. inDegree[v] = Cardinality(Into(v))
      BY DEF IInv, DegreesCount
    <3>3. QED
      BY <1>9, <2>2, <3>1, <3>2
  <2>3. QED
    BY <2>1, <2>2
<1>14. QueuedHaveNoEdges'
  <2> SUFFICES ASSUME NEW v \in Nodes, Queued(v)' \/ Ordered(v)'
               PROVE  inDegree'[v] = 0 /\ v < seeded
    BY <1>2, <1>6 DEF QueuedHaveNoEdges
  <2>1. CASE Queued(v) \/ Ordered(v)
    <3>1. inDegree[v] = 0 /\ v < seeded
      BY <2>1 DEF IInv, QueuedHaveNoEdges
    <3>2. QED
      BY <1>7, <1>9, <3>1
  <2>2. CASE inDegree[d] = 1 /\ v = d
    BY <1>2, <1>3, <1>9, <2>2 DEF Nodes
  <2>3. QED
    BY <1>6, <1>10, <2>1, <2>2
<1>15. RelaxedAfterSource'
  BY <1>1, <1>4, <1>6 DEF IInv, RelaxedAfterSource
<1>16. NothingTwice'
  <2>1. \A i, j \in DOMAIN queue : queue[i] = queue[j] => i = j
    BY DEF IInv, NothingTwice
  <2>2. \A i, j \in DOMAIN queue' : queue'[i] = queue'[j] => i = j
    <3>1. CASE inDegree[d] = 1
      <4>1. ~\E i \in DOMAIN queue : queue[i] = d
        BY <1>8 DEF Queued
      <4>2. \A i, j \in DOMAIN Append(queue, d) :
              Append(queue, d)[i] = Append(queue, d)[j] => i = j
        BY <1>3, <1>5, <2>1, <4>1, AppendedOnce
      <4>3. QED
        BY <1>1, <3>1, <4>2
    <3>2. CASE inDegree[d] # 1
      BY <1>1, <2>1, <3>2
    <3>3. QED
      BY <3>1, <3>2
  <2>3. \A i, j \in DOMAIN order : order[i] = order[j] => i = j
    BY DEF IInv, NothingTwice
  <2>4. \A v \in Nodes : ~(Queued(v) /\ Ordered(v))
    BY DEF IInv, NothingTwice
  <2>5. \A v \in Nodes : ~(Queued(v)' /\ Ordered(v)')
    BY <1>6, <1>8, <1>10, <2>4
  <2>6. QED
    BY <1>2, <1>6, <2>2, <2>3, <2>5 DEF NothingTwice
<1>17. SourcesFirst' /\ ReturnsAll'
  BY <1>2, <1>6 DEF IInv, SourcesFirst, ReturnsAll
<1>18. QED
  BY <1>11, <1>12, <1>13, <1>14, <1>15, <1>16, <1>17 DEF IInv

LEMMA NextInv == IInv /\ [TopoNext]_topoVars => IInv'
<1> SUFFICES ASSUME IInv, [TopoNext]_topoVars PROVE IInv'
  OBVIOUS
<1>1. CASE CountEdge
  BY <1>1, CountEdgeInv
<1>2. CASE OutOfRange
  BY <1>2, OutOfRangeInv
<1>3. CASE SeedNode
  BY <1>3, SeedNodeInv
<1>4. CASE TakeNode
  BY <1>4, TakeNodeInv
<1>5. CASE RelaxEdge
  BY <1>5, RelaxEdgeInv
<1>6. CASE TopoFinish
  BY <1>6, FinishInv
<1>7. CASE UNCHANGED topoVars
  <2>1. pc' \in {"sort", "order", "none"} /\ (pc' = "order" => Len(order) = NumNodes)
    BY <1>7 DEF IInv, TopoTyped, ReturnsAll, topoVars
  <2>2. QED
    BY <1>7, <2>1, VerdictInv DEF topoVars
<1>8. QED
  BY <1>1, <1>2, <1>3, <1>4, <1>5, <1>6, <1>7 DEF TopoNext

----------------------------------------------------------------------------
(* What is returned.                                                       *)

\* NumNodes different nodes are all the nodes: an order as long as the graph
\* that holds nothing twice misses nothing.
LEMMA AllOrdered ==
  ASSUME IInv, Len(order) = NumNodes
  PROVE  \A v \in Nodes : Ordered(v)
<1>1. /\ NumNodes \in Nat /\ order \in Seq(Nodes) /\ DOMAIN order = 1..NumNodes
      /\ \A i \in 1..NumNodes : order[i] \in Nodes
  BY GraphShape, LenProperties, ElementOfSeq DEF IInv, TopoTyped
<1>2. /\ Cardinality(1..NumNodes) = NumNodes
      /\ IsFiniteSet(Nodes) /\ Cardinality(Nodes) = NumNodes
  <2>1. IsFiniteSet(1..NumNodes) /\ Cardinality(1..NumNodes) = NumNodes
    BY <1>1, FS_Interval
  <2>2. IsFiniteSet(0..(NumNodes - 1))
        /\ Cardinality(0..(NumNodes - 1)) =
             IF 0 > NumNodes - 1 THEN 0 ELSE (NumNodes - 1) - 0 + 1
    BY <1>1, FS_Interval
  <2>3. QED
    BY <1>1, <2>1, <2>2 DEF Nodes
<1> DEFINE f == [i \in 1..NumNodes |-> order[i]]
<1>3. f \in [1..NumNodes -> Nodes] /\ \A i, j \in 1..NumNodes : f[i] = f[j] => i = j
  BY <1>1 DEF IInv, NothingTwice
<1>4. \A v \in Nodes : \E i \in 1..NumNodes : f[i] = v
  <2> HIDE DEF f
  <2>1. QED
    BY <1>2, <1>3, InjectiveOnto
<1>5. QED
  BY <1>1, <1>4 DEF Ordered

LEMMA Correct == IInv => Topological
<1> SUFFICES ASSUME IInv PROVE Topological
  OBVIOUS
<1>1. pc = "order" => \A v \in Nodes : Ordered(v)
  BY AllOrdered DEF IInv, ReturnsAll
<1>2. QED
  BY <1>1 DEF IInv, NothingTwice, Topological, OrderIsComplete

\* topo_order never places a node before one it depends on, and an order it
\* returns is a permutation of the nodes, for every graph.
THEOREM TopologicalAlways == TopoSpec => []Topological
<1>1. TopoInit => IInv
  BY InitInv
<1>2. IInv /\ [TopoNext]_topoVars => IInv'
  BY NextInv
<1>3. IInv => Topological
  BY Correct
<1>4. QED
  BY <1>1, <1>2, <1>3, PTL DEF TopoSpec

----------------------------------------------------------------------------
(* topo_order fails exactly on the lists of edges that are no acyclic      *)
(* graph.  When it gives up with an empty queue, each node left over has   *)
(* an edge that was not relaxed, so its source is left over too; and in an *)
(* order no set of nodes can hold a source of each of its members, because *)
(* the first of them has all its sources before it.                        *)

\* A node that was looked at and has no edge left is in the queue or behind it.
ZeroQueued ==
  \A v \in Nodes : v < seeded /\ inDegree[v] = 0 => Queued(v) \/ Ordered(v)

\* The queue ran empty before every node was ordered.
Stuck ==
  /\ counted = Len(graph.edges) /\ seeded = NumNodes
  /\ Pending = {} /\ queue = <<>> /\ Len(order) # NumNodes

\* What was the case when the sort ended.
Reason ==
  /\ pc = "none" => \/ counted < Len(graph.edges) /\ ~InRange(counted + 1)
                    \/ Stuck
  /\ pc = "order" => counted = Len(graph.edges)

CInv == IInv /\ ZeroQueued /\ Reason

----------------------------------------------------------------------------
(* The invariant, over every step.                                         *)

LEMMA InitCInv == TopoInit => CInv
<1> SUFFICES ASSUME TopoInit PROVE CInv
  OBVIOUS
<1>1. IInv
  BY InitInv
<1>2. \A v \in Nodes : ~(v < seeded)
  BY <1>1, GraphShape DEF TopoInit, Nodes, IInv, TopoTyped
<1>3. QED
  BY <1>1, <1>2 DEF TopoInit, CInv, ZeroQueued, Reason

\* The end of the sort, and the verdict with its reason.
LEMMA OutOfRangeReason == CInv /\ OutOfRange => ZeroQueued' /\ Reason'
<1> SUFFICES ASSUME CInv, OutOfRange PROVE ZeroQueued' /\ Reason'
  OBVIOUS
<1>1. /\ counted < Len(graph.edges) /\ ~InRange(counted + 1) /\ pc' = "none"
      /\ graph' = graph /\ counted' = counted /\ seeded' = seeded
      /\ inDegree' = inDegree /\ queue' = queue /\ order' = order
  BY DEF OutOfRange
<1>2. ZeroQueued'
  BY <1>1 DEF CInv, ZeroQueued, Queued, Ordered, Nodes, NumNodes
<1>3. Reason'
  BY <1>1 DEF Reason, InRange, Nodes, NumNodes, Src, Dst
<1>4. QED
  BY <1>2, <1>3

LEMMA FinishReason == CInv /\ TopoFinish => ZeroQueued' /\ Reason'
<1> SUFFICES ASSUME CInv, TopoFinish PROVE ZeroQueued' /\ Reason'
  OBVIOUS
<1>1. /\ counted = Len(graph.edges) /\ seeded = NumNodes /\ Pending = {} /\ queue = <<>>
      /\ pc' = IF Len(order) = NumNodes THEN "order" ELSE "none"
      /\ graph' = graph /\ counted' = counted /\ seeded' = seeded
      /\ inDegree' = inDegree /\ queue' = queue /\ order' = order /\ relaxed' = relaxed
  BY DEF TopoFinish, Sorting
<1>2. ZeroQueued'
  BY <1>1 DEF CInv, ZeroQueued, Queued, Ordered, Nodes, NumNodes
<1>3. Pending' = {} /\ NumNodes' = NumNodes
  BY <1>1 DEF Pending, Edges, Ordered, Src, NumNodes
<1>4. Reason'
  BY <1>1, <1>3 DEF Reason, Stuck
<1>5. QED
  BY <1>2, <1>4

\* No node is looked at while edges are counted.
LEMMA CountEdgeReason == CInv /\ CountEdge => ZeroQueued' /\ Reason'
<1> SUFFICES ASSUME CInv, CountEdge PROVE ZeroQueued' /\ Reason'
  OBVIOUS
<1>1. counted < Len(graph.edges) /\ pc' = "sort" /\ seeded' = seeded /\ graph' = graph
  BY DEF CountEdge
<1>2. seeded = 0 /\ NumNodes \in Nat
  BY <1>1, GraphShape DEF CInv, IInv, TopoTyped, Stages
<1>3. \A v \in Nodes' : ~(v < seeded')
  BY <1>1, <1>2 DEF Nodes, NumNodes
<1>4. QED
  BY <1>1, <1>3 DEF ZeroQueued, Reason

\* A node without edges is queued as it is looked at.
LEMMA SeedNodeReason == CInv /\ SeedNode => ZeroQueued' /\ Reason'
<1> SUFFICES ASSUME CInv, SeedNode PROVE ZeroQueued' /\ Reason'
  OBVIOUS
<1>1. /\ pc' = "sort" /\ seeded < NumNodes /\ seeded' = seeded + 1
      /\ queue' = IF inDegree[seeded] = 0 THEN Append(queue, seeded) ELSE queue
      /\ graph' = graph /\ inDegree' = inDegree /\ order' = order
  BY DEF SeedNode
<1>2. /\ NumNodes \in Nat /\ seeded \in 0..NumNodes /\ queue \in Seq(Nodes)
      /\ Nodes' = Nodes
  BY <1>1, GraphShape DEF CInv, IInv, TopoTyped, Nodes, NumNodes
<1>3. seeded \in Nodes
  BY <1>1, <1>2 DEF Nodes
<1>4. \A v : Queued(v)' <=> Queued(v) \/ (inDegree[seeded] = 0 /\ v = seeded)
  BY <1>1, <1>2, <1>3, Appended DEF Queued
<1>5. \A v : Ordered(v)' <=> Ordered(v)
  BY <1>1 DEF Ordered
<1>6. \A v \in Nodes : v < seeded + 1 => v < seeded \/ v = seeded
  BY <1>2 DEF Nodes
<1>7. QED
  BY <1>1, <1>2, <1>4, <1>5, <1>6 DEF CInv, ZeroQueued, Reason

\* The node taken moves from the queue to the order.
LEMMA TakeNodeReason == CInv /\ TakeNode => ZeroQueued' /\ Reason'
<1> SUFFICES ASSUME CInv, TakeNode PROVE ZeroQueued' /\ Reason'
  OBVIOUS
<1> DEFINE u == Head(queue)
<1>1. /\ pc' = "sort" /\ queue # <<>> /\ seeded' = seeded
      /\ order' = Append(order, u) /\ queue' = Tail(queue)
      /\ graph' = graph /\ inDegree' = inDegree
  BY DEF TakeNode, Sorting
<1>2. queue \in Seq(Nodes) /\ order \in Seq(Nodes) /\ Nodes' = Nodes /\ u \in Nodes
  BY <1>1, HeadRemoved DEF CInv, IInv, TopoTyped, Nodes, NumNodes
<1>3. \A v : Ordered(v)' <=> Ordered(v) \/ v = u
  <2>1. \A v : Holds(Append(order, u), v) <=> Holds(order, v) \/ v = u
    BY <1>2, AppendedHolds
  <2>2. \A v : Holds(order', v) <=> Holds(order, v) \/ v = u
    BY <1>1, <2>1
  <2>3. QED
    BY <2>2 DEF Ordered, Holds
<1>4. \A v : Queued(v)' <=> Queued(v) /\ v # u
  <2>1. \A i, j \in DOMAIN queue : queue[i] = queue[j] => i = j
    BY DEF CInv, IInv, NothingTwice
  <2>2. \A v : (\E i \in DOMAIN Tail(queue) : Tail(queue)[i] = v)
                 <=> (\E i \in DOMAIN queue : queue[i] = v) /\ v # Head(queue)
    BY <1>1, <1>2, <2>1, RemovedOnce
  <2>3. \A v : (\E i \in DOMAIN queue' : queue'[i] = v)
                 <=> (\E i \in DOMAIN queue : queue[i] = v) /\ v # u
    BY <1>1, <2>2
  <2>4. QED
    BY <2>3 DEF Queued
<1>5. QED
  BY <1>1, <1>2, <1>3, <1>4 DEF CInv, ZeroQueued, Reason

\* A node that loses its last edge is queued at once.
LEMMA RelaxEdgeReason == CInv /\ RelaxEdge => ZeroQueued' /\ Reason'
<1> SUFFICES ASSUME CInv, RelaxEdge PROVE ZeroQueued' /\ Reason'
  OBVIOUS
<1>1. PICK e \in Pending :
        /\ inDegree' = [inDegree EXCEPT ![Dst(e)] = @ - 1]
        /\ queue' = IF inDegree[Dst(e)] = 1 THEN Append(queue, Dst(e)) ELSE queue
  BY DEF RelaxEdge
<1> DEFINE d == Dst(e)
<1>2. /\ pc' = "sort" /\ seeded' = seeded /\ graph' = graph /\ order' = order
      /\ counted = Len(graph.edges)
  BY DEF RelaxEdge, Sorting
<1>3. /\ Edges = 1..counted /\ queue \in Seq(Nodes) /\ inDegree \in [Nodes -> Nat]
      /\ Nodes' = Nodes
  BY <1>2, GraphShape DEF CInv, IInv, TopoTyped, Nodes, NumNodes
<1>4. d \in Nodes
  BY <1>1, <1>3 DEF CInv, IInv, Stages, InRange, Pending
<1>5. \A v : Queued(v)' <=> Queued(v) \/ (inDegree[d] = 1 /\ v = d)
  <2>1. CASE inDegree[d] = 1
    <3>1. \A v : Holds(Append(queue, d), v) <=> Holds(queue, v) \/ v = d
      BY <1>3, <1>4, AppendedHolds
    <3>2. \A v : Holds(queue', v) <=> Holds(queue, v) \/ v = d
      BY <1>1, <2>1, <3>1
    <3>3. QED
      BY <2>1, <3>2 DEF Queued, Holds
  <2>2. CASE inDegree[d] # 1
    BY <1>1, <2>2 DEF Queued
  <2>3. QED
    BY <2>1, <2>2
<1>6. \A v : Ordered(v)' <=> Ordered(v)
  BY <1>2 DEF Ordered
<1>7. \A v \in Nodes : inDegree'[v] = 0 => inDegree[v] = 0 \/ (inDegree[d] = 1 /\ v = d)
  <2>1. inDegree[d] \in Nat
    BY <1>3, <1>4
  <2>2. inDegree'[d] = inDegree[d] - 1 /\ \A v \in Nodes : v # d => inDegree'[v] = inDegree[v]
    BY <1>1, <1>3, <1>4
  <2>3. inDegree[d] - 1 = 0 => inDegree[d] = 1
    BY <2>1
  <2>4. QED
    BY <2>2, <2>3
<1>8. QED
  BY <1>2, <1>3, <1>5, <1>6, <1>7 DEF CInv, ZeroQueued, Reason

LEMMA NextCInv == CInv /\ [TopoNext]_topoVars => CInv'
<1> SUFFICES ASSUME CInv, [TopoNext]_topoVars PROVE CInv'
  OBVIOUS
<1>1. IInv'
  BY NextInv DEF CInv
<1>2. ZeroQueued' /\ Reason'
  <2>1. CASE UNCHANGED topoVars
    BY <2>1 DEF topoVars, CInv, ZeroQueued, Reason, Stuck, Pending, Edges, InRange,
       Queued, Ordered, Nodes, NumNodes, Src, Dst
  <2>2. CASE TopoNext
    BY <2>2, CountEdgeReason, OutOfRangeReason, SeedNodeReason, TakeNodeReason,
       RelaxEdgeReason, FinishReason DEF TopoNext
  <2>3. QED
    BY <2>1, <2>2
<1>3. QED
  BY <1>1, <1>2 DEF CInv

----------------------------------------------------------------------------
(* What the verdict says of the graph.                                     *)

\* An order of every node is as long as there are nodes.
LEMMA AllOrderedLength ==
  ASSUME IInv, \A v \in Nodes : Ordered(v)
  PROVE  Len(order) = NumNodes
<1>1. NumNodes \in Nat /\ order \in Seq(Nodes)
  BY GraphShape DEF IInv, TopoTyped
<1>2. DOMAIN order = 1..Len(order) /\ Len(order) \in Nat /\ order \in [1..Len(order) -> Nodes]
  BY <1>1, LenProperties
<1>3. IsFiniteSet(Nodes) /\ Cardinality(Nodes) = NumNodes
      /\ IsFiniteSet(1..Len(order)) /\ Cardinality(1..Len(order)) = Len(order)
  <2>1. IsFiniteSet(0..(NumNodes - 1)) /\ Cardinality(0..(NumNodes - 1))
          = IF 0 <= NumNodes - 1 THEN (NumNodes - 1) - 0 + 1 ELSE 0
    BY <1>1, FS_Interval
  <2>2. IsFiniteSet(1..Len(order)) /\ Cardinality(1..Len(order))
          = IF 1 <= Len(order) THEN Len(order) - 1 + 1 ELSE 0
    BY <1>2, FS_Interval
  <2>3. QED
    BY <1>1, <1>2, <2>1, <2>2 DEF Nodes
<1>4. \A i, j \in 1..Len(order) : order[i] = order[j] => i = j
  BY <1>2 DEF IInv, NothingTwice
<1>5. \A v \in Nodes : \E i \in 1..Len(order) : order[i] = v
  BY <1>2 DEF Ordered
<1>6. Cardinality(1..Len(order)) = Cardinality(Nodes)
  BY <1>2, <1>3, <1>4, <1>5, InjectiveOnto
<1>7. QED
  BY <1>3, <1>6

\* The nodes left over when the queue runs empty form a cycle.
LEMMA StuckIsCyclic == CInv /\ Stuck => Cyclic
<1> SUFFICES ASSUME CInv, Stuck PROVE Cyclic
  OBVIOUS
<1> DEFINE s == {v \in Nodes : ~Ordered(v)}
<1>1. s # {}
  BY AllOrderedLength DEF CInv, Stuck
<1>2. ASSUME NEW v \in s PROVE \E e \in Edges : Dst(e) = v /\ Src(e) \in s
  <2>1. NumNodes \in Nat /\ counted \in Nat /\ Edges = 1..counted
    BY GraphShape DEF CInv, IInv, TopoTyped, Stuck
  <2>2. ~Queued(v) /\ ~Ordered(v) /\ v < seeded
    BY <2>1 DEF Stuck, Queued, Nodes
  <2>3. inDegree[v] # 0
    BY <2>2 DEF CInv, ZeroQueued
  <2>4. Into(v) # {}
    BY <2>3, FS_EmptySet DEF CInv, IInv, DegreesCount
  <2>5. PICK e \in 1..counted : e \notin relaxed /\ Dst(e) = v
    BY <2>4 DEF Into
  <2>6. ~Ordered(Src(e)) /\ Src(e) \in Nodes
    BY <2>1, <2>5 DEF Stuck, Pending, CInv, IInv, Stages, InRange
  <2>7. QED
    BY <2>1, <2>5, <2>6
<1>3. QED
  BY <1>1, <1>2 DEF Cyclic

\* The first node of a set in an order has its sources outside the set.
LEMMA OrderIsAcyclic ==
  ASSUME IInv, counted = Len(graph.edges), \A v \in Nodes : Ordered(v)
  PROVE  ~Cyclic
<1> SUFFICES ASSUME NEW s \in SUBSET Nodes, s # {},
                    \A v \in s : \E e \in Edges : Dst(e) = v /\ Src(e) \in s
             PROVE  FALSE
  BY DEF Cyclic
<1> DEFINE I == {i \in DOMAIN order : order[i] \in s}
<1>1. DOMAIN order = 1..Len(order) /\ Len(order) \in Nat
  BY LenProperties DEF IInv, TopoTyped
<1>2. I \subseteq Nat /\ I # {}
  <2>1. I \subseteq Nat
    BY <1>1
  <2>2. PICK v \in s : Ordered(v)
    OBVIOUS
  <2>3. QED
    BY <2>1, <2>2 DEF Ordered
<1>3. PICK i \in I : \A j \in I : i <= j
  <2> HIDE DEF I
  <2>1. QED
    BY <1>2, LeastNatural
<1>4. \A j \in I : ~(j < i)
  BY <1>2, <1>3
<1>5. PICK e \in Edges : Dst(e) = order[i] /\ Src(e) \in s
  BY <1>3
<1>6. PICK j \in 1..(i - 1) : order[j] = Src(e)
  BY <1>3, <1>5 DEF IInv, SourcesFirst
<1>7. j \in DOMAIN order /\ j < i
  <2>1. i \in 1..Len(order)
    BY <1>1, <1>3
  <2> HIDE DEF I
  <2>2. j \in 1..Len(order) /\ j < i
    BY <1>1, <1>6, <2>1
  <2>3. QED
    BY <1>1, <2>2
<1>8. QED
  BY <1>4, <1>5, <1>6, <1>7

LEMMA VerdictRight == CInv => NoneIffCyclic
<1> SUFFICES ASSUME CInv PROVE NoneIffCyclic
  OBVIOUS
<1>1. Len(graph.edges) \in Nat /\ counted \in 0..Len(graph.edges) /\ Edges = 1..Len(graph.edges)
  BY GraphShape DEF CInv, IInv, TopoTyped
<1>2. ASSUME pc = "none" PROVE Cyclic \/ \E e \in Edges : ~InRange(e)
  <2>1. CASE counted < Len(graph.edges) /\ ~InRange(counted + 1)
    <3>1. counted + 1 \in Edges
      BY <1>1, <2>1
    <3>2. QED
      BY <2>1, <3>1
  <2>2. CASE Stuck
    BY <2>2, StuckIsCyclic
  <2>3. QED
    BY <1>2, <2>1, <2>2 DEF CInv, Reason
<1>3. ASSUME pc = "order" PROVE ~Cyclic /\ \A e \in Edges : InRange(e)
  <2>1. counted = Len(graph.edges)
    BY <1>3 DEF CInv, Reason
  <2>2. \A e \in Edges : InRange(e)
    BY <1>1, <2>1 DEF CInv, IInv, Stages
  <2>3. \A v \in Nodes : Ordered(v)
    BY <1>3, AllOrdered DEF CInv, IInv, ReturnsAll
  <2>4. QED
    BY <2>1, <2>2, <2>3, OrderIsAcyclic DEF CInv
<1>4. QED
  BY <1>2, <1>3 DEF NoneIffCyclic

\* topo_order answers Cycle exactly where an edge is out of range or the graph
\* has a cycle, for every graph.
THEOREM NoneExactlyOnCycles == TopoSpec => []NoneIffCyclic
<1>1. TopoInit => CInv
  BY InitCInv
<1>2. CInv /\ [TopoNext]_topoVars => CInv'
  BY NextCInv
<1>3. CInv => NoneIffCyclic
  BY VerdictRight
<1>4. QED
  BY <1>1, <1>2, <1>3, PTL DEF TopoSpec
=============================================================================
