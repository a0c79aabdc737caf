------------------------------- MODULE Frames -------------------------------
(***************************************************************************)
(* A leftmost derivation whose sentential form is kept as a stack of       *)
(* frames, one per nonterminal under expansion: frames[1] is what is left  *)
(* of the innermost right-hand side and each later frame what is left of   *)
(* the one around it.  Joined together they are the form of Leftmost.      *)
(***************************************************************************)
EXTENDS Cfg

CONSTANT Grammars
VARIABLES g, frames, consumed
vars == <<g, frames, consumed>>

Init == g \in Grammars /\ frames = <<<<g.start>>>> /\ consumed = <<>>

\* Begin with the nonterminal at the head of the frame: a frame of its own.
Descend ==
  /\ frames[1] # <<>> /\ ~IsTerminal(g, Head(frames[1]))
  /\ frames' = <<<<Head(frames[1])>>, Tail(frames[1])>> \o Tail(frames)
  /\ UNCHANGED <<g, consumed>>

Expand == \E p \in Prods(g) :
  /\ frames[1] # <<>> /\ Head(frames[1]) = Lhs(g, p)
  /\ frames' = <<Rhs(g, p) \o Tail(frames[1])>> \o Tail(frames)
  /\ UNCHANGED <<g, consumed>>

Scan ==
  /\ frames[1] # <<>> /\ IsTerminal(g, Head(frames[1]))
  /\ frames' = <<Tail(frames[1])>> \o Tail(frames)
  /\ consumed' = Append(consumed, TerminalId(g, Head(frames[1])))
  /\ UNCHANGED g

\* The frame is used up: back to the one around it.
Ascend ==
  /\ frames[1] = <<>> /\ Len(frames) > 1
  /\ frames' = Tail(frames)
  /\ UNCHANGED <<g, consumed>>

Next == Descend \/ Expand \/ Scan \/ Ascend
Spec == Init /\ [][Next]_vars
=============================================================================
