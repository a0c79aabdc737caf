------------------------------ MODULE Machine ------------------------------
(***************************************************************************)
(* The concrete PdaMachine of machine.rs as a record m:                    *)
(*    states, inputs, syms   num_states, num_inputs, num_stack_syms,       *)
(*    start, bottom          start_state, start_stack,                     *)
(*    accepting              the set of accepting states,                  *)
(*    trans                  the transitions, in array order,              *)
(*    indexed                whether ctrl_offsets and ctrl_counts are set, *)
(*    tabled                 whether closure_table is set.                 *)
(* compile() and PdaMachine::new set both; a machine written down field by *)
(* field, as the crate's documentation does, may leave them empty.         *)
(* A configuration is a pair <<q, stack>>.  A stack is written top first   *)
(* (the code's Vec has its top at the end).  A scan of a CSR row and a     *)
(* scan of the whole array meet the same records in the same order once    *)
(* the array is sorted (ReturnsCompiled of MCRtnCompile), so one Lookup    *)
(* stands for both.                                                        *)
(***************************************************************************)
EXTENDS TransTable

EpsInput(m) == m.inputs

Lookup(m, q, a, top) ==
  SelectSeq(m.trans, LAMBDA t : t.q = q /\ t.a = a /\ t.top = top)

\* An empty stack counts as the bottom marker.
TopOf(m, stack) == IF stack = <<>> THEN m.bottom ELSE Head(stack)

\* s.pop(), which does nothing on an empty stack, then the pushed string,
\* whose first symbol ends on top.
AfterMove(stack, push) == push \o (IF stack = <<>> THEN <<>> ELSE Tail(stack))

\* The configurations one move on input a leads to, in array order.
Successors(m, c, a) ==
  LET found == Lookup(m, c[1], a, TopOf(m, c[2]))
  IN [j \in 1..Len(found) |-> <<found[j].next_q, AfterMove(c[2], found[j].push)>>]

EpsSuccessors(m, c) == Successors(m, c, EpsInput(m))

\* The inputs with a move at exactly this configuration.
ReadableAt(m, c) ==
  {a \in 0..(m.inputs - 1) : Lookup(m, c[1], a, TopOf(m, c[2])) # <<>>}

----------------------------------------------------------------------------
(* The kind of a machine.                                                  *)

\* is_deterministic: no two transitions with one key.
IsDeterministic(m) ==
  \A i, j \in 1..Len(m.trans) :
    i # j => ~(KeyLE(m.trans[i], m.trans[j]) /\ KeyLE(m.trans[j], m.trans[i]))

PushClass(t) == IF Len(t.push) >= 2 THEN "call" ELSE IF t.push = <<>> THEN "return" ELSE "internal"

IsVisiblyPushdown(m) ==
  \A i, j \in 1..Len(m.trans) :
    m.trans[i].a = m.trans[j].a /\ m.trans[i].a # EpsInput(m)
      => PushClass(m.trans[i]) = PushClass(m.trans[j])

Classify(m) ==
  IF IsVisiblyPushdown(m) THEN "VisiblyPushdown"
  ELSE IF IsDeterministic(m) THEN "Deterministic" ELSE "NonDeterministic"

MaxStackDepth(m) ==
  IF m.trans = <<>> THEN 1
  ELSE CHOOSE n \in {Len(m.trans[i].push) : i \in 1..Len(m.trans)} :
         \A i \in 1..Len(m.trans) : Len(m.trans[i].push) <= n
=============================================================================
