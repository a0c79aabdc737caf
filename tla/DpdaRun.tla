------------------------------ MODULE DpdaRun ------------------------------
(***************************************************************************)
(* accepts_dpda of machine.rs: the single path of a machine that           *)
(* is_deterministic() lets through.  The inner loop takes epsilon moves    *)
(* for as long as there is exactly one; then the word is decided or one    *)
(* input is read.                                                          *)
(***************************************************************************)
EXTENDS Machine

CONSTANTS Machines, Words(_)

VARIABLES
  m, word,
  pc,        \* "test", "close", "read", or the verdict "accept" / "reject"
  q, stack,  \* the configuration
  i          \* inputs read

vars == <<m, word, pc, q, stack, i>>

Init ==
  /\ m \in Machines /\ word \in Words(m)
  /\ pc = "test"
  /\ q = m.start /\ stack = <<m.bottom>> /\ i = 0

TestDeterminism ==
  /\ pc = "test"
  /\ pc' = IF IsDeterministic(m) THEN "close" ELSE "reject"
  /\ UNCHANGED <<m, word, q, stack, i>>

\* The single transition on input a, if there is exactly one.
Unique(a) == Len(Lookup(m, q, a, Head(stack))) = 1
Follow(a) == LET t == Lookup(m, q, a, Head(stack))[1]
             IN q' = t.next_q /\ stack' = AfterMove(stack, t.push)

EpsMove ==
  /\ pc = "close" /\ stack # <<>> /\ Unique(EpsInput(m))
  /\ Follow(EpsInput(m))
  /\ UNCHANGED <<m, word, pc, i>>

\* No top to look at: in either loop the word is rejected.
StackGone ==
  /\ pc = "close" /\ stack = <<>>
  /\ pc' = "reject"
  /\ UNCHANGED <<m, word, q, stack, i>>

Closed ==
  /\ pc = "close" /\ stack # <<>> /\ ~Unique(EpsInput(m))
  /\ pc' = "read"
  /\ UNCHANGED <<m, word, q, stack, i>>

Decide ==
  /\ pc = "read" /\ i = Len(word)
  /\ pc' = IF q \in m.accepting /\ stack = <<m.bottom>> THEN "accept" ELSE "reject"
  /\ UNCHANGED <<m, word, q, stack, i>>

Read ==
  /\ pc = "read" /\ i < Len(word) /\ Unique(word[i + 1])
  /\ Follow(word[i + 1])
  /\ i' = i + 1 /\ pc' = "close"
  /\ UNCHANGED <<m, word>>

\* Faulty: an input without a move is read over.
ReadOver ==
  /\ pc = "read" /\ i < Len(word) /\ ~Unique(word[i + 1])
  /\ i' = i + 1
  /\ UNCHANGED <<m, word, pc, q, stack>>
\* Faulty: the closure is tried again.
ClosesAgain ==
  /\ pc = "read" /\ i < Len(word) /\ ~Unique(word[i + 1])
  /\ pc' = "close"
  /\ UNCHANGED <<m, word, q, stack, i>>
CannotRead ==
  /\ pc = "read" /\ i < Len(word) /\ ~Unique(word[i + 1])
  /\ pc' = "reject"
  /\ UNCHANGED <<m, word, q, stack, i>>

Next == TestDeterminism \/ EpsMove \/ StackGone \/ Closed \/ Decide \/ Read \/ CannotRead
=============================================================================
