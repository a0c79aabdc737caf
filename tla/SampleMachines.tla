--------------------------- MODULE SampleMachines ---------------------------
(***************************************************************************)
(* Machines written down by hand: those of the repository's documentation  *)
(* and tests, and two of the kinds their comments speak about.             *)
(***************************************************************************)
EXTENDS Integers, Sequences

LOCAL T(q, a, top, next_q, push) ==
  [q |-> q, a |-> a, top |-> top, next_q |-> next_q, push |-> push]
LOCAL Hand(states, inputs, syms, trans, accepting, built) ==
  [states |-> states, inputs |-> inputs, syms |-> syms, start |-> 0, bottom |-> 0,
   accepting |-> accepting, trans |-> trans, indexed |-> built, tabled |-> built]

\* lib.rs and anb_n_dpda of the tests: a^n b^n.
AnBn == Hand(4, 2, 2,
  <<T(0, 0, 0, 1, <<1, 0>>), T(1, 0, 1, 1, <<1, 1>>), T(1, 1, 1, 2, <<>>),
    T(2, 1, 1, 2, <<>>), T(2, 2, 0, 3, <<0>>)>>, {3}, FALSE)
\* cycle_dpda of the tests: an epsilon cycle that grows the stack.
Cycle == Hand(4, 2, 2,
  <<T(0, 2, 0, 1, <<0>>), T(1, 2, 0, 2, <<1, 0>>), T(2, 2, 1, 3, <<1, 1>>),
    T(3, 2, 1, 2, <<1, 1>>), T(2, 0, 1, 2, <<1>>)>>, {3}, FALSE)
\* The tests' machine of two epsilon branches.
Branch == Hand(3, 2, 1,
  <<T(0, 2, 0, 1, <<0>>), T(0, 2, 0, 2, <<0>>), T(1, 0, 0, 1, <<0>>),
    T(2, 1, 0, 2, <<0>>)>>, {1, 2}, FALSE)
\* Through PdaMachine::new: an epsilon move pops and the symbol below it
\* decides what can be read.
Popping == Hand(3, 2, 2,
  <<T(0, 0, 0, 1, <<1, 0>>), T(1, 2, 1, 2, <<>>), T(2, 0, 1, 2, <<1>>), T(2, 1, 0, 2, <<0>>)>>,
  {2}, TRUE)
\* An epsilon move and an input move at one state and top, one of each.
Conflict == Hand(3, 1, 1, <<T(0, 0, 0, 1, <<0>>), T(0, 1, 0, 2, <<0>>)>>, {1}, TRUE)
\* Two epsilon branches to one state that push one top over different
\* symbols.
Hidden == Hand(4, 2, 4,
  <<T(0, 2, 0, 1, <<1, 2>>), T(0, 2, 0, 1, <<1, 3>>), T(1, 2, 1, 2, <<>>),
    T(2, 0, 2, 3, <<2>>), T(2, 1, 3, 3, <<3>>)>>, {3}, TRUE)
\* An epsilon move pops one of the symbols pushed, another keeps it.
Unwinding == Hand(3, 2, 2,
  <<T(0, 0, 0, 0, <<1, 0>>), T(0, 0, 1, 0, <<1, 1>>), T(0, 2, 1, 0, <<1>>), T(0, 2, 1, 1, <<>>),
    T(1, 0, 1, 1, <<1>>), T(1, 1, 0, 2, <<0>>)>>, {2}, TRUE)
\* The branches of Hidden, and no epsilon move that pops.
Shadowed == Hand(4, 2, 4,
  <<T(0, 2, 0, 1, <<1, 2>>), T(0, 2, 0, 1, <<1, 3>>), T(1, 0, 1, 1, <<1>>), T(1, 0, 1, 2, <<>>),
    T(2, 0, 2, 3, <<2>>), T(2, 1, 3, 3, <<3>>)>>, {3}, TRUE)
\* The stack outgrows the longest push, and an epsilon move is due on top of it.
Climbing == Hand(3, 2, 2,
  <<T(0, 0, 0, 0, <<1, 0>>), T(0, 0, 1, 0, <<1, 1>>), T(0, 2, 1, 1, <<1>>), T(1, 1, 1, 2, <<>>)>>,
  {2}, TRUE)
\* One push is longer than the number of states.
Soaring == Hand(2, 2, 2,
  <<T(0, 0, 0, 0, <<1, 1, 0>>), T(0, 2, 1, 1, <<1>>), T(1, 1, 1, 1, <<>>)>>, {1}, TRUE)
\* Written down field by field: one input leads to two states.
Choosing == Hand(2, 1, 1, <<T(0, 0, 0, 0, <<0>>), T(0, 0, 0, 1, <<0>>)>>, {1}, FALSE)
\* The two inputs lead to the same two states, found in a different order.
Reordered == Hand(3, 2, 1,
  <<T(0, 0, 0, 1, <<0>>), T(0, 0, 0, 2, <<0>>), T(0, 1, 0, 2, <<0>>), T(0, 1, 0, 1, <<0>>),
    T(1, 0, 0, 0, <<0>>), T(2, 1, 0, 2, <<0>>)>>, {1}, TRUE)
\* The only move pops the bottom marker.
Draining == Hand(2, 1, 1, <<T(0, 0, 0, 1, <<>>)>>, {1}, TRUE)
=============================================================================
