------------------------------ MODULE MCCodec ------------------------------
(***************************************************************************)
(* Machines in every order of their transitions, well-formed ones and ones *)
(* that new has to refuse, and every cut and every small change of one     *)
(* word on their way to the receiver.                                      *)
(***************************************************************************)
EXTENDS Codec, FiniteSets
LOCAL INSTANCE SequencesExt
LOCAL INSTANCE Closure

LOCAL T(q, a, top, next_q, push) ==
  [q |-> q, a |-> a, top |-> top, next_q |-> next_q, push |-> push]
LOCAL Fields(states, trans, accepting, start, prov) ==
  [states |-> states, inputs |-> 1, syms |-> 2, trans |-> trans, accepting |-> accepting,
   start |-> start, bottom |-> 0, prov |-> prov]
LOCAL Phases(s) == [some |-> TRUE, of |-> s]

\* Two choices under one key, a call, a return, and a state without moves.
Moves == {T(0, 1, 0, 1, <<0>>), T(0, 1, 0, 2, <<0>>), T(1, 0, 0, 1, <<1, 0>>), T(1, 1, 1, 2, <<>>)}
GivenHere ==
  {Fields(3, s, <<2>>, 0, Absent) : s \in SetToSeqs(Moves)}
    \cup {Fields(2, <<T(1, 1, 1, 0, <<0, 1>>), T(0, 0, 0, 1, <<1>>)>>, <<1, 0>>, 1, p) :
            p \in {Absent, Phases(<<0, 1>>), Phases(<<0>>), Phases(<<0, 2>>)}}
    \cup {Fields(2, <<t>>, <<>>, 0, Phases(<<1, 0>>)) :
            t \in {T(0, 0, 0, 1, <<1>>), T(2, 0, 0, 1, <<1>>), T(0, 0, 0, 2, <<1>>),
                   T(0, 2, 0, 1, <<1>>), T(0, 0, 2, 1, <<1>>), T(0, 0, 0, 1, <<1, 2>>)}}
    \cup {Fields(1, <<>>, <<>>, 0, Absent)}

\* The table computed here is the one that masks are read from.
ASSUME TablesAgree ==
  \A x \in {f \in GivenHere : InBounds(f)} :
    \A q \in 0..(x.states - 1), top \in 0..(x.syms - 1) : TablePairs(x, q, top) = ClosureTable(x, q, top)

----------------------------------------------------------------------------
\* The records that a kernel meets between two positions of the words of the
\* transitions, as long as there is a whole one.
RECURSIVE Scan(_, _, _)
Scan(flat, from, to) ==
  IF from >= to \/ from + 5 > Len(flat) \/ from + 5 + flat[from + 5] > Len(flat) THEN <<>>
  ELSE LET n == 5 + flat[from + 5]
       IN <<T(flat[from + 1], flat[from + 2], flat[from + 3], flat[from + 4],
              SubSeq(flat, from + 6, from + n))>> \o Scan(flat, from + n, to)

\* Words are read back as the transitions they were written for.
ASSUME WordsScanned ==
  \A x \in GivenHere : Scan(TransitionWords(x), 0, Len(TransitionWords(x))) = x.trans
=============================================================================
