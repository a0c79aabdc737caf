------------------------------- MODULE Codec -------------------------------
(***************************************************************************)
(* How a machine is built, shipped and rebuilt: PdaMachine::new            *)
(* (machine.rs), to_bitvec and from_bitvec (bitvec.rs) and the package for *)
(* the device (cuda.rs).                                                   *)
(*                                                                         *)
(* The sender calls new with fields in any order; new sorts the            *)
(* transitions, indexes them and checks their bounds.  The machine is      *)
(* written as a sequence of u32 words, and the receiver reads what arrives *)
(* with from_bitvec, which sorts, indexes and checks once more.  What      *)
(* arrives may be cut short or have one word changed: from_bitvec promises *)
(* an error where the words are no machine.                                *)
(*                                                                         *)
(* A word is a number; that 32 bits carry it is not modelled.  The kind of *)
(* an error is not kept: the receiver maps all of them to Malformed.  The  *)
(* vocabulary names do not travel and are left out.                        *)
(***************************************************************************)
EXTENDS TransTable
LOCAL INSTANCE SequencesExt

CONSTANTS Given,     \* the fields that new is called with
          MaxWord    \* a changed word becomes one of 0..MaxWord

Absent == [some |-> FALSE, of |-> <<>>]
MachineFields == [states : Nat, inputs : Nat, syms : Nat, trans : Seq(Transition), accepting : Seq(Nat),
                  start : Nat, bottom : Nat, prov : {Absent} \cup [some : {TRUE}, of : Seq(Nat)]]
ASSUME GivenAssumption == \A x \in Given : x \in MachineFields
ASSUME MaxWordAssumption == MaxWord \in Nat

VARIABLES
  pc,        \* "sort", "index", "send", "read", "done" or "refused"
  side,      \* who is building: "sender" or "receiver"
  m,         \* the fields of the machine being built
  todo,      \* transitions yet to be sorted in, or to be indexed
  offsets, counts,   \* ctrl_offsets and ctrl_counts
  sent,      \* what new was given, later the sender's machine and its index
  words,     \* what arrives
  fault,     \* "none", "cut" or "changed"
  pos        \* off: how many words are read

vars == <<pc, side, m, todo, offsets, counts, sent, words, fault, pos>>

Init ==
  /\ sent \in Given
  /\ pc = "sort" /\ side = "sender"
  /\ m = [sent EXCEPT !.trans = <<>>] /\ todo = sent.trans
  /\ offsets = <<>> /\ counts = <<>>
  /\ words = <<>> /\ fault = "none" /\ pos = 0

----------------------------------------------------------------------------
(* What new and from_bitvec both do with the fields.                       *)

SortIn ==
  /\ pc = "sort" /\ todo # <<>>
  /\ \E p \in 1..(Len(m.trans) + 1) :
       /\ SortPosition(m.trans, Head(todo), p)
       /\ m' = [m EXCEPT !.trans = Inserted(@, Head(todo), p)]
  /\ todo' = Tail(todo)
  /\ UNCHANGED <<pc, side, offsets, counts, sent, words, fault, pos>>

BeginIndex ==
  /\ pc = "sort" /\ todo = <<>>
  /\ pc' = "index" /\ todo' = m.trans
  /\ offsets' = [q \in 0..(m.states - 1) |-> Len(m.trans)]
  /\ counts' = [q \in 0..(m.states - 1) |-> 0]
  /\ UNCHANGED <<side, m, sent, words, fault, pos>>

IndexRecord ==
  /\ pc = "index" /\ todo # <<>>
  /\ offsets' = NextOffsets(offsets, counts, Len(m.trans) - Len(todo), Head(todo))
  /\ counts' = NextCounts(counts, Head(todo))
  /\ todo' = Tail(todo)
  /\ UNCHANGED <<pc, side, m, sent, words, fault, pos>>

\* Faulty: the state a transition leads to is not checked.
InBoundsButNext(x) ==
  /\ \A t \in ToSet(x.trans) :
       t.q < x.states /\ t.a <= x.inputs /\ t.top < x.syms /\ \A s \in ToSet(t.push) : s < x.syms
  /\ x.prov.some => Len(x.prov.of) = x.states /\ \A n \in ToSet(x.prov.of) : n < x.states
\* validate_bounds.  It does not look at the accepting states, the start
\* state and the start symbol.
InBounds(x) ==
  /\ \A t \in ToSet(x.trans) :
       /\ t.q < x.states /\ t.next_q < x.states
       /\ t.a <= x.inputs
       /\ t.top < x.syms /\ \A s \in ToSet(t.push) : s < x.syms
  /\ x.prov.some => Len(x.prov.of) = x.states /\ \A n \in ToSet(x.prov.of) : n < x.states

ValidateBounds ==
  /\ pc = "index" /\ todo = <<>>
  /\ pc' = IF ~InBounds(m) THEN "refused" ELSE IF side = "sender" THEN "send" ELSE "done"
  /\ UNCHANGED <<side, m, todo, offsets, counts, sent, words, fault, pos>>

----------------------------------------------------------------------------
(* The words of a machine.                                                 *)

RecordWords(t) == <<t.q, t.a, t.top, t.next_q, Len(t.push)>> \o t.push
TransitionWords(x) == FlattenSeq([j \in DOMAIN x.trans |-> RecordWords(x.trans[j])])
HeaderLen == 7
\* to_pod_bytes: what the device reads.
PodWords(x) ==
  <<x.states, x.inputs, x.syms, Len(x.trans), Len(x.accepting), x.start, x.bottom>>
    \o x.accepting \o TransitionWords(x)
\* to_bitvec.
Encode(x) == PodWords(x) \o (IF x.prov.some THEN <<1>> \o x.prov.of ELSE <<0>>)

\* What arrives at the receiver.
Arrives(what, why) ==
  /\ pc = "send"
  /\ pc' = "read" /\ side' = "receiver"
  /\ words' = what /\ fault' = why
  /\ sent' = [machine |-> m, offsets |-> offsets, counts |-> counts]
  /\ UNCHANGED <<m, todo, offsets, counts, pos>>

Deliver == Arrives(Encode(m), "none")
DeliverCut == \E n \in 0..(Len(Encode(m)) - 1) : Arrives(SubSeq(Encode(m), 1, n), "cut")
DeliverChanged ==
  \E i \in 1..Len(Encode(m)), w \in 0..MaxWord :
    Encode(m)[i] # w /\ Arrives([Encode(m) EXCEPT ![i] = w], "changed")

----------------------------------------------------------------------------
(* from_bitvec.                                                            *)

Word(i) == words[pos + i]
Has(n) == pos + n <= Len(words)
AcceptingDue == pos >= HeaderLen /\ Len(m.accepting) < words[5]
TransitionDue == pos >= HeaderLen /\ Len(m.accepting) = words[5] /\ Len(todo) < words[4]
SuffixDue == pos >= HeaderLen /\ Len(m.accepting) = words[5] /\ Len(todo) = words[4]

ReadHeader ==
  /\ pc = "read" /\ pos = 0 /\ Has(HeaderLen)
  /\ m' = [states |-> Word(1), inputs |-> Word(2), syms |-> Word(3), trans |-> <<>>,
           accepting |-> <<>>, start |-> Word(6), bottom |-> Word(7), prov |-> Absent]
  /\ todo' = <<>>
  /\ pos' = HeaderLen
  /\ UNCHANGED <<pc, side, offsets, counts, sent, words, fault>>

ReadAccepting ==
  /\ pc = "read" /\ AcceptingDue /\ Has(1)
  /\ m' = [m EXCEPT !.accepting = Append(@, Word(1))]
  /\ pos' = pos + 1
  /\ UNCHANGED <<pc, side, todo, offsets, counts, sent, words, fault>>

ReadTransition ==
  /\ pc = "read" /\ TransitionDue /\ Has(5) /\ Has(5 + Word(5))
  /\ todo' = Append(todo, [q |-> Word(1), a |-> Word(2), top |-> Word(3), next_q |-> Word(4),
                           push |-> SubSeq(words, pos + 6, pos + 5 + Word(5))])
  /\ pos' = pos + 5 + Word(5)
  /\ UNCHANGED <<pc, side, m, offsets, counts, sent, words, fault>>

\* Any flag but 1 means that no provenance follows.  Words after the last one
\* read are not looked at.
SuffixLen == IF Has(1) /\ Word(1) = 1 THEN 1 + m.states ELSE 1
ReadSuffix ==
  /\ pc = "read" /\ SuffixDue /\ Has(SuffixLen)
  /\ m' = IF Word(1) # 1 THEN m
          ELSE [m EXCEPT !.prov = [some |-> TRUE, of |-> SubSeq(words, pos + 2, pos + SuffixLen)]]
  /\ pos' = pos + SuffixLen
  /\ pc' = "sort"
  /\ UNCHANGED <<side, todo, offsets, counts, sent, words, fault>>

\* Faulty: a missing suffix means that there is none.
TruncatedButSuffix ==
  /\ pc = "read"
  /\ \/ pos = 0 /\ ~Has(HeaderLen)
     \/ AcceptingDue /\ ~Has(1)
     \/ TransitionDue /\ ~(Has(5) /\ Has(5 + Word(5)))
     \/ SuffixDue /\ ~Has(SuffixLen)
  /\ pc' = IF SuffixDue THEN "sort" ELSE "refused"
  /\ UNCHANGED <<side, m, todo, offsets, counts, sent, words, fault, pos>>
\* load_u32 finds no word: Malformed.
Truncated ==
  /\ pc = "read"
  /\ \/ pos = 0 /\ ~Has(HeaderLen)
     \/ AcceptingDue /\ ~Has(1)
     \/ TransitionDue /\ ~(Has(5) /\ Has(5 + Word(5)))
     \/ SuffixDue /\ ~Has(SuffixLen)
  /\ pc' = "refused"
  /\ UNCHANGED <<side, m, todo, offsets, counts, sent, words, fault, pos>>

Finished == pc \in {"done", "refused"} /\ UNCHANGED vars

Next ==
  \/ SortIn \/ BeginIndex \/ IndexRecord \/ ValidateBounds
  \/ Deliver \/ DeliverCut \/ DeliverChanged
  \/ ReadHeader \/ ReadAccepting \/ ReadTransition \/ ReadSuffix \/ Truncated
  \/ Finished

Spec == Init /\ [][Next]_vars

----------------------------------------------------------------------------
(* CudaPackage::from_machine: where the records of a state lie among the   *)
(* words of the transitions.                                               *)

\* Faulty: every record counts as five words.
FixedSizes(x) == [j \in DOMAIN x.trans |-> 5]
RecordSizes(x) == [j \in DOMAIN x.trans |-> 5 + Len(x.trans[j].push)]

\* The words before record j.
RunningIndex(x) ==
  LET sum[j \in 1..(Len(x.trans) + 1)] == IF j = 1 THEN 0 ELSE sum[j - 1] + RecordSizes(x)[j - 1]
  IN sum

CtrlU32Offsets(x) ==
  [q \in 0..(x.states - 1) |->
     LET rows == {j \in DOMAIN x.trans : x.trans[j].q = q}
     IN RunningIndex(x)[IF rows = {} THEN Len(x.trans) + 1 ELSE CHOOSE j \in rows : \A k \in rows : j <= k]]

CtrlU32Counts(x) ==
  [q \in 0..(x.states - 1) |->
     LET mine[j \in 0..Len(x.trans)] ==
           IF j = 0 THEN 0 ELSE mine[j - 1] + (IF x.trans[j].q = q THEN RecordSizes(x)[j] ELSE 0)
     IN mine[Len(x.trans)]]
----------------------------------------------------------------------------
\* The records of s that are in K, in array order.
Kept(s, K) == FlattenSeq([j \in DOMAIN s |-> IF s[j] \in K THEN <<s[j]>> ELSE <<>>])

\* lookup: the records in the row of q with this key; by a scan of the whole
\* array where there is no index.
ByRow(x, from, number, q, a, top) ==
  LET row == SubSeq(x.trans, from[q] + 1, from[q] + number[q])
  IN Kept(row, {t \in ToSet(row) : t.a = a /\ t.top = top})
ByFilter(x, q, a, top) == Kept(x.trans, {t \in ToSet(x.trans) : t.q = q /\ t.a = a /\ t.top = top})

\* compute_closure_table: the pairs of a state and a top that epsilon moves
\* lead to.  A move that pops leaves the top as it is.
TablePairs(x, q, top) ==
  LET pairs[n \in Nat] ==
        IF n = 0 THEN {<<q, top>>}
        ELSE pairs[n - 1] \cup
               UNION {{<<t.next_q, IF t.push = <<>> THEN p[2] ELSE Head(t.push)>> :
                         t \in ToSet(ByFilter(x, p[1], x.inputs, p[2]))} : p \in pairs[n - 1]}
  IN pairs[x.states * x.syms]

\* new only reorders: through the index every key finds exactly the
\* transitions that were given for it, in the order they were given, whatever
\* order the caller wrote them in ("the transition set is unchanged").
LookupsPreserved ==
  pc = "send" =>
    \A q \in 0..(m.states - 1), a \in 0..m.inputs, top \in 0..(m.syms - 1) :
      ByRow(m, offsets, counts, q, a, top) = ByFilter(sent, q, a, top)

\* What arrives intact is the machine that was sent: every field, the order of
\* its transitions, its provenance and its index.  A machine that was cut
\* short, even by its last word, is refused.  A changed word never passes for
\* the machine that was sent, but where it is the flag that no provenance
\* follows: any other value than 1 says so too.
Delivered ==
  pc \in {"done", "refused"} /\ side = "receiver" =>
    CASE fault = "none" ->
           pc = "done" /\ sent = [machine |-> m, offsets |-> offsets, counts |-> counts]
      [] fault = "cut" -> pc = "refused"
      [] fault = "changed" ->
           pc = "done" /\ m = sent.machine =>
             \E w \in 0..MaxWord :
               words = [Encode(m) EXCEPT ![Len(Encode(m))] = w] /\ ~m.prov.some

\* Whatever one word was changed to, what from_bitvec accepts can be run: its
\* rows are exact, its moves stay among its states and symbols, where the
\* closure table is indexed with them, and its phases are a function on its
\* states.
AcceptedIsUsable ==
  pc = "done" =>
    /\ \A q \in 0..(m.states - 1), a \in 0..m.inputs, top \in 0..(m.syms - 1) :
         /\ ByRow(m, offsets, counts, q, a, top) = ByFilter(m, q, a, top)
         /\ TablePairs(m, q, top) \subseteq (0..(m.states - 1)) \X (0..(m.syms - 1))
    /\ m.prov.some => m.prov.of \in [1..m.states -> 0..(m.states - 1)]

\* The words from a state's offset, as many as it counts, are the words of its
\* transitions, in array order, and no other: a kernel that starts there and
\* goes from record to record by their lengths meets the state's moves and
\* never takes a pushed symbol for a state.
PackageRows ==
  pc = "send" =>
    \A q \in 0..(m.states - 1) :
      LET from == CtrlU32Offsets(m)[q]
          number == CtrlU32Counts(m)[q]
          mine == Kept(m.trans, {t \in ToSet(m.trans) : t.q = q})
      IN /\ from + number <= Len(TransitionWords(m))
         /\ SubSeq(TransitionWords(m), from + 1, from + number) = TransitionWords([m EXCEPT !.trans = mine])
=============================================================================
