----------------------------- MODULE TransTable -----------------------------
(***************************************************************************)
(* The transition array of a PdaMachine and the two loops that turn it     *)
(* into a searchable table: the stable sort by (q, a, top) and the         *)
(* compressed-row (CSR) index, one offset and one count per control state. *)
(* The same two loops stand in compile(), PdaMachine::new, compute_csr and *)
(* from_bitvec; the modules of those components use these operators with   *)
(* their own variables.                                                    *)
(***************************************************************************)
EXTENDS Integers, Sequences

Transition == [q : Nat, a : Nat, top : Nat, next_q : Nat, push : Seq(Nat)]

\* The sort key (q, a, top), compared lexicographically.
KeyLE(s, t) ==
  \/ s.q < t.q
  \/ s.q = t.q /\ s.a < t.a
  \/ s.q = t.q /\ s.a = t.a /\ s.top <= t.top

SortedByKey(s) == \A i, j \in 1..Len(s) : i < j => KeyLE(s[i], s[j])

\* Faulty: a sort that is not stable.
SortPositionUnstable(s, t, pos) ==
  /\ pos \in 1..(Len(s) + 1)
  /\ \A j \in 1..(pos - 1) : ~KeyLE(t, s[j])
  /\ \A j \in pos..Len(s) : KeyLE(t, s[j])

\* pos is where a stable sort puts t into the sorted s: after every record
\* with a key up to t's.
SortPosition(s, t, pos) ==
  /\ pos \in 1..(Len(s) + 1)
  /\ \A j \in 1..(pos - 1) : KeyLE(s[j], t)
  /\ \A j \in pos..Len(s) : ~KeyLE(s[j], t)

Inserted(s, t, pos) ==
  [j \in 1..(Len(s) + 1) |->
     IF j < pos THEN s[j] ELSE IF j = pos THEN t ELSE s[j - 1]]

\* One iteration of the index loop: the record t stands at array index i.
NextOffsets(offsets, counts, i, t) ==
  IF t.q \in DOMAIN counts /\ counts[t.q] = 0
  THEN [offsets EXCEPT ![t.q] = i] ELSE offsets

NextCounts(counts, t) ==
  IF t.q \in DOMAIN counts THEN [counts EXCEPT ![t.q] = @ + 1] ELSE counts

\* The positions (from 1) that a lookup of state q scans.
Row(offsets, counts, q) == (offsets[q] + 1)..(offsets[q] + counts[q])

\* The index is exact on the first n records: a scan of q's row meets the
\* records of q and no other.
ExactRows(s, n, offsets, counts) ==
  \A q \in DOMAIN counts :
    counts[q] > 0 => \A j \in 1..n : s[j].q = q <=> j \in Row(offsets, counts, q)
=============================================================================
