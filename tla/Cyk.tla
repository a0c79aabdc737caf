-------------------------------- MODULE Cyk --------------------------------
(***************************************************************************)
(* cyk_accepts of compile.rs, which accepts_npda calls, a table cell at a  *)
(* time: sweeps over all productions and spans until a sweep adds nothing. *)
(* The empty word is decided by the loop of derives_eps_set, a production  *)
(* at a time.  Words are in the code's local ids, terminals from 0.        *)
(***************************************************************************)
EXTENDS Cfg

CONSTANTS Grammars, Words(_)

VARIABLES
  g, w,
  pc,        \* "sweep", "eps", or the verdict "accept" / "reject"
  table,     \* the spans <<A, i, j>> with v[i][j][A]: A derives j symbols from i
  at,        \* the cell of the sweep: <<production, i, j>>
  changed

vars == <<g, w, pc, table, at, changed>>

n == Len(w)
FirstCell == <<1, 0, 0>>

\* No nonterminal is a verdict; no grammar of Grammars has none.
Init ==
  /\ g \in Grammars /\ w \in Words(g)
  /\ pc = IF w = <<>> THEN "eps" ELSE "sweep"
  /\ table = {} /\ at = FirstCell /\ changed = FALSE

\* Symbol s covers the span, by what the table holds so far.
SymbolCovers(s, from, span) ==
  IF IsTerminal(g, s)
  THEN span = 1 /\ from < n /\ w[from + 1] = TerminalId(g, s)
  ELSE <<s, from, span>> \in table

\* Faulty: an empty span is never tried.
CoversNonempty(rhs, i, j) ==
  LET m == Len(rhs)
      cover[t \in 1..(m + 1)] ==
        IF t = m + 1 THEN {j}
        ELSE {pos \in 0..j : \E span \in 1..(j - pos) :
                pos + span \in cover[t + 1] /\ SymbolCovers(rhs[t], i + pos, span)}
  IN 0 \in cover[1]
\* The partition table cover[t]: the positions from which rhs[t..] covers the
\* rest of the span.
Covers(rhs, i, j) ==
  LET m == Len(rhs)
      cover[t \in 1..(m + 1)] ==
        IF t = m + 1 THEN {j}
        ELSE {pos \in 0..j : \E span \in 0..(j - pos) :
                pos + span \in cover[t + 1] /\ SymbolCovers(rhs[t], i + pos, span)}
  IN 0 \in cover[1]

NextCell ==
  IF at[3] < n - at[2] THEN <<at[1], at[2], at[3] + 1>>
  ELSE IF at[2] < n THEN <<at[1], at[2] + 1, 0>> ELSE <<at[1] + 1, 0, 0>>

InSweep == pc = "sweep" /\ at[1] \in Prods(g)
Entry == <<Lhs(g, at[1]), at[2], at[3]>>

Derive ==
  /\ InSweep
  /\ Entry \notin table /\ Covers(Rhs(g, at[1]), at[2], at[3])
  /\ table' = table \cup {Entry} /\ changed' = TRUE
  /\ at' = NextCell
  /\ UNCHANGED <<g, w, pc>>

Pass ==
  /\ InSweep
  /\ Entry \in table \/ ~Covers(Rhs(g, at[1]), at[2], at[3])
  /\ at' = NextCell
  /\ UNCHANGED <<g, w, pc, table, changed>>

SweepAgain ==
  /\ pc = "sweep" /\ at[1] \notin Prods(g) /\ changed
  /\ changed' = FALSE /\ at' = FirstCell
  /\ UNCHANGED <<g, w, pc, table>>

Decide ==
  /\ pc = "sweep" /\ at[1] \notin Prods(g) /\ ~changed
  /\ pc' = IF <<g.start, 0, n>> \in table THEN "accept" ELSE "reject"
  /\ UNCHANGED <<g, w, table, at, changed>>

----------------------------------------------------------------------------
(* derives_eps_set.  Its set eps is kept as the empty spans of table.      *)

InEps == pc = "eps" /\ at[1] \in Prods(g)
AllEps(rhs) == \A k \in DOMAIN rhs : <<rhs[k], 0, 0>> \in table

EpsProduction ==
  /\ InEps
  /\ LET new == IF AllEps(Rhs(g, at[1])) THEN {<<Lhs(g, at[1]), 0, 0>>} \ table ELSE {}
     IN table' = table \cup new /\ changed' = (changed \/ new # {})
  /\ at' = <<at[1] + 1, 0, 0>>
  /\ UNCHANGED <<g, w, pc>>

EpsEnd ==
  /\ pc = "eps" /\ at[1] \notin Prods(g)
  /\ IF changed THEN at' = FirstCell /\ changed' = FALSE /\ pc' = pc
     ELSE /\ pc' = IF <<g.start, 0, 0>> \in table THEN "accept" ELSE "reject"
          /\ UNCHANGED <<at, changed>>
  /\ UNCHANGED <<g, w, table>>

Next == Derive \/ Pass \/ SweepAgain \/ Decide \/ EpsProduction \/ EpsEnd
=============================================================================
