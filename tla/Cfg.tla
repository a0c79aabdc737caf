-------------------------------- MODULE Cfg --------------------------------
(***************************************************************************)
(* The concrete context-free grammar of compile.rs (struct Cfg and its     *)
(* Grammar implementation).  A grammar g is a record                       *)
(*    nt, tm   the numbers of nonterminals and of terminals,               *)
(*    start    the start symbol,                                           *)
(*    prods    the productions, a sequence of [lhs, rhs] records.          *)
(* Symbols are numbers: 0..nt-1 are the nonterminals, nt..nt+tm-1 the      *)
(* terminals.  Productions are numbered from 1 (the code counts from 0);   *)
(* a dot position of production p is a number in 0..|rhs(p)|, as in the    *)
(* code.                                                                   *)
(***************************************************************************)
EXTENDS Integers, Sequences

Production == [lhs : Nat, rhs : Seq(Nat)]

\* Every value of the Rust type Cfg, the ill-formed grammars included.
IsCfg(g) == g \in [nt : Nat, tm : Nat, start : Nat, prods : Seq(Production)]

Prods(g) == 1..Len(g.prods)
Lhs(g, p) == g.prods[p].lhs
Rhs(g, p) == g.prods[p].rhs
Nonterminals(g) == 0..(g.nt - 1)

IsTerminal(g, s) == s >= g.nt
TerminalId(g, s) == s - g.nt

\* Cfg::validate_cfg and the start_id guard of compile(): the checks run in
\* this order and the first one that fails is reported.
Validate(g) ==
  IF \E p \in Prods(g) : Lhs(g, p) >= g.nt THEN "TerminalOnLhs"
  ELSE IF \E p \in Prods(g) : \E i \in 1..Len(Rhs(g, p)) :
            Rhs(g, p)[i] >= g.nt + g.tm THEN "UndefinedSymbol"
  ELSE IF g.start >= g.nt THEN "StartIsTerminal"
  ELSE "Ok"

Valid(g) == IsCfg(g) /\ Validate(g) = "Ok"
=============================================================================
