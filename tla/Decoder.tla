------------------------------ MODULE Decoder ------------------------------
(***************************************************************************)
(* A decoding session over a compiled machine, as project_batch walks a    *)
(* draft: the frontier is the set of configurations the input so far may   *)
(* have led to, every input moves all of it, and the mask is the union of  *)
(* the masks of the frontier.  The session stops where the frontier runs   *)
(* empty.  The host may draft any input, inside the mask or not.           *)
(***************************************************************************)
EXTENDS Closure, CompiledMachine, MachineBounds

CONSTANTS Grammars, MaxDraft
ASSUME DraftAssumption == MaxDraft \in Nat

VARIABLES
  g,         \* the grammar
  m,         \* its machine
  frontier,  \* the configurations
  draft,     \* the inputs walked
  mask,      \* the mask at the end of the draft, the last one pushed
  live       \* whether the walk goes on

vars == <<g, m, frontier, draft, mask, live>>

Init ==
  /\ g \in Grammars
  /\ m \in {Analysed(x) : x \in {Compiled(g)}}
  /\ frontier = {<<m.start, <<m.bottom>>>>}
  /\ draft = <<>>
  /\ mask = FrontierMask(m, frontier)
  /\ live = TRUE

Extend(a) ==
  LET next == AdvanceSet(m, frontier, a)
  IN /\ next # {}
     /\ frontier' = next
     /\ draft' = Append(draft, a)
     /\ mask' = FrontierMask(m, next)
     /\ UNCHANGED live

Diverge(a) ==
  /\ AdvanceSet(m, frontier, a) = {}
  /\ frontier' = {}
  /\ draft' = Append(draft, a)
  /\ live' = FALSE
  /\ UNCHANGED mask

Next ==
  /\ live /\ Len(draft) < MaxDraft
  /\ \E a \in 0..(m.inputs - 1) : Extend(a) \/ Diverge(a)
  /\ UNCHANGED <<g, m>>

Spec == Init /\ [][Next]_vars

\* The host's end-of-sequence test of a frontier.
MayEnd == \E c \in frontier : AcceptsViaEps(m, c)
----------------------------------------------------------------------------
\* The walk stops at the first input outside the last mask and nowhere else,
\* although mask and frontier come from two different closures.
StopsOutsideMask ==
  [][live' <=> draft'[Len(draft')] \in mask]_vars
=============================================================================
