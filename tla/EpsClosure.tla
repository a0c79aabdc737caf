----------------------------- MODULE EpsClosure -----------------------------
(***************************************************************************)
(* One epsilon closure, an iteration of its loop at a time: the worklist   *)
(* of advance_eps, advance_eps_set and mask_at_cfg (first in, first out)   *)
(* and of accepts_via_eps (last in, first out, and an early return).  The  *)
(* operations differ in the depth bound, in the key that decides whether a *)
(* configuration was seen, and in what they do with the closure.           *)
(***************************************************************************)
EXTENDS Machine
LOCAL INSTANCE SequencesExt

Configs == Nat \X Seq(Nat)

CONSTANTS Machines,   \* the machines
          Starts(_),  \* the configurations to close, by machine
          Further     \* how many moves more than the closure has members to look for others
ASSUME MachinesAssumption ==
  \A x \in Machines :
    /\ x.trans \in Seq(Transition) /\ x.states \in Nat /\ x.bound \in Nat
    /\ Starts(x) \subseteq Configs
ASSUME FurtherAssumption == Further \in Nat

Ops == {"advance_eps", "advance_eps_set", "mask_at_cfg", "accepts_via_eps"}

VARIABLES
  m,         \* the machine
  op,        \* the operation that runs the loop
  start,     \* its configuration
  closed,    \* the configurations seen, in the order they were seen
  waiting,   \* those not yet expanded
  verdict    \* "running", "closed" or "accepted"

epsVars == <<m, op, start, closed, waiting, verdict>>

DepthBound ==
  IF op \in {"advance_eps", "mask_at_cfg"} THEN m.bound ELSE m.states

\* advance_eps keeps apart only state and top when the machine has no
\* epsilon cycle.
ByStateAndTop == op = "advance_eps" /\ ~m.grows
Key(c) == IF ByStateAndTop THEN <<c[1], TopOf(m, c[2])>> ELSE c

\* mask_at_cfg runs its loop only where it does not use the table.
EpsInit ==
  /\ m \in Machines
  /\ op \in Ops
  /\ op = "mask_at_cfg" => ~m.tabled \/ m.grows
  /\ start \in Starts(m)
  /\ closed = <<start>> /\ waiting = <<start>>
  /\ verdict = "running"

Lifo == op = "accepts_via_eps"
Taken == IF Lifo THEN Last(waiting) ELSE Head(waiting)
Others == IF Lifo THEN Front(waiting) ELSE Tail(waiting)

\* The epsilon moves at a configuration, and where one leads to.
EpsMoves(x, c) ==
  {t \in ToSet(x.trans) : t.q = c[1] /\ t.a = EpsInput(x) /\ t.top = TopOf(x, c[2])}
Moved(c, t) == <<t.next_q, AfterMove(c[2], t.push)>>

\* The scan of the array: where the moves lead to from the configuration taken,
\* each key once and only if it was not seen before.
Unseen(moves) ==
  LET Seen(d, new) == \E c \in ToSet(closed) \cup ToSet(new) : Key(c) = Key(d)
      new[k \in 0..Len(m.trans)] ==
        IF k = 0 THEN <<>>
        ELSE LET found == new[k - 1]
             IN IF m.trans[k] \in moves /\ ~Seen(Moved(Taken, m.trans[k]), found)
                THEN Append(found, Moved(Taken, m.trans[k])) ELSE found
  IN new[Len(m.trans)]

Running == verdict = "running" /\ waiting # <<>> /\ UNCHANGED <<m, op, start>>
TooDeep == Len(Taken[2]) > DepthBound

\* Faulty: the index moves on only after the depth test.
SkipWithoutMoving == Running /\ TooDeep /\ UNCHANGED <<closed, waiting, verdict>>
Skip == Running /\ TooDeep /\ waiting' = Others /\ UNCHANGED <<closed, verdict>>

AcceptEarly ==
  /\ Running /\ ~TooDeep
  /\ Lifo /\ Taken[1] \in m.accepting
  /\ verdict' = "accepted" /\ waiting' = Others
  /\ UNCHANGED closed

\* Faulty: a pop is not followed by the return it uncovers.
ExpandKeepingStack ==
  /\ Running /\ ~TooDeep
  /\ Lifo => Taken[1] \notin m.accepting
  /\ LET new == Unseen({t \in EpsMoves(m, Taken) : t.push # <<>>})
     IN closed' = closed \o new /\ waiting' = Others \o new
  /\ UNCHANGED verdict
\* Faulty: of several moves only that to the lowest state is followed.
ExpandFirst ==
  /\ Running /\ ~TooDeep
  /\ Lifo => Taken[1] \notin m.accepting
  /\ LET moves == EpsMoves(m, Taken)
         new == Unseen({t \in moves : \A u \in moves : t.next_q <= u.next_q})
     IN closed' = closed \o new /\ waiting' = Others \o new
  /\ UNCHANGED verdict
Expand ==
  /\ Running /\ ~TooDeep
  /\ Lifo => Taken[1] \notin m.accepting
  /\ LET new == Unseen(EpsMoves(m, Taken))
     IN closed' = closed \o new /\ waiting' = Others \o new
  /\ UNCHANGED verdict

Finish ==
  /\ verdict = "running" /\ waiting = <<>>
  /\ verdict' = "closed"
  /\ UNCHANGED <<m, op, start, closed, waiting>>

EpsNext == Skip \/ AcceptEarly \/ Expand \/ Finish
EpsSpec == EpsInit /\ [][EpsNext]_epsVars /\ WF_epsVars(EpsNext)

\* advance_eps: the first configuration in the closure's order that reads a;
\* without the index it has to have exactly one move on a.
CanTake(c, a) ==
  IF m.indexed THEN Successors(m, c, a) # <<>> ELSE Len(Successors(m, c, a)) = 1
AdvanceEps(a) ==
  LET able == SelectSeq(closed, LAMBDA c : CanTake(c, a))
  IN IF able = <<>> THEN <<>> ELSE <<Successors(m, Head(able), a)[1]>>
----------------------------------------------------------------------------
\* One epsilon move on; a configuration deeper than the bound is not left.
Beyond(x, bound, c) ==
  IF Len(c[2]) > bound THEN {} ELSE {Moved(c, t) : t \in EpsMoves(x, c)}

\* What up to k epsilon moves reach from c.
ReachedIn(x, bound, c) ==
  LET reached[k \in Nat] ==
        IF k = 0 THEN {c}
        ELSE LET before == reached[k - 1] IN before \cup UNION {Beyond(x, bound, d) : d \in before}
  IN reached

\* A shortest run within the closure meets each of its members at most once;
\* what a loop has lost takes longer to reach.
Reached == ReachedIn(m, DepthBound, start)[Len(closed) + Further]

\* The loops that keep whole stacks apart end with everything that epsilon
\* moves reach within the bound, although the machine has epsilon cycles:
\* neither the order of the worklist nor the early insertion into "seen"
\* loses a configuration.
ClosureComplete == verdict = "closed" /\ ~ByStateAndTop => ToSet(closed) = Reached

\* accepts_via_eps finds an accepting state exactly when one is in reach,
\* whatever the order in which it looks.
AcceptanceFound ==
  op = "accepts_via_eps" /\ verdict # "running"
    => (verdict = "accepted"
          <=> \E d \in Reached : Len(d[2]) <= m.states /\ d[1] \in m.accepting)

\* Every closure ends, although the machine's epsilon moves alone can push
\* for ever.
Terminates == <>(verdict # "running")
=============================================================================
