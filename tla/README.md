# Verification of pushdown-rs

pushdown-rs compiles a context-free grammar into a pushdown automaton and uses
the automaton to constrain a decoder: at every step it computes the *mask*, the
set of inputs that keep the output inside the grammar. This directory holds TLA+
models of that machinery, the TLC configurations that check them, and proofs
that TLAPS checks.

## 1. The system

The crate is a sequential library. There are no locks, no async tasks, no files
and no network; the only parallelism (`rayon` in `summary.rs` and
`displacement_many`) is over independent items. What is hard is the sequences of
steps: worklist loops over configurations with a stack, bounds that cut them,
different loops that have to agree with one another, a decoder that calls them
for hundreds of inputs, and encodings that a receiver has to distrust. Hash-set
iteration adds nondeterminism of order in a few places.

| Component | State | Operations | Talks to |
|---|---|---|---|
| Grammar (`compile.rs`: `Cfg`, `NamedCfg`, `Grammar`) | productions, start, symbol counts | `validate`, `kappa`, `rtn_state_names` | input of `compile` and of the chart recognizers |
| Compiler (`compile.rs`: `compile`) | the numbering of the dots, the growing transition array, provenance, CSR index | one call: validate, number, emit, provide, sort, index, closure table | returns a `PdaMachine` |
| Machine (`machine.rs`: `PdaMachine`) | transition array, CSR index, closure table (immutable after construction) | `new`, `compute_csr`, `validate_bounds`, `lookup`, `classify`, `has_epsilon_growth_cycle`, `closure_depth_bound` | every simulator reads it |
| Epsilon closures (`machine.rs`) | the list of closed configurations, the set "seen" | `advance_eps`, `advance_eps_set`, `mask_at_cfg`, `accepts_via_eps`, `compute_closure_table` | called by the session operations |
| Decoding session (`machine.rs`, `simd_pipeline.rs`) | frontier, masks (kept by the caller between calls) | `project_batch`, `step_batch`, `mask_batch`, `frontier_mask`, `event_scan`, `passthrough_run` | closures |
| Mask classes (`mask_class.rs`) | codebook of distinct masks, class of each (state, top) | `intern`, `PscClassifier::build` | lookup; read in place of the session's masks |
| Deterministic recognizer (`machine.rs`: `accepts_dpda`) | control state, stack, position | `is_deterministic`, `accepts_dpda`, `accepts` | lookup |
| Chart recognizers (`compile.rs`) | CYK table, Earley chart | `cyk_accepts`, `derives_eps`, `earley_parse`, `earley_per_step_mask` | `accepts_npda` calls CYK |
| Displacement (`machine.rs`) | in-configurations, relation of configurations, groups of words | `reachable_in_configs`, `displacement*`, `displacement_partition`, `displacement_compose` | lookup |
| Summary (`summary.rs`) | distance and reachability maps | `compute`, `compute_unbounded`, `prove_termination`, `is_viable` | lookup |
| Encoding (`bitvec.rs`, `cuda.rs`) | the words in transit, the machine being rebuilt | `to_bitvec`, `from_bitvec`, `CudaPackage::from_machine` | `new`, `validate_bounds` |
| Graph (`graph.rs`) | nodes and edges, degrees, queue, order; one control state during a replay | `single_token_decode`, `drafting`, `topo_order`, `mock_replay` | `step_batch` |
| Token spanner, SIMD and CUDA kernels, service, traits, oracle, text output | see section 5 | | the machine |

What makes each of them correct:

* *Compiler*: the ids of the states are distinct and dense; the table is exactly
  the recursive transition network of the grammar; the index finds all moves of
  a state and no others; provenance names the nonterminal being parsed.
* *Machine runs*: calls and returns match; a run is a leftmost derivation;
  acceptance is final.
* *Closures*: they end, they lose no configuration within their bound, and mask,
  advance and acceptance agree although each has a loop of its own.
* *Session*: the mask is the set of inputs that some word of the grammar
  continues with, the walk stops exactly where the mask says, a complete word can
  be ended; lanes and mask classes never contradict the session.
* *Recognizers*: their verdict is membership, and they return.
* *Displacement*: it says what a session does, and composes.
* *Summary*: distances are lengths of paths; truncation is never silent.
* *Encoding*: what arrives intact is what was sent, and what is accepted at all
  can be run.
* *Graph*: the order is topological, it fails only on cycles, and a replay takes
  only steps that the mask allows.

## 2. Modules

Paths are relative to the crate's root; line numbers are in `PROJECT.json`.

| Module | Models |
|---|---|
| `Cfg` | grammars, `validate_cfg`, terminal ids |
| `TransTable` | transition records, the stable sort by `(q, a, top)`, the CSR index loop (shared by `compile`, `PdaMachine::new`, `compute_csr`, `from_bitvec`) |
| `RtnTable` | the recursive transition network: named states, the six families of moves, phases |
| `RtnNames` | `kappa`, `rtn_state_names`, the stack symbols' names |
| `RtnCompile` | `compile()`, one action per loop iteration |
| `Leftmost` | abstract: a leftmost derivation, the word read so far and the rest of the sentential form |
| `Frames` | abstract: the same derivation with the sentential form kept as a stack of frames |
| `Rtn` | the runs of the compiled machine: state, stack, input read |
| `Machine` | the concrete `PdaMachine`: lookup, move, determinism, kind |
| `MachineBounds` | `has_epsilon_growth_cycle` with its Tarjan search; `closure_depth_bound`, which depends on it |
| `CompiledMachine` | the `PdaMachine` that `compile()` returns |
| `Closure` | what closures, masks, advances and acceptance compute |
| `EpsClosure` | the worklist loops themselves, an iteration at a time |
| `Decoder` | a decoding session (`project_batch` and the end test) |
| `MaskClass` | `Codebook::intern`, `PscClassifier::build` |
| `DpdaRun` | `accepts_dpda` |
| `Accepts` | `accepts`, which runs `DpdaRun` or `Cyk`, and the two methods called directly |
| `Cyk` | `cyk_accepts` a table cell at a time, `derives_eps` a production at a time |
| `Earley` | `earley_parse` an item at a time, `earley_per_step_mask` |
| `Summary` | `BoundedSummary::compute` and `compute_unbounded`, `prove_termination`, `is_viable` |
| `Displacement` | `reachable_in_configs`, the walk of a word from each of them, the grouping, `displacement_compose` |
| `Codec` | `PdaMachine::new`, `to_bitvec`, a channel that cuts or changes a word, `from_bitvec`, the offsets of the device package |
| `TopoOrder` | `topo_order`, an edge or a node at a time |
| `Graph` | the two graphs the crate builds, and `mock_replay` over the order that `TopoOrder` returns |
| `Derivations` | reference: the spans that nonterminals derive, and the places where nonterminals are due, as least sets closed under the productions; membership and viable prefixes from them |
| `CfgWords` | a second reference, for TLC: the language of a grammar and its prefixes, by rewriting |
| `SampleGrammars`, `SampleMachines` | instances for TLC |
| `MC*` | what TLC instantiates: samples and the properties that need a reference definition |
| `MachineProofs` | theorems about `Rtn`, `EpsClosure` and `TopoOrder` |
| `CompileProofs`, `SummaryProofs`, `DisplacementProofs`, `CodecProofs` | theorems about `RtnCompile`, `Summary`, `Displacement`, `Codec` |
| `CykProofs`, `EarleyProofs` | theorems about `Accepts` with `Cyk`, about `Earley` |
| `SharedLemmas` | what these rest on: induction and recursion over the natural numbers, least sets reached by iteration, sequences put together or gone through, the loops of `TransTable`, the facts of `Derivations` |

How the pieces fit: `RtnCompile` (numbers) is shown to produce the network of
`RtnTable` (names) by the invariant `TableIsNetwork`, and as the very record that
`CompiledMachine` builds by `ReturnsCompiled`. `Rtn` runs `RtnTable` and implements `Frames`, which in turn
is `Leftmost` with the frames joined. `EpsClosure`, `Decoder`, `Displacement`,
`Graph` and `DpdaRun` run `CompiledMachine` and hand-written machines;
`EpsClosure` shows that the loops compute the operators of `Closure`, which
`Decoder` and `Graph` use and with which the walks of `Displacement` are compared.
`Codec` states its properties with a lookup and a closure table of its own (`ByRow`,
`TablePairs`), written so that they can be reasoned about; `MCCodec` assumes, and so
has TLC check, that the table is that of `Closure` (`TablesAgree`) and that the words of
transitions can be read back from their lengths alone (`WordsScanned`). `Accepts` composes `DpdaRun` and `Cyk` as
`accepts` does: `Cyk` works on the grammar and answers for the machine, and
`PathDecides` compares the two. `Earley` works on the grammar as well. `Summary`
explores the concrete machine. `Graph` extends `TopoOrder`: the replay starts
when the sort has ended.

Conventions. A stack is written top first (the code's `Vec` has its top at the
end). Productions count from 1, positions, states and symbols from 0 as in the
code. The epsilon input id is `num_inputs`. Definitions whose comment begins with
"Faulty:" are seeded faults: each property has one that it must reject when it
takes the place of the definition after it. Definitions whose comment begins with
"Not an invariant" are refuted by the instance they name (section 3).

## 3. Runs

| Run | Question | Bounds |
|---|---|---|
| `rtn_compile` | Does `compile()` number, emit, sort and index every grammar correctly, ill-formed ones included? | 236 grammars: the ten shapes of the repository's tests, five ill-formed ones, and all of two nonterminals, one terminal and at most two productions of at most one symbol. Empty productions, orphan nonterminals, self calls and equal productions all occur. |
| `rtn` | Do calls and returns match, is acceptance final, is every run a leftmost derivation, and is what it reads of the grammar? | ten grammars, stack up to 6, input up to 5: three nested calls with left, right and central recursion |
| `eps_closure` | Do the four closure loops end, complete, and agree? | twenty machines, all configurations that up to two inputs reach; the deepest have passed the depth bound (`Skip` occurs). Seven of them are built by `PdaMachine::new` and have no epsilon cycle, so that the closure table answers: with pops that keep the top and pops that do not, branches that differ below the top, stacks that outgrow the longest push, a push longer than the number of states. The assumption `SearchFindsComponents` compares the Tarjan search with a reference on every graph of up to three nodes, self loops included |
| `decoder` | Is the mask exact along a draft, and the end test? Do lanes, pass-through runs and mask classes agree with it? | 99 grammars, drafts of up to 5 inputs. With 6 the depth bound begins to cut left recursion with an empty production (see `loop_truncated`) |
| `accepts` | Do all three membership tests return, and is the verdict membership, by the grammar's words and by the runs of the machine? | `accepts_dpda`: 101 machines, all words of up to 4 inputs. CYK: 101 grammars (unit chains, empty, left-recursive, ambiguous, 91 of one nonterminal and two productions), all words of up to 3 terminals |
| `earley` | Does every item derive, is the mask sound, and when is it complete? | 198 grammars, half of them with a start symbol of its own put in front; all words of up to 3 terminals; every order of the hash sets |
| `summary` | Are distances, reachability and the termination proof right, whatever the hash-set order? | eleven machines for `compute` (stack bounds 1 and 3), sixteen for `compute_unbounded`; at most eleven reachable configurations where all sweep orders are explored |
| `displacement` | Does a displacement say what a session does, and is it compositional? | sixteen machines; all words of up to four inputs (three on a compiled machine of two inputs) displaced together from every in-configuration, so that the concatenations of the shorter ones are among them. On one (`Reordered`) two words have equal sets of pairs and unequal lists. On the four whose epsilon moves alone push for ever only `reachable_in_configs` is run |
| `codec` | Does a machine survive sorting and transport, and is damage refused? | 24 orders of four transitions (two of them choices under one key) and eleven further machines, those among them that `new` has to refuse included; every cut, and every change of one word to 0..3: ids in range and one beyond, counts too large and too small, flags that are neither 0 nor 1 |
| `graph` | Is the order topological, does it fail only on cycles, and does a replay follow the mask? | every list of up to three edges over up to three nodes, out-of-range and repeated edges and self loops included; the built graphs on ten machines |
| `loop_truncated`, `summary_proof` | Disagreements between code and its own documentation, each with a counterexample | the smallest grammar that shows it |

### Properties

`RtnCompile`: `Numbering` (ids distinct, dense, apart from entry and exit
states), `TableIsNetwork` (the array is the network: a record for each of its moves,
none twice, none besides; sorted, and exactly indexed), `ReturnsCompiled` (the result
is the record the simulators run, choices in production order),
`PhaseHomology` (provenance is the phase, and only calls and returns change it),
`KindOfMachine` (deterministic exactly without choices); `ReturnsCompiled` says too
that there is an epsilon cycle as soon as there is a production; its `TypeOK` says besides the types that nothing
`validate_bounds` would refuse is ever emitted, though `compile` never calls it.

`Rtn`: `CallsMatch`, `AcceptingIsFinal`, `ReadsOfGrammar` (what was read is a viable
prefix, and a word of the language on acceptance, by the derivation trees of
`Derivations`), `IsLeftmost` (refines `Leftmost`), with the type invariant.

`EpsClosure`: `ClosureComplete` (a loop that has ended holds everything in reach
within the bound, and nothing else), `AcceptanceFound` (an early return misses no
accepting state, and finds none out of reach), `MaskIsAdvanceable`, `Terminates`.
`MaskIsAdvanceable` compares three computations of what can be read next that share no
loop: the mask (from the precomputed table of states and tops where the machine has no
epsilon cycle, from whole stacks otherwise), `advance_eps` (a key of state and top, the
first that reads) and the session's `advance_eps_set`. The repository says that the first
two agree; they do under `PopsKeepTop`, `SameDepth` and `InputsUnique`, each of which the
sample also breaks, and which are all needed: without any one of them the run fails. What
is in reach is found by as many moves as the closure has members and `Further`, a
constant of the model, more: whatever a loop has lost would take longer.

`Decoder`: `MaskExact`, `StopsOutsideMask`, `EndAnswer` (a complete word may be
ended; nothing else may where the start symbol is not called), `RunIsForced`
(what `passthrough_run` and `event_scan` say may be taken without masks),
`StacklessMasks` (the pipeline's masks and held steps agree with the session; a
classifier's mask is a part of the session's, and says when it is not all of it).

`Accepts`: `PathDecides` (the verdict is whether some run of the machine
accepts, except that the single path may reject what a run accepts where an epsilon move
stands beside an input move), `DecidesMembership` (CYK answers membership, which `Derivations` defines),
`Returns`.

`Earley`: `ItemsDerive` (every item is a valid partial parse), `MaskNamesNext`
(sound always, complete for one start production and no empty production; what can come
next is `Viable` of `Derivations`, which `ViableAgrees` compares with `CfgWords`).

`Summary`: `DistanceIsAPath` and `ViableCanEnd` of `compute`; `NeverTooFar` and
`PanicsIffDeeper` of `compute_unbounded`. Paths are those of the machine through the
reachable configurations (`LeadingTo`, `EndingWithin`).

`Displacement`: `ReachIsSessions`; `RelationIsWalk` (a displacement holds what a session
does, and where stacks are bounded nothing else, and then it leads to in-configurations
only); `ComposeExact` (nothing is joined that the concatenation does not do, and all of
it is where the first sequence leads to in-configurations only); `PartitionExact`
(two words share one group exactly when their lists of pairs are equal, and then each may
stand in the other's place: in front of any word, and behind any that leads to
in-configurations only, from which alone they were compared).
`Codec`: `LookupsPreserved`, `Delivered`, `AcceptedIsUsable`,
`PackageRows` (the words the package gives for a state are those of its transitions).
`Graph`: `Topological`, `NoneIffCyclic`, `ReplayFollowsMask`.

### What the violation runs show

* `loop_truncated`: closures do not expand configurations deeper than
  `num_states`; a right-recursive loop gains one return address per input and is
  lost when it gets there.
* `summary_proof`: `compute_unbounded` undoes a move without comparing the symbols
  it takes off the stack with those the move pushed. For S -> A B, A -> a, B without
  productions it joins the return from A to the call of B and proves that the empty
  language terminates.

### Other disagreements

Met while modelling and not kept as runs; where the models show one, the instance is
named, so that a change of one line in the configuration reproduces it.

Masks, closures and sessions:

* `accepts_via_eps` asks for an accepting state and ignores the stack
  (machine.rs:1593, against 1563-1565), so it is true inside a recursive call of
  the start symbol (`EndExact` of `MCDecoder` with `Grammars <- CountingOnly`).
* `max_closure_width` (machine.rs:1470), by which a device sizes its frontier,
  closes a state and one top and keeps that top when a move pops; the closure of a
  reachable configuration of S -> A A, A -> B, B -> c has more pairs (`WidthSuffices`
  of `MCEpsClosure` with `Machines <- ChainOnly`).
* `mask_at_cfg` and `advance_eps` can disagree on machines without an epsilon cycle
  (machine.rs:1294-1297; `MaskIsAdvanceEps` with `Machines <- PoppingOnly` or
  `HiddenOnly`): the closure table does not follow a pop, and `advance_eps` forgets what is
  below the top. It needs a machine built by hand with `PdaMachine::new`.
* For a visibly pushdown or deterministic machine without an epsilon cycle the depth bound
  of `advance_eps` is the longest push, which a stack outgrows by reading: `advance_eps` then
  follows no epsilon move, while the table and the session do (`Climbing`). Where a push is
  longer than `num_states` it is the session that stops first (`Soaring`).
* On a machine without an index `advance_eps` refuses an input that has a choice
  (machine.rs:545); the mask names it (`Choosing`).
* `has_epsilon_growth_cycle` is documented as a cycle "with net stack growth" that
  "contains a growth edge", false for bounded machines. The code collects the growth
  edges and never asks them; a state that pushes and moves to itself is a component of
  one and does not count; and every compiled machine with a production has a cycle
  (`ReturnsCompiled`), because every exit returns to every dot. `classify` calls every
  compiled machine visibly pushdown: it looks at inputs only, and they keep the stack.
* `README.md` asserts `is_deterministic()` of the machine of S -> a S b | a. By
  `KindOfMachine` no nonterminal of a deterministic machine has two productions.
* `simd_pipeline.rs:16-18` says that the SIMD result is the scalar one; `mask_batch`
  uses the settled mask, which is empty at the start of every compiled grammar.
* `PscClassifier` tries the epsilon id as an input, so a class can hold it.

Recognizers and summaries:

* Earley seeds only the first production of the start symbol (compile.rs:493, against
  468-469 and 561; `MaskIsAllowed` with `Grammars <- TwoStarts`), and completes an item
  once, so S -> A A b with an empty A loses b (`Grammars <- NullableTwice`).
* `accepts_dpda` on the machine of S -> S never returns (`Returns` of `Accepts` with
  `Machines <- LoopMachine`); `is_deterministic` accepts an epsilon move beside an input
  move (`PathMissesNothing` with `Machines <- ConflictMachine`).
* The distances of `compute` are not least: a later input overwrites what an earlier
  one gave, and the sweep takes the first distance it finds. They count moves,
  epsilon moves included, while `is_viable` compares them with a budget of tokens:
  it keeps nothing that cannot end in time (`ViableCanEnd`) and refuses some
  configurations that can.
* docs/mathematics.md:432 states "d_H <= H for all reachable"; H bounds the stack, not
  the distance, which is the length of a path of any length (`DistanceIsAPath`).

Displacement:

* Two words are put in one group when their lists of pairs are equal in order too
  (machine.rs:1979, against 1968, "same group iff same displacement"): on the machine of
  `Reordered` two words with equal sets of pairs are in two groups. `PartitionExact` states
  what the code does.
* machine.rs:1752-1754 promises a panic beyond the depth cap; the code drops the
  configuration. 1756-1761 says nothing is lost by it; right recursion loses
  configurations. The closure of `displacement_from` (1905) has no bound at all and
  does not end on left recursion.

Encodings and graphs:

* A provenance flag other than 1 silently means none, though bitvec.rs:142-145 says
  the mismatch is caught by `validate_bounds`. Accepting states, the start state and
  the start symbol are never compared with the bounds, though bitvec.rs:16 lists an
  out-of-range index as Malformed. `validate_bounds` names `t.q` when `next_q` is bad.
* `SourcePrimitives::total_bytes` (cuda.rs:165-171) leaves out the pushed symbols.
* The example kernel `src/ffi/pda_example.cu` pushes the string of a transition in the
  opposite order.
* `mock_replay` forgets the stack between two Advance nodes and so steps from
  configurations no session is in; `ReplayFollowsMask` states what it does keep to.
* `TokenSpanner::drive` stops at a dead byte and keeps the terminals read so far: a
  token that dies is filed under them as if it had produced them.

### Fairness

`EpsClosure` and `Accepts` assume weak fairness of their next-state relation: a
sequential loop that can take its next step takes it. Their liveness properties are
`Terminates` and `Returns`. The other specifications state safety only; the loops of
`Codec`, `Displacement`, `RtnCompile` and `TopoOrder` count through lists. A
decoding session is driven by its host, which may stop at any time; a run of the
network is a set of possible computations, not a process.

## 4. Proofs

`MachineProofs` proves, for every set of valid grammars and every bound:

* `TypeCorrect`: `Spec => []TypeOK`. The type invariant is inductive.
* `StackDiscipline`: `Spec => [](BottomMarker /\ CallsMatch)`. The inductive
  invariant is `TypeOK /\ BottomMarker /\ CallsMatch`: a return takes its target
  from the stack without asking who pushed it, so its step needs `CallsMatch` of
  the frame below, and a return on the marker is excluded by `BottomMarker`.
* `AcceptanceIsFinal`: `Spec => AcceptingIsFinal`, from the type invariant: the
  only moves out of an exit state are returns, and those need a return address.
* `RunsAreDerivations`: `Spec => IsDerivation`. The refinement mapping turns the
  control state and each return address into what is left of its right-hand side.
  A start move and an exit move are stutters; a call is `Descend`, a choice
  `Expand`, a read `Scan`, a return `Ascend`. The invariant is that of
  `StackDiscipline`.
* `RunsAreLeftmost`: `Spec => IsLeftmost`. The frames joined are one sentential form.
  `Descend` and `Ascend` leave the joined form as it is, `Expand` and `Scan` are the
  steps of a leftmost derivation on it. Joining is a recursion over the frames:
  `JoinSteps` gives what it does to the first frame, which is all a step changes.
* `RunsReadTheGrammar`: `Spec => []ReadsOfGrammar`. The table has a return from every
  exit to every return address; what makes a return the right one is who pushed the
  address. `Consistent` says it of the whole stack: each open call began at a position
  where its nonterminal is due, and what stands before its dot derives the input from
  there to where the call above it began.
* `AcceptsTheLanguage`: for every valid grammar and every word, the machine has a run
  that reads the word and accepts exactly when the word is of the language.
  `ReadsTheBeginnings`: some run reads a word exactly when the word is empty or a
  production that is due goes on from it. Both are about the configurations that moves
  without bounds lead to. Sound is the invariant above. Complete is by the least sets of
  `Derivations`: the spans that a call can be run along are closed under the
  productions, by induction over the cuts of a right-hand side, so they include all
  that is derived; in the same way for what is due.

`CompileProofs` proves about `compile()`, for every set of grammars, ill-formed ones
included:

* `NumberingAlways`: `Spec => []Numbering`, and `TypeCorrect`: `Spec => []TypeOK`,
  which says that every transition emitted is within the bounds of the machine. The
  bounds are those of the finished numbering, so the invariant has to say that
  nothing is emitted before it is finished and that the grammar has passed its
  checks by then (`Stages`), that the dots numbered so far are a prefix of the
  productions (`DotIdsTyped`, `Typed`), and that what waits in the work list is
  usable too (`TableUsable`).
* `IndexAlwaysExact`: `Spec => []IndexExact`: what is returned is sorted and its index
  is exact. The two lemmas it rests on are about the operators of `TransTable`, for
  any array: inserting where the sort inserts keeps it sorted (`InsertedSorted`), and
  one iteration of the index loop makes the next row exact (`IndexedOneMore`).
* `PhaseAlways`: `Spec => []PhaseHomology`. The transitions are pushed before there is a
  provenance, so the invariant cannot speak of the vector: `PhasesKept` says by the
  numbering alone which phase a state is to have (`HasPhase`), and that both ends of a
  push of length one, in the array or in the work list of the sort, have one phase.
  `Provided` says that the vector holds these phases for the productions written so
  far; `Numbering` is why writing one production's dots overwrites no other's.
* `NetworkAlways`: `Spec => []TableIsNetwork`. The loops walk over the moves of the
  network: each move has its turn (`Turn`) at one position of the cursor, `CursorStep`
  says that the cursor skips none, and the array lists the records of the moves that
  had theirs, each once (`Lists`, in `NetworkInv`). That two moves never share a record
  is the injectivity of the numbering of states and stack symbols (`StateIdExact`,
  `StackIdExact`, `EncodedExact`). During the sort the records are split between the
  array and the work list.
* `KindAlways`: `Spec => []KindOfMachine`, from the network: moves that share a key
  start in one state, and only the choices at an entry state do.

`CykProofs` proves, for every set of valid grammars and every word:

* `MembershipDecided`: `Spec => []DecidesMembership`. The table holds only derivable
  spans (`TableSound`); and as long as a sweep has changed nothing, every span of a
  production the sweep has passed and whose symbols the table covers is in the table
  (`SweepClosed`). A sweep that ends unchanged has a table closed under the
  productions, and `DerivedLeast` says that the derivable spans are the least such set.
  `CoversExact` says that the partition table filled from the back of a right-hand side
  decides whether its symbols can share a span.

`EarleyProofs` proves, for every set of valid grammars, every word and every order of
the hash sets:

* `ItemsAlwaysDerive`: `Spec => []ItemsDerive`, from `EarleyInv`: what the queue holds
  is in the chart, and an item is a partial parse.
* `MaskAlwaysNamesNext`: `Spec => []MaskNamesNext`. Sound: an item's production is due
  where it starts (`IsDue`), so the input ends within a production that is due, which is
  what `Viable` says. Complete: `ChartInv` says of every item that left the queue that
  predict, complete and scan have been done for it (`Settled`). An item completed in
  its own set would not meet items added there later; without empty productions every
  complete item spans some input (`CompleteSpans`), so the set it is completed in is
  finished. A finished chart then holds an item for every due production and every
  front of it that derives the input there (`DueBegun`, `RunAlong`).

`MachineProofs` also proves, for every machine and start configuration:

* `ClosureAlwaysComplete`: `Spec => []ClosureComplete`, and `AcceptanceAlwaysFound`:
  `Spec => []AcceptanceFound`. In `EpsInv` every configuration seen is in reach and
  either still waits or is settled: its moves lead to configurations seen, and it did
  not end the acceptance test. A loop that returns early for an accepting state has
  settled none of this, and need not.

and about `topo_order`, for every graph:

* `TopologicalAlways`: `TopoSpec => []Topological`. `DegreesCount` says that a
  degree is the number of edges counted and not relaxed, so a node whose degree is
  zero (`QueuedHaveNoEdges`) has only relaxed edges, whose sources are ordered
  (`RelaxedAfterSource`); `NothingTwice` makes the order injective, and an injective
  order as long as there are nodes is onto.
* `NoneExactlyOnCycles`: `TopoSpec => []NoneIffCyclic`. `ZeroQueued` adds the converse,
  that a node without edges left is never forgotten: when the queue runs empty, each
  node left over has an edge that was not relaxed, whose source is left over too, and
  these nodes are the cycle. The other way, a set of nodes with a source each inside
  the set has a first member in the order, and its source would have to come before.

`SummaryProofs` proves, for every machine, every stack bound and every order of the sweeps:

* `PanicsExactly`: `Spec => []PanicsIffDeeper`. `SearchInv` says that whatever has been
  reached either still waits or is `Expanded`: its moves lead to what is reached, or
  beyond the bound, and then `truncated` is set. Conversely `truncated` always has a
  configuration to show. That nothing is reached but from the start is `Rooted`, in the
  form of a set: what is closed backwards and not empty holds the start.
* `DistancesArePaths`: `Spec => []DistanceIsAPath`. `SweepInv` says of every relation
  that holds the accepting configurations at 0 and goes back one move at a time
  (`HoldsPaths`) that the distances are in it; the lengths of paths are one. And while a
  sweep has found nothing, what it has visited is not one move from a distance
  (`Settled`), so when a sweep ends unchanged every path to acceptance has been followed
  back. No path means no distance for the start, and then, by `Rooted`, for none.
* `ViableAlwaysCanEnd`: `Spec => []ViableCanEnd`, from the same invariant with another
  relation: the configurations that can end within a number of tokens.
* `DistancesNeverTooFar`: `Spec => []NeverTooFar`. `LevelInv` says that what lies one
  move before a configuration below the level in hand is at most one further. The
  code undoes moves that were never made, and so finds too much, never too little.

`DisplacementProofs` proves, for every machine and all lists of sequences:

* `DisplacementsAreWalks`: `Spec => []DisplacementIsWalks`: a displacement is, for each
  in-configuration, exactly what the paths of the machine that read the sequence end at
  (`Leads`: epsilon moves, then a move on the input, for each input). In `DisplacementInv`,
  `OnPaths` says that the worklist holds the frontier of what has been read and lies
  within its epsilon closure (`EpsStar`), and that the moves of the entries expanded are
  in it; so a worklist that is expanded to its end is the closure, and what it reads is the
  next frontier. `RelsExact` says that a word's list is the pairs of the walks that are
  over. A walk given up leaves no pair, and needs none: an empty frontier stays empty
  (`LeadsEnded`).
* `ComposeAlwaysExact`: `Spec => []ComposeExact`, from that: a path that reads a
  concatenation is a path that reads the first sequence and one that reads the second
  (`LeadsThrough`), and the list has the second only where it starts at an in-configuration.
* `InConfigsAreReached`: `Spec => []BoundariesAreReached`: the in-configurations are the
  least set that holds the start and what is read from its members within the cap, each
  once. `BoundariesFound` says that what stands before the cursor has been read and that
  nothing is listed without cause, `ClosesOne` what the inner worklist holds.
* `PartitionAlwaysExact`: `Spec => []PartitionExact`: two sequences share a group, and
  then one only, exactly when their displacements are equal as lists, and then they are
  interchangeable. `GroupsHoldEquals` says that groups with one displacement are one group,
  so there is never a choice of where to put a sequence. Equal lists mean equal outcomes
  from every in-configuration (`OutcomesAgree`); what is read behind goes on from these
  outcomes, and what is read in front leads to in-configurations (`OutcomesThrough`).

`CodecProofs` proves, for every set of machines given to `PdaMachine::new`, in bounds or
not, and for every range of changed words:

* `LookupsAlwaysPreserved`: `Spec => []LookupsPreserved`. `Built` says that what has been
  sorted is sorted and that the index of the records passed is exact, as in
  `CompileProofs`; here an id may be out of range until `validate_bounds` looks, and a record
  of no state is in no row. `Reordered` says that array and work list together hold, under
  every key, what the caller gave for it, in the caller's order. A step of the sort keeps
  this because it inserts behind the records whose keys are not greater (`SortKeeps`), and
  the row of a key is the one piece of the array that can hold it (`KeptPiece`).
* `AcceptedAlwaysUsable`: `Spec => []AcceptedIsUsable`. A machine that `validate_bounds` let
  pass moves only among its states and symbols, so the closure table is never indexed
  outside them, however many epsilon moves it takes (`TableInside`).
* `AlwaysDelivered`: `Spec => []Delivered`, from `CodecInv`. What has been read, written
  again, is what stands before the position of the reader (`Parsed`); the words in
  transit differ from those sent as the fault says (`Shipped`). Where nothing was changed
  the reader follows the machine that was sent (`Tracked`): its records are a prefix, a
  cut message runs out before the end, and a whole one gives the array as it was sent,
  which is sorted, so the second sort leaves it alone and the index, of which there is only
  one (`IndexUnique`), comes out the same (`Whole`). Where one word was changed, and the
  rebuilt machine is all the same the one that was sent, nothing says that the words read
  are in the order they were sent in: the sort came after. What the sort keeps is the sum
  of the words it moves and their number (`Tallied`, `SizesInserted`), and a change of one
  word changes the sum, so the changed word is not among them; what is left is the flag.
* `PackageAlwaysExact`: `Spec => []PackageRows`. The array is sorted and a state's row is
  one piece of it, so its words are the piece between the running index of its first
  record and that of the first record after it (`CtrlU32Offsets`, `CtrlU32Counts`).

Induction. The library's induction theorems take an operator and cannot be used here;
`SharedLemmas` proves what is needed from the least element of a set of natural numbers
(`LeastNatural`, itself from the library's theorem that a set of finite sets has a
minimal member), as statements about sets: `Induction` (a set that contains 0 and successors
contains all), `Recursion` (a first value and a step determine a function), and the
`Iteration` lemmas (the least closed subset of a finite set is reached after as many
steps as there are elements); `FrontInduction` is induction over sequences, for the
joining of sequences (`FlattenSeq`) that lookups and encodings are written with; `RecursionOn` and `ScanFrom`
are about the functions that go through a sequence as a loop does;
`InjectiveOnto` counts.
Recursive functions of the models are unfolded by these.

The assumptions are those of the modules: `GrammarsAssumption` of `Rtn`, `Accepts` and
`Earley` (every grammar is one that `compile()` does not refuse), of `RtnCompile` (every
grammar has the shape of a `Cfg`), `WordsAssumption` (words are sequences of numbers),
`MachinesAssumption` of `EpsClosure` (the shape of a machine; its ids need not even be
in range), `GivenAssumption` of `Codec` (the same for the machines given to `new`),
`MachinesAssumption` and `BoundsAssumption` of `Summary` (the shape of a machine, natural
bounds and budgets), `MachinesAssumption` and `CallsAssumption` of `Displacement` (the
shape of a machine; sequences of numbers, in range or not), `GraphsAssumption` (edges are pairs of numbers), and natural bounds.

Only model-checked:

* liveness (`Terminates`, `Returns`), which is beyond the prover;
* what compares with a definition by `RECURSIVE` operators, which the provers cannot
  read: the record `CompiledMachine` builds and the Tarjan search (`ReturnsCompiled`),
  the session (`MaskExact`, `StopsOutsideMask`, `EndAnswer`, `RunIsForced`,
  `StacklessMasks`), what a displacement has to do with it (`ReachIsSessions`,
  `RelationIsWalk`), `MaskIsAdvanceable`, `PathDecides`, `ReplayFollowsMask`;
* what holds on the instances and not in general, for the reason given in section 3:
  `MaskExact` (longer drafts), `PathDecides` (an epsilon run that passes an accepting
  configuration and goes on).

That the stack of a configuration stays within a bound is no theorem of this system:
nothing bounds it.

## 5. Not modelled

* Names (`NamedCfg`, `vocab_names`), text output (`viz.rs`, `trace_npda`),
  `service.rs` and the traits of `pda.rs` (they delegate), the test oracle.
* The token spanner: two hash maps filled in one pass over a vocabulary by a lexer and a
  tokenizer that are traits without an implementation in the crate; nothing reads the
  maps.
* Lane arithmetic of the SIMD code, the broadcast of masks onto logits (floating point),
  memory layout, transfers and kernels of the CUDA code beyond the offsets in `Codec`.
* Stack overflow of the recursive Tarjan search, memory exhaustion. `from_bitvec` reserves
  room for as many records as a count in the encoding says (bitvec.rs:109, 113, 120, 149)
  before it reads them: a count damaged to something huge may abort the process where
  `Codec` has the error that the missing words give.
* `u32` overflow of ids: `num_states` is a sum over the grammar's size and a
  grammar that overflows it does not fit in memory; ids are natural numbers. Words
  of the encoding are numbers for the same reason.

## 6. Plan

What is left, in this order:

1. The theorems of the session, for which `Closure` needs its `RECURSIVE` operators
   written as least sets, and its lookups written as in `Codec`; then `RelationIsWalk`
   and `ReachIsSessions` follow from the theorems about `Displacement`.
2. `DeviceStack`: a kernel's stack of fixed depth against the exact one, once the
   crate has a kernel that can be compiled.
3. The token spanner, when a lexer is part of the crate.
