# N-FDL / ADGL verification project

The repository holds two languages and their runtimes:

* **N-FDL** describes network protocols: messages, bit fields, loops, matches,
  session state machines. A protocol is parsed (`nfdl-syntax`), compiled to
  bytecode (`nfdl-runtime/integration.rs`), interpreted over the bytes of a flow
  (`nfdl-bytecode`), whose TCP segments are put in order first
  (`reassembly.rs`), and the messages drive per-flow state machines
  (`efsm.rs`, `session.rs`).
* **ADGL** describes diagnostic rules: evidence rules correlate events within time
  windows and infer causes, decision rules turn causes into problems and
  actions. Rules are parsed, verified and lowered to an image
  (`airpulse_dsl-{syntax,verify,ir}`) that an engine (`airpulse_dsl-evaluator`)
  runs over a store (`airpulse_dsl-store`) of rings, wait queues and graphs.

The two meet only through data: N-FDL's events are of the kind ADGL consumes.
This directory models both runtimes, where state, order and time matter, and both
front ends from text to text and from text to image, where a mistake is silent.

## 1. Inventory

| component | state | operations | talks to | what is hard |
|---|---|---|---|---|
| ADGL event-time pipeline (`engine.rs`, store crate) | rings, wait queues, watermark, dedup index, live sources | `ingest`, `advance_watermark`, `advance_wall_clock`, `finish` | graph inference (runs rules), oracle, sink | disorder, lateness, suspended matches against garbage collection, full buffers, several live sources, the end of a capture |
| ADGL graph inference (`engine.rs`, `subgraph.rs`) | causes, problems, ambiguities, cooldowns | the intents of a rule: infer, emit, supersede, mark, action; roll-up | itself, re-entrantly; the store | a cascade of rules working on snapshots, budgets, caps, cooldown pruned and checked in two places |
| ADGL predicates (`predicate.rs`, `t3.rs`) | slots of one evaluation | compile, evaluate | called by the pipeline | unknown and absent bindings, checked arithmetic, slots running out |
| ADGL topology oracle (`topology.rs`) | a declared network | five relations, `upstream_of` | called per candidate of a correlate | cycles, the hop bound, unknown against false |
| ADGL front end (`airpulse_dsl-syntax`, `-verify`, `-catalog`, `ndsl-fmt/adgl.rs`) | none at run time | parse with recovery, format, twelve phases, lowering | produces the image | what it admits is what the engine assumes; what lowering drops, a phase must have refused |
| N-FDL interpreter (`nfdl-bytecode`) | slots, cursor, budget | `run`, `run_stream`, `resume` | continuation | resuming in the middle of a bit field, hints, endless programs, word overflow |
| N-FDL compiler (`integration.rs`) | code, names, slots while compiling | `protocol_to_bytecode_with_map` | interpreter, runner | scoping of inlined messages, jump patching, slot reuse |
| N-FDL stream continuation (`continuation.rs`) | a snapshot | start, resume, finalize | interpreter, session engine | any partition of a flow must parse alike |
| N-FDL session engine (`efsm.rs`, `session.rs`) | sessions, states, variables, timers | `feed`, timers, `expire_idle` | fed by the runner | four maps kept consistent through eviction, expiry and timer batches |
| N-FDL reassembler (`reassembly.rs`) | contiguous bytes, out-of-order map | `accept_segment`, `compact` | feeds the stream parser | duplicates, reordering, wrapping sequence numbers |
| N-FDL front end (`nfdl-syntax`, `ndsl-fmt/lib.rs`) | none | tolerant parse, recovery, format | feeds the compiler; `ndsl-cli fmt` overwrites files | a parser that forgives almost everything, and a formatter with precedences of its own |
| N-FDL runner (`runner.rs`) | layers | `bind` dispatch | everything in N-FDL | not modelled |
| linter, CLIs, plugins, fuzzers | none of their own | lints, I/O | | not modelled |

`PROJECT.json` lists every component with its sources and status, and under
`hazards` every place found that is hard to test, with the properties that would
catch it going wrong.

## 2. Modules

| module | models | kind |
|---|---|---|
| `AdglStream` | the event-time pipeline | state machine |
| `AdglStreamProofs` | theorems about `AdglStream`: what is kept for waiting matches; what becomes of every match and verdict | proofs |
| `AdglGraph` | what a rule's intents do to the graph, with the engine's recursion as an explicit stack | state machine |
| `AdglGraphProofs`, `AdglConfidenceProofs` | theorems about `AdglGraph`: calls, cooldown, verdicts; confidences and ambiguities | proofs |
| `AdglAst`, `AdglCatalog` | the syntax tree; the catalog's lookups | operators |
| `AdglEnv`, `AdglLoops` | a rule's environment of bindings; the loops the verifier and the oracle are built from | operators |
| `AdglSyntax` | tokenizer, grammar and recovery of ADGL | operators |
| `AdglFormat` | the ADGL formatter, lexeme by lexeme | operators |
| `AdglPredicate` | type check, compilation and evaluation of predicates, and their meaning read directly | operators |
| `AdglVerify` | the twelve phases and the lowering | operators |
| `AdglTopology` | the network, its builder and the bounded search | operators |
| `AdglFront` | a ruleset from the author's hand to the engine's use of its image; composes all of the above | state machine |
| `AdglFrontProofs` | theorems about `AdglFront`: what the verifier promises of an accepted image; the topology oracle | proofs |
| `NfdlSyntax`, `NfdlParser` | tokens and expressions; statements, declarations, recovery | operators |
| `NfdlFormat` | the N-FDL formatter | operators |
| `NfdlFront` | a file through check, format and reading again | state machine |
| `NfdlCompile` | expressions and the compiler | operators |
| `NfdlSource` | what a protocol's declaration means, read directly | reference definition |
| `BytecodeVm` | the interpreter and its continuations | state machine |
| `StreamResume` | parses in pieces, with the history that relates them to the whole | refinement of `BytecodeVm` by `BytecodeVm` |
| `StreamResumeProofs` | theorems about the interpreter and its continuations, resume-equivalence among them | proofs |
| `SessionFsm` | `FsmEngine` over `SessionDb` | state machine |
| `FlowMachine` | one state machine, as one flow should see it | abstract specification |
| `SessionFsmProofs` | theorems about `SessionFsm`, its refinement of `FlowMachine` among them | proofs |
| `Reassembler` | `Reassembler` with the network in front of it | state machine |
| `ReassemblerProofs` | theorems about `Reassembler` | proofs |
| `SetInduction` | induction over numbers and finite sets, stated for sets | lemmas |
| `MC*` | small instances | for TLC |

### AdglStream
One action per public call: `Ingest` is the whole of `Engine::ingest` (late check,
audit of contradicted absences, push with ring spill, live watermark advance with
resumes and sweep, matching of the event's anchors, suspension with queue spill,
budget), `AdvanceWatermark`, `AdvanceWallClock` and `Finish` likewise. A ring is the
set of its events; an event's id is its arrival number, which recovers the
order the code keeps. Payloads are members of `Data`; predicates and the topology
oracle are tables over them. Time saturates at `MinTime`/`MaxTime` as `EventTime`
does at the ends of `i64`. History variables (accepted, spilled, missing, unfunded,
outcomes, applied, audited) record what the diagnostics of the code record.

### AdglGraph
The engine recurses depth first: an infer changes a cause, which runs decision
rules, which emit problems, which run further rules. The model keeps the pending
calls on `stack` and every call that changes the graph is an action: `RunRule`,
`Infer`, `Rollup`, `SynthesizeAmbiguity`, `MarkAmbiguous`, `EmitProblem`,
`Supersede`, `EmitAction`, `Unresolved`. `Fire` is a batch of matched rules handed over
by the pipeline, `Advance` and `Sweep` move the watermark and prune. Rules are the
intents they execute. An engine is started with a member of `Deployments`: an image, its
firing budget, the times and the targets its events have; one run checks several, as
an initial choice. `AdglStream` and `AdglGraph` share the firing budget, the
dedup key and the watermark but are checked apart: their product is out of TLC's
reach, and the only thing that flows back from the graph to the pipeline is the
budget spent, which `AdglStream`, for an image of evidence rules alone, charges
one unit per run.

### AdglFront and the modules it composes
`meant` is the ruleset an author means and `text` its lexemes, written with all
parentheses. `mistype` turns one lexeme of a member into a stray sign, up to
`MaxFaults` times; `parse`, `format`, `parse` again and `verify` are the calls of the
tools and of the engine's loader; `match_anchors`, `run_rule` and `correlate` are what
the engine does with an accepted image, over every combination of bindings (present,
absent, unknown) and candidates. The parser is a table of productions and one interpreter, because
the code's parse functions are one sequence of `consume_*` each; recovery
(`resync_decl_or_rule`) counts braces as the code does. Diagnostics are their codes.
Characters are left out: a text is a sequence of lexemes, a string or a name is
one value. Scopes of `AdglTopology` are numbers in the order of `ScopeId`, which
matters because the search visits neighbours in that order.

What `AdglFront` needs of the passes over texts and expressions are operator parameters:
`Tokens`, `Parse`, `MembersOf`, `TextOf`, `TypeOf`, `Compiled`, `OffsetOf`, `Occurs`, `DepthOf`,
`Evaluated`, `ValueOf`. `adgl_front.cfg` gives them `tokenize`, `parse_ruleset`, `MemberTexts`,
`emit_ruleset`, `infer_expr_type`, `compile_predicate`, `as_anchor_offset`, `Mentions`,
`expr_depth`, `eval_predicate` and `Verdict` of `AdglSyntax`, `AdglFormat` and `AdglPredicate`, which are
`RECURSIVE`; with them set apart the verifier, the lowering and the oracle can be proved about.
Their own loops (the searches for cycles and for a path) are recursive functions over a
measure: the rules not yet seen, the hops left.

### NfdlFront and the modules it composes
`meant` and `draft` are the protocols of a file without and with `slip`s, fields got
wrong in one of the ways `SlipKinds` lists. `check` is the recovering parse of a
diagnostics run, `format` the fail-fast parse per protocol and the printing that
overwrites the file, `reread` what is then found in it. `NfdlParser` is token-exact:
which token is forgiven, skipped or blamed is the behaviour. The author's hand of
`FileText` spells a declaration in the ways the formatter does not (all
parentheses, settings without `meta`, arrows, empty blocks).

### SessionFsm, FlowMachine
`Receive` is `FsmEngine::feed` with `SessionDb::get_or_create` and `transition`.
`AdvanceAndFire` starts a batch of due timers and `FireNext` feeds one of them, so
that an eviction in the middle of a batch is a state of its own. Callers may arm a timer
for a flow that has no session, as the interface lets them. `FlowMachine` says
what docs/spec/09 promises of a flow; `FollowsMachine` is the refinement.

### Reassembler
Numbers wrap at `SeqMod` and are compared as plain integers, as the code compares
`u32`. A byte is its position in the sender's stream, so a wrong byte is visible.
The sender stays within `Window` of what is reassembled and the network
reorders and duplicates; a segment that never comes is a behaviour too.

### BytecodeVm, StreamResume
One action per kind of instruction. `Suspend` is a short read of a stream
(`snapshot`), `Resume` hands over any non-empty piece of the rest. Bytes have
`ByteBits` bits and words `WordBits`; word and `usize` share a width, and a shift
count is cut to half of it, as the code's `u32` of a `u64` is. A job says
whether the build has overflow checks: with them what overflows is `Panic`,
without them it wraps, and an index range that wrapped panics in both.
`StreamResume` remembers the cursor before a suspended read and how many reads were
tried in vain; with these, the parse in pieces is mapped to the parse of the whole
flow (`Whole`) and `ResumeEquivalent` is the refinement `Whole!Spec`.

### NfdlCompile, NfdlSource
`Compile` is `protocol_to_bytecode_with_map`: a compilation in progress is a record
of code, name-to-slot map, field map, next free slot and the slot of the last
expression. `NfdlSource` reads the same declaration directly from the bytes with an
environment of names, after docs/spec/03: a datagram read past the end is `oob`, a pass of a
loop without progress `stuck`, one too many `looplimit`. It takes one value from the code, an absent
field is 0 (the comment in `integration.rs` says so). Both are `RECURSIVE`, so nothing is proved in modules that use them.

## 3. Runs

All bounds are in the `.cfg` files and named as constants.

| run | result | shows |
|---|---|---|
| `stream_offline` | pass | every offline capture of 3 events at 4 times, in any order, with three payloads, two punctuations and `finish`, a ring and a queue of 2 and a budget of 1 |
| `stream_live` | pass | two live sources, idle timeout, saturating bounds, ingest after finish, 4 events |
| `stream_reopen` | violation | a late anchor behind the pruned dedup index repeats its contribution |
| `graph` | pass | two deployments: exclusive causes in two clients and their VLAN; cooldown, suppression and marks on three targets; 3 batches |
| `adgl_front` | pass | some six hundred rulesets, mistyped or not, through all stages; ten of them over two hundred networks |
| `fsm_engine` | pass | 3 flows in a table for 2, timers, expiry, 4 feeds |
| `fsm_radius` | violation | radius.nfdl's dialog does not start in its first state |
| `reasm_order` | pass | 5 segments, 9 arrivals, compaction |
| `vm_stream` | pass | 5 protocols and 4 hand-made programs, every flow up to 3 bytes and prefixes of longer ones, every partition |
| `vm_gtpu` | violation | the extension chain of gtpu.nfdl never advances |
| `nfdl_front` | pass | some thousand files, with up to three slips |
| `nfdl_format` | violation | parentheses lost by the formatter change an expression |

### What the properties say
*Pipeline.* `WaitingEvidenceRetained`, `ResumedVerdictsExact` and
`MissingAnchorsWereSpilled`: the collection horizon never overtakes a waiting match,
so a resumed verdict is the one the whole history gives. `OneRunPerMatch` and
`EveryMatchAccountedFor`: each match ends in exactly one of waiting, run, spilled,
orphaned, refused. `SpillDropsLeastUrgent`: the capacity policy.
`LateEvidenceAudited`: no accepted event contradicts an absence unnoticed.
`RepeatsOnlyBehindHorizon`: pruning the dedup index costs a repetition only for a late anchor
that is run at once and whose whole dedup window lies behind the horizon of the sweep.
`OncePerWindow`: no contribution counts twice; the comment at `subgraph.rs:254` promises it "even for late
events", `stream_reopen` shows one that does, and a theorem says when none can.
`VerdictsFinal`, `SteadySourcesHoldWatermark`, `OnTimeNeverDropped`: live verdicts are
never overtaken, and a source that keeps sending within its disorder loses nothing.
`FinishClosesWindows`, `EverythingSettles`: the end of a capture settles all.

*Graph.* `ConfidencesCurrent`: the confidence of a cause that only roll-up has written in
the parent is the maximum of its children's, and no ambiguity is synthesized from a
stale confidence. (A cause inferred in the parent directly as well has
whichever value was written last; see 6.) `ConfirmedCausesReported`: the cascade leaves
no confirmed cause unreported unless the budget refused the run. `AmbiguityLife`: an
active ambiguity is undecided, and is told once. `CooldownRespected`: repeats keep their distance.

*ADGL front end.* `TextKeepsMeaning`: what the parser reads, of the author's text and
of the formatter's, is what the author means. `OneErrorPerFault`: recovery reports each
faulty member once, at its place, and hides none behind another. `LoweringComplete`: what
lowering drops silently, a phase has refused. `WindowsSurviveSlack`: an admitted window
fits the horizon after the longest forward wait of any rule; this is what the proofs
about `AdglStream` assume as `VerifiedWindows`. `CascadesTerminate`: no accepted
image feeds itself, through bodies and branches: of any rules one triggers none of them. `RuleMeansSource`: a compiled predicate
has the value that docs/idea/spec/03-semantics.md gives its expression, short circuit, unknowns and errors included, and
selects the body the document says, the request of topology included. The engine departs from it in two ways (see 6),
each an operator of its own: where `EvaluatesSpared` holds, an operand that short circuit spares overrules the one that
decides, and the value is not compared (the body must still be the one that value selects); where
`AsksNothing` holds, an Unknown requests nothing. `OracleExact`: a candidate's answer is the one the source asks for.
Of `upstream_of` it is the documented one: a cycle above is `False` with its diagnostic, otherwise reachability decides.
Where a way up is longer than the hop bound (`CutOff`) the engine departs from the document (see 6), and the property
says what is left (`Honest`): no `True` is wrong, no cycle is invented, and no plain `False` is said of what is upstream.
`PrivateFieldsMasked`: evidence carries the mask of its private fields.

*N-FDL front end.* `RecoveryLosesOnlyFaults`: each faulty statement is reported once, in
place, and no sound neighbour is lost. `FormatRoundTrips`: only a file that checks
clean is overwritten, and what is written is read as the same protocols.

*Sessions.* `FlowStateTracked` (four maps, one set of flows), `EvictionIsLru`,
`ExpiryMatchesActivity`, `TimersDisturbNoFlow` (a batch evicts and creates nothing, as
long as no caller armed a timer of a flow without session), `AllDueFired`, and the
refinement `FollowsMachine`.

*Reassembly.* `StreamInOrder`, `NothingHeldBack`.

*Interpreter and compiler.* `ResumeEquivalent`, `HintExact`, `Returns`, and
`CompiledMeansSource`, which compares the fields recorded, the cursor, the context
and the verdict of the compiled program with the direct reading. Where the document gives a reading
up and the bytecode has no check that would (`GivenUp`, see 6), the property says what the program does
instead (`GoesOn`): the fields recorded until then are the same; past the end of a datagram it records a zero-filled
field or is rejected by a `validate` of one; in a loop without progress it runs into `max_instructions`.

`TypeOK` is run for the live pipeline, where window bounds saturate; those of the graph, the session
engine, the reassembler and the interpreter are proved (section 4).

### Why the bounds are enough
* `stream_*`: a lost or stale verdict needs an anchor, one event in its window and
  one that moves the watermark; the times lie inside, on and outside every window
  bound (reach 1 forward, 2 back, horizon 3). Offline the dedup windows are 2 wide, so that the horizon of the
  sweep passes several of them, and a ring and a queue of two spill with three events.
  Live a fourth event allows a second source, and the range of times ends at 4, where the upper bounds of
  the last windows saturate to one. The rules cover absence, presence, no correlate, a count and two
  rules on one anchor.
* `graph`: weights make the causes probable, confirmed, 15 apart and closer
  again within three batches; two clients are needed for a maximum, a budget
  of 3 or 4 is exhausted by the cascade.
* `adgl_front`: each family crosses all values of its concern: every operator under every
  other on both sides, every pair of condition atoms with a correlate present, absent and
  unknown, every pair of windows on both sides of the horizon, every pair of statements.
  Limits are cut to 3 to 8 so that texts reach and exceed them. `MaxFaults = 2` lets
  one fault hide another, in three rulesets, at every pair of members. A fault is a stray `=`; a misspelled
  keyword of a member, a missing brace and comments are left out (see 6). The networks have a diamond, two ways
  up, a ring and a long way round, hop bounds 1 to 3 on both sides of every distance,
  and each relation alone; on both sides of `CutOff` there are diamonds, cycles and targets found and missed.
* `nfdl_front`: as above for expressions and pairs of statements; three slips are the
  least in which recovery of one runs through a second to a third. These texts are left out, each of
  which the code is known to change or to forgive (see 6): the expressions `Misprinted` describes, which are the
  violation run, among them a `??` on the right of another; slips other than `SlipKinds` (in a `let`, a `validate` or a machine; a missing `;` or a stray sign in a loop or a
  conditional field); files whose last `}` or a message's is missing; transitions without
  actions; strings with a backslash; `by_plugin` with an argument; a `guard` that goes on behind a
  closing parenthesis; comments.
* `fsm_engine`: three flows for two places are the least that evict; two arms of one
  timer on different flows give a batch in which the first firing could evict the second.
* `reasm_order`: five segments of one and two bytes with nine arrivals allow each to be
  duplicated behind, at and ahead of the next byte; the run stays below the wrap (see 6).
* `vm_stream`: a byte of two bits makes bit fields straddle bytes at once and a word
  of four bytes wraps slices early. The protocols are radius, gtpu's flags, diameter and a
  header chain cut to their control structure; flows contain two attributes, nested AVPs and
  two headers. A fifth protocol (`Pads`) has a loop whose passes need not read anything, nor, with a step
  of 0, change their carry. Two passes are the most a loop may make: short flows reach a third. Programs with `bytes[EOF]` or a slice of open length run whole only (see 6).

### Fairness
`EverythingSettles` assumes weak fairness of `Finish`: the drivers (`ndsl-cli`, the
test harness) call `finish` once the input ends. `Returns` assumes weak fairness of
the interpreter's steps: `interpret` is a loop in the caller's thread. Nothing is
assumed about the arrival of bytes, events or timers; the other properties are safety.
`CHECK_DEADLOCK FALSE` is set where the environment may stop: a network that sends
nothing more, a program that has returned. The other runs either end in an explicit stuttering action
(`FinishAgain`, `Idle`) or do not stop. The two front ends stop when their text is judged.

## 4. Proofs

Every theorem holds for all values of the constants within the assumptions named
below. Each proof has the same shape: an inductive invariant, one lemma per action
(and under it one step per conjunct the action can disturb), then the property.

### Pipeline (`AdglStreamProofs`)

| theorem | states | beyond the module's assumptions |
|---|---|---|
| `StreamInvariant`, `TypeCorrect` | `[]StreamInv`, `[]TypeOK` | |
| `EvidenceOutlivesWait`, `ResumesAreExact` | `WaitingEvidenceRetained`, `ResumedVerdictsExact` | |
| `FinishFlushes` | `FinishClosesWindows` | event times plus the largest forward window stay below `MaxTime` |
| `MissingMeansSpilled`, `EveryMatchHasOneFate`, `RunsAreUnique`, `SpillsAreLeastUrgent` | `MissingAnchorsWereSpilled`, `EveryMatchAccountedFor`, `OneRunPerMatch`, `SpillDropsLeastUrgent` | |
| `WatermarkWaitsForSteady` | `SteadySourcesHoldWatermark` | |
| `OnTimeIsKept`, `LateEvidenceIsAudited` | `OnTimeNeverDropped`, `LateEvidenceAudited` | `RealTimes` |
| `VerdictsAreFinal` | `VerdictsFinal` | live, no allowed lateness, `RealTimes`, `SourceDisorder <= MaxDisorder + ImageMaxForward` |
| `RepeatsStayBehind` | `RepeatsOnlyBehindHorizon` | |
| `AppliesOncePerWindow` | `OncePerWindow` | live, `AllowedLateness <= MaxLookback`, `SourceDisorder <= MaxDisorder + MaxLookback` |

`WaitingEvidenceRetained` is not inductive: it says nothing of events that are not
yet in anyone's window. `StreamInv` adds `HorizonInv` (above `wm - MaxLookback`
only a spill removes an accepted event), `PendingInv` (a waiting match is not due
and its bound is its anchor's time plus the rule's forward reach), `RingInv`
and `IdsInv` (one event per id, so that an anchor's id denotes it). The argument: a
match not yet due has its anchor less than its forward reach behind the
watermark; the verifier admits only windows with `back, fwd <= MaxLookback -
ImageMaxForward` (`VerifiedWindows`, from `phase06_temporal`), hence the whole window lies
above the horizon, where `HorizonInv` keeps it. `WindowsWithinHorizon` is that step,
and saturation is its delicate part. `ResumesAreExact` needs it in the middle of a step:
matches are resumed after the new event is pushed and before the sweep.

The fates: `FateInv` says that the matches of the accepted events are shared out
among waiting, run, spilled, orphaned and refused, without overlap, and that no two
waiting records or runs are of one match. Its lemmas follow the three ways a call
moves matches (new ones run or suspended, due ones resumed, refused ones at the end of
the budget), because `ingest` does all three in one step. Live, `SteadyInv` and
`SourceInv` (a source's watermark is an arrived event's time less the allowed disorder)
bound the engine's watermark by every steady source; `RunsInv` says that every run was
settled, its windows passed by the watermark, so what arrives afterwards lies behind
them. `AbsenceInv` keeps every concluded absence on record for the audit. `DedupInv`
is the point of `RepeatsOnlyBehindHorizon`: an applied contribution has its key in the index or its
whole window lies behind the horizon of the sweep. A resumed match has its anchor above that horizon, so only
a run at once can fall into such a window; and for `OncePerWindow`, under its hypotheses, no anchor still admitted does.

What the hypotheses exclude: `RealTimes` that an event carries `i64::MIN`, which the
store reads as "no watermark"; the live ones are settings in which a late
anchor cannot re-open a pruned dedup window or a settled verdict. `stream_live` is
checked within them; `stream_reopen` is a counterexample to `OncePerWindow` without its own. Only
`FinishFlushes` keeps away from the end of time; the other theorems hold where window bounds saturate.

### Graph (`AdglGraphProofs`, `AdglConfidenceProofs`)

| theorem | states | beyond `GraphConstants` |
|---|---|---|
| `GraphInvariant` | `[]GraphInv` (types, and every pending call one the image gives rise to) | |
| `CooldownHolds` | `CooldownRespected` | |
| `VerdictsAreReported` | `ConfirmedCausesReported` | |
| `RollupTakesMax` | `RollupIsMax`, a part of `ConfidencesCurrent` | |
| `ConfidencesStayCurrent` | `ConfidencesCurrent` | `DecisionsDoNotInfer` |
| `AmbiguitiesLive` | `AmbiguityLife` | `DecisionsDoNotInfer` |

Between batches a property speaks of the graph; within one, of the graph and of what is
still to be done. Each invariant therefore has the form "it holds, or a pending call will
make it hold": `VerdictInv` (reported, refused, or a call of the rule or its emission is on the
stack), `RollupInv` (the maximum, or a roll-up of that cause is pending), `ActiveInv`
(undecided, or its synthesis is pending). With the stack empty the second half is gone.
`CooldownInv` relates three records: the problems, the cooldown map and the watermark; an
entry is pruned only when the cooldown has passed for every problem that it stands for.
`FreshInv` orders the stack: what reacts to a confidence runs before the roll-up it
causes and both before the next intent, so no infer can come between a confidence captured and
its use. That is false when a decision may infer, and `DecisionsDoNotInfer` says
that none does: the parser gives a decision no such statement
(`airpulse_dsl-syntax/src/parser.rs:1630`) and phase 10 refuses one (ADGL0450). `ToldInv`
counts: a target has no more synthesized problems than ambiguities ever opened.

### Session engine (`SessionFsmProofs`)

`EngineInvariant` is `[]EngineInv`: `AccessInv` (a session's access time is twice the
number of its flow's last feed), `TimerTable`, `BatchInv` (every timer armed and due
is in the running batch) and `FlowStateTracked`. From it: `MapsStayTogether`
(`FlowStateTracked`), `EvictsLeastRecent` (`EvictionIsLru`), `ExpiresByActivity`
(`ExpiryMatchesActivity`), `BatchesAreComplete` (`AllDueFired`), `BatchesDisturbNoFlow`
(`TimersDisturbNoFlow`), all for any number of machines, flows and places. `TypeCorrect`
assumes `DeclaredTargets`. `EngineFollowsMachine` is the refinement of `FlowMachine`,
in both of which the sets of a transition run in order, each seeing the ones before it:
initial states map to initial states and every step of the engine is a step of the machine or a
stutter. It assumes `SoleMachine`: one machine, which has a state and none named `IDLE`. Both
halves are needed: `fsm_radius` is a counterexample without the second, and with two
machines the order of a `HashMap` decides (see 6).

### Reassembly (`ReassemblerProofs`)

`OrderInvariant` is `[]OrderInv`: the buffer is a piece of the stream in its place, and the
queue is what is left of the accepted segments ahead of it, under numbers that wrap. From it
`TypeCorrect` and `InOrderDelivery` (`StreamInOrder`), for a stream shorter than the sequence
space. They hold across a wrap: what the wrap costs is segments dropped, not bytes out of order.
`NothingIsHeldBack` (`NothingHeldBack`) needs more, a stream that does not wrap and
`FixedCuts`, a sender that repeats its segments as it cut them: without either the code
does hold bytes back (see 6). The drain loop is a recursive function; `SetInduction` states
induction for sets ("the turns where this holds are all turns"), which the provers can use.

### Interpreter (`StreamResumeProofs`)

| theorem | states | beyond the module's assumptions |
|---|---|---|
| `VmInvariant`, `TypeCorrect` | `[]VmInv`, `[]TypeOK` of `BytecodeVm` | |
| `HintIsExact` | `HintExact` | |
| `PiecesParseAsWhole` | `ResumeEquivalent` | `ClosedStreams`, `[]SlicesFit` |

`VmInv` is the types with what they leave out: a stream's cursor never passes what has
arrived, arrived and coming bytes together fit the address space, and a run that still goes
on has not exceeded its iterations. A datagram's cursor does pass the end, by a slice that is
longer than the input, and stays there. `Lacking` computes what a short read lacks;
`HintIsExact` follows, since nothing but `Resume` changes a suspended machine.

The refinement maps a machine that waits for bytes still to come to the state before
the read. `HeldInv` says why that is sound: what waits is a read that neither panics
nor has an open length, and the cursor in the snapshot is the aligned one of the cursor before,
so the read starts from the same byte each time (`SameCursor`). Each action then has a lemma
that what it computes from the bytes so far it computes from the whole flow; waiting,
resuming and running out of a budget that only retries have used up are stutters.

The hypotheses exclude what the code does otherwise. `ClosedStreams`: a stream's program has no
`bytes[EOF]` and no slice of open length, which take what has arrived. `SlicesFit`: in
a build without overflow checks the end of a slice does not wrap; one that does is
read short and moves the cursor back (see 6). With overflow checks it holds of itself,
the read panics. `vm_stream` is within both.

### ADGL front end (`AdglFrontProofs`)

| theorem | states, where the text keeps its meaning | beyond the module's assumptions |
|---|---|---|
| `SlackFits` | `WindowsSurviveSlack` | |
| `NothingDropped` | `LoweringComplete` | |
| `PrivacyKept` | `PrivateFieldsMasked` | |
| `CascadesEnd` | `CascadesTerminate` | |
| `OracleAnswers` | `OracleExact` | `BindsOnce` |

The form is `Spec => [](TextKeepsMeaning => P)`. What is proved is about the verifier, the lowering and the
oracle; that the ruleset they are given is the one the author means is the business of
parser and formatter, recursive operators, of which `TextKeepsMeaning` is model-checked in the same run.
`FrontInv` is short: the engine only holds the image that the verifier made, without an error,
of the text read last. The rest are facts about the operators. `WalkReaches` says of a loop over a set
what an invariant of its body gives, `ConcatCorresponds` of the pieces a loop appends which
element each comes from; both need induction, over sets that `SetInduction` states.

*Lowering.* `RuleLowered` and `StmtLowered` list what each part of a ruleset without errors becomes. An
accepted ruleset reported nothing in any phase (`PhasesPassed`) and nothing in lowering
(`NothingReported`); the silent drops (a target or an evidence name that does not resolve, an
argument of a correlate that is no path) are those that an earlier phase reports, and `TargetBound`,
`TopoBound`, `EvidenceBound` say which. `LongestWindow` relates the slack that phase 6 computes
from the text to the maxima stored in the image.

*Cascades.* `NoCycle`: a search that meets no cycle leaves every rule with a rank above those it
feeds, the order in which the search finished them. The invariant (`Ranked`) is that rules done have
only rules done below them; the rules on the path are the delicate part, for a descent must not
finish one of them (`NodeDescends`). `TriggersAreEdges` then says that lowering adds no edge to the graph
of phase 8: a rule triggers only what its text, branches included, infers or emits.

*Oracle.* `UpstreamRight` is the bounded search against reachability, for every network. `Ups` is the
least closed set above a scope, and `AboveIsUps` that walks no longer than the number of scopes
reach all of it (a longer one meets a scope twice). `Sound` is the invariant of the search: a target found
is upstream, a cycle met is above the start, hops ran out only where a way up is longer than the bound, and
where neither happened what was explored is closed, none of it is on a cycle, and the target was noticed in it. The path
of a visit is one of the ways up of `Ways`, which makes the overrun exact; the last
part makes an answer without an overrun exact although the visited set prunes. `OracleInv`
says that a reply is `eval_topo`'s to a candidate of an accepted image, and `ArgMeant` that each argument
stands for the scope that the source names. That needs `BindsOnce`, a rule that binds each name
once: the verifier does not refuse a name bound twice, and then its environment holds the last
binding of the name (`RuleEnv::for_rule`, `lib.rs:207`) while the engine asks the first
(`binding_index_of`, `engine.rs:1540`). The rulesets of `adgl_front` bind each name once where
the oracle is asked.

### Assumptions

`TimeAssumption` (a range of times), `LimitAssumption` (limits are naturals),
`RuleAssumption` (the image's shape), `MaximaExist` (an image has finitely many
correlates, so `max` exists), `VerifiedWindows` (what `WindowsSurviveSlack` checks of the
verifier), `GraphConstants`, `EngineConstants`, `MachineShape`, `StreamConstants`, `WidthAssumption`,
`LimitsAssumption`, `SlotsAssumption`, `JobAssumption` (programs as the compiler makes
them; a flow is shorter than the address space): TLC evaluates all of them in the runs of
their modules. The hypotheses in the tables are of single theorems.

Those of `AdglFront` say what its parameters are like and are evaluated in `adgl_front`, over the
parser's, predicates' and catalog's own definitions. `RulesetAssumption`: lists are lists, an evidence rule has an event for its
anchor, and a match clause at most one count, as the parser builds them. `OffsetAssumption`: a bound of a window is at
most one integer (`as_anchor_offset` returns an `Option<i64>`). `TypingAssumption`: the type check reports a name that is not bound and a path
that is not in the catalog (`infer_expr_type`, `lib.rs:1779`). `CatalogAssumption`: a kind's fields are a list.
`NetworkAssumption`: the builder of `StaticTopology` enters both ends of a relation among the known
scopes and keeps `max_hops` at least 1 (`topology.rs:152`), and a node carries the source of its store.

### Only model-checked

* `EverythingSettles` and `Returns`: liveness is out of the prover's reach.
* `CompiledMeansSource`: the compiler and its reference are recursive operators.
* `TextKeepsMeaning`, `OneErrorPerFault`, `RecoveryLosesOnlyFaults`, `FormatRoundTrips`: what a
  parser or printer makes of every text is induction over texts, and both are recursive operators.
* `RuleMeansSource`: that a compiled predicate computes its expression is induction over expressions.

## 5. Findings (violation runs)

* `fsm_radius`: a machine whose first state is `IDLE` starts in its second one.
* `vm_gtpu`: `ext.next_ext_type` in gtpu.nfdl resolves to the outer message's field.
* `nfdl_format`: the formatter ranks `==` and `!=` above the bit operators, the parser below;
  parentheses are dropped that the parser needs.
* `stream_reopen`: offline, pruning the dedup index lets a late anchor's window re-open
  (`subgraph.rs:271`), while the comments at `subgraph.rs:254` and `:256` say that it cannot.

## 6. Observations without a run

Met while reading and modelling; each is a divergence or a limit. Where a property's reference follows a document
that the code departs from, the entry names the operator that sets the departure apart.

* ADGL pipeline: a comment at `waitqueue.rs:113` says that `wm == upper` cannot arise for a suspended
  match; a watermark that stops exactly there leaves one waiting. `finish` saturates
  (`engine.rs:474`), so near `i64::MAX` a match may stay. Problem-anchored decisions do not
  wait for a forward window (`engine.rs:1371`). `partition_mut` keeps its map locked
  (`store.rs:98`); the callers never nest it.
* ADGL graph: clamping each contribution makes the order of infers matter
  (`confidence.rs:51`), while docs/idea/spec/12-testing.md:46 expects order
  independence. An active ambiguity may have a cause that is no longer probable
  (`subgraph.rs:83`, `engine.rs:1275`). An infer made directly in a parent partition is
  overwritten by the next roll-up (`engine.rs:1038`, `1070`).
* ADGL oracle, where a way up is longer than `max_hops` (`CutOff` in `OracleExact`): the visited set makes the hop
  bound depend on the order of scope ids. A node first met the long way round is not descended into again, so a scope within
  `max_hops` can be answered `False` with `HopBoundExceeded` (network `LongWay`), where
  docs/idea/spec/10-catalog-abi.md:115 says breadth first. The target is noticed one hop
  past the bound, and answered `True`. An overrun with the target found is `True` without a diagnostic and a
  cycle past the bound goes unnoticed, although the comment at `topology.rs:123-126` says a cycle
  anywhere in the region is detected and an overrun resolves to `False`. Elsewhere the answer is the documented one.
* ADGL verifier: every binary expression has type Int (`lib.rs:1848`), so
  `(a.count < 2) + 1` is accepted and fails at run time with a type mismatch that
  `error.rs:19` says verification excludes. Correlates may share a name, and a topology argument may name
  a later one, which makes the correlate unknown for ever. An anchor's predicate may mention a
  correlate and then always fails. A bare `scope` compiles but is refused by the type check.
  The scope check falls back to the rule's scope when a target has none. A rule with a branch
  and a body never runs the body.
* ADGL predicates: both operands of `and` and `or` are evaluated, where docs/idea/spec/03-semantics.md:195-199 makes short
  circuit mandatory and the comment at `predicate.rs:10-15` says that the result is the same. It is not in two cases
  (`Overrules`): a spared operand's error fails the whole (`absent(b) and 4 / b.count` with a count of 0, where the
  document says False), and a False behind an Unknown gives False where the document leaves it Unknown.
  An Unknown condition requests topology only if it mentions `present` or `absent` (`AsksNothing`), which
  docs/idea/spec/06-ir-bytecode.md:123 says too, while 03:192 says always; `time` and `target` of
  an event are read by catalog index; a problem's severity is always unknown; `<` on strings
  compares interned keys.
* ADGL text: the formatter nests `!!a` as `!(!(a))`, which can exceed the nesting limit; the
  probe of a time window is printed at the lowest precedence but read by
  `parse_additive`; comments float to the head of the file; a misspelled member keyword
  ends recovery (against `parser.rs:141`), a missing closing brace hides later errors.
* N-FDL text: a file whose last `}` is missing has no protocol for the formatter, which
  prints its comments only, and `ndsl-cli fmt --write` then erases the rest; a
  transition without actions is printed in a form that is read as something else; a
  `??` on the right of another loses its parentheses (part of `nfdl_format`); backslashes double at each
  format; the argument of `by_plugin` is lost; `let x = ;`, a conditional field without `;` and an
  error in a machine are forgiven together with what follows; `guard (a) && (b)` ends at the
  first parenthesis; a missing `}` of a message swallows the next one; parsing a file of several protocols
  as one merges them; the branch for a field's own `validate` is never taken.
* Sessions: with two machines the order of a `HashMap` decides (`efsm.rs:144`,
  docs/spec/09:187).
* Reassembly: after the wrap an old duplicate counts as ahead and is delivered one turn later
  (`reassembly.rs:64`, docs/spec/08:259); an out-of-order segment beyond the wrap is dropped as old
  (`reassembly.rs:56`, docs/spec/08:103); the comment says the last
  duplicate wins, the code keeps the longer (`reassembly.rs:58`); draining is not
  counted against `max_buffer` (`reassembly.rs:49`); overlapping segments wait for
  an exact match.
* Compiler: a ternary or `??` whose branches are bare identifiers does not reserve
  its result slot, so `(a ?? b) + 1` may overwrite an operand; `carry x = ident`
  aliases the field's slot; a conditional field in a loop keeps the previous
  iteration's value; `next`s are sequential; a `match` without a matching arm falls
  through where docs/spec/03:100 says `ConstraintError(NoMatch)`; two arms with the same field share one entry in
  the field map, the last arm's; jump targets are truncated to `u16`. The protocols of
  `vm_stream` avoid these shapes.
* Readings that docs/spec/03-semantics.md gives up and the bytecode goes on with (`GivenUp` in `CompiledMeansSource`).
  A datagram read past the end is zero-filled (`nfdl-bytecode/src/lib.rs:382` calls it historical behaviour), the document
  says `ConstraintError(OOB)` (03:58-61). Compiled loops jump back unconditionally and have no check of progress: a pass
  that reads nothing and changes no carry repeats until `max_instructions`, the document says `NonProgressLoop` (03:116-117,
  132-135). `max_loop_iterations` counts conditional backward jumps only, of which the compiler makes none, so a loop may make
  more passes than it says (03:122, docs/spec/05-verification.md:171).
* Interpreter: a suspended read counts as an instruction on each retry, so a flow
  in very small pieces meets `max_instructions` earlier (the stated exception of
  `ResumeEquivalent`); `bytes[EOF]` and open slices take what has arrived; in an unchecked
  build a length near the word size wraps the cursor.

## 7. Not modelled

* The runner's layered `bind` dispatch (`runner.rs`) and the `feed` of the session engine
  at the end of a parse: a composition of modules that are here, planned.
* The N-FDL verifier (wiring and bounds checks over the syntax tree), the linter and the
  include resolver: checks without state of their own; the first and the last are candidates.
* Characters, white space and comments of both languages; the spelling of literals.
* Most rows of the catalog's tables of events, causes and problems: data.
* Plugins (a foreign-function boundary), sinks, SARIF and evidence text (output), fuzz
  harnesses, tree-sitter grammars, editors, the rest of the command lines (I/O).

## 8. Plan

Done, in this order of importance: pipeline, graph, sessions, reassembly,
interpreter and compiler, both front ends, predicates, verifier, oracle; proofs about all of
these but the compilers, the parsers and the formatters. Next:

1. the runner's layered `bind` dispatch over the compiler, with the feed of the session engine;
2. the include resolver (cycles, depth), then N-FDL's wiring and bounds checks;
3. proofs: the N-FDL front end's state machine with its parser and formatter as parameters, as in
   `AdglFront`.
