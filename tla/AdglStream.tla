------------------------------ MODULE AdglStream ------------------------------
(***************************************************************************)
(* The event-time pipeline of the ADGL engine: what Engine::ingest,        *)
(* advance_watermark, advance_wall_clock and finish do to the GraphStore   *)
(* (rings, wait queues, watermark, dedup index), for an image of evidence  *)
(* rules.                                                                  *)
(*                                                                         *)
(* Source: crates/airpulse_dsl-evaluator/src/engine.rs and                 *)
(* crates/airpulse_dsl-store/src/{store,ring,waitqueue,subgraph}.rs.       *)
(*                                                                         *)
(* Abstractions.                                                           *)
(*  - A ring is the set of its events.  The code keeps it sorted by time   *)
(*    with arrival order breaking ties; an event's id is its arrival       *)
(*    number, so the order is recovered by Before.  A wait queue is the    *)
(*    set of its matches, ordered by Urgent.                               *)
(*  - An event's payload is one member of Data: the anchor predicate of a  *)
(*    rule is the set of payloads it accepts, the topology oracle a        *)
(*    three-valued table over pairs of payloads.                           *)
(*  - An inferring rule contributes to one cause on its own scope; what a  *)
(*    contribution does to the graph is AdglGraph.tla.                     *)
(***************************************************************************)
EXTENDS Integers, FiniteSets, Sequences

CONSTANTS
    Scopes,            \* scope instances (the store's partitions)
    EventTypes,        \* catalog event types
    Data,              \* event payloads, as far as predicates tell them apart
    Topo,              \* [Data -> [Data -> {"T","F","U"}]]: the topology oracle
    Rules,             \* the image's evidence rules in declaration order
    Mode,              \* RunMode: "Offline" or "Live"
    MinTime, MaxTime,  \* i64::MIN and i64::MAX
    RingCap,           \* max_ringbuffer_events_per_scope
    PendingCap,        \* max_pending_per_scope
    MaxFirings,        \* max_rule_firings_per_event
    MaxLookback, DedupWindow, MaxDisorder, AllowedLateness, IdleTimeout,
    \* The environment, and the bounds of a finite instance:
    EventTimes,        \* times a captured event may carry
    PunctTimes,        \* arguments of the driver's advance_watermark calls
    WallTimes,         \* arguments of the driver's advance_wall_clock calls
    MaxEvents,         \* number of events in a capture
    SourceDisorder,    \* how far a source's events may run behind its newest
    IngestAfterFinish  \* whether the driver still ingests after finish

Times   == MinTime..MaxTime
NoTime  == MinTime - 1          \* last_event_time = None
RuleIds == DOMAIN Rules

\* The forward reaches a rule's wait depends on (RuntimeCheck windows count 0).
Forwards(r) == {0} \cup {Rules[r].corr[k].fwd :
                           k \in {j \in DOMAIN Rules[r].corr : Rules[r].corr[j].calc}}

MaxForwards == [r \in RuleIds |-> CHOOSE m \in Forwards(r) : \A f \in Forwards(r) : f <= m]

\* RuleInstance::max_forward
MaxForward(r) == MaxForwards[r]

AllForwards == {0} \cup {MaxForward(r) : r \in RuleIds}

\* Engine::image_max_forward
ImageMaxForward == CHOOSE m \in AllForwards : \A f \in AllForwards : f <= m

CorrelateType == [type : EventTypes, back : Nat, fwd : Nat, min : Nat, calc : BOOLEAN]

RuleType == [anchor : EventTypes, scopes : SUBSET Scopes, accepts : SUBSET Data,
             cond : {"body", "present", "absent"}, elseInfers : BOOLEAN,
             corr : Seq(CorrelateType)]

ASSUME TimeAssumption ==
    /\ MinTime \in Int /\ MaxTime \in Int /\ MinTime < MaxTime
    /\ EventTimes \subseteq Times /\ PunctTimes \subseteq Times /\ WallTimes \subseteq Times

ASSUME LimitAssumption ==
    /\ Mode \in {"Offline", "Live"}
    /\ RingCap \in Nat /\ PendingCap \in Nat /\ MaxFirings \in Nat
    /\ MaxLookback \in Nat /\ DedupWindow \in Nat /\ MaxDisorder \in Nat
    /\ AllowedLateness \in Nat /\ IdleTimeout \in Nat
    /\ MaxEvents \in Nat /\ SourceDisorder \in Nat /\ IngestAfterFinish \in BOOLEAN

ASSUME RuleAssumption ==
    /\ Rules \in Seq(RuleType)
    /\ Topo \in [Data -> [Data -> {"T", "F", "U"}]]

\* Every image has finitely many correlates, so the maxima exist.
ASSUME MaximaExist ==
    /\ \A r \in RuleIds : \E m \in Forwards(r) : \A f \in Forwards(r) : f <= m
    /\ \E m \in AllForwards : \A f \in AllForwards : f <= m

\* What phase06_temporal of the verifier admits (slack = the ruleset's largest
\* forward window).
FitsLookback(c) == c.calc => /\ c.back <= MaxLookback - ImageMaxForward
                             /\ c.fwd  <= MaxLookback - ImageMaxForward

\* Every window of a loaded image fits the GC horizon.
ASSUME VerifiedWindows ==
    \A r \in RuleIds : \A k \in DOMAIN Rules[r].corr : FitsLookback(Rules[r].corr[k])

VARIABLES
    wm,          \* GraphStore::watermark
    ring,        \* the events of every scope's ring buffer
    pending,     \* the suspended matches of every scope's wait queue
    prov,        \* SubGraph::seen_provenance of every partition
    lastTime,    \* Engine::last_event_time
    finished,    \* Engine::finished
    lateOut,     \* Engine::late_side_output
    absentLog,   \* Engine::resolved_absent
    sources,     \* Engine::sources
    wall,        \* Engine::wall_clock
    \* History: what has happened so far, as far as the properties ask.
    accepted,    \* events pushed into a ring
    spilledEv,   \* events dropped by a full ring (ADGL3005)
    spilledPm,   \* matches dropped by a full wait queue (ADGL3004)
    missing,     \* matches whose anchor was gone at resume (MissingAnchor)
    outcomes,    \* rule runs, with the bindings they saw
    applied,     \* infers that passed the dedup check
    unfunded,    \* matches refused by the firing budget (ADGL3103)
    audited,     \* ids of events audited as late evidence (ADGL3002)
    steady       \* scopes whose source has kept the watermark back so far

storeVars  == <<wm, ring, pending, prov>>
engineVars == <<lastTime, finished, lateOut, absentLog, sources, wall>>
history    == <<accepted, spilledEv, spilledPm, missing, outcomes, applied, unfunded,
                audited, steady>>
vars       == <<storeVars, engineVars, history>>

-----------------------------------------------------------------------------
(* EventTime arithmetic: saturating i64. *)

Add_Unsaturated(t, d) == t + d                     \* slip: plain addition
Add(t, d) == IF t + d > MaxTime THEN MaxTime ELSE t + d
Sub(t, d) == IF t - d < MinTime THEN MinTime ELSE t - d
Later(a, b) == IF a < b THEN b ELSE a

\* window_id: div_euclid by max(1, dedup_window)
WindowId(t) == t \div Later(1, DedupWindow)

\* Ring order: time, then arrival.
Before(a, b) == a.time < b.time \/ (a.time = b.time /\ a.id < b.id)

\* PendingMatch order among the matches of one scope.
Urgent(p, q) == \/ p.upper < q.upper
                \/ p.upper = q.upper /\ p.rule < q.rule
                \/ p.upper = q.upper /\ p.rule = q.rule /\ p.anchor < q.anchor

-----------------------------------------------------------------------------
(* RingBuffer and GraphStore::push_event, gc. *)

InScope(S, s) == {x \in S : x.scope = s}

\* RingBuffer::push pops the front of a full ring (capacity clamped to 1).
RingVictims(e) ==
    IF Cardinality(InScope(ring, e.scope)) < Later(1, RingCap) THEN {}
    ELSE {x \in InScope(ring, e.scope) :
             \A y \in InScope(ring, e.scope) : y = x \/ Before(x, y)}

PushEvent(e) == (ring \ RingVictims(e)) \cup {e}

GcRing_Strict(R, w)     == {x \in R : x.time > Sub(w, MaxLookback)}   \* slip: also the horizon
GcRing_NoSlack(R, w)    == {x \in R : x.time >= Sub(w, MaxLookback - ImageMaxForward)}
GcRing_NoLookback(R, w) == {x \in R : x.time >= w}
GcRing(R, w) == {x \in R : x.time >= Sub(w, MaxLookback)}

GcProv_Strict(P, w) == {k \in P : k.win > WindowId(Sub(w, MaxLookback))}

\* SubGraph::prune_provenance
GcProv(P, w) == {k \in P : k.win >= WindowId(Sub(w, MaxLookback))}

(* WaitQueue::push and pop_expired. *)

QueueVictims_Urgent(Q) ==                           \* slip: drops the most urgent
    {p \in Q : Cardinality({q \in Q : Urgent(p, q)}) >= Later(1, PendingCap)}

\* Pushing a batch into a bounded queue that always drops its largest entry
\* leaves the PendingCap most urgent matches.
QueueVictims(Q) == {p \in Q : Cardinality({q \in Q : Urgent(q, p)}) >= Later(1, PendingCap)}

Expired(w) == {p \in pending : p.upper < w}

-----------------------------------------------------------------------------
(* Correlation: Engine::resolve_bindings over the events R. *)

Candidates(c, a, R) ==
    {x \in R : /\ x.scope = a.scope /\ x.type = c.type /\ x.id # a.id
               /\ Sub(a.time, c.back) <= x.time /\ x.time <= Add(a.time, c.fwd)}

Hits(c, a, R)   == {x \in Candidates(c, a, R) : Topo[a.data][x.data] = "T"}
Unsure(c, a, R) == {x \in Candidates(c, a, R) : Topo[a.data][x.data] = "U"}

Bound(x) == [kind |-> "bound", event |-> x.id]
Absent   == [kind |-> "absent", event |-> 0]
Unknown  == [kind |-> "unknown", event |-> 0]

EarliestOf(S) == CHOOSE x \in S : \A y \in S : y = x \/ Before(x, y)

\* At least min_match true candidates bind the earliest of them.
Binding(c, a, R) ==
    IF ~c.calc THEN Absent
    ELSE IF Cardinality(Hits(c, a, R)) >= c.min
         THEN IF Hits(c, a, R) = {} THEN Unknown ELSE Bound(EarliestOf(Hits(c, a, R)))
         ELSE IF Unsure(c, a, R) # {} THEN Unknown ELSE Absent

Bindings(r, a, R) == [k \in DOMAIN Rules[r].corr |-> Binding(Rules[r].corr[k], a, R)]

\* Engine::run_rule: which body runs, and whether it infers.  The branch
\* condition is present(c1) or absent(c1); unknown_body requests topology.
Infers(r, b) ==
    \/ Rules[r].cond = "body"
    \/ /\ Rules[r].cond = "present" /\ DOMAIN b # {}
       /\ \/ b[1].kind = "bound"
          \/ b[1].kind = "absent" /\ Rules[r].elseInfers
    \/ /\ Rules[r].cond = "absent" /\ DOMAIN b # {}
       /\ \/ b[1].kind = "absent"
          \/ b[1].kind = "bound" /\ Rules[r].elseInfers

Run(r, a, R, how) ==
    [rule |-> r, anchor |-> a.id, scope |-> a.scope, time |-> a.time,
     how |-> how, bindings |-> Bindings(r, a, R)]

\* Engine::record_resolved_absent, for the runs O
AbsentWindows(O) ==
    UNION {{[scope |-> o.scope, rule |-> o.rule, type |-> c.type,
             lo |-> Sub(o.time, c.back), hi |-> Add(o.time, c.fwd)] :
               c \in {Rules[o.rule].corr[k] :
                        k \in {j \in DOMAIN o.bindings :
                                 o.bindings[j].kind = "absent" /\ Rules[o.rule].corr[j].calc}}} :
             o \in O}

\* The provenance dedup key of a run's infer (mix_target of the same target).
Key(o) == [rule |-> o.rule, scope |-> o.scope, win |-> WindowId(o.time)]

\* Resume order between two runs of the same rule in the same scope.
RunsFirst(o, q) ==
    LET Upper(x) == Add(x.time, MaxForward(x.rule))
    IN Upper(o) < Upper(q) \/ (Upper(o) = Upper(q) /\ o.anchor < q.anchor)

Inferring(O) == {o \in O : Infers(o.rule, o.bindings)}

\* exec_infer's dedup: of the runs O, those whose key is new against the index P.
Applying(O, P) ==
    {o \in Inferring(O) : /\ Key(o) \notin P
                          /\ \A q \in Inferring(O) : Key(q) = Key(o) => q = o \/ RunsFirst(o, q)}

Keys(O) == {Key(o) : o \in Inferring(O)}

-----------------------------------------------------------------------------
(* Engine::resume_expired over the ring R. *)

IsAnchor(x, p) == x.id = p.anchor /\ x.scope = p.scope

AnchorOf(p, R) == CHOOSE x \in R : IsAnchor(x, p)      \* RingBuffer::get

Resumable(w, R) == {p \in Expired(w) : \E x \in R : IsAnchor(x, p)}

\* Every resumed match gets a firing budget of its own.
ResumeRuns(w, R) ==
    IF MaxFirings = 0 THEN {}
    ELSE {Run(p.rule, AnchorOf(p, R), R, "resumed") : p \in Resumable(w, R)}

RefusedResumes(w, R) ==
    IF MaxFirings = 0 THEN {[rule |-> p.rule, anchor |-> p.anchor] : p \in Resumable(w, R)}
    ELSE {}

Orphans_Silent(w, R) == {}                          \* slip: no diagnostic
Orphans(w, R) == Expired(w) \ Resumable(w, R)

(* Engine::match_anchors for the event e at watermark w. *)

Matched(e) == {r \in RuleIds : /\ Rules[r].anchor = e.type
                               /\ e.scope \in Rules[r].scopes
                               /\ e.data \in Rules[r].accepts}

Immediate(e, w) == {r \in Matched(e) : Add(e.time, MaxForward(r)) <= w}

\* One firing budget per ingested event, spent in declaration order.
Funded(e, w) ==
    {r \in Immediate(e, w) : Cardinality({q \in Immediate(e, w) : q < r}) < MaxFirings}

ImmediateRuns(e, w, R) == {Run(r, e, R, "immediate") : r \in Funded(e, w)}

Suspended_AtBoundary(e, w) ==                       \* slip: upper >= wm also waits
    {[rule |-> r, anchor |-> e.id, upper |-> Add(e.time, MaxForward(r)), scope |-> e.scope] :
        r \in {q \in Matched(e) : Add(e.time, MaxForward(q)) >= w}}

Suspended(e, w) ==
    {[rule |-> r, anchor |-> e.id, upper |-> Add(e.time, MaxForward(r)), scope |-> e.scope] :
        r \in Matched(e) \ Immediate(e, w)}

(* Engine::advance_live_watermark *)

Wall(t) == Later(wall, t)

SourcesAfter(e) ==
    [sources EXCEPT ![e.scope] =
        [seen  |-> TRUE,
         local |-> IF @.seen THEN Later(@.local, Sub(e.time, MaxDisorder))
                             ELSE Sub(e.time, MaxDisorder),
         last  |-> Wall(e.time)]]

\* Sources that count for the minimum: heard from within the idle timeout.
Active(e) ==
    {s \in Scopes : /\ SourcesAfter(e)[s].seen
                    /\ Wall(e.time) - SourcesAfter(e)[s].last < IdleTimeout}

LiveTarget_Fastest(e) ==                            \* slip: max over the sources
    IF Active(e) = {} THEN wm
    ELSE LET locals == {SourcesAfter(e)[s].local : s \in Active(e)}
         IN CHOOSE m \in locals : \A l \in locals : m >= l

LiveTarget(e) ==
    IF Active(e) = {} THEN wm
    ELSE LET locals == {SourcesAfter(e)[s].local : s \in Active(e)}
         IN CHOOSE m \in locals : \A l \in locals : m <= l

\* GraphStore::advance_watermark is a fetch_max.
WatermarkAfter(e) == Later(wm, IF Mode = "Offline" THEN e.time ELSE LiveTarget(e))

-----------------------------------------------------------------------------
(* Engine::ingest *)

IsLate_Strict(e) == wm # MinTime /\ e.time < wm
IsLate(e) == wm # MinTime /\ e.time <= wm

TooLate_Strict(e) == Mode = "Live" /\ IsLate(e) /\ e.time < Sub(wm, AllowedLateness)
TooLate(e) == Mode = "Live" /\ IsLate(e) /\ e.time <= Sub(wm, AllowedLateness)

\* audit_offline_late_evidence
IsLateEvidence(e) ==
    /\ Mode = "Offline" /\ IsLate(e)
    /\ \E a \in absentLog : /\ a.scope = e.scope /\ a.type = e.type
                            /\ a.lo <= e.time /\ e.time <= a.hi

\* Live, beyond allowed_lateness: side output, nothing else moves.
DropLate(e) ==
    /\ TooLate(e)
    /\ lastTime' = Later(lastTime, e.time)
    /\ lateOut' = lateOut \cup {e}
    /\ UNCHANGED <<storeVars, finished, absentLog, sources, wall, history>>

\* Push, resume what the new watermark closes, collect, then match the anchors.
Accept(e) ==
    LET w    == WatermarkAfter(e)
        R    == PushEvent(e)
        O    == ResumeRuns(w, R)
        R2   == GcRing(R, w)
        P    == GcProv(prov \cup Keys(O), w)
        I    == ImmediateRuns(e, w, R2)
        Q    == (pending \ Expired(w)) \cup Suspended(e, w)
        QV   == QueueVictims(InScope(Q, e.scope))
    IN /\ ~TooLate(e)
       /\ wm' = w
       /\ ring' = R2
       /\ pending' = Q \ QV
       /\ prov' = P \cup Keys(I)
       /\ lastTime' = Later(lastTime, e.time)
       /\ absentLog' = absentLog \cup AbsentWindows(O \cup I)
       /\ sources' = IF Mode = "Live" THEN SourcesAfter(e) ELSE sources
       /\ wall' = IF Mode = "Live" THEN Wall(e.time) ELSE wall
       /\ accepted' = accepted \cup {e}
       /\ spilledEv' = spilledEv \cup RingVictims(e)
       /\ spilledPm' = spilledPm \cup QV
       /\ missing' = missing \cup Orphans(w, R)
       /\ outcomes' = outcomes \cup O \cup I
       /\ applied' = applied \cup Applying(O, prov) \cup Applying(I, P)
       /\ unfunded' = unfunded \cup RefusedResumes(w, R)
                      \cup {[rule |-> r, anchor |-> e.id] : r \in Immediate(e, w) \ Funded(e, w)}
       /\ audited' = IF IsLateEvidence(e) THEN audited \cup {e.id} ELSE audited
       /\ steady' = IF Mode = "Offline" THEN steady
                    ELSE {s \in Active(e) : \/ s \in steady
                                            \/ /\ s = e.scope /\ ~sources[s].seen
                                               /\ wm <= Sub(e.time, MaxDisorder)}
       /\ UNCHANGED <<finished, lateOut>>

Arrived == accepted \cup lateOut

NewEvent(s, ty, d, t) ==
    [id |-> Cardinality(Arrived) + 1, scope |-> s, type |-> ty, data |-> d, time |-> t]

\* A capture hands the engine one event after another.
Ingest ==
    /\ Cardinality(Arrived) < MaxEvents
    /\ finished => IngestAfterFinish
    /\ \E s \in Scopes, ty \in EventTypes, d \in Data, t \in EventTimes :
         /\ \A x \in InScope(Arrived, s) : t >= x.time - SourceDisorder
         /\ DropLate(NewEvent(s, ty, d, t)) \/ Accept(NewEvent(s, ty, d, t))

-----------------------------------------------------------------------------
(* Engine::advance_watermark, finish and advance_wall_clock *)

\* Resume and collect at a watermark raised from outside.
SweepTo(t) ==
    LET w == Later(wm, t)
        O == ResumeRuns(w, ring)
    IN /\ wm' = w
       /\ ring' = GcRing(ring, w)
       /\ pending' = pending \ Expired(w)
       /\ prov' = GcProv(prov \cup Keys(O), w)
       /\ absentLog' = absentLog \cup AbsentWindows(O)
       /\ missing' = missing \cup Orphans(w, ring)
       /\ outcomes' = outcomes \cup O
       /\ applied' = applied \cup Applying(O, prov)
       /\ unfunded' = unfunded \cup RefusedResumes(w, ring)
       /\ steady' = {}
       /\ UNCHANGED <<lastTime, lateOut, sources, wall, accepted, spilledEv, spilledPm,
                      audited>>

AdvanceWatermark == \E t \in PunctTimes : SweepTo(t) /\ UNCHANGED finished

FlushTime_NoTick == Add(lastTime, ImageMaxForward)  \* slip: the bound itself

\* The flush that closes every window the stream left open.
FlushTime == Add(Add(lastTime, ImageMaxForward), 1)

Finish ==
    /\ ~finished
    /\ finished' = TRUE
    /\ IF lastTime = NoTime
       THEN UNCHANGED <<storeVars, lastTime, lateOut, absentLog, sources, wall, history>>
       ELSE SweepTo(FlushTime)

\* A second finish returns at once.
FinishAgain == finished /\ UNCHANGED vars

AdvanceWallClock ==
    /\ Mode = "Live"
    /\ \E t \in WallTimes : wall' = Later(wall, t)
    /\ UNCHANGED <<storeVars, lastTime, finished, lateOut, absentLog, sources, history>>

-----------------------------------------------------------------------------
Init ==
    /\ wm = MinTime /\ ring = {} /\ pending = {} /\ prov = {}
    /\ lastTime = NoTime /\ finished = FALSE /\ lateOut = {} /\ absentLog = {}
    /\ sources = [s \in Scopes |-> [seen |-> FALSE, local |-> MinTime, last |-> MinTime]]
    /\ wall = MinTime
    /\ accepted = {} /\ spilledEv = {} /\ spilledPm = {} /\ missing = {}
    /\ outcomes = {} /\ applied = {} /\ unfunded = {} /\ audited = {} /\ steady = {}

Next == Ingest \/ AdvanceWatermark \/ Finish \/ FinishAgain \/ AdvanceWallClock

Spec == Init /\ [][Next]_vars

\* A driver always closes its stream.
FairSpec == Spec /\ WF_vars(Finish)

-----------------------------------------------------------------------------
(* Properties *)

EventType == [id : 1..MaxEvents, scope : Scopes, type : EventTypes, data : Data, time : Times]
MatchType == [rule : RuleIds, anchor : 1..MaxEvents, upper : Times, scope : Scopes]

\* Every variable keeps to the values the engine's types allow.
TypeOK ==
    /\ wm \in Times /\ wall \in Times /\ lastTime \in Times \cup {NoTime}
    /\ ring \subseteq EventType /\ accepted \subseteq EventType
    /\ spilledEv \subseteq EventType /\ lateOut \subseteq EventType
    /\ pending \subseteq MatchType /\ spilledPm \subseteq MatchType /\ missing \subseteq MatchType
    /\ finished \in BOOLEAN
    /\ sources \in [Scopes -> [seen : BOOLEAN, local : Times, last : Times]]
    /\ steady \subseteq Scopes

\* x lies in the window of one of rule r's correlates around time t.
InWindow(x, r, t) ==
    \E k \in DOMAIN Rules[r].corr :
        LET c == Rules[r].corr[k]
        IN c.calc /\ Sub(t, c.back) <= x.time /\ x.time <= Add(t, c.fwd)

\* The GC horizon never overtakes a suspended match (RingBuffer::gc, "no unexpired
\* PendingMatch references an evicted event"): as long as a match waits, its anchor
\* and every accepted event of its windows are in the ring, unless a full ring
\* spilled them.
WaitingEvidenceRetained ==
    \A p \in pending : \A a \in accepted : IsAnchor(a, p) =>
        \A x \in accepted :
            (x.scope = p.scope /\ (x = a \/ InWindow(x, p.rule, a.time)))
                => x \in ring \cup spilledEv

\* A resume sees the complete window (resume_expired): its bindings are those the
\* whole accepted history gives, garbage collection notwithstanding.
ResumedVerdictsExact ==
    [][\A o \in outcomes' \ outcomes : o.how = "resumed" =>
          \E a \in accepted' : /\ a.id = o.anchor
                               /\ o.bindings = Bindings(o.rule, a, accepted' \ spilledEv')]_vars

\* An anchor is only found missing at resume when the ring spilled it.
MissingAnchorsWereSpilled ==
    \A p \in missing : \E a \in spilledEv : IsAnchor(a, p)

\* The (rule, anchor) pairs of a set of matches or runs.
Pairs(S) == {<<p.rule, p.anchor>> : p \in S}

\* No match is lost or run twice (ingest, resume_expired, WaitQueue::push): every
\* rule an accepted event anchors is waiting, has run, or is diagnosed as spilled,
\* orphaned or over budget, and is exactly one of these.
EveryMatchAccountedFor ==
    LET fates == <<Pairs(pending), Pairs(outcomes), Pairs(spilledPm), Pairs(missing),
                   Pairs(unfunded)>>
    IN \A e \in accepted : \A r \in Matched(e) :
          Cardinality({f \in DOMAIN fates : <<r, e.id>> \in fates[f]}) = 1

\* A rule runs at most once per anchor, and only for an event it matches.
OneRunPerMatch ==
    \A o \in outcomes :
        /\ \E e \in accepted : e.id = o.anchor /\ o.rule \in Matched(e)
        /\ \A q \in outcomes : q.rule = o.rule /\ q.anchor = o.anchor => q = o

\* A full wait queue drops its least urgent match (WaitQueue::push): whatever
\* still waits in that scope is due no later than what was dropped.
SpillDropsLeastUrgent ==
    [][\A p \in spilledPm' \ spilledPm : \A q \in pending' :
          q.scope = p.scope => Urgent(q, p)]_vars

\* Offline, no event contradicts an absence verdict unnoticed (08 section 4,
\* ADGL3002): an event accepted after a correlate of its type resolved absent over
\* a window that contains it is audited.
LateEvidenceAudited ==
    [][Mode = "Offline" =>
         \A e \in accepted' \ accepted : \A o \in outcomes :
            (/\ o.scope = e.scope
             /\ \E k \in DOMAIN o.bindings :
                   LET c == Rules[o.rule].corr[k]
                   IN /\ c.calc /\ o.bindings[k].kind = "absent" /\ c.type = e.type
                      /\ Sub(o.time, c.back) <= e.time /\ e.time <= Add(o.time, c.fwd))
            => e.id \in audited']_vars

\* One (rule, cause, target) applies at most once per dedup window (03 section 3.3,
\* SubGraph::try_insert_provenance), "even for late events" (prune_provenance).
OncePerWindow ==
    \A a, b \in applied : Key(a) = Key(b) => a = b

\* What pruning the dedup index really costs (prune_provenance): a contribution is
\* applied again only by a run at once of a late anchor, never by a resumed match, and
\* only when its whole dedup window lies behind the horizon of the sweep.
RepeatsOnlyBehindHorizon ==
    [][\A o \in applied' \ applied : \A q \in applied' \ {o} :
          Key(q) = Key(o) =>
              /\ Key(o).win < WindowId(Sub(wm', MaxLookback))
              /\ \E p \in {o, q} \ applied : p.how = "immediate"]_vars

\* A live verdict is final when no lateness is allowed: nothing accepted later
\* could have changed the bindings of any run.
VerdictsFinal ==
    spilledEv = {} =>
        \A o \in outcomes : \E a \in accepted :
            a.id = o.anchor /\ o.bindings = Bindings(o.rule, a, accepted)

\* The watermark never overtakes a source that keeps sending (advance_live_watermark).
SteadySourcesHoldWatermark ==
    \A s \in steady : sources[s].seen /\ wm <= sources[s].local

\* A source that keeps sending within max_disorder never loses an event to the
\* late-event side output (ADGL3003).
OnTimeNeverDropped ==
    [][SourceDisorder < MaxDisorder + AllowedLateness =>
          \A e \in lateOut' \ lateOut : e.scope \notin steady]_vars

\* finish closes every open window (08 section 3.4): "pushes the watermark past
\* every possible pending upper_bound".
FinishClosesWindows == [][finished' /\ ~finished => pending' = {}]_vars

\* Once the driver finishes, every match is settled for good.
EverythingSettles == <>[](pending = {})
=============================================================================
