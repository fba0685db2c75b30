----------------------------- MODULE SessionFsm -----------------------------
(***************************************************************************)
(* The N-FDL session engine: FsmEngine (nfdl-runtime/src/efsm.rs) over the *)
(* SessionDb (session.rs), with the initial state the parser gives a       *)
(* machine (nfdl-syntax/src/parser.rs).                                    *)
(*                                                                         *)
(* One engine serves many flows.  A session carries a numeric state and    *)
(* the tick of its last access; the named state, the `set` variables and   *)
(* the timers are kept in three more maps of the engine, so that eviction  *)
(* and expiry have to clean four maps together.  Timers fire in a batch,   *)
(* and each firing is a `feed`, which may create a session and evict       *)
(* another while the rest of the batch is still waiting: `due` is the rest *)
(* of the batch, and no other call is possible until it is empty.          *)
(*                                                                         *)
(* Names, values and packets are abstract; a guard is a conjunction of     *)
(* equalities and a `set` copies an identifier, as in the example          *)
(* protocols.  Ticks saturate at MaxTick; MaxFeeds and MaxArms bound the   *)
(* behaviours.                                                             *)
(***************************************************************************)
EXTENDS Naturals, Sequences, FiniteSets, SequencesExt

CONSTANTS
    Flows, TimerNames,
    TimerMsg,       \* timer name :> the pseudo-message timer:<name>
    Program,        \* machine name :> [states, trans], as in FlowMachine
    Packets,        \* what a caller feeds: [msg, ctx]
    MaxSessions,
    MaxTick,        \* where the timer clock saturates (u64::MAX)
    Delays,         \* delays timers are armed with
    Advances,       \* ticks the clock is advanced by
    IdleTimeouts,
    MaxFeeds, MaxArms

ASSUME EngineConstants ==
    /\ MaxSessions \in Nat /\ MaxTick \in Nat /\ MaxFeeds \in Nat
    /\ MaxArms \in Nat
    /\ Delays \subseteq Nat /\ Advances \subseteq Nat /\ IdleTimeouts \subseteq Nat

ASSUME MachineShape ==
    /\ IsFiniteSet(DOMAIN Program)
    /\ \A m \in DOMAIN Program :
          /\ Program[m].states \in Seq(STRING)
          /\ \A s \in DOMAIN Program[m].trans :
                /\ Program[m].trans[s] \in Seq(ToSet(Program[m].trans[s]))
                /\ \A tr \in ToSet(Program[m].trans[s]) :
                      tr.sets \in Seq([var : STRING, value : STRING])

VARIABLES
    sessions,       \* flow :> [state (numeric), lastAccess]
    clock,          \* SessionDb.clock
    currentStates,  \* flow :> state name
    variables,      \* flow :> (name :> value), only once something was set
    timers,         \* flow :> (timer name :> [deadline, id]), never empty
    timerNow, timerSeq,
    due,            \* rest of the running batch: [deadline, id, flow, name]
    order,          \* iteration order of the machines' HashMap
    feeds, lastFed, \* history: number of feeds, and of the last one per flow
    untracked       \* history: a caller has armed a timer of a flow without session

vars == <<sessions, clock, currentStates, variables, timers, timerNow,
          timerSeq, due, order, feeds, lastFed, untracked>>
timerVars == <<timerNow, timerSeq>>

Without(fn, gone) == [x \in DOMAIN fn \ gone |-> fn[x]]
With(fn, x, v) == [y \in DOMAIN fn \cup {x} |-> IF y = x THEN v ELSE fn[y]]
Sat(n) == IF n > MaxTick THEN MaxTick ELSE n

\* parse_state_machine starts with "IDLE" and takes the name of each declared
\* state as long as that is what it still has.
Initial(m) ==
    LET states == Program[m].states
        named  == {i \in DOMAIN states : states[i] # "IDLE"}
    IN  IF named = {} THEN "IDLE"
        ELSE states[CHOOSE i \in named : \A j \in named : i <= j]

Numeric(s) ==
    IF s \in {"PENDING", "SYN_SENT", "ESTABLISHED"} THEN 1
    ELSE IF s = "FIN_WAIT" THEN 2 ELSE 0

----------------------------------------------------------------------------
(* One message through all machines.                                       *)

CurrentState(f) ==
    IF f \in DOMAIN currentStates THEN currentStates[f] ELSE "IDLE"
VariablesOf(f) == IF f \in DOMAIN variables THEN variables[f] ELSE <<>>

\* eval_expr: the flow's variables take priority over the parsed fields, and
\* an unknown identifier is 0.
Eval(own, ctx, x) ==
    IF x \in DOMAIN own THEN own[x]
    ELSE IF x \in DOMAIN ctx THEN ctx[x] ELSE 0

Guard(tr, own, ctx) == \A x \in DOMAIN tr.guard : Eval(own, ctx, x) = tr.guard[x]

Transitions(m, s) ==
    IF s \in DOMAIN Program[m].trans THEN Program[m].trans[s] ELSE <<>>

First_Last(hits) == CHOOSE i \in hits : \A j \in hits : i >= j
First(hits) == CHOOSE i \in hits : \A j \in hits : i <= j

\* The `set`s of a transition, in order: each sees what the ones before it left.
Assign(own, sets, ctx) ==
    LET run[k \in 0..Len(sets)] ==
            IF k = 0 THEN own
            ELSE With(run[k - 1], sets[k].var, Eval(run[k - 1], ctx, sets[k].value))
    IN  run[Len(sets)]

\* The body of the loop over machines: `current` is the state transitions are
\* looked up in, `new` the state the flow will have.
Visit(r, m, msg, ctx) ==
    LET cur  == IF r.current = "IDLE" THEN Initial(m) ELSE r.current
        new  == IF r.current = "IDLE" THEN Initial(m) ELSE r.new
        trs  == Transitions(m, cur)
        hits == {i \in DOMAIN trs : trs[i].msg = msg /\ Guard(trs[i], r.own, ctx)}
    IN  IF hits = {} THEN [r EXCEPT !.current = cur, !.new = new]
        ELSE LET tr == trs[First(hits)]
             IN  [current |-> cur, new |-> tr.to, own |-> Assign(r.own, tr.sets, ctx)]

Outcome(ord, cur, own, msg, ctx) ==
    LET run[i \in 0..Len(ord)] ==
            IF i = 0 THEN [current |-> cur, new |-> cur, own |-> own]
            ELSE Visit(run[i - 1], ord[i], msg, ctx)
    IN  run[Len(ord)]

----------------------------------------------------------------------------
(* Sessions.                                                               *)

LruKey_Newest ==
    CHOOSE f \in DOMAIN sessions :
        \A g \in DOMAIN sessions : sessions[f].lastAccess >= sessions[g].lastAccess
LruKey ==
    CHOOSE f \in DOMAIN sessions :
        \A g \in DOMAIN sessions : sessions[f].lastAccess <= sessions[g].lastAccess

Full == Cardinality(DOMAIN sessions) >= MaxSessions

Evicted(f) ==
    IF Full /\ f \notin DOMAIN sessions /\ DOMAIN sessions # {}
    THEN {LruKey} ELSE {}

DropTimers(tm, gone) == Without(tm, gone)
DropStates_Kept(gone) == currentStates
DropStates(gone) == Without(currentStates, gone)

\* feed, with the timer map `tm` it starts from: get_or_create, clean-up of
\* the evicted flow, all machines, set_current_state, SessionDb::transition.
Feed(f, msg, ctx, tm) ==
    LET gone == Evicted(f)
        out  == Outcome(order, CurrentState(f), VariablesOf(f), msg, ctx)
    IN  /\ clock' = clock + 2
        /\ sessions' = With(Without(sessions, gone), f,
                            [state |-> Numeric(out.new), lastAccess |-> clock + 2])
        /\ currentStates' = With(DropStates(gone), f, out.new)
        /\ variables' = IF out.own = <<>> THEN Without(variables, gone)
                        ELSE With(Without(variables, gone), f, out.own)
        /\ timers' = DropTimers(tm, gone)
        /\ feeds' = feeds + 1
        /\ lastFed' = [lastFed EXCEPT ![f] = feeds + 1]

----------------------------------------------------------------------------
(* Calls of the engine.                                                    *)

Init ==
    /\ sessions = <<>> /\ currentStates = <<>> /\ variables = <<>>
    /\ timers = <<>> /\ due = {}
    /\ clock = 0 /\ timerNow = 0 /\ timerSeq = 0
    /\ order \in SetToSeqs(DOMAIN Program)
    /\ feeds = 0 /\ lastFed = [f \in Flows |-> 0] /\ untracked = FALSE

Receive(f, p) ==
    /\ due = {} /\ feeds < MaxFeeds
    /\ Feed(f, p.msg, p.ctx, timers)
    /\ UNCHANGED <<timerVars, due, order, untracked>>

TimersOf(f) == IF f \in DOMAIN timers THEN timers[f] ELSE <<>>

ScheduleTimer(f, n, d) ==
    /\ due = {} /\ timerSeq < MaxArms
    /\ timerSeq' = timerSeq + 1
    /\ timers' = With(timers, f, With(TimersOf(f), n,
                        [deadline |-> Sat(timerNow + d), id |-> timerSeq + 1]))
    /\ untracked' = (untracked \/ f \notin DOMAIN sessions)
    /\ UNCHANGED <<sessions, clock, currentStates, variables, timerNow, due,
                   order, feeds, lastFed>>

HasTimer_Always(f, n) == TRUE
HasTimer(f, n) == n \in DOMAIN TimersOf(f)

Cancelled(f, n) ==
    LET rest == Without(TimersOf(f), {n})
    IN  IF rest = <<>> THEN Without(timers, {f}) ELSE With(timers, f, rest)

CancelTimer(f, n) ==
    /\ due = {}
    /\ HasTimer(f, n)
    /\ timers' = Cancelled(f, n)
    /\ UNCHANGED <<sessions, clock, currentStates, variables, timerVars, due,
                   order, feeds, lastFed, untracked>>

IsDue_Strict(deadline, now) == deadline < now
IsDue(deadline, now) == deadline <= now

Armed == {a \in [flow : DOMAIN timers, name : TimerNames] :
            a.name \in DOMAIN timers[a.flow]}

DueAt(now) ==
    {[deadline |-> timers[a.flow][a.name].deadline,
      id |-> timers[a.flow][a.name].id, flow |-> a.flow, name |-> a.name] :
        a \in {b \in Armed : IsDue(timers[b.flow][b.name].deadline, now)}}

\* advance_and_fire; with 0 ticks it is fire_due_timers.
AdvanceAndFire(ticks) ==
    /\ due = {}
    /\ timerNow' = Sat(timerNow + ticks)
    /\ due' = DueAt(timerNow')
    /\ UNCHANGED <<sessions, clock, currentStates, variables, timers, timerSeq,
                   order, feeds, lastFed, untracked>>

FirstDue == CHOOSE t \in due : \A u \in due :
                t.deadline < u.deadline \/ (t.deadline = u.deadline /\ t.id <= u.id)

\* One turn of the loop of fire_due_timers.
FireNext ==
    /\ due # {}
    /\ LET t == FirstDue
       IN  /\ due' = due \ {t}
           /\ IF HasTimer(t.flow, t.name)
              THEN Feed(t.flow, TimerMsg[t.name], <<>>, Cancelled(t.flow, t.name))
              ELSE UNCHANGED <<sessions, clock, currentStates, variables, timers,
                               feeds, lastFed>>
    /\ UNCHANGED <<timerVars, order, untracked>>

Threshold_OffByOne(idle) == IF idle > clock THEN 0 ELSE clock - idle + 1
Threshold(idle) == IF idle > clock THEN 0 ELSE clock - idle

ExpireIdle(idle) ==
    /\ due = {}
    /\ LET gone == {f \in DOMAIN sessions : sessions[f].lastAccess < Threshold(idle)}
       IN  /\ gone # {}
           /\ sessions' = Without(sessions, gone)
           /\ currentStates' = DropStates(gone)
           /\ variables' = Without(variables, gone)
           /\ timers' = DropTimers(timers, gone)
    /\ UNCHANGED <<clock, timerVars, due, order, feeds, lastFed, untracked>>

Next ==
    \/ \E f \in Flows, p \in Packets : Receive(f, p)
    \/ \E f \in Flows, n \in TimerNames, d \in Delays : ScheduleTimer(f, n, d)
    \/ \E f \in Flows, n \in TimerNames : CancelTimer(f, n)
    \/ \E ticks \in Advances : AdvanceAndFire(ticks)
    \/ FireNext
    \/ \E idle \in IdleTimeouts : ExpireIdle(idle)

Spec == Init /\ [][Next]_vars

----------------------------------------------------------------------------
(* Properties.                                                             *)

StateNames == {"IDLE"} \cup UNION {ToSet(Program[m].states) : m \in DOMAIN Program}

\* Type invariant: the maps hold what their declarations say; no flow keeps an
\* empty timer table.
TypeOK ==
    /\ DOMAIN sessions \subseteq Flows /\ DOMAIN timers \subseteq Flows
    /\ clock \in Nat /\ timerSeq \in Nat /\ timerNow \in 0..MaxTick
    /\ \A f \in DOMAIN sessions :
          sessions[f].state \in 0..2 /\ sessions[f].lastAccess \in 0..clock
    /\ \A f \in DOMAIN currentStates : currentStates[f] \in StateNames
    /\ \A f \in DOMAIN timers :
          /\ DOMAIN timers[f] # {} /\ DOMAIN timers[f] \subseteq TimerNames
          /\ \A n \in DOMAIN timers[f] :
                timers[f][n].deadline \in 0..MaxTick /\ timers[f][n].id \in 1..timerSeq

\* The four maps describe the same flows: after any mix of evictions, expiries
\* and firings a named state is kept for exactly the flows with a session and
\* agrees with its number, and variables and (as long as callers only arm
\* timers of flows with a session) timers are never left behind
\* (drop_flow_maps).
FlowStateTracked ==
    /\ DOMAIN currentStates = DOMAIN sessions
    /\ \A f \in DOMAIN sessions : sessions[f].state = Numeric(currentStates[f])
    /\ DOMAIN variables \subseteq DOMAIN sessions
    /\ ~untracked => DOMAIN timers \subseteq DOMAIN sessions

\* A feed evicts the flow whose own last feed is the oldest (evict_lru):
\* idle scans and other flows' timers do not disturb the order.
EvictionIsLru ==
    [][clock' # clock =>
         \A f \in DOMAIN sessions \ DOMAIN sessions', g \in DOMAIN sessions :
            lastFed[f] <= lastFed[g]]_vars

\* expire_idle drops exactly the flows that more than `idle` ticks of the
\* access clock, two per feed, have passed by.
ExpiryMatchesActivity ==
    [][\A idle \in IdleTimeouts : ExpireIdle(idle) =>
         \A f \in DOMAIN sessions :
            f \in DOMAIN sessions' <=> 2 * (feeds - lastFed[f]) <= idle]_vars

\* A batch leaves no armed timer behind whose deadline has passed.
AllDueFired ==
    [][(timerNow' # timerNow \/ due # {}) /\ due' = {} =>
         \A f \in DOMAIN timers' : \A n \in DOMAIN timers'[f] :
            timers'[f][n].deadline > timerNow']_vars

\* A batch of timers changes nobody else's standing: a flow that an earlier firing
\* evicted is not brought back by its own timer later in the batch, and as long as
\* timers are armed on sessions only, which they cannot outlive, firing them never
\* makes room at the expense of a live flow (fire_due_timers).
TimersDisturbNoFlow ==
    [][due # {} =>
         /\ DOMAIN sessions' \ DOMAIN sessions \subseteq DOMAIN timers
         /\ ~untracked => DOMAIN sessions' = DOMAIN sessions]_vars

TheMachine == CHOOSE m \in DOMAIN Program : TRUE

TimerPackets == {[msg |-> TimerMsg[n], ctx |-> <<>>] : n \in TimerNames}

\* What the engine keeps of each flow.
FlowView == [f \in Flows |->
                [state |-> IF f \in DOMAIN currentStates THEN currentStates[f]
                           ELSE Head(Program[TheMachine].states),
                 vars  |-> VariablesOf(f)]]

Abstract == INSTANCE FlowMachine WITH
    Machine <- Program[TheMachine],
    Packets <- Packets \cup TimerPackets,
    flow    <- FlowView

\* With one machine, every flow behaves as if it had the machine for itself,
\* started in the first declared state (FlowMachine.tla).
FollowsMachine == Abstract!Spec
=============================================================================
