---------------------------- MODULE SessionFsmProofs ----------------------------
(***************************************************************************)
(* Proofs about SessionFsm, for every set of flows and machines and every  *)
(* session limit.                                                          *)
(***************************************************************************)
EXTENDS SessionFsm, SetInduction, FiniteSetTheorems

-----------------------------------------------------------------------------
(* The maps of the engine. *)

\* Removing and setting entries of a map (HashMap::remove, insert).
LEMMA MapFacts ==
    ASSUME NEW fn, NEW gone, NEW x, NEW v
    PROVE  /\ DOMAIN Without(fn, gone) = DOMAIN fn \ gone
           /\ \A y \in DOMAIN fn \ gone : Without(fn, gone)[y] = fn[y]
           /\ DOMAIN With(fn, x, v) = DOMAIN fn \cup {x}
           /\ With(fn, x, v)[x] = v
           /\ \A y \in DOMAIN fn \ {x} : With(fn, x, v)[y] = fn[y]
BY DEF Without, With

\* A map without entries is the empty map.
LEMMA EmptyMap ==
    ASSUME NEW fn, NEW gone, DOMAIN Without(fn, gone) = {}
    PROVE  Without(fn, gone) = <<>>
BY DEF Without

\* The clock of timers saturates (saturating_add).
LEMMA SatType ==
    ASSUME NEW n \in Nat
    PROVE  Sat(n) \in 0..MaxTick
BY EngineConstants DEF Sat

-----------------------------------------------------------------------------
(* The inductive invariant. *)

\* A session's access time is the time of its flow's last feed: the access
\* clock advances by two in every feed and in nothing else.
AccessInv ==
    /\ DOMAIN sessions \subseteq Flows
    /\ feeds \in Nat /\ clock = 2 * feeds
    /\ lastFed \in [Flows -> Nat]
    /\ \A f \in Flows : lastFed[f] <= feeds
    /\ \A f \in DOMAIN sessions : sessions[f].lastAccess = 2 * lastFed[f]

\* Every table of timers is one of a flow and has an armed timer.
TimerTable(tm) ==
    /\ DOMAIN tm \subseteq Flows
    /\ \A f \in DOMAIN tm :
          /\ DOMAIN tm[f] # {} /\ DOMAIN tm[f] \subseteq TimerNames
          /\ \A n \in DOMAIN tm[f] :
                tm[f][n].deadline \in 0..MaxTick /\ tm[f][n].id \in 1..timerSeq

\* While a batch is running, every timer that is still armed and due is in it.
BatchInv ==
    /\ due \subseteq [deadline : Nat, id : Nat, flow : Flows, name : TimerNames]
    /\ due # {} => DueAt(timerNow) \subseteq due

EngineInv ==
    /\ AccessInv
    /\ timerNow \in 0..MaxTick /\ timerSeq \in Nat
    /\ TimerTable(timers)
    /\ BatchInv
    /\ FlowStateTracked

\* A new engine has no flows and no timers.
LEMMA InitEngine == Init => EngineInv
<1> SUFFICES ASSUME Init PROVE EngineInv
  OBVIOUS
<1>1. /\ DOMAIN sessions = {} /\ DOMAIN currentStates = {} /\ DOMAIN variables = {}
      /\ DOMAIN timers = {}
  BY DEF Init
<1>2. AccessInv
  BY <1>1 DEF Init, AccessInv
<1>3. timerNow \in 0..MaxTick /\ timerSeq \in Nat /\ TimerTable(timers)
  BY <1>1, EngineConstants DEF Init, TimerTable
<1>4. BatchInv /\ FlowStateTracked
  BY <1>1 DEF Init, BatchInv, FlowStateTracked
<1> QED
  BY <1>2, <1>3, <1>4 DEF EngineInv

-----------------------------------------------------------------------------
(* Feeding a message. *)

\* The least recently used flow has a session (SessionDb::evict_lru).
LEMMA LruExists ==
    ASSUME AccessInv, DOMAIN sessions # {}
    PROVE  /\ LruKey \in DOMAIN sessions
           /\ \A g \in DOMAIN sessions : lastFed[LruKey] <= lastFed[g]
<1> DEFINE T == {lastFed[f] : f \in DOMAIN sessions}
<1>1. T \in SUBSET Nat /\ T # {}
  BY DEF AccessInv
<1>2. PICK m \in T : \A l \in T : m <= l
  <2> HIDE DEF T
  <2> QED
    BY <1>1, LeastNatural
<1>3. PICK f \in DOMAIN sessions : \A g \in DOMAIN sessions : lastFed[f] <= lastFed[g]
  BY <1>2
<1>4. \A g \in DOMAIN sessions : lastFed[g] \in Nat /\ sessions[g].lastAccess = 2 * lastFed[g]
  BY DEF AccessInv
<1>5. \A g \in DOMAIN sessions : sessions[f].lastAccess <= sessions[g].lastAccess
  BY <1>3, <1>4
<1>6. /\ LruKey \in DOMAIN sessions
      /\ \A g \in DOMAIN sessions : sessions[LruKey].lastAccess <= sessions[g].lastAccess
  BY <1>5 DEF LruKey
<1> QED
  BY <1>4, <1>6

\* Only flows with a session are evicted, never the flow being fed, and only
\* when it has no session yet (SessionDb::get_or_create).
LEMMA EvictedFacts ==
    ASSUME AccessInv, NEW f \in Flows
    PROVE  /\ Evicted(f) \subseteq DOMAIN sessions /\ f \notin Evicted(f)
           /\ f \in DOMAIN sessions => Evicted(f) = {}
           /\ \A e \in Evicted(f), g \in DOMAIN sessions : lastFed[e] <= lastFed[g]
BY LruExists DEF Evicted

\* What a feed does to the maps, whatever the machines answer.
LEMMA FeedMaps ==
    ASSUME NEW f, NEW msg, NEW ctx, NEW tm, Feed(f, msg, ctx, tm)
    PROVE  /\ DOMAIN sessions' = (DOMAIN sessions \ Evicted(f)) \cup {f}
           /\ DOMAIN currentStates' = (DOMAIN currentStates \ Evicted(f)) \cup {f}
           /\ DOMAIN variables' \subseteq (DOMAIN variables \ Evicted(f)) \cup {f}
           /\ timers' = Without(tm, Evicted(f))
           /\ sessions'[f].lastAccess = clock + 2
           /\ sessions'[f].state = Numeric(currentStates'[f])
           /\ \A g \in DOMAIN sessions \ (Evicted(f) \cup {f}) : sessions'[g] = sessions[g]
           /\ \A g \in DOMAIN currentStates \ (Evicted(f) \cup {f}) :
                 currentStates'[g] = currentStates[g]
<1> DEFINE gone == Evicted(f)
           out == Outcome(order, CurrentState(f), VariablesOf(f), msg, ctx)
           rec == [state |-> Numeric(out.new), lastAccess |-> clock + 2]
<1>1. /\ sessions' = With(Without(sessions, gone), f, rec)
      /\ currentStates' = With(Without(currentStates, gone), f, out.new)
      /\ \/ variables' = Without(variables, gone)
         \/ variables' = With(Without(variables, gone), f, out.own)
      /\ timers' = Without(tm, gone)
  BY DEF Feed, DropStates, DropTimers
<1> HIDE DEF gone, out
<1>2. /\ DOMAIN sessions' = (DOMAIN sessions \ gone) \cup {f}
      /\ sessions'[f] = rec
      /\ \A g \in DOMAIN sessions \ (gone \cup {f}) : sessions'[g] = sessions[g]
  BY <1>1 DEF With, Without
<1>3. /\ DOMAIN currentStates' = (DOMAIN currentStates \ gone) \cup {f}
      /\ currentStates'[f] = out.new
      /\ \A g \in DOMAIN currentStates \ (gone \cup {f}) :
            currentStates'[g] = currentStates[g]
  BY <1>1 DEF With, Without
<1>4. DOMAIN variables' \subseteq (DOMAIN variables \ gone) \cup {f}
  BY <1>1 DEF With, Without
<1> QED
  BY <1>1, <1>2, <1>3, <1>4 DEF gone

\* The sessions after a feed.
LEMMA FeedSessions ==
    ASSUME NEW f, NEW msg, NEW ctx, NEW tm, Feed(f, msg, ctx, tm)
    PROVE  DOMAIN sessions' = (DOMAIN sessions \ Evicted(f)) \cup {f}
BY FeedMaps

\* A feed stamps its own flow and no other.
LEMMA FeedAccess ==
    ASSUME AccessInv, NEW f \in Flows, NEW msg, NEW ctx, NEW tm, Feed(f, msg, ctx, tm)
    PROVE  AccessInv'
<1>1. /\ clock' = clock + 2 /\ feeds' = feeds + 1
      /\ lastFed' = [lastFed EXCEPT ![f] = feeds + 1]
  BY DEF Feed
<1>2. /\ DOMAIN sessions' = (DOMAIN sessions \ Evicted(f)) \cup {f}
      /\ sessions'[f].lastAccess = clock + 2
      /\ \A g \in DOMAIN sessions \ (Evicted(f) \cup {f}) : sessions'[g] = sessions[g]
  BY FeedMaps
<1>3. /\ DOMAIN sessions' \subseteq Flows
      /\ feeds' \in Nat /\ clock' = 2 * feeds'
      /\ lastFed' \in [Flows -> Nat]
      /\ \A g \in Flows : lastFed'[g] <= feeds'
  BY <1>1, <1>2 DEF AccessInv
<1>4. ASSUME NEW g \in DOMAIN sessions' PROVE sessions'[g].lastAccess = 2 * lastFed'[g]
  <2>1. CASE g = f
    BY <1>1, <1>2, <2>1 DEF AccessInv
  <2>2. CASE g # f
    BY <1>1, <1>2, <2>2 DEF AccessInv
  <2> QED
    BY <2>1, <2>2
<1> QED
  BY <1>3, <1>4 DEF AccessInv

\* A feed keeps the four maps together: it clears what it evicts from all of
\* them (drop_flow_maps) and fills both state maps for its own flow.
LEMMA FeedTracked ==
    ASSUME AccessInv, FlowStateTracked, NEW f \in Flows, NEW msg, NEW ctx,
           NEW tm, DOMAIN tm \subseteq DOMAIN timers,
           Feed(f, msg, ctx, tm), untracked' = untracked
    PROVE  FlowStateTracked'
<1> DEFINE gone == Evicted(f)
<1>1. /\ DOMAIN sessions' = (DOMAIN sessions \ gone) \cup {f}
      /\ DOMAIN currentStates' = (DOMAIN currentStates \ gone) \cup {f}
      /\ DOMAIN variables' \subseteq (DOMAIN variables \ gone) \cup {f}
      /\ timers' = Without(tm, gone)
      /\ sessions'[f].state = Numeric(currentStates'[f])
      /\ \A g \in DOMAIN sessions \ (gone \cup {f}) : sessions'[g] = sessions[g]
      /\ \A g \in DOMAIN currentStates \ (gone \cup {f}) :
            currentStates'[g] = currentStates[g]
  BY FeedMaps
<1> HIDE DEF gone
<1>2. DOMAIN timers' = DOMAIN tm \ gone
  BY <1>1, MapFacts
<1>3. /\ DOMAIN currentStates' = DOMAIN sessions'
      /\ DOMAIN variables' \subseteq DOMAIN sessions'
      /\ ~untracked' => DOMAIN timers' \subseteq DOMAIN sessions'
  BY <1>1, <1>2 DEF FlowStateTracked
<1>4. ASSUME NEW g \in DOMAIN sessions'
      PROVE  sessions'[g].state = Numeric(currentStates'[g])
  <2>1. CASE g = f
    BY <1>1, <2>1
  <2>2. CASE g # f
    BY <1>1, <2>2 DEF FlowStateTracked
  <2> QED
    BY <2>1, <2>2
<1> QED
  BY <1>3, <1>4 DEF FlowStateTracked

-----------------------------------------------------------------------------
(* Timers. *)

\* Dropping flows leaves a table of timers.
LEMMA DroppedTable ==
    ASSUME NEW tm, TimerTable(tm), NEW gone
    PROVE  TimerTable(Without(tm, gone))
BY DEF TimerTable, Without

\* Cancelling takes one timer out and drops the flow's table with its last one.
LEMMA CancelledFacts ==
    ASSUME TimerTable(timers), NEW f, NEW n, HasTimer(f, n)
    PROVE  /\ f \in DOMAIN timers
           /\ DOMAIN Cancelled(f, n) \subseteq DOMAIN timers
           /\ TimerTable(Cancelled(f, n))
           /\ \A g \in DOMAIN Cancelled(f, n) : \A k \in DOMAIN Cancelled(f, n)[g] :
                /\ k \in DOMAIN timers[g] /\ <<g, k>> # <<f, n>>
                /\ Cancelled(f, n)[g][k] = timers[g][k]
<1>1. f \in DOMAIN timers /\ n \in DOMAIN timers[f] /\ TimersOf(f) = timers[f]
  BY DEF HasTimer, TimersOf
<1> DEFINE rest == Without(timers[f], {n})
<1>2. /\ DOMAIN rest = DOMAIN timers[f] \ {n}
      /\ \A k \in DOMAIN rest : rest[k] = timers[f][k]
  BY DEF Without
<1>3. CASE rest = <<>>
  <2>1. Cancelled(f, n) = Without(timers, {f})
    BY <1>1, <1>3 DEF Cancelled
  <2>2. TimerTable(Without(timers, {f}))
    BY DroppedTable, Zenon
  <2>3. /\ DOMAIN Without(timers, {f}) = DOMAIN timers \ {f}
        /\ \A g \in DOMAIN timers \ {f} : Without(timers, {f})[g] = timers[g]
    BY Zenon DEF Without
  <2>4. \A g \in DOMAIN Cancelled(f, n) : /\ g \in DOMAIN timers /\ g # f
                                         /\ Cancelled(f, n)[g] = timers[g]
    BY <2>1, <2>3
  <2>5. TimerTable(Cancelled(f, n))
    BY <2>1, <2>2
  <2> HIDE DEF rest
  <2>6. \A g \in DOMAIN Cancelled(f, n) : \A k \in DOMAIN Cancelled(f, n)[g] :
           /\ k \in DOMAIN timers[g] /\ <<g, k>> # <<f, n>>
           /\ Cancelled(f, n)[g][k] = timers[g][k]
    BY <2>4
  <2> QED
    BY <1>1, <2>4, <2>5, <2>6
<1>4. CASE rest # <<>>
  <2>1. Cancelled(f, n) = With(timers, f, rest)
    BY <1>1, <1>4 DEF Cancelled
  <2>2. DOMAIN rest # {}
    BY <1>4, EmptyMap
  <2> HIDE DEF rest
  <2>3. /\ DOMAIN Cancelled(f, n) = DOMAIN timers
        /\ Cancelled(f, n)[f] = rest
        /\ \A g \in DOMAIN timers \ {f} : Cancelled(f, n)[g] = timers[g]
    BY <1>1, <2>1 DEF With
  <2>4. TimerTable(Cancelled(f, n))
    BY <1>1, <1>2, <2>2, <2>3 DEF TimerTable
  <2> QED
    BY <1>1, <1>2, <2>3, <2>4
<1> QED
  BY <1>3, <1>4

\* The batch of a call is exactly the armed timers whose deadline has come.
LEMMA DueMembers ==
    ASSUME TimerTable(timers), timerSeq \in Nat, NEW now
    PROVE  /\ DueAt(now) \subseteq [deadline : Nat, id : Nat, flow : Flows, name : TimerNames]
           /\ \A f \in DOMAIN timers : \A n \in DOMAIN timers[f] :
                timers[f][n].deadline <= now =>
                   [deadline |-> timers[f][n].deadline, id |-> timers[f][n].id,
                    flow |-> f, name |-> n] \in DueAt(now)
           /\ \A t \in DueAt(now) :
                /\ t.flow \in DOMAIN timers /\ t.name \in DOMAIN timers[t.flow]
                /\ timers[t.flow][t.name].deadline <= now
                /\ t = [deadline |-> timers[t.flow][t.name].deadline,
                        id |-> timers[t.flow][t.name].id, flow |-> t.flow, name |-> t.name]
<1> DEFINE Rec(f, n) == [deadline |-> timers[f][n].deadline, id |-> timers[f][n].id,
                         flow |-> f, name |-> n]
<1>1. ASSUME NEW f \in DOMAIN timers, NEW n \in DOMAIN timers[f]
      PROVE  /\ Rec(f, n) \in [deadline : Nat, id : Nat, flow : Flows, name : TimerNames]
             /\ n \in TimerNames
  BY EngineConstants DEF TimerTable
<1>2. ASSUME NEW f \in DOMAIN timers, NEW n \in DOMAIN timers[f],
             timers[f][n].deadline <= now
      PROVE  Rec(f, n) \in DueAt(now)
  <2> DEFINE a == [flow |-> f, name |-> n]
  <2>1. a \in Armed /\ IsDue(timers[a.flow][a.name].deadline, now)
    BY <1>1, <1>2 DEF Armed, IsDue
  <2> QED
    BY <2>1 DEF DueAt
<1>3. ASSUME NEW t \in DueAt(now)
      PROVE  \E f \in DOMAIN timers : \E n \in DOMAIN timers[f] :
                t = Rec(f, n) /\ timers[f][n].deadline <= now
  BY DEF DueAt, Armed, IsDue
<1>4. ASSUME NEW t \in DueAt(now)
      PROVE  /\ t \in [deadline : Nat, id : Nat, flow : Flows, name : TimerNames]
             /\ t.flow \in DOMAIN timers /\ t.name \in DOMAIN timers[t.flow]
             /\ timers[t.flow][t.name].deadline <= now
             /\ t = Rec(t.flow, t.name)
  <2>1. PICK f \in DOMAIN timers : \E n \in DOMAIN timers[f] :
                t = Rec(f, n) /\ timers[f][n].deadline <= now
    BY <1>3
  <2>2. PICK n \in DOMAIN timers[f] : t = Rec(f, n) /\ timers[f][n].deadline <= now
    BY <2>1
  <2>3. t.flow = f /\ t.name = n
    BY <2>2
  <2> HIDE DEF Rec
  <2> QED
    BY <1>1, <2>2, <2>3
<1> QED
  BY <1>2, <1>4

\* A running batch has a first timer: least deadline, then oldest id.
LEMMA FirstDueExists ==
    ASSUME BatchInv, due # {}
    PROVE  FirstDue \in due
<1> DEFINE D == {t.deadline : t \in due}
<1>1. \A t \in due : t.deadline \in Nat /\ t.id \in Nat
  BY DEF BatchInv
<1>2. PICK d \in D : \A e \in D : d <= e
  <2>1. D \in SUBSET Nat /\ D # {}
    BY <1>1
  <2> HIDE DEF D
  <2> QED
    BY <2>1, LeastNatural
<1> DEFINE I == {t.id : t \in {u \in due : u.deadline = d}}
<1>3. PICK i \in I : \A j \in I : i <= j
  <2>1. I \in SUBSET Nat /\ I # {}
    BY <1>1, <1>2
  <2> HIDE DEF I
  <2> QED
    BY <2>1, LeastNatural
<1>4. PICK t \in due : t.deadline = d /\ t.id = i
  BY <1>3
<1>5. \A u \in due : t.deadline < u.deadline \/ (t.deadline = u.deadline /\ t.id <= u.id)
  BY <1>1, <1>2, <1>3, <1>4
<1> QED
  BY <1>5 DEF FirstDue

-----------------------------------------------------------------------------
(* Every call keeps the invariant. *)

\* Receive: a feed on the timers as they are.
LEMMA ReceiveInv ==
    ASSUME EngineInv, NEW f \in Flows, NEW p, Receive(f, p)
    PROVE  EngineInv'
<1>1. /\ Feed(f, p.msg, p.ctx, timers) /\ due = {} /\ due' = due
      /\ UNCHANGED <<timerNow, timerSeq, untracked>>
  BY DEF Receive, timerVars
<1>2. AccessInv /\ FlowStateTracked /\ TimerTable(timers)
  BY DEF EngineInv
<1>3. AccessInv'
  BY <1>1, <1>2, FeedAccess
<1>4. FlowStateTracked'
  BY <1>1, <1>2, FeedTracked
<1>5. TimerTable(timers)'
  <2>1. timers' = Without(timers, Evicted(f))
    BY <1>1 DEF Feed, DropTimers
  <2>2. TimerTable(Without(timers, Evicted(f)))
    BY <1>2, DroppedTable
  <2> QED
    BY <1>1, <2>1, <2>2 DEF TimerTable
<1>6. BatchInv'
  BY <1>1 DEF BatchInv
<1> QED
  BY <1>1, <1>3, <1>4, <1>5, <1>6 DEF EngineInv

\* schedule_timer: one more timer, with the next id.
LEMMA ScheduleInv ==
    ASSUME EngineInv, NEW f \in Flows, NEW n \in TimerNames, NEW d \in Delays,
           ScheduleTimer(f, n, d)
    PROVE  EngineInv'
<1> DEFINE t == [deadline |-> Sat(timerNow + d), id |-> timerSeq + 1]
           row == With(TimersOf(f), n, t)
<1>1. /\ timerSeq' = timerSeq + 1 /\ timers' = With(timers, f, row)
      /\ untracked' = (untracked \/ f \notin DOMAIN sessions)
      /\ due = {} /\ due' = due
      /\ UNCHANGED <<sessions, clock, currentStates, variables, timerNow, feeds, lastFed>>
  BY DEF ScheduleTimer
<1>2. /\ timerNow \in 0..MaxTick /\ timerSeq \in Nat /\ TimerTable(timers)
      /\ AccessInv /\ FlowStateTracked
  BY DEF EngineInv
<1>3. t.deadline \in 0..MaxTick /\ t.id \in 1..timerSeq'
  <2>1. timerNow + d \in Nat
    BY <1>2, EngineConstants
  <2> QED
    BY <1>1, <1>2, <2>1, SatType
<1> HIDE DEF t
<1>4. /\ DOMAIN row = DOMAIN TimersOf(f) \cup {n} /\ row[n] = t
      /\ \A k \in DOMAIN TimersOf(f) \ {n} : row[k] = TimersOf(f)[k]
  BY DEF With
<1>5. /\ DOMAIN TimersOf(f) \subseteq TimerNames
      /\ \A k \in DOMAIN TimersOf(f) :
            TimersOf(f)[k].deadline \in 0..MaxTick /\ TimersOf(f)[k].id \in 1..timerSeq
  BY <1>2 DEF TimersOf, TimerTable
<1> HIDE DEF row
<1>6. /\ DOMAIN timers' = DOMAIN timers \cup {f} /\ timers'[f] = row
      /\ \A g \in DOMAIN timers \ {f} : timers'[g] = timers[g]
  BY <1>1 DEF With
<1>7. TimerTable(timers)'
  <2>1. 1..timerSeq \subseteq 1..timerSeq'
    BY <1>1, <1>2
  <2>2. \A k \in DOMAIN row : row[k].deadline \in 0..MaxTick /\ row[k].id \in 1..timerSeq'
    BY <1>3, <1>4, <1>5, <2>1
  <2>3. DOMAIN row # {} /\ DOMAIN row \subseteq TimerNames
    BY <1>4, <1>5
  <2> QED
    BY <1>2, <1>6, <2>1, <2>2, <2>3 DEF TimerTable
<1>8. AccessInv'
  BY <1>1, <1>2 DEF AccessInv
<1>9. FlowStateTracked'
  BY <1>1, <1>2, <1>6 DEF FlowStateTracked
<1>10. BatchInv'
  BY <1>1 DEF BatchInv
<1> QED
  BY <1>1, <1>2, <1>7, <1>8, <1>9, <1>10 DEF EngineInv

\* cancel_timer.
LEMMA CancelInv ==
    ASSUME EngineInv, NEW f \in Flows, NEW n \in TimerNames, CancelTimer(f, n)
    PROVE  EngineInv'
<1>1. /\ timers' = Cancelled(f, n) /\ HasTimer(f, n) /\ due = {} /\ due' = due
      /\ UNCHANGED <<sessions, clock, currentStates, variables, timerNow, timerSeq,
                     feeds, lastFed, untracked>>
  BY DEF CancelTimer, timerVars
<1>2. TimerTable(timers) /\ AccessInv /\ FlowStateTracked
  BY DEF EngineInv
<1>3. DOMAIN timers' \subseteq DOMAIN timers /\ TimerTable(Cancelled(f, n))
  BY <1>1, <1>2, CancelledFacts
<1>4. TimerTable(timers)'
  BY <1>1, <1>3 DEF TimerTable
<1>5. AccessInv' /\ FlowStateTracked'
  BY <1>1, <1>2, <1>3 DEF AccessInv, FlowStateTracked
<1>6. BatchInv'
  BY <1>1 DEF BatchInv
<1> QED
  BY <1>1, <1>4, <1>5, <1>6 DEF EngineInv

\* advance_and_fire: the clock moves and the batch is what is due then.
LEMMA AdvanceInv ==
    ASSUME EngineInv, NEW ticks \in Advances, AdvanceAndFire(ticks)
    PROVE  EngineInv'
<1>1. /\ timerNow' = Sat(timerNow + ticks) /\ due' = DueAt(timerNow')
      /\ UNCHANGED <<sessions, clock, currentStates, variables, timers, timerSeq,
                     feeds, lastFed, untracked>>
  BY DEF AdvanceAndFire
<1>2. /\ TimerTable(timers) /\ AccessInv /\ FlowStateTracked
      /\ timerNow \in Nat /\ timerSeq \in Nat
  BY DEF EngineInv
<1>3. timerNow' \in 0..MaxTick
  <2>1. timerNow + ticks \in Nat
    BY <1>2, EngineConstants
  <2> QED
    BY <1>1, <2>1, SatType
<1>4. BatchInv'
  <2>1. DueAt(timerNow') \subseteq [deadline : Nat, id : Nat, flow : Flows, name : TimerNames]
    BY <1>2, DueMembers
  <2>2. DueAt(timerNow)' = DueAt(timerNow')
    BY <1>1 DEF DueAt, Armed
  <2> QED
    BY <1>1, <2>1, <2>2 DEF BatchInv
<1>5. AccessInv' /\ FlowStateTracked' /\ TimerTable(timers)'
  BY <1>1, <1>2 DEF AccessInv, FlowStateTracked, TimerTable
<1> QED
  BY <1>1, <1>2, <1>3, <1>4, <1>5 DEF EngineInv

\* A turn of the firing loop takes its timer out of the batch and, if it is
\* still armed, out of the tables, and feeds its message.
LEMMA FireTurn ==
    ASSUME EngineInv, FireNext
    PROVE  \E t \in due :
              /\ t.flow \in Flows /\ due' = due \ {t}
              /\ UNCHANGED <<timerNow, timerSeq, untracked>>
              /\ \/ /\ HasTimer(t.flow, t.name)
                    /\ Feed(t.flow, TimerMsg[t.name], <<>>, Cancelled(t.flow, t.name))
                 \/ /\ ~HasTimer(t.flow, t.name)
                    /\ UNCHANGED <<sessions, clock, currentStates, variables, timers,
                                   feeds, lastFed>>
<1>1. FirstDue \in due /\ due # {}
  BY FirstDueExists DEF EngineInv, FireNext
<1>2. FirstDue.flow \in Flows
  BY <1>1 DEF EngineInv, BatchInv
<1> QED
  BY <1>1, <1>2 DEF FireNext, timerVars

\* What is armed after a turn was armed before it, and is not the turn's timer.
LEMMA FireKeepsTimers ==
    ASSUME EngineInv, NEW t \in due, HasTimer(t.flow, t.name),
           Feed(t.flow, TimerMsg[t.name], <<>>, Cancelled(t.flow, t.name))
    PROVE  \A g \in DOMAIN timers' : \A k \in DOMAIN timers'[g] :
              /\ g \in DOMAIN timers /\ k \in DOMAIN timers[g]
              /\ timers'[g][k] = timers[g][k] /\ <<g, k>> # <<t.flow, t.name>>
<1> DEFINE tm == Cancelled(t.flow, t.name)
<1>1. /\ DOMAIN tm \subseteq DOMAIN timers
      /\ \A g \in DOMAIN tm : \A k \in DOMAIN tm[g] :
            /\ k \in DOMAIN timers[g] /\ <<g, k>> # <<t.flow, t.name>>
            /\ tm[g][k] = timers[g][k]
  BY CancelledFacts DEF EngineInv
<1>2. timers' = Without(tm, Evicted(t.flow))
  BY DEF Feed, DropTimers
<1> HIDE DEF tm
<1>3. DOMAIN timers' \subseteq DOMAIN tm /\ \A g \in DOMAIN timers' : timers'[g] = tm[g]
  BY <1>2 DEF Without
<1> QED
  BY <1>1, <1>3

\* FireNext: the rest of the batch still has every timer that is due.
LEMMA FireInv ==
    ASSUME EngineInv, FireNext
    PROVE  EngineInv'
<1>1. PICK t \in due :
              /\ t.flow \in Flows /\ due' = due \ {t}
              /\ UNCHANGED <<timerNow, timerSeq, untracked>>
              /\ \/ /\ HasTimer(t.flow, t.name)
                    /\ Feed(t.flow, TimerMsg[t.name], <<>>, Cancelled(t.flow, t.name))
                 \/ /\ ~HasTimer(t.flow, t.name)
                    /\ UNCHANGED <<sessions, clock, currentStates, variables, timers,
                                   feeds, lastFed>>
  BY FireTurn
<1>2. /\ AccessInv /\ FlowStateTracked /\ TimerTable(timers) /\ BatchInv
      /\ timerNow \in 0..MaxTick /\ timerSeq \in Nat
  BY DEF EngineInv
<1>3. CASE HasTimer(t.flow, t.name)
  <2> DEFINE tm == Cancelled(t.flow, t.name)
  <2>1. Feed(t.flow, TimerMsg[t.name], <<>>, tm)
    BY <1>1, <1>3
  <2>2. DOMAIN tm \subseteq DOMAIN timers /\ TimerTable(tm)
    BY <1>2, <1>3, CancelledFacts
  <2>3. AccessInv'
    BY <1>1, <1>2, <2>1, FeedAccess
  <2>4. FlowStateTracked'
    BY <1>1, <1>2, <2>1, <2>2, FeedTracked
  <2>5. TimerTable(timers)'
    <3>1. timers' = Without(tm, Evicted(t.flow))
      BY <2>1 DEF Feed, DropTimers
    <3>2. TimerTable(Without(tm, Evicted(t.flow)))
      BY <2>2, DroppedTable
    <3> QED
      BY <1>1, <3>1, <3>2 DEF TimerTable
  <2>6. BatchInv'
    <3>1. due' \subseteq [deadline : Nat, id : Nat, flow : Flows, name : TimerNames]
      BY <1>1, <1>2 DEF BatchInv
    <3>2. ASSUME NEW u \in DueAt(timerNow)' PROVE u \in due'
      <4>1. PICK b \in Armed' :
                /\ timers'[b.flow][b.name].deadline <= timerNow'
                /\ u = [deadline |-> timers'[b.flow][b.name].deadline,
                        id |-> timers'[b.flow][b.name].id, flow |-> b.flow,
                        name |-> b.name]
        BY DEF DueAt, IsDue
      <4>2. /\ u.flow \in DOMAIN timers' /\ u.name \in DOMAIN timers'[u.flow]
            /\ timers'[u.flow][u.name].deadline <= timerNow
            /\ u = [deadline |-> timers'[u.flow][u.name].deadline,
                    id |-> timers'[u.flow][u.name].id, flow |-> u.flow,
                    name |-> u.name]
        BY <1>1, <4>1 DEF Armed
      <4>3. /\ u.flow \in DOMAIN timers /\ u.name \in DOMAIN timers[u.flow]
            /\ timers'[u.flow][u.name] = timers[u.flow][u.name]
            /\ <<u.flow, u.name>> # <<t.flow, t.name>>
        BY <1>3, <2>1, <4>2, FireKeepsTimers
      <4>4. u \in DueAt(timerNow)
        BY <1>2, <4>2, <4>3, DueMembers
      <4> QED
        BY <1>1, <1>2, <4>3, <4>4 DEF BatchInv
    <3> QED
      BY <3>1, <3>2 DEF BatchInv
  <2> QED
    BY <1>1, <1>2, <2>3, <2>4, <2>5, <2>6 DEF EngineInv
<1>4. CASE ~HasTimer(t.flow, t.name)
  <2>1. UNCHANGED <<sessions, clock, currentStates, variables, timers, feeds, lastFed>>
    BY <1>1, <1>4
  <2>2. AccessInv' /\ FlowStateTracked' /\ TimerTable(timers)'
    BY <1>1, <1>2, <2>1 DEF AccessInv, FlowStateTracked, TimerTable
  <2>3. DueAt(timerNow)' = DueAt(timerNow)
    BY <1>1, <2>1 DEF DueAt, Armed
  <2>4. t \notin DueAt(timerNow)
    BY <1>2, <1>4, DueMembers DEF HasTimer, TimersOf
  <2>5. BatchInv'
    BY <1>1, <1>2, <2>3, <2>4 DEF BatchInv
  <2> QED
    BY <1>1, <1>2, <2>2, <2>5 DEF EngineInv
<1> QED
  BY <1>3, <1>4

\* expire_idle drops the same flows from all maps.
LEMMA ExpireInv ==
    ASSUME EngineInv, NEW idle \in IdleTimeouts, ExpireIdle(idle)
    PROVE  EngineInv'
<1> DEFINE gone == {f \in DOMAIN sessions : sessions[f].lastAccess < Threshold(idle)}
<1>1. /\ sessions' = Without(sessions, gone)
      /\ currentStates' = Without(currentStates, gone)
      /\ variables' = Without(variables, gone) /\ timers' = Without(timers, gone)
      /\ due = {} /\ due' = due
      /\ UNCHANGED <<clock, timerNow, timerSeq, feeds, lastFed, untracked>>
  BY DEF ExpireIdle, DropStates, DropTimers, timerVars
<1>2. /\ AccessInv /\ FlowStateTracked /\ TimerTable(timers)
  BY DEF EngineInv
<1> HIDE DEF gone
<1>3. AccessInv'
  BY <1>1, <1>2 DEF AccessInv, Without
<1>4. FlowStateTracked'
  BY <1>1, <1>2 DEF FlowStateTracked, Without
<1>5. TimerTable(timers)'
  <2>1. TimerTable(Without(timers, gone))
    BY <1>2, DroppedTable
  <2> QED
    BY <1>1, <2>1 DEF TimerTable
<1>6. BatchInv'
  BY <1>1 DEF BatchInv
<1> QED
  BY <1>1, <1>3, <1>4, <1>5, <1>6 DEF EngineInv

\* The invariant holds of every reachable state of the engine.
THEOREM EngineInvariant == Spec => []EngineInv
<1>1. ASSUME EngineInv, [Next]_vars PROVE EngineInv'
  <2>1. CASE \E f \in Flows, p \in Packets : Receive(f, p)
    BY <1>1, <2>1, ReceiveInv
  <2>2. CASE \E f \in Flows, n \in TimerNames, d \in Delays : ScheduleTimer(f, n, d)
    BY <1>1, <2>2, ScheduleInv
  <2>3. CASE \E f \in Flows, n \in TimerNames : CancelTimer(f, n)
    BY <1>1, <2>3, CancelInv
  <2>4. CASE \E ticks \in Advances : AdvanceAndFire(ticks)
    BY <1>1, <2>4, AdvanceInv
  <2>5. CASE FireNext
    BY <1>1, <2>5, FireInv
  <2>6. CASE \E idle \in IdleTimeouts : ExpireIdle(idle)
    BY <1>1, <2>6, ExpireInv
  <2>7. CASE UNCHANGED vars
    <3>1. DueAt(timerNow)' = DueAt(timerNow)
      BY <2>7 DEF vars, timerVars, DueAt, Armed
    <3> QED
      BY <1>1, <2>7, <3>1
      DEF EngineInv, AccessInv, TimerTable, BatchInv, FlowStateTracked, vars, timerVars
  <2> QED
    BY <1>1, <2>1, <2>2, <2>3, <2>4, <2>5, <2>6, <2>7 DEF Next
<1> QED
  BY <1>1, InitEngine, PTL DEF Spec

-----------------------------------------------------------------------------
(* The properties. *)

\* However evictions, expiries and timer batches mix, the maps of the engine
\* describe the same flows (drop_flow_maps).
THEOREM MapsStayTogether == Spec => []FlowStateTracked
<1>1. EngineInv => FlowStateTracked
  BY DEF EngineInv
<1> QED
  BY <1>1, EngineInvariant, PTL

\* The access clock moves only when a flow is fed.
LEMMA OnlyFeedsTick ==
    ASSUME EngineInv, [Next]_vars, clock' # clock
    PROVE  \E f \in Flows : \E msg, ctx, tm : Feed(f, msg, ctx, tm)
<1>1. CASE \E f \in Flows, p \in Packets : Receive(f, p)
  BY <1>1 DEF Receive
<1>2. CASE FireNext
  <2>1. PICK t \in due :
          /\ t.flow \in Flows
          /\ \/ Feed(t.flow, TimerMsg[t.name], <<>>, Cancelled(t.flow, t.name))
             \/ UNCHANGED clock
    BY <1>2, FireTurn
  <2> QED
    BY <2>1
<1>3. CASE \/ \E f \in Flows, n \in TimerNames, d \in Delays : ScheduleTimer(f, n, d)
           \/ \E f \in Flows, n \in TimerNames : CancelTimer(f, n)
           \/ \E ticks \in Advances : AdvanceAndFire(ticks)
           \/ \E idle \in IdleTimeouts : ExpireIdle(idle)
           \/ UNCHANGED vars
  BY <1>3 DEF ScheduleTimer, CancelTimer, AdvanceAndFire, ExpireIdle, vars
<1> QED
  BY <1>1, <1>2, <1>3 DEF Next

\* A feed of a full table makes room at the expense of the flow that was fed
\* least recently (evict_lru), for any number of flows and sessions.
THEOREM EvictsLeastRecent == Spec => EvictionIsLru
<1>1. ASSUME EngineInv, [Next]_vars
      PROVE  [clock' # clock =>
                \A f \in DOMAIN sessions \ DOMAIN sessions', g \in DOMAIN sessions :
                   lastFed[f] <= lastFed[g]]_vars
  <2> SUFFICES ASSUME clock' # clock,
                      NEW e \in DOMAIN sessions \ DOMAIN sessions',
                      NEW g \in DOMAIN sessions
               PROVE  lastFed[e] <= lastFed[g]
    OBVIOUS
  <2>1. PICK f \in Flows : \E msg, ctx, tm : Feed(f, msg, ctx, tm)
    BY <1>1, OnlyFeedsTick
  <2>2. PICK msg, ctx, tm : Feed(f, msg, ctx, tm)
    BY <2>1
  <2>3. e \in Evicted(f)
    <3>1. DOMAIN sessions' = (DOMAIN sessions \ Evicted(f)) \cup {f}
      BY <2>2, FeedSessions, Zenon
    <3> QED
      BY <3>1
  <2> QED
    BY <1>1, <2>3, EvictedFacts DEF EngineInv
<1> QED
  BY <1>1, EngineInvariant, PTL DEF Spec, EvictionIsLru

\* expire_idle drops exactly the flows whose last feed is more than `idle` ticks
\* of the access clock ago.
THEOREM ExpiresByActivity == Spec => ExpiryMatchesActivity
<1>1. ASSUME EngineInv, [Next]_vars
      PROVE  [\A idle \in IdleTimeouts : ExpireIdle(idle) =>
                \A f \in DOMAIN sessions :
                   f \in DOMAIN sessions' <=> 2 * (feeds - lastFed[f]) <= idle]_vars
  <2> SUFFICES ASSUME NEW idle \in IdleTimeouts, ExpireIdle(idle),
                      NEW f \in DOMAIN sessions
               PROVE  f \in DOMAIN sessions' <=> 2 * (feeds - lastFed[f]) <= idle
    OBVIOUS
  <2>1. /\ f \in Flows /\ feeds \in Nat /\ clock = 2 * feeds
        /\ lastFed[f] \in Nat /\ lastFed[f] <= feeds
        /\ sessions[f].lastAccess = 2 * lastFed[f] /\ idle \in Nat
    BY <1>1, EngineConstants DEF EngineInv, AccessInv
  <2>2. f \in DOMAIN sessions' <=> ~(sessions[f].lastAccess < Threshold(idle))
    BY DEF ExpireIdle, Without
  <2>3. sessions[f].lastAccess < Threshold(idle) <=> 2 * lastFed[f] < 2 * feeds - idle
    BY <2>1 DEF Threshold
  <2> QED
    BY <2>1, <2>2, <2>3
<1> QED
  BY <1>1, EngineInvariant, PTL DEF Spec, ExpiryMatchesActivity

\* When the batch of a call is over, no timer whose deadline has come is armed,
\* whatever evictions the firings caused on the way (fire_due_timers).
THEOREM BatchesAreComplete == Spec => AllDueFired
<1>1. ASSUME EngineInv, EngineInv', [Next]_vars
      PROVE  [(timerNow' # timerNow \/ due # {}) /\ due' = {} =>
                \A f \in DOMAIN timers' : \A n \in DOMAIN timers'[f] :
                   timers'[f][n].deadline > timerNow']_vars
  <2> SUFFICES ASSUME timerNow' # timerNow \/ due # {}, due' = {},
                      NEW f \in DOMAIN timers', NEW n \in DOMAIN timers'[f]
               PROVE  timers'[f][n].deadline > timerNow'
    OBVIOUS
  <2>1. timers'[f][n].deadline \in Nat /\ timerNow' \in Nat
    BY <1>1, EngineConstants DEF EngineInv, TimerTable
  <2>2. TimerTable(timers) /\ timerSeq \in Nat
    BY <1>1 DEF EngineInv
  <2>3. CASE \E ticks \in Advances : AdvanceAndFire(ticks)
    <3>1. timers' = timers /\ DueAt(timerNow') = {}
      BY <2>3 DEF AdvanceAndFire
    <3>2. ~(timers[f][n].deadline <= timerNow')
      <4>1. timers[f][n].deadline <= timerNow' =>
               [deadline |-> timers[f][n].deadline, id |-> timers[f][n].id,
                flow |-> f, name |-> n] \in DueAt(timerNow')
        BY <2>2, <3>1, DueMembers
      <4> QED
        BY <3>1, <4>1
    <3> QED
      BY <2>1, <3>1, <3>2
  <2>4. CASE FireNext
    <3>1. PICK t \in due :
              /\ t.flow \in Flows /\ due' = due \ {t}
              /\ UNCHANGED <<timerNow, timerSeq, untracked>>
              /\ \/ /\ HasTimer(t.flow, t.name)
                    /\ Feed(t.flow, TimerMsg[t.name], <<>>, Cancelled(t.flow, t.name))
                 \/ /\ ~HasTimer(t.flow, t.name)
                    /\ UNCHANGED <<sessions, clock, currentStates, variables, timers,
                                   feeds, lastFed>>
      BY <1>1, <2>4, FireTurn
    <3>2. /\ f \in DOMAIN timers /\ n \in DOMAIN timers[f]
          /\ timers'[f][n] = timers[f][n] /\ <<f, n>> # <<t.flow, t.name>>
      BY <1>1, <3>1, FireKeepsTimers DEF HasTimer, TimersOf
    <3>3. CASE timers[f][n].deadline <= timerNow
      <4> DEFINE u == [deadline |-> timers[f][n].deadline, id |-> timers[f][n].id,
                       flow |-> f, name |-> n]
      <4>1. u \in DueAt(timerNow)
        BY <2>2, <3>2, <3>3, DueMembers
      <4>2. u # t
        BY <3>2
      <4> QED
        BY <1>1, <3>1, <4>1, <4>2 DEF EngineInv, BatchInv
    <3> QED
      BY <2>1, <3>1, <3>2, <3>3 DEF EngineInv
  <2>5. CASE \/ \E g \in Flows, p \in Packets : Receive(g, p)
             \/ \E g \in Flows, k \in TimerNames, d \in Delays : ScheduleTimer(g, k, d)
             \/ \E g \in Flows, k \in TimerNames : CancelTimer(g, k)
             \/ \E idle \in IdleTimeouts : ExpireIdle(idle)
             \/ UNCHANGED vars
    BY <2>5 DEF Receive, ScheduleTimer, CancelTimer, ExpireIdle, vars, timerVars
  <2> QED
    BY <1>1, <2>3, <2>4, <2>5 DEF Next
<1> QED
  BY <1>1, EngineInvariant, PTL DEF Spec, AllDueFired

\* Firing a batch neither revives a flow that an earlier firing evicted nor, as
\* long as timers are armed on sessions only, costs any flow its session.
THEOREM BatchesDisturbNoFlow == Spec => TimersDisturbNoFlow
<1>1. ASSUME EngineInv, [Next]_vars
      PROVE  [due # {} =>
                /\ DOMAIN sessions' \ DOMAIN sessions \subseteq DOMAIN timers
                /\ ~untracked => DOMAIN sessions' = DOMAIN sessions]_vars
  <2> SUFFICES ASSUME due # {}
               PROVE  /\ DOMAIN sessions' \ DOMAIN sessions \subseteq DOMAIN timers
                      /\ ~untracked => DOMAIN sessions' = DOMAIN sessions
    OBVIOUS
  <2>1. CASE FireNext
    <3>1. PICK t \in due :
              /\ t.flow \in Flows
              /\ \/ /\ HasTimer(t.flow, t.name)
                    /\ Feed(t.flow, TimerMsg[t.name], <<>>, Cancelled(t.flow, t.name))
                 \/ UNCHANGED sessions
      BY <1>1, <2>1, FireTurn
    <3>2. CASE UNCHANGED sessions
      BY <3>2
    <3>3. CASE /\ HasTimer(t.flow, t.name)
               /\ Feed(t.flow, TimerMsg[t.name], <<>>, Cancelled(t.flow, t.name))
      <4>1. t.flow \in DOMAIN timers
        BY <3>3 DEF HasTimer, TimersOf
      <4>2. DOMAIN sessions' = (DOMAIN sessions \ Evicted(t.flow)) \cup {t.flow}
        BY <3>3, FeedSessions
      <4>3. ~untracked => t.flow \in DOMAIN sessions
        BY <1>1, <4>1 DEF EngineInv, FlowStateTracked
      <4>4. t.flow \in DOMAIN sessions => Evicted(t.flow) = {}
        BY <1>1, <3>1, EvictedFacts DEF EngineInv
      <4> QED
        BY <4>1, <4>2, <4>3, <4>4
    <3> QED
      BY <3>1, <3>2, <3>3
  <2>2. CASE \/ \E g \in Flows, p \in Packets : Receive(g, p)
             \/ \E g \in Flows, k \in TimerNames, d \in Delays : ScheduleTimer(g, k, d)
             \/ \E g \in Flows, k \in TimerNames : CancelTimer(g, k)
             \/ \E ticks \in Advances : AdvanceAndFire(ticks)
             \/ \E idle \in IdleTimeouts : ExpireIdle(idle)
             \/ UNCHANGED vars
    BY <2>2 DEF Receive, ScheduleTimer, CancelTimer, AdvanceAndFire, ExpireIdle, vars
  <2> QED
    BY <1>1, <2>1, <2>2 DEF Next
<1> QED
  BY <1>1, EngineInvariant, PTL DEF Spec, TimersDisturbNoFlow

-----------------------------------------------------------------------------
(* The machines. *)

\* The first member of a set of positions.
LEMMA FirstPosition ==
    ASSUME NEW S \in SUBSET Nat, S # {}
    PROVE  /\ (CHOOSE i \in S : \A j \in S : i <= j) \in S
           /\ \A j \in S : (CHOOSE i \in S : \A k \in S : i <= k) <= j
BY LeastNatural

\* A position of the states of a machine is a natural number.
LEMMA StatePositions ==
    ASSUME NEW m \in DOMAIN Program
    PROVE  /\ DOMAIN Program[m].states = 1..Len(Program[m].states)
           /\ Len(Program[m].states) \in Nat
BY MachineShape

\* The machines answer a message one after the other: turn i of the loop in
\* feed is a visit of the i-th machine.
LEMMA OutcomeRun ==
    ASSUME NEW ord, Len(ord) \in Nat, NEW cur, NEW own, NEW msg, NEW ctx
    PROVE  \E run :
              /\ run[0] = [current |-> cur, new |-> cur, own |-> own]
              /\ \A i \in 0..(Len(ord) - 1) :
                    run[i + 1] = Visit(run[i], ord[i + 1], msg, ctx)
              /\ Outcome(ord, cur, own, msg, ctx) = run[Len(ord)]
<1> DEFINE r0 == [current |-> cur, new |-> cur, own |-> own]
           Table(g, k) == g = [i \in 0..k |-> IF i = 0 THEN r0
                                              ELSE Visit(g[i - 1], ord[i], msg, ctx)]
           S == {k \in Nat : \E g : Table(g, k)}
<1> HIDE DEF r0
<1>1. 0 \in S
  <2> DEFINE g == [i \in 0..0 |-> r0]
  <2>1. g = [i \in 0..0 |-> IF i = 0 THEN r0 ELSE Visit(g[i - 1], ord[i], msg, ctx)]
    OBVIOUS
  <2> QED
    BY <2>1
<1>2. ASSUME NEW k \in Nat, k \in S PROVE k + 1 \in S
  <2>1. PICK g : Table(g, k)
    BY <1>2
  <2> DEFINE h == [i \in 0..(k + 1) |-> IF i = k + 1 THEN Visit(g[k], ord[i], msg, ctx)
                                        ELSE g[i]]
  <2>2. \A i \in 0..(k + 1) : h[i] = IF i = 0 THEN r0
                                     ELSE Visit(h[i - 1], ord[i], msg, ctx)
    <3> SUFFICES ASSUME NEW i \in 0..(k + 1)
                 PROVE  h[i] = IF i = 0 THEN r0 ELSE Visit(h[i - 1], ord[i], msg, ctx)
      OBVIOUS
    <3>1. CASE i = k + 1
      BY <3>1
    <3>2. CASE i \in 0..k
      <4>1. g[i] = IF i = 0 THEN r0 ELSE Visit(g[i - 1], ord[i], msg, ctx)
        BY <2>1, <3>2
      <4>2. h[i] = g[i] /\ (i # 0 => h[i - 1] = g[i - 1])
        BY <3>2
      <4> QED
        BY <4>1, <4>2
    <3> QED
      BY <3>1, <3>2
  <2>3. Table(h, k + 1)
    BY <2>2
  <2> HIDE DEF h, Table
  <2>4. \E e : Table(e, k + 1)
    BY <2>3
  <2> QED
    BY <2>4
<1>3. Len(ord) \in S
  BY <1>1, <1>2, AllNaturals
<1> DEFINE run == CHOOSE g : Table(g, Len(ord))
<1>4. Table(run, Len(ord))
  BY <1>3
<1>5. Outcome(ord, cur, own, msg, ctx) = run[Len(ord)]
  BY DEF Outcome, r0
<1>6. run[0] = r0 /\ \A i \in 0..(Len(ord) - 1) :
                         run[i + 1] = Visit(run[i], ord[i + 1], msg, ctx)
  <2> HIDE DEF run
  <2>1. \A i \in 0..Len(ord) : run[i] = IF i = 0 THEN r0
                                         ELSE Visit(run[i - 1], ord[i], msg, ctx)
    BY <1>4
  <2>2. 0 \in 0..Len(ord) /\ \A i \in 0..(Len(ord) - 1) :
            i + 1 \in 0..Len(ord) /\ i + 1 # 0 /\ (i + 1) - 1 = i
    OBVIOUS
  <2> QED
    BY <2>1, <2>2
<1> HIDE DEF run
<1> QED
  BY <1>5, <1>6 DEF r0

\* The machines of the engine are visited in some order, each of them once.
LEMMA OrderInvariant == Spec => [](order \in Seq(DOMAIN Program))
<1>1. Init => order \in Seq(DOMAIN Program)
  BY MachineShape, FS_CardinalityType DEF Init, SetToSeqs
<1>2. order \in Seq(DOMAIN Program) /\ [Next]_vars => (order \in Seq(DOMAIN Program))'
  BY DEF Next, Receive, ScheduleTimer, CancelTimer, AdvanceAndFire, FireNext,
         ExpireIdle, vars
<1> QED
  BY <1>1, <1>2, PTL DEF Spec

\* The state a machine starts in is one of its states.
LEMMA InitialDeclared ==
    ASSUME NEW m \in DOMAIN Program
    PROVE  Initial(m) \in StateNames
<1> DEFINE states == Program[m].states
           named == {i \in DOMAIN states : states[i] # "IDLE"}
<1>1. named \in SUBSET Nat /\ \A i \in named : states[i] \in StateNames
  BY StatePositions DEF StateNames, ToSet
<1>2. CASE named = {}
  BY <1>2 DEF Initial, StateNames
<1>3. CASE named # {}
  <2>1. (CHOOSE i \in named : \A j \in named : i <= j) \in named
    <3> HIDE DEF named
    <3> QED
      BY <1>1, <1>3, FirstPosition
  <2> QED
    BY <1>1, <1>3, <2>1 DEF Initial
<1> QED
  BY <1>2, <1>3

\* Every transition leads to a declared state.
DeclaredTargets ==
    \A m \in DOMAIN Program : \A s \in DOMAIN Program[m].trans :
        \A i \in DOMAIN Program[m].trans[s] : Program[m].trans[s][i].to \in StateNames

\* The transition taken is one of the machine's.
LEMMA FirstIsHit ==
    ASSUME NEW m \in DOMAIN Program, NEW s, NEW hits \in SUBSET DOMAIN Transitions(m, s),
           hits # {}
    PROVE  /\ First(hits) \in hits
           /\ s \in DOMAIN Program[m].trans
           /\ Transitions(m, s) = Program[m].trans[s]
<1>1. s \in DOMAIN Program[m].trans /\ Transitions(m, s) = Program[m].trans[s]
  BY DEF Transitions
<1>2. hits \in SUBSET Nat
  BY <1>1, MachineShape
<1> QED
  BY <1>1, <1>2, FirstPosition DEF First

\* A visit leads from declared states to declared states.
LEMMA VisitDeclared ==
    ASSUME DeclaredTargets, NEW m \in DOMAIN Program, NEW r, NEW msg, NEW ctx,
           r.current \in StateNames, r.new \in StateNames
    PROVE  /\ Visit(r, m, msg, ctx).current \in StateNames
           /\ Visit(r, m, msg, ctx).new \in StateNames
<1> DEFINE cur == IF r.current = "IDLE" THEN Initial(m) ELSE r.current
           new == IF r.current = "IDLE" THEN Initial(m) ELSE r.new
           trs == Transitions(m, cur)
           hits == {i \in DOMAIN trs : trs[i].msg = msg /\ Guard(trs[i], r.own, ctx)}
<1>1. cur \in StateNames /\ new \in StateNames
  BY InitialDeclared
<1>2. CASE hits = {}
  <2>1. Visit(r, m, msg, ctx) = [r EXCEPT !.current = cur, !.new = new]
    BY <1>2 DEF Visit
  <2> QED
    BY <1>1, <2>1
<1>3. CASE hits # {}
  <2>1. Visit(r, m, msg, ctx) = [current |-> cur, new |-> trs[First(hits)].to,
                                 own |-> Assign(r.own, trs[First(hits)].sets, ctx)]
    BY <1>3 DEF Visit
  <2>2. /\ First(hits) \in DOMAIN trs
        /\ cur \in DOMAIN Program[m].trans /\ trs = Program[m].trans[cur]
    BY <1>3, FirstIsHit
  <2>3. trs[First(hits)].to \in StateNames
    BY <2>2 DEF DeclaredTargets
  <2> QED
    BY <1>1, <2>1, <2>3
<1> QED
  BY <1>2, <1>3

\* So does a message through all machines.
LEMMA OutcomeDeclared ==
    ASSUME DeclaredTargets, NEW ord \in Seq(DOMAIN Program), NEW cur \in StateNames,
           NEW own, NEW msg, NEW ctx
    PROVE  Outcome(ord, cur, own, msg, ctx).new \in StateNames
<1>1. Len(ord) \in Nat /\ \A i \in 0..(Len(ord) - 1) : ord[i + 1] \in DOMAIN Program
  OBVIOUS
<1>2. PICK run :
         /\ run[0] = [current |-> cur, new |-> cur, own |-> own]
         /\ \A i \in 0..(Len(ord) - 1) :
               run[i + 1] = Visit(run[i], ord[i + 1], msg, ctx)
         /\ Outcome(ord, cur, own, msg, ctx) = run[Len(ord)]
  BY <1>1, OutcomeRun
<1> DEFINE S == {i \in 0..Len(ord) : run[i].current \in StateNames /\ run[i].new \in StateNames}
<1>3. 0 \in S
  BY <1>1, <1>2
<1>4. ASSUME NEW i \in 0..(Len(ord) - 1), i \in S PROVE i + 1 \in S
  <2>1. run[i + 1] = Visit(run[i], ord[i + 1], msg, ctx) /\ ord[i + 1] \in DOMAIN Program
    BY <1>1, <1>2
  <2>2. run[i].current \in StateNames /\ run[i].new \in StateNames
    BY <1>4
  <2>3. run[i + 1].current \in StateNames /\ run[i + 1].new \in StateNames
    BY <2>1, <2>2, VisitDeclared
  <2> QED
    BY <1>1, <2>3
<1>5. Len(ord) \in S
  <2> HIDE DEF S
  <2>1. \A i \in 0..Len(ord) : i \in S
    BY <1>1, <1>3, <1>4, UpTo
  <2> QED
    BY <1>1, <2>1
<1> QED
  BY <1>2, <1>5

\* Every flow is in a declared state.
StatesDeclared == \A f \in DOMAIN currentStates : currentStates[f] \in StateNames

\* A feed leaves its flow in a declared state and the others where they were.
LEMMA FeedDeclared ==
    ASSUME DeclaredTargets, StatesDeclared, order \in Seq(DOMAIN Program),
           NEW f, NEW msg, NEW ctx, NEW tm, Feed(f, msg, ctx, tm)
    PROVE  StatesDeclared'
<1> DEFINE out == Outcome(order, CurrentState(f), VariablesOf(f), msg, ctx)
<1>1. CurrentState(f) \in StateNames
  BY DEF CurrentState, StatesDeclared, StateNames
<1>2. out.new \in StateNames
  BY <1>1, OutcomeDeclared
<1>3. currentStates' = With(Without(currentStates, Evicted(f)), f, out.new)
  BY DEF Feed, DropStates
<1> HIDE DEF out
<1> QED
  BY <1>2, <1>3 DEF StatesDeclared, With, Without

\* The declarations hold of every reachable state, provided that transitions lead
\* to declared states, which the parser does not check.
THEOREM TypeCorrect ==
    ASSUME DeclaredTargets
    PROVE  Spec => []TypeOK
<1>1. Init => StatesDeclared
  BY DEF Init, StatesDeclared
<1>2. ASSUME EngineInv, order \in Seq(DOMAIN Program), StatesDeclared, [Next]_vars
      PROVE  StatesDeclared'
  <2>1. CASE \E f \in Flows, p \in Packets : Receive(f, p)
    BY <1>2, <2>1, FeedDeclared DEF Receive
  <2>2. CASE FireNext
    <3>1. PICK t \in due :
            \/ Feed(t.flow, TimerMsg[t.name], <<>>, Cancelled(t.flow, t.name))
            \/ UNCHANGED currentStates
      BY <1>2, <2>2, FireTurn
    <3>2. CASE UNCHANGED currentStates
      BY <1>2, <3>2 DEF StatesDeclared
    <3>3. CASE Feed(t.flow, TimerMsg[t.name], <<>>, Cancelled(t.flow, t.name))
      BY <1>2, <3>3, FeedDeclared
    <3> QED
      BY <3>1, <3>2, <3>3
  <2>3. CASE \E idle \in IdleTimeouts : ExpireIdle(idle)
    BY <1>2, <2>3 DEF ExpireIdle, DropStates, StatesDeclared, Without
  <2>4. CASE \/ \E f \in Flows, n \in TimerNames, d \in Delays : ScheduleTimer(f, n, d)
             \/ \E f \in Flows, n \in TimerNames : CancelTimer(f, n)
             \/ \E ticks \in Advances : AdvanceAndFire(ticks)
             \/ UNCHANGED vars
    BY <1>2, <2>4 DEF ScheduleTimer, CancelTimer, AdvanceAndFire, vars, StatesDeclared
  <2> QED
    BY <1>2, <2>1, <2>2, <2>3, <2>4 DEF Next
<1>3. EngineInv /\ StatesDeclared => TypeOK
  <2> SUFFICES ASSUME EngineInv, StatesDeclared PROVE TypeOK
    OBVIOUS
  <2>1. /\ DOMAIN sessions \subseteq Flows /\ DOMAIN timers \subseteq Flows
        /\ clock \in Nat /\ timerSeq \in Nat /\ timerNow \in 0..MaxTick
    BY DEF EngineInv, AccessInv, TimerTable
  <2>2. ASSUME NEW f \in DOMAIN sessions
        PROVE  sessions[f].state \in 0..2 /\ sessions[f].lastAccess \in 0..clock
    <3>1. sessions[f].state = Numeric(currentStates[f])
      BY DEF EngineInv, FlowStateTracked
    <3>2. sessions[f].state \in 0..2
      BY <3>1 DEF Numeric
    <3>3. /\ feeds \in Nat /\ clock = 2 * feeds /\ lastFed[f] \in Nat
          /\ lastFed[f] <= feeds /\ sessions[f].lastAccess = 2 * lastFed[f]
      BY DEF EngineInv, AccessInv
    <3> QED
      BY <3>2, <3>3
  <2> QED
    BY <2>1, <2>2 DEF EngineInv, TimerTable, StatesDeclared, TypeOK
<1> QED
  BY <1>1, <1>2, <1>3, EngineInvariant, OrderInvariant, PTL DEF Spec

-----------------------------------------------------------------------------
(* With one machine, every flow runs it as if alone (FlowMachine). *)

\* The engine has one machine, which declares some state, but none named IDLE,
\* the name the engine takes for "not started".
SoleMachine ==
    /\ DOMAIN Program = {TheMachine}
    /\ Program[TheMachine].states # <<>>
    /\ "IDLE" \notin ToSet(Program[TheMachine].states)
    /\ \A s \in DOMAIN Program[TheMachine].trans :
          \A i \in DOMAIN Program[TheMachine].trans[s] :
             Program[TheMachine].trans[s][i].to # "IDLE"

IsMap(fn) == fn = [x \in DOMAIN fn |-> fn[x]]

\* No flow is in the state IDLE, and what was set is a map.
StartedInv ==
    /\ order = <<TheMachine>>
    /\ \A f \in DOMAIN currentStates : currentStates[f] # "IDLE"
    /\ \A f \in DOMAIN variables : IsMap(variables[f])

\* The declared states of the machine start with the one it starts in.
LEMMA StartsInFirst ==
    ASSUME SoleMachine
    PROVE  /\ Initial(TheMachine) = Head(Program[TheMachine].states)
           /\ Initial(TheMachine) # "IDLE"
<1> DEFINE states == Program[TheMachine].states
           named == {i \in DOMAIN states : states[i] # "IDLE"}
<1>1. /\ states \in Seq(STRING) /\ states # <<>>
      /\ \A i \in DOMAIN states : states[i] # "IDLE"
  BY MachineShape DEF SoleMachine, ToSet
<1>2. /\ Len(states) \in Nat /\ 1 <= Len(states) /\ DOMAIN states = 1..Len(states)
      /\ Head(states) = states[1]
  BY <1>1
<1>3. named = 1..Len(states)
  BY <1>1, <1>2
<1>4. (CHOOSE i \in named : \A j \in named : i <= j) = 1
  <2>1. /\ (CHOOSE i \in named : \A j \in named : i <= j) \in named
        /\ \A j \in named : (CHOOSE i \in named : \A k \in named : i <= k) <= j
    <3>1. named \in SUBSET Nat /\ named # {}
      BY <1>2, <1>3
    <3> HIDE DEF named
    <3> QED
      BY <3>1, FirstPosition
  <2> QED
    BY <1>2, <1>3, <2>1
<1>5. Initial(TheMachine) = IF named = {} THEN "IDLE"
                            ELSE states[CHOOSE i \in named : \A j \in named : i <= j]
  BY Zenon DEF Initial
<1>6. Initial(TheMachine) = states[1] /\ 1 \in DOMAIN states
  <2> HIDE DEF named
  <2>1. named # {} /\ 1 \in 1..Len(states)
    BY <1>2, <1>3
  <2> HIDE DEF states
  <2>2. Initial(TheMachine) = states[CHOOSE i \in named : \A j \in named : i <= j]
    BY <1>5, <2>1, Zenon
  <2> QED
    BY <1>2, <1>4, <2>1, <2>2
<1> QED
  BY <1>1, <1>2, <1>6

\* Looking a name up is the same in the engine and in the promise.
LEMMA EvalIsLookup ==
    ASSUME NEW own, NEW ctx, NEW x
    PROVE  Eval(own, ctx, x) = Abstract!Lookup(Abstract!Env(own, ctx), x)
BY DEF Eval, Abstract!Lookup, Abstract!Env

\* One `set` of a transition, in the engine and in the promise.
SetOne(own, s, ctx) == With(own, s.var, Eval(own, ctx, s.value))

LEMMA SetOneIsPromised ==
    ASSUME NEW own, NEW s, NEW ctx
    PROVE  SetOne(own, s, ctx) =
              [x \in DOMAIN own \cup {s.var} |->
                  IF x = s.var THEN Abstract!Lookup(Abstract!Env(own, ctx), s.value)
                  ELSE own[x]]
BY EvalIsLookup DEF SetOne, With

\* A flow's variables after each of the first n sets.
SetTable(g, own, sets, ctx, n) ==
    g = [k \in 0..n |-> IF k = 0 THEN own ELSE SetOne(g[k - 1], sets[k], ctx)]

\* The sets run one after the other: there is such a table.
LEMMA SetTableExists ==
    ASSUME NEW own, NEW sets, NEW ctx, NEW n \in Nat
    PROVE  \E g : SetTable(g, own, sets, ctx, n)
<1> DEFINE S == {k \in Nat : \E g : SetTable(g, own, sets, ctx, k)}
<1>1. 0 \in S
  <2> DEFINE g == [i \in 0..0 |-> own]
  <2>1. g = [i \in 0..0 |-> IF i = 0 THEN own ELSE SetOne(g[i - 1], sets[i], ctx)]
    OBVIOUS
  <2> QED
    BY <2>1 DEF SetTable
<1>2. ASSUME NEW k \in Nat, k \in S PROVE k + 1 \in S
  <2>1. PICK g : SetTable(g, own, sets, ctx, k)
    BY <1>2
  <2> DEFINE h == [i \in 0..(k + 1) |-> IF i = k + 1 THEN SetOne(g[k], sets[i], ctx)
                                        ELSE g[i]]
  <2>2. \A i \in 0..(k + 1) : h[i] = IF i = 0 THEN own ELSE SetOne(h[i - 1], sets[i], ctx)
    <3> SUFFICES ASSUME NEW i \in 0..(k + 1)
                 PROVE  h[i] = IF i = 0 THEN own ELSE SetOne(h[i - 1], sets[i], ctx)
      OBVIOUS
    <3>1. CASE i = k + 1
      BY <3>1
    <3>2. CASE i \in 0..k
      <4>1. g[i] = IF i = 0 THEN own ELSE SetOne(g[i - 1], sets[i], ctx)
        BY <2>1, <3>2 DEF SetTable
      <4>2. h[i] = g[i] /\ (i # 0 => h[i - 1] = g[i - 1])
        BY <3>2
      <4> QED
        BY <4>1, <4>2
    <3> QED
      BY <3>1, <3>2
  <2>3. SetTable(h, own, sets, ctx, k + 1)
    BY <2>2 DEF SetTable
  <2> HIDE DEF h
  <2>4. \E e : SetTable(e, own, sets, ctx, k + 1)
    BY <2>3
  <2> QED
    BY <2>4
<1>3. n \in S
  BY <1>1, <1>2, AllNaturals
<1> QED
  BY <1>3

\* What a table says of each turn.
LEMMA SetTableTurns ==
    ASSUME NEW own, NEW sets, NEW ctx, NEW n \in Nat, NEW g, SetTable(g, own, sets, ctx, n)
    PROVE  /\ g[0] = own
           /\ \A k \in 0..(n - 1) : g[k + 1] = SetOne(g[k], sets[k + 1], ctx)
<1>1. \A k \in 0..n : g[k] = IF k = 0 THEN own ELSE SetOne(g[k - 1], sets[k], ctx)
  BY DEF SetTable
<1>2. 0 \in 0..n /\ \A k \in 0..(n - 1) : k + 1 \in 0..n /\ k + 1 # 0 /\ (k + 1) - 1 = k
  OBVIOUS
<1> QED
  BY <1>1, <1>2

\* A transition's sets give the last entry of a table, in the engine (feed) ...
LEMMA AssignRuns ==
    ASSUME NEW own, NEW sets, NEW ctx, Len(sets) \in Nat
    PROVE  \E g : /\ SetTable(g, own, sets, ctx, Len(sets))
                  /\ Assign(own, sets, ctx) = g[Len(sets)]
<1> DEFINE g == CHOOSE e : e = [k \in 0..Len(sets) |->
                                 IF k = 0 THEN own
                                 ELSE With(e[k - 1], sets[k].var,
                                           Eval(e[k - 1], ctx, sets[k].value))]
<1>1. \E e : e = [k \in 0..Len(sets) |->
                    IF k = 0 THEN own
                    ELSE With(e[k - 1], sets[k].var, Eval(e[k - 1], ctx, sets[k].value))]
  <2>1. \E e : SetTable(e, own, sets, ctx, Len(sets))
    BY SetTableExists
  <2> QED
    BY <2>1, Zenon DEF SetTable, SetOne
<1>2. SetTable(g, own, sets, ctx, Len(sets))
  BY <1>1, Zenon DEF SetTable, SetOne
<1>3. Assign(own, sets, ctx) = g[Len(sets)]
  BY Zenon DEF Assign
<1> HIDE DEF g
<1> QED
  BY <1>2, <1>3

\* ... and in the promise.
LEMMA PromiseRuns ==
    ASSUME NEW own, NEW sets, NEW ctx, Len(sets) \in Nat
    PROVE  \E g : /\ SetTable(g, own, sets, ctx, Len(sets))
                  /\ Abstract!Assigned(own, sets, ctx) = g[Len(sets)]
<1> DEFINE F(e) == [k \in 0..Len(sets) |->
                      IF k = 0 THEN own
                      ELSE [x \in DOMAIN e[k - 1] \cup {sets[k].var} |->
                               IF x = sets[k].var
                               THEN Abstract!Lookup(Abstract!Env(e[k - 1], ctx), sets[k].value)
                               ELSE e[k - 1][x]]]
           g == CHOOSE e : e = F(e)
<1>1. ASSUME NEW e PROVE SetTable(e, own, sets, ctx, Len(sets)) <=> e = F(e)
  <2>1. F(e) = [k \in 0..Len(sets) |->
                  IF k = 0 THEN own ELSE SetOne(e[k - 1], sets[k], ctx)]
    BY SetOneIsPromised
  <2> QED
    BY <2>1 DEF SetTable
<1>2. Abstract!Assigned(own, sets, ctx) = g[Len(sets)]
  BY Zenon DEF Abstract!Assigned
<1> HIDE DEF F
<1>3. \E e : e = F(e)
  BY <1>1, SetTableExists
<1>4. g = F(g)
  BY <1>3
<1> HIDE DEF g
<1> QED
  BY <1>1, <1>2, <1>4

\* So the engine sets what is promised.
LEMMA AssignIsPromised ==
    ASSUME NEW own, NEW sets, NEW ctx, Len(sets) \in Nat
    PROVE  /\ Assign(own, sets, ctx) = Abstract!Assigned(own, sets, ctx)
           /\ IsMap(own) => IsMap(Assign(own, sets, ctx))
           /\ IsMap(own) /\ Assign(own, sets, ctx) = <<>> => own = <<>>
<1>1. PICK g : /\ SetTable(g, own, sets, ctx, Len(sets))
               /\ Assign(own, sets, ctx) = g[Len(sets)]
  BY AssignRuns
<1>2. PICK h : /\ SetTable(h, own, sets, ctx, Len(sets))
               /\ Abstract!Assigned(own, sets, ctx) = h[Len(sets)]
  BY PromiseRuns
<1>3. /\ g[0] = own
      /\ \A k \in 0..(Len(sets) - 1) : g[k + 1] = SetOne(g[k], sets[k + 1], ctx)
  BY <1>1, SetTableTurns
<1>4. /\ h[0] = own
      /\ \A k \in 0..(Len(sets) - 1) : h[k + 1] = SetOne(h[k], sets[k + 1], ctx)
  BY <1>2, SetTableTurns
<1> DEFINE S == {k \in 0..Len(sets) : /\ g[k] = h[k]
                                      /\ IsMap(own) => IsMap(g[k])
                                      /\ DOMAIN own \subseteq DOMAIN g[k]}
<1>5. 0 \in S
  BY <1>3, <1>4
<1>6. ASSUME NEW k \in 0..(Len(sets) - 1), k \in S PROVE k + 1 \in S
  <2>1. g[k + 1] = SetOne(g[k], sets[k + 1], ctx) /\ h[k + 1] = g[k + 1]
    BY <1>3, <1>4, <1>6
  <2>2. /\ IsMap(SetOne(g[k], sets[k + 1], ctx))
        /\ DOMAIN g[k] \subseteq DOMAIN SetOne(g[k], sets[k + 1], ctx)
    BY DEF SetOne, With, IsMap
  <2>3. k + 1 \in 0..Len(sets)
    OBVIOUS
  <2> QED
    BY <1>6, <2>1, <2>2, <2>3
<1>7. Len(sets) \in S
  <2> HIDE DEF S
  <2>1. \A k \in 0..Len(sets) : k \in S
    BY <1>5, <1>6, UpTo
  <2> QED
    BY <2>1
<1>8. ASSUME IsMap(own), Assign(own, sets, ctx) = <<>> PROVE own = <<>>
  <2>1. g[Len(sets)] = <<>> /\ DOMAIN own \subseteq DOMAIN g[Len(sets)]
    BY <1>1, <1>7, <1>8, Zenon
  <2>2. DOMAIN own = {}
    BY <2>1
  <2> QED
    BY <1>8, <2>2 DEF IsMap
<1> QED
  BY <1>1, <1>2, <1>7, <1>8

\* The promised flow machine takes the first of the matching transitions.
LEMMA AfterTakesFirst ==
    ASSUME NEW r, NEW msg, NEW ctx
    PROVE  Abstract!After(r, msg, ctx) =
              LET trs  == Transitions(TheMachine, r.state)
                  hits == {i \in DOMAIN trs :
                              Abstract!Matches(trs[i], msg, Abstract!Env(r.vars, ctx))}
              IN  IF hits = {} THEN r
                  ELSE LET tr == trs[First(hits)]
                       IN  [state |-> tr.to, vars |-> Abstract!Assigned(r.vars, tr.sets, ctx)]
BY Zenon DEF Abstract!After, Transitions, First

\* The state a message finds a flow in, and what the machine answers.
StartFrom(cur) == IF cur = "IDLE" THEN Head(Program[TheMachine].states) ELSE cur
Answer(cur, own, msg, ctx) ==
    Visit([current |-> cur, new |-> cur, own |-> own], TheMachine, msg, ctx)

\* A visit of the machine is a step of the promised flow machine.
LEMMA VisitIsAfter ==
    ASSUME SoleMachine, NEW cur, NEW own, NEW msg, NEW ctx
    PROVE  /\ Abstract!After([state |-> StartFrom(cur), vars |-> own], msg, ctx)
                = [state |-> Answer(cur, own, msg, ctx).new,
                   vars |-> Answer(cur, own, msg, ctx).own]
           /\ StartFrom(cur) # "IDLE" => Answer(cur, own, msg, ctx).new # "IDLE"
           /\ IsMap(own) => IsMap(Answer(cur, own, msg, ctx).own)
           /\ IsMap(own) /\ Answer(cur, own, msg, ctx).own = <<>> => own = <<>>
<1>. PICK start : start = StartFrom(cur)
  OBVIOUS
<1>. PICK out : out = Answer(cur, own, msg, ctx)
  OBVIOUS
<1> DEFINE r == [current |-> cur, new |-> cur, own |-> own]
           a == [state |-> start, vars |-> own]
<1>1. /\ (IF r.current = "IDLE" THEN Initial(TheMachine) ELSE r.current) = start
      /\ (IF r.current = "IDLE" THEN Initial(TheMachine) ELSE r.new) = start
      /\ r.own = own
  BY StartsInFirst DEF StartFrom
<1>2. PICK trs : trs = Transitions(TheMachine, start)
  OBVIOUS
<1>3. PICK hits : hits = {i \in DOMAIN trs : trs[i].msg = msg /\ Guard(trs[i], own, ctx)}
  OBVIOUS
<1>4. PICK tr : tr = trs[First(hits)]
  OBVIOUS
<1>5. out = IF hits = {} THEN [r EXCEPT !.current = start, !.new = start]
            ELSE [current |-> start, new |-> tr.to, own |-> Assign(own, tr.sets, ctx)]
  BY <1>1, <1>2, <1>3, <1>4, Zenon DEF Visit, Answer
<1>6. Abstract!After(a, msg, ctx) =
        IF hits = {} THEN a
        ELSE [state |-> tr.to, vars |-> Abstract!Assigned(own, tr.sets, ctx)]
  <2>1. PICK b : b = a
    OBVIOUS
  <2>2. b.state = start /\ b.vars = own
    BY <2>1
  <2>3. hits = {i \in DOMAIN Transitions(TheMachine, b.state) :
                  Abstract!Matches(Transitions(TheMachine, b.state)[i], msg,
                                   Abstract!Env(b.vars, ctx))}
    BY <1>2, <1>3, <2>2, EvalIsLookup DEF Guard, Abstract!Matches
  <2>4. Abstract!After(b, msg, ctx) =
          IF hits = {} THEN b
          ELSE [state |-> Transitions(TheMachine, b.state)[First(hits)].to,
                vars |-> Abstract!Assigned(b.vars,
                            Transitions(TheMachine, b.state)[First(hits)].sets, ctx)]
    BY <2>3, AfterTakesFirst, Zenon
  <2> QED
    BY <1>2, <1>4, <2>1, <2>2, <2>4
<1>7. CASE hits = {}
  BY <1>5, <1>6, <1>7
<1>8. CASE hits # {}
  <2>1. /\ First(hits) \in hits
        /\ start \in DOMAIN Program[TheMachine].trans
        /\ trs = Program[TheMachine].trans[start]
    <3>1. TheMachine \in DOMAIN Program /\ hits \in SUBSET DOMAIN Transitions(TheMachine, start)
      BY <1>2, <1>3 DEF SoleMachine
    <3> QED
      BY <1>2, <1>8, <3>1, FirstIsHit
  <2>2. tr.to # "IDLE"
    BY <1>3, <1>4, <2>1 DEF SoleMachine
  <2>3. out.new = tr.to /\ out.own = Assign(own, tr.sets, ctx)
    BY <1>5, <1>8
  <2>4. Len(tr.sets) \in Nat
    <3>1. First(hits) \in DOMAIN trs
      BY <1>3, <2>1
    <3>2. TheMachine \in DOMAIN Program
      BY DEF SoleMachine
    <3>3. tr \in ToSet(Program[TheMachine].trans[start])
      BY <1>4, <2>1, <3>1 DEF ToSet
    <3>4. tr.sets \in Seq([var : STRING, value : STRING])
      BY <2>1, <3>2, <3>3, MachineShape
    <3> QED
      BY <3>4
  <2>5. /\ Assign(own, tr.sets, ctx) = Abstract!Assigned(own, tr.sets, ctx)
        /\ IsMap(own) => IsMap(Assign(own, tr.sets, ctx))
        /\ IsMap(own) /\ Assign(own, tr.sets, ctx) = <<>> => own = <<>>
    BY <2>4, AssignIsPromised
  <2> QED
    BY <1>6, <1>8, <2>2, <2>3, <2>5
<1> QED
  BY <1>7, <1>8

\* With one machine, a message is answered by one visit of it.
LEMMA SoleOutcome ==
    ASSUME NEW ord, ord = <<TheMachine>>, NEW cur, NEW own, NEW msg, NEW ctx
    PROVE  Outcome(ord, cur, own, msg, ctx) = Answer(cur, own, msg, ctx)
<1>1. Len(ord) = 1 /\ Len(ord) \in Nat /\ ord[1] = TheMachine
  OBVIOUS
<1>2. PICK run :
         /\ run[0] = [current |-> cur, new |-> cur, own |-> own]
         /\ \A i \in 0..(Len(ord) - 1) :
               run[i + 1] = Visit(run[i], ord[i + 1], msg, ctx)
         /\ Outcome(ord, cur, own, msg, ctx) = run[Len(ord)]
  BY <1>1, OutcomeRun
<1>3. 0 \in 0..(Len(ord) - 1) /\ 0 + 1 = 1
  BY <1>1
<1>4. run[1] = Visit(run[0], ord[1], msg, ctx)
  BY <1>2, <1>3
<1> QED
  BY <1>1, <1>2, <1>4 DEF Answer

\* The state a flow is in for the promise: the first declared state if the engine
\* keeps none.
StateOf(f) == IF f \in DOMAIN currentStates THEN currentStates[f]
              ELSE Head(Program[TheMachine].states)

\* What a feed leaves of the flow that is fed, and of the others.
LEMMA FeedOutcome ==
    ASSUME SoleMachine, EngineInv, StartedInv, NEW f \in Flows, NEW msg, NEW ctx, NEW tm,
           Feed(f, msg, ctx, tm)
    PROVE  /\ [state |-> StateOf(f)', vars |-> VariablesOf(f)']
                 = Abstract!After([state |-> StateOf(f), vars |-> VariablesOf(f)], msg, ctx)
           /\ \A g \in Flows \ (Evicted(f) \cup {f}) :
                 StateOf(g)' = StateOf(g) /\ VariablesOf(g)' = VariablesOf(g)
           /\ \A g \in Evicted(f) :
                 StateOf(g)' = Head(Program[TheMachine].states) /\ VariablesOf(g)' = <<>>
           /\ \A g \in DOMAIN currentStates' : currentStates'[g] # "IDLE"
           /\ \A g \in DOMAIN variables' : IsMap(variables'[g])
<1>1. PICK cur, own, gone, start :
         /\ cur = CurrentState(f) /\ own = VariablesOf(f) /\ gone = Evicted(f)
         /\ start = StartFrom(cur)
  OBVIOUS
<1>2. PICK out : out = Answer(cur, own, msg, ctx)
  OBVIOUS
<1>3. Outcome(order, CurrentState(f), VariablesOf(f), msg, ctx) = out
  BY <1>1, <1>2, SoleOutcome DEF StartedInv
<1>4. /\ currentStates' = With(Without(currentStates, gone), f, out.new)
      /\ variables' = IF out.own = <<>> THEN Without(variables, gone)
                      ELSE With(Without(variables, gone), f, out.own)
  BY <1>1, <1>3 DEF Feed, DropStates
<1>5. start = StateOf(f) /\ start # "IDLE"
  BY <1>1, StartsInFirst DEF CurrentState, StateOf, StartFrom, StartedInv
<1>6. IsMap(own)
  BY <1>1 DEF VariablesOf, StartedInv, IsMap
<1>7. /\ Abstract!After([state |-> start, vars |-> own], msg, ctx)
            = [state |-> out.new, vars |-> out.own]
      /\ out.new # "IDLE" /\ IsMap(out.own)
      /\ out.own = <<>> => own = <<>>
  <2>1. /\ Abstract!After([state |-> StartFrom(cur), vars |-> own], msg, ctx)
              = [state |-> Answer(cur, own, msg, ctx).new,
                 vars |-> Answer(cur, own, msg, ctx).own]
        /\ StartFrom(cur) # "IDLE" => Answer(cur, own, msg, ctx).new # "IDLE"
        /\ IsMap(own) => IsMap(Answer(cur, own, msg, ctx).own)
        /\ IsMap(own) /\ Answer(cur, own, msg, ctx).own = <<>> => own = <<>>
    BY VisitIsAfter, Zenon
  <2> QED
    BY <1>1, <1>2, <1>5, <1>6, <2>1
<1>8. f \notin gone /\ gone \subseteq DOMAIN sessions
  BY <1>1, EvictedFacts DEF EngineInv
<1>9. /\ DOMAIN currentStates' = (DOMAIN currentStates \ gone) \cup {f}
      /\ currentStates'[f] = out.new
      /\ \A g \in DOMAIN currentStates \ (gone \cup {f}) : currentStates'[g] = currentStates[g]
  BY <1>4, <1>8 DEF With, Without
<1>10. StateOf(f)' = out.new
  BY <1>9 DEF StateOf
<1>11. VariablesOf(f)' = out.own
  <2>1. CASE out.own = <<>>
    BY <1>1, <1>4, <1>7, <1>8, <2>1 DEF VariablesOf, Without
  <2>2. CASE out.own # <<>>
    BY <1>4, <2>2 DEF VariablesOf, With
  <2> QED
    BY <2>1, <2>2
<1>12. \A g \in Flows \ (gone \cup {f}) :
          StateOf(g)' = StateOf(g) /\ VariablesOf(g)' = VariablesOf(g)
  BY <1>4, <1>9 DEF StateOf, VariablesOf, With, Without
<1>13. \A g \in gone :
          StateOf(g)' = Head(Program[TheMachine].states) /\ VariablesOf(g)' = <<>>
  BY <1>4, <1>8, <1>9 DEF StateOf, VariablesOf, With, Without
<1>14. \A g \in DOMAIN currentStates' : currentStates'[g] # "IDLE"
  BY <1>7, <1>9 DEF StartedInv
<1>15. \A g \in DOMAIN variables' : IsMap(variables'[g])
  <2>1. \A g \in DOMAIN variables : IsMap(variables[g])
    BY DEF StartedInv
  <2>2. \A g \in DOMAIN variables' : \/ variables'[g] = out.own
                                     \/ g \in DOMAIN variables /\ variables'[g] = variables[g]
    BY <1>4 DEF With, Without
  <2> QED
    BY <1>7, <2>1, <2>2 DEF IsMap
<1> QED
  BY <1>1, <1>5, <1>7, <1>10, <1>11, <1>12, <1>13, <1>14, <1>15

\* A feed is a message of the promised machine, which may have other flows
\* forgotten.
LEMMA FeedFollows ==
    ASSUME SoleMachine, EngineInv, StartedInv, NEW f \in Flows, NEW msg, NEW ctx, NEW tm,
           Feed(f, msg, ctx, tm)
    PROVE  Abstract!Receive(f, msg, ctx)
<1> DEFINE Flow(g) == [state |-> StateOf(g), vars |-> VariablesOf(g)]
           flow == [g \in Flows |-> Flow(g)]
           gone == Evicted(f)
<1>1. /\ Flow(f)' = Abstract!After(Flow(f), msg, ctx)
      /\ \A g \in Flows \ (gone \cup {f}) : Flow(g)' = Flow(g)
      /\ \A g \in gone : Flow(g)' = Abstract!Fresh
  <2>1. /\ Flow(f)' = Abstract!After(Flow(f), msg, ctx)
        /\ \A g \in Flows \ (Evicted(f) \cup {f}) :
              StateOf(g)' = StateOf(g) /\ VariablesOf(g)' = VariablesOf(g)
        /\ \A g \in Evicted(f) :
              StateOf(g)' = Head(Program[TheMachine].states) /\ VariablesOf(g)' = <<>>
    BY FeedOutcome, Zenon
  <2> QED
    BY <2>1, Zenon DEF Abstract!Fresh
<1>2. gone \in SUBSET (Flows \ {f})
  BY EvictedFacts DEF EngineInv, AccessInv
<1> HIDE DEF gone
<1>3. \A g \in Flows : Flow(g)' = IF g = f THEN Abstract!After(Flow(f), msg, ctx)
                                  ELSE IF g \in gone THEN Abstract!Fresh ELSE Flow(g)
  <2> HIDE DEF Flow
  <2> QED
    BY <1>1
<1>4. flow' = [g \in Flows |-> Flow(g)']
  OBVIOUS
<1>5. flow[f] = Flow(f) /\ \A g \in Flows : flow[g] = Flow(g)
  OBVIOUS
<1>6. flow' = [g \in Flows |-> IF g = f THEN Abstract!After(flow[f], msg, ctx)
                               ELSE IF g \in gone THEN Abstract!Fresh ELSE flow[g]]
  <2> HIDE DEF Flow
  <2> QED
    BY <1>3
<1> QED
  BY <1>2, <1>6 DEF Abstract!Receive, FlowView, StateOf

\* Every step of the engine is a step of the promised machine or none.
LEMMA StepFollows ==
    ASSUME SoleMachine, EngineInv, StartedInv, [Next]_vars
    PROVE  [Abstract!Next]_FlowView
<1> DEFINE Flow(g) == [state |-> StateOf(g), vars |-> VariablesOf(g)]
           flow == [g \in Flows |-> Flow(g)]
<1>1. ASSUME UNCHANGED <<currentStates, variables>> PROVE UNCHANGED FlowView
  BY <1>1 DEF FlowView, VariablesOf
<1>2. CASE \E f \in Flows, p \in Packets : Receive(f, p)
  <2>1. PICK f \in Flows, p \in Packets : Feed(f, p.msg, p.ctx, timers)
    BY <1>2 DEF Receive
  <2>2. Abstract!Receive(f, p.msg, p.ctx)
    BY <2>1, FeedFollows
  <2> QED
    BY <2>2 DEF Abstract!Next
<1>3. CASE FireNext
  <2>1. PICK t \in due :
          \/ Feed(t.flow, TimerMsg[t.name], <<>>, Cancelled(t.flow, t.name))
          \/ UNCHANGED <<currentStates, variables>>
    BY <1>3, FireTurn
  <2>2. t.flow \in Flows /\ t.name \in TimerNames
    BY DEF EngineInv, BatchInv
  <2>3. CASE Feed(t.flow, TimerMsg[t.name], <<>>, Cancelled(t.flow, t.name))
    <3> DEFINE p == [msg |-> TimerMsg[t.name], ctx |-> <<>>]
    <3>1. Abstract!Receive(t.flow, TimerMsg[t.name], <<>>)
      BY <2>2, <2>3, FeedFollows
    <3>2. p \in Packets \cup TimerPackets /\ p.msg = TimerMsg[t.name] /\ p.ctx = <<>>
      BY <2>2 DEF TimerPackets
    <3> HIDE DEF p
    <3>3. Abstract!Receive(t.flow, p.msg, p.ctx)
      BY <3>1, <3>2
    <3> QED
      BY <2>2, <3>2, <3>3 DEF Abstract!Next
  <2>4. CASE UNCHANGED <<currentStates, variables>>
    BY <1>1, <2>4
  <2> QED
    BY <2>1, <2>3, <2>4
<1>4. CASE \E idle \in IdleTimeouts : ExpireIdle(idle)
  <2>1. PICK gone \in SUBSET Flows :
          /\ currentStates' = Without(currentStates, gone)
          /\ variables' = Without(variables, gone)
    BY <1>4 DEF ExpireIdle, DropStates, EngineInv, AccessInv
  <2>2. \A g \in Flows : Flow(g)' = IF g \in gone THEN Abstract!Fresh ELSE Flow(g)
    BY <2>1 DEF StateOf, VariablesOf, Without, Abstract!Fresh
  <2>3. flow' = [g \in Flows |-> IF g \in gone THEN Abstract!Fresh ELSE flow[g]]
    BY <2>2
  <2> QED
    BY <2>3 DEF Abstract!Next, Abstract!Forget, FlowView, StateOf
<1>5. CASE \/ \E f \in Flows, n \in TimerNames, d \in Delays : ScheduleTimer(f, n, d)
           \/ \E f \in Flows, n \in TimerNames : CancelTimer(f, n)
           \/ \E ticks \in Advances : AdvanceAndFire(ticks)
           \/ UNCHANGED vars
  <2>1. UNCHANGED <<currentStates, variables>>
    BY <1>5 DEF ScheduleTimer, CancelTimer, AdvanceAndFire, vars
  <2> QED
    BY <1>1, <2>1
<1> QED
  BY <1>2, <1>3, <1>4, <1>5 DEF Next

\* No flow is ever in the state IDLE.
LEMMA StartedInvariant ==
    ASSUME SoleMachine
    PROVE  Spec => []StartedInv
<1>1. Init => StartedInv
  <2> SUFFICES ASSUME Init PROVE StartedInv
    OBVIOUS
  <2>1. order \in SetToSeqs({TheMachine})
    BY DEF Init, SoleMachine
  <2>2. Cardinality({TheMachine}) = 1
    BY FS_Singleton
  <2>3. order = <<TheMachine>>
    BY <2>1, <2>2 DEF SetToSeqs
  <2> QED
    BY <2>3 DEF Init, StartedInv
<1>2. ASSUME EngineInv, StartedInv, [Next]_vars PROVE StartedInv'
  <2>1. order' = order
    BY <1>2 DEF Next, Receive, ScheduleTimer, CancelTimer, AdvanceAndFire, FireNext,
                ExpireIdle, vars
  <2>2. ASSUME NEW f \in Flows, NEW msg, NEW ctx, NEW tm, Feed(f, msg, ctx, tm)
        PROVE  StartedInv'
    <3>1. /\ \A g \in DOMAIN currentStates' : currentStates'[g] # "IDLE"
          /\ \A g \in DOMAIN variables' : IsMap(variables'[g])
      BY <1>2, <2>2, FeedOutcome, Zenon
    <3> QED
      BY <1>2, <2>1, <3>1 DEF StartedInv, IsMap
  <2>3. ASSUME NEW gone, currentStates' = Without(currentStates, gone),
               variables' = Without(variables, gone)
        PROVE  StartedInv'
    BY <1>2, <2>1, <2>3 DEF StartedInv, IsMap, Without
  <2>4. ASSUME UNCHANGED <<currentStates, variables>> PROVE StartedInv'
    BY <1>2, <2>1, <2>4 DEF StartedInv, IsMap
  <2>5. CASE \E f \in Flows, p \in Packets : Receive(f, p)
    BY <2>2, <2>5 DEF Receive
  <2>6. CASE FireNext
    <3>1. PICK t \in due :
            \/ Feed(t.flow, TimerMsg[t.name], <<>>, Cancelled(t.flow, t.name))
            \/ UNCHANGED <<currentStates, variables>>
      BY <1>2, <2>6, FireTurn
    <3>2. t.flow \in Flows
      BY <1>2 DEF EngineInv, BatchInv
    <3> QED
      BY <2>2, <2>4, <3>1, <3>2
  <2>7. CASE \E idle \in IdleTimeouts : ExpireIdle(idle)
    BY <2>3, <2>7 DEF ExpireIdle, DropStates
  <2>8. CASE \/ \E f \in Flows, n \in TimerNames, d \in Delays : ScheduleTimer(f, n, d)
             \/ \E f \in Flows, n \in TimerNames : CancelTimer(f, n)
             \/ \E ticks \in Advances : AdvanceAndFire(ticks)
             \/ UNCHANGED vars
    BY <2>4, <2>8 DEF ScheduleTimer, CancelTimer, AdvanceAndFire, vars
  <2> QED
    BY <1>2, <2>5, <2>6, <2>7, <2>8 DEF Next
<1> QED
  BY <1>1, <1>2, EngineInvariant, PTL DEF Spec

\* With one machine, whatever evictions, expiries and timers do to the tables of
\* the engine, every flow behaves as if it had the machine for itself: the engine
\* implements FlowMachine.  The hypothesis is needed: a state named IDLE, or a
\* second machine, breaks it.
THEOREM EngineFollowsMachine ==
    ASSUME SoleMachine
    PROVE  Spec => FollowsMachine
<1>1. Init => Abstract!Init
  BY DEF Init, Abstract!Init, Abstract!Fresh, FlowView, VariablesOf
<1>2. ASSUME EngineInv, StartedInv, [Next]_vars PROVE [Abstract!Next]_FlowView
  BY <1>2, StepFollows
<1> QED
  BY <1>1, <1>2, EngineInvariant, StartedInvariant, PTL
  DEF Spec, FollowsMachine, Abstract!Spec
=============================================================================
