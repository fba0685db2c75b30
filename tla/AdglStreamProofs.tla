--------------------------- MODULE AdglStreamProofs ---------------------------
(***************************************************************************)
(* Proofs about AdglStream, for every image, every set of limits and every *)
(* capture that satisfy the module's assumptions: first its types and the  *)
(* bookkeeping of nodes, then what becomes of the matches and the verdicts *)
(* they reach.                                                             *)
(***************************************************************************)
EXTENDS AdglStream, FiniteSetTheorems, WellFoundedInduction, TLAPS

USE DEF Times, NoTime, RuleIds

-----------------------------------------------------------------------------
(* Arithmetic of event times. *)

\* Saturating arithmetic stays in the representable range (EventTime::add, sub).
LEMMA SaturationTypes ==
    ASSUME NEW t \in Times, NEW d \in Nat
    PROVE  Add(t, d) \in Times /\ Sub(t, d) \in Times
BY TimeAssumption DEF Add, Sub

\* fetch_max never leaves the range and never goes back.
LEMMA LaterIsUpperBound ==
    ASSUME NEW a \in Int, NEW b \in Int
    PROVE  /\ Later(a, b) \in {a, b}
           /\ Later(a, b) >= a /\ Later(a, b) >= b
BY DEF Later

\* The GC horizon moves with the watermark (RingBuffer::gc).
LEMMA HorizonMonotone ==
    ASSUME NEW a \in Times, NEW b \in Times, a <= b
    PROVE  Sub(a, MaxLookback) <= Sub(b, MaxLookback)
BY TimeAssumption, LimitAssumption DEF Sub

\* A non-empty set of representable times has a least member.
LEMMA LeastTime ==
    ASSUME NEW S \in SUBSET Times, S # {}
    PROVE  \E m \in S : \A l \in S : m <= l
<1> DEFINE T == {t - MinTime : t \in S}
<1>1. T \subseteq Nat /\ T # {}
  <2>1. \A t \in S : t - MinTime \in Nat
    BY TimeAssumption
  <2>2. PICK t \in S : TRUE
    OBVIOUS
  <2>3. t - MinTime \in T
    OBVIOUS
  <2> QED
    BY <2>1, <2>3
<1> HIDE DEF T
<1>2. PICK n \in T : \A y \in T : <<y, n>> \notin OpToRel(<, Nat)
  BY <1>1, NatLessThanWellFounded, WFMin, Zenon
<1>3. \A y \in T : ~(y < n)
  BY <1>1, <1>2, Zenon DEF OpToRel
<1> USE DEF T
<1>4. PICK m \in S : n = m - MinTime
  BY <1>2
<1>5. \A l \in S : m <= l
  BY <1>1, <1>3, <1>4, TimeAssumption
<1> QED
  BY <1>4, <1>5

-----------------------------------------------------------------------------
(* What the verifier's temporal phase gives: windows fit the GC horizon. *)

\* The image's forward reach is a duration.
LEMMA ImageMaxForwardType == ImageMaxForward \in Nat
<1>1. \A q \in RuleIds : MaxForward(q) \in Nat
  <2> SUFFICES ASSUME NEW q \in RuleIds PROVE MaxForward(q) \in Nat
    OBVIOUS
  <2>1. Rules[q] \in RuleType
    BY RuleAssumption
  <2>2. \A k \in DOMAIN Rules[q].corr : Rules[q].corr[k] \in CorrelateType
    BY <2>1 DEF RuleType
  <2>3. Forwards(q) \subseteq Nat
    BY <2>2 DEF Forwards, CorrelateType
  <2> QED
    BY <2>3, MaximaExist DEF MaxForward, MaxForwards
<1>2. ImageMaxForward \in AllForwards
  BY MaximaExist DEF ImageMaxForward
<1> QED
  BY <1>1, <1>2 DEF AllForwards

\* A rule's forward reach is one of its correlates' and none exceeds it.
LEMMA MaxForwardFacts ==
    ASSUME NEW r \in RuleIds
    PROVE  /\ MaxForward(r) \in Nat
           /\ MaxForward(r) <= ImageMaxForward
           /\ MaxForward(r) <= MaxLookback
           /\ \A k \in DOMAIN Rules[r].corr :
                Rules[r].corr[k].calc => /\ Rules[r].corr[k].fwd <= MaxForward(r)
                                         /\ Rules[r].corr[k].back + MaxForward(r) <= MaxLookback
<1> USE RuleAssumption, LimitAssumption
<1>1. Rules[r] \in RuleType
  OBVIOUS
<1>2. \A k \in DOMAIN Rules[r].corr : Rules[r].corr[k] \in CorrelateType
  BY <1>1 DEF RuleType
<1>3. Forwards(r) \subseteq Nat
  BY <1>2 DEF Forwards, CorrelateType
<1>4. MaxForward(r) \in Forwards(r) /\ \A f \in Forwards(r) : f <= MaxForward(r)
  BY MaximaExist DEF MaxForward, MaxForwards
<1>5. ImageMaxForward \in AllForwards /\ \A f \in AllForwards : f <= ImageMaxForward
  BY MaximaExist DEF ImageMaxForward
<1>6. MaxForward(r) <= ImageMaxForward
  BY <1>5 DEF AllForwards
<1>7. ImageMaxForward \in Nat
  BY ImageMaxForwardType
<1>8. \A k \in DOMAIN Rules[r].corr : Rules[r].corr[k].calc =>
         /\ Rules[r].corr[k].fwd <= MaxForward(r)
         /\ Rules[r].corr[k].back + MaxForward(r) <= MaxLookback
  <2> SUFFICES ASSUME NEW k \in DOMAIN Rules[r].corr, Rules[r].corr[k].calc
               PROVE  /\ Rules[r].corr[k].fwd <= MaxForward(r)
                      /\ Rules[r].corr[k].back + MaxForward(r) <= MaxLookback
    OBVIOUS
  <2>1. Rules[r].corr[k].fwd \in Forwards(r)
    BY DEF Forwards
  <2>2. Rules[r].corr[k].back <= MaxLookback - ImageMaxForward
    BY VerifiedWindows DEF FitsLookback
  <2>3. Rules[r].corr[k].back \in Nat /\ Rules[r].corr[k].fwd \in Nat
    BY <1>2 DEF CorrelateType
  <2> QED
    BY <2>1, <2>2, <2>3, <1>3, <1>4, <1>6, <1>7
<1>9. MaxForward(r) <= MaxLookback
  <2>1. CASE MaxForward(r) = 0
    BY <2>1
  <2>2. CASE MaxForward(r) # 0
    <3>1. PICK k \in DOMAIN Rules[r].corr :
              Rules[r].corr[k].calc /\ Rules[r].corr[k].fwd = MaxForward(r)
      BY <2>2, <1>4 DEF Forwards
    <3>2. Rules[r].corr[k].fwd <= MaxLookback - ImageMaxForward
      BY <3>1, VerifiedWindows DEF FitsLookback
    <3> QED
      BY <3>1, <3>2, <1>3, <1>4, <1>7
  <2> QED
    BY <2>1, <2>2
<1> QED
  BY <1>3, <1>4, <1>6, <1>8, <1>9

-----------------------------------------------------------------------------
(* The inductive invariant. *)

\* Event ids are arrival numbers: one event per id, and the next id is fresh.
IdsInv ==
    /\ IsFiniteSet(Arrived)
    /\ \A x \in Arrived : x.id <= Cardinality(Arrived)
    /\ \A x, y \in Arrived : x.id = y.id => x = y

\* A ring holds accepted events that were never spilled.
RingInv == ring \subseteq accepted \ spilledEv /\ spilledEv \subseteq accepted

\* Within the GC horizon only a spill removes an accepted event.
HorizonInv ==
    \A x \in accepted : x.time >= Sub(wm, MaxLookback) => x \in ring \cup spilledEv

\* A waiting match is not yet due and its bound comes from its anchor.
PendingInv ==
    \A p \in pending : /\ p.upper >= wm
                       /\ \E a \in accepted : /\ IsAnchor(a, p)
                                              /\ p.upper = Add(a.time, MaxForward(p.rule))

StreamInv == TypeOK /\ IdsInv /\ RingInv /\ HorizonInv /\ PendingInv

\* The anchor of a match that is not due, and everything in its windows, is
\* within the GC horizon.
LEMMA WindowsWithinHorizon ==
    ASSUME NEW w \in Times, NEW r \in RuleIds, NEW a \in Times,
           Add(a, MaxForward(r)) >= w
    PROVE  /\ a >= Sub(w, MaxLookback)
           /\ \A k \in DOMAIN Rules[r].corr : Rules[r].corr[k].calc =>
                \A t \in Times : t >= Sub(a, Rules[r].corr[k].back)
                                    => t >= Sub(w, MaxLookback)
<1>1. MaxForward(r) \in Nat /\ MaxForward(r) <= MaxLookback /\ MaxLookback \in Nat
  BY MaxForwardFacts, LimitAssumption
<1>2. a + MaxForward(r) >= w
  BY <1>1, TimeAssumption DEF Add
<1>3. a >= Sub(w, MaxLookback)
  BY <1>1, <1>2, TimeAssumption DEF Sub
<1>4. ASSUME NEW k \in DOMAIN Rules[r].corr, Rules[r].corr[k].calc,
             NEW t \in Times, t >= Sub(a, Rules[r].corr[k].back)
      PROVE  t >= Sub(w, MaxLookback)
  <2>1. Rules[r] \in RuleType
    BY RuleAssumption
  <2>2. Rules[r].corr[k] \in CorrelateType
    BY <1>4, <2>1 DEF RuleType
  <2>3. Rules[r].corr[k].back \in Nat
    BY <2>2 DEF CorrelateType
  <2>4. Rules[r].corr[k].back + MaxForward(r) <= MaxLookback
    BY <1>4, MaxForwardFacts
  <2> QED
    BY <1>1, <1>2, <1>4, <2>3, <2>4, TimeAssumption DEF Sub
<1> QED
  BY <1>3, <1>4

\* What a match that waits needs is retained.
LEMMA InvRetainsEvidence == StreamInv => WaitingEvidenceRetained
<1> SUFFICES ASSUME StreamInv,
                    NEW p \in pending, NEW a \in accepted, IsAnchor(a, p),
                    NEW x \in accepted, x.scope = p.scope,
                    x = a \/ InWindow(x, p.rule, a.time)
             PROVE  x \in ring \cup spilledEv
  BY DEF WaitingEvidenceRetained
<1>1. /\ wm \in Times /\ p.rule \in RuleIds
      /\ a.time \in Times /\ x.time \in Times
  BY DEF StreamInv, TypeOK, EventType, MatchType
<1>2. Add(a.time, MaxForward(p.rule)) >= wm
  <2>1. PICK b \in accepted : IsAnchor(b, p) /\ p.upper = Add(b.time, MaxForward(p.rule))
    BY DEF StreamInv, PendingInv
  <2>2. a = b
    BY <2>1 DEF StreamInv, IdsInv, Arrived, IsAnchor
  <2> QED
    BY <2>1, <2>2 DEF StreamInv, PendingInv
<1>3. x.time >= Sub(wm, MaxLookback)
  <2>1. CASE x = a
    BY <1>1, <1>2, <2>1, WindowsWithinHorizon
  <2>2. CASE InWindow(x, p.rule, a.time)
    BY <1>1, <1>2, <2>2, WindowsWithinHorizon DEF InWindow
  <2> QED
    BY <2>1, <2>2
<1> QED
  BY <1>3 DEF StreamInv, HorizonInv

-----------------------------------------------------------------------------
(* The steps. *)

\* The watermark an ingest computes is a representable time and not older.
LEMMA WatermarkAfterType ==
    ASSUME TypeOK, NEW e \in EventType
    PROVE  /\ WatermarkAfter(e) \in Times /\ WatermarkAfter(e) >= wm
           /\ SourcesAfter(e) \in [Scopes -> [seen : BOOLEAN, local : Times, last : Times]]
           /\ Wall(e.time) \in Times
<1>1. /\ wm \in Times /\ wall \in Times /\ e.time \in Times /\ e.scope \in Scopes
      /\ sources \in [Scopes -> [seen : BOOLEAN, local : Times, last : Times]]
  BY DEF TypeOK, EventType
<1>2. Wall(e.time) \in Times
  BY <1>1 DEF Wall, Later
<1>3. Sub(e.time, MaxDisorder) \in Times
  BY <1>1, SaturationTypes, LimitAssumption
<1>4. SourcesAfter(e) \in [Scopes -> [seen : BOOLEAN, local : Times, last : Times]]
  BY <1>1, <1>2, <1>3 DEF SourcesAfter, Later
<1>5. LiveTarget(e) \in Times
  <2>1. CASE Active(e) = {}
    BY <1>1, <2>1 DEF LiveTarget
  <2>2. CASE Active(e) # {}
    <3> DEFINE locals == {SourcesAfter(e)[s].local : s \in Active(e)}
    <3>1. locals \subseteq Times
      BY <1>4 DEF Active
    <3>2. locals # {}
      BY <2>2
    <3>3. \E m \in locals : \A l \in locals : m <= l
      BY <3>1, <3>2, LeastTime
    <3>4. LiveTarget(e) \in locals
      BY <2>2, <3>3 DEF LiveTarget
    <3> QED
      BY <3>1, <3>4
  <2> QED
    BY <2>1, <2>2
<1>6. WatermarkAfter(e) \in Times /\ WatermarkAfter(e) >= wm
  BY <1>1, <1>5, TimeAssumption DEF WatermarkAfter, Later
<1> QED
  BY <1>2, <1>4, <1>6

\* The matches an event suspends are well typed, open, and anchored in it.
LEMMA SuspendedFacts ==
    ASSUME NEW e \in EventType, NEW w \in Times
    PROVE  \A p \in Suspended(e, w) : /\ p \in MatchType
                                      /\ p.upper > w
                                      /\ IsAnchor(e, p)
                                      /\ p.upper = Add(e.time, MaxForward(p.rule))
<1> SUFFICES ASSUME NEW p \in Suspended(e, w)
             PROVE  /\ p \in MatchType /\ p.upper > w /\ IsAnchor(e, p)
                    /\ p.upper = Add(e.time, MaxForward(p.rule))
  OBVIOUS
<1>1. PICK r \in Matched(e) \ Immediate(e, w) :
          p = [rule |-> r, anchor |-> e.id, upper |-> Add(e.time, MaxForward(r)),
               scope |-> e.scope]
  BY DEF Suspended
<1>2. r \in RuleIds
  BY DEF Matched
<1>3. Add(e.time, MaxForward(r)) \in Times
  BY <1>2, MaxForwardFacts, SaturationTypes DEF EventType
<1>4. Add(e.time, MaxForward(r)) > w
  BY <1>1, <1>3, TimeAssumption DEF Immediate
<1> QED
  BY <1>1, <1>2, <1>3, <1>4 DEF MatchType, EventType, IsAnchor

\* An arriving event takes a fresh id.
LEMMA ArrivalKeepsIds ==
    ASSUME TypeOK, IdsInv, NEW e \in EventType, e.id = Cardinality(Arrived) + 1,
           Arrived' = Arrived \cup {e}
    PROVE  e \notin Arrived /\ IdsInv'
<1>1. Cardinality(Arrived) \in Nat
  BY FS_CardinalityType DEF IdsInv
<1>2. e \notin Arrived
  BY <1>1 DEF IdsInv
<1>3. IsFiniteSet(Arrived') /\ Cardinality(Arrived') = Cardinality(Arrived) + 1
  BY <1>2, FS_AddElement DEF IdsInv
<1>4. \A x \in Arrived : x.id \in Int
  BY DEF TypeOK, EventType, Arrived
<1>5. IdsInv'
  BY <1>1, <1>3, <1>4 DEF IdsInv
<1> QED
  BY <1>2, <1>5

\* A dropped event changes nothing the invariant speaks of but the arrivals.
LEMMA DropPreservesInv ==
    ASSUME StreamInv, NEW e \in EventType, e.id = Cardinality(Arrived) + 1, DropLate(e)
    PROVE  StreamInv'
<1>0. TypeOK /\ IdsInv
  BY DEF StreamInv
<1>1. /\ lateOut' = lateOut \cup {e} /\ lastTime' = Later(lastTime, e.time)
      /\ UNCHANGED <<storeVars, finished, absentLog, sources, wall, history>>
  BY DEF DropLate
<1>2. TypeOK'
  BY <1>0, <1>1 DEF TypeOK, Later, EventType, storeVars, history
<1>3. Arrived' = Arrived \cup {e}
  BY <1>1 DEF Arrived, history
<1>4. IdsInv'
  BY <1>0, <1>3, ArrivalKeepsIds
<1> QED
  BY <1>1, <1>2, <1>4
  DEF StreamInv, RingInv, HorizonInv, PendingInv, IsAnchor, storeVars, history

\* An accepted event preserves the invariant (Engine::ingest).
LEMMA AcceptPreservesInv ==
    ASSUME StreamInv, NEW e \in EventType, e.id = Cardinality(Arrived) + 1, Accept(e)
    PROVE  StreamInv'
<1> DEFINE w == WatermarkAfter(e)
           R == PushEvent(e)
<1>0. TypeOK /\ IdsInv /\ RingInv /\ HorizonInv /\ PendingInv
  BY DEF StreamInv
<1>1. /\ w \in Times /\ w >= wm /\ wm \in Times
      /\ SourcesAfter(e) \in [Scopes -> [seen : BOOLEAN, local : Times, last : Times]]
      /\ Wall(e.time) \in Times
  BY <1>0, WatermarkAfterType DEF TypeOK
<1>2. /\ wm' = w /\ ring' = GcRing(R, w)
      /\ accepted' = accepted \cup {e} /\ lateOut' = lateOut
      /\ spilledEv' = spilledEv \cup RingVictims(e)
      /\ missing' = missing \cup Orphans(w, R)
      /\ pending' \subseteq (pending \ Expired(w)) \cup Suspended(e, w)
      /\ spilledPm' \subseteq spilledPm \cup pending \cup Suspended(e, w)
  BY DEF Accept, QueueVictims, InScope
<1>3. RingVictims(e) \subseteq ring /\ R = (ring \ RingVictims(e)) \cup {e}
  BY DEF RingVictims, InScope, PushEvent
<1>4. e \notin Arrived /\ Arrived' = Arrived \cup {e}
  <2>1. Arrived' = Arrived \cup {e}
    BY <1>2 DEF Arrived
  <2> QED
    BY <1>0, <2>1, ArrivalKeepsIds
<1>5. TypeOK'
  <2>1. ring' \subseteq EventType /\ accepted' \subseteq EventType
        /\ spilledEv' \subseteq EventType /\ lateOut' \subseteq EventType
    BY <1>0, <1>2, <1>3 DEF TypeOK, GcRing
  <2>2. pending' \subseteq MatchType /\ spilledPm' \subseteq MatchType
    BY <1>0, <1>1, <1>2, SuspendedFacts DEF TypeOK
  <2>3. missing' \subseteq MatchType
    BY <1>0, <1>2 DEF TypeOK, Orphans, Expired
  <2>4. lastTime' \in Times \cup {NoTime}
    BY <1>0 DEF TypeOK, Accept, Later, EventType
  <2>5. steady' \subseteq Scopes
    BY <1>0 DEF TypeOK, Accept, Active
  <2>6. wall' \in Times /\ finished' \in BOOLEAN
        /\ sources' \in [Scopes -> [seen : BOOLEAN, local : Times, last : Times]]
    BY <1>0, <1>1 DEF TypeOK, Accept
  <2> QED
    BY <1>1, <1>2, <2>1, <2>2, <2>3, <2>4, <2>5, <2>6 DEF TypeOK
<1>6. IdsInv'
  BY <1>0, <1>4, ArrivalKeepsIds
<1>7. RingInv'
  BY <1>0, <1>2, <1>3, <1>4 DEF RingInv, GcRing, Arrived
<1>8. HorizonInv'
  <2> SUFFICES ASSUME NEW x \in accepted', x.time >= Sub(w, MaxLookback)
               PROVE  x \in ring' \cup spilledEv'
    BY <1>2 DEF HorizonInv
  <2>1. CASE x = e
    BY <1>2, <1>3, <2>1 DEF GcRing
  <2>2. CASE x \in accepted
    <3>1. x.time \in Times
      BY <1>0, <2>2 DEF TypeOK, EventType
    <3>2. Sub(wm, MaxLookback) <= Sub(w, MaxLookback)
      BY <1>1, HorizonMonotone
    <3>3. Sub(wm, MaxLookback) \in Int /\ Sub(w, MaxLookback) \in Int
      BY <1>1, SaturationTypes, LimitAssumption
    <3>4. x \in ring \cup spilledEv
      BY <1>0, <2>2, <3>1, <3>2, <3>3 DEF HorizonInv
    <3> QED
      BY <1>2, <1>3, <3>4 DEF GcRing
  <2> QED
    BY <1>2, <2>1, <2>2
<1>9. PendingInv'
  <2> SUFFICES ASSUME NEW p \in pending'
               PROVE  /\ p.upper >= w
                      /\ \E a \in accepted' : /\ IsAnchor(a, p)
                                              /\ p.upper = Add(a.time, MaxForward(p.rule))
    BY <1>2 DEF PendingInv, IsAnchor
  <2>1. CASE p \in pending \ Expired(w)
    <3>1. p.upper \in Int
      BY <1>0, <2>1 DEF TypeOK, MatchType
    <3> QED
      BY <1>0, <1>1, <1>2, <2>1, <3>1 DEF PendingInv, Expired
  <2>2. CASE p \in Suspended(e, w)
    <3>1. /\ p \in MatchType /\ p.upper > w /\ IsAnchor(e, p)
          /\ p.upper = Add(e.time, MaxForward(p.rule))
      BY <1>1, <2>2, SuspendedFacts
    <3> QED
      BY <1>1, <1>2, <3>1 DEF MatchType
  <2> QED
    BY <1>2, <2>1, <2>2
<1> QED
  BY <1>5, <1>6, <1>7, <1>8, <1>9 DEF StreamInv

\* A watermark raised from outside preserves it (Engine::advance_watermark).
LEMMA SweepPreservesInv ==
    ASSUME StreamInv, NEW t \in Times, SweepTo(t), finished' \in BOOLEAN
    PROVE  StreamInv'
<1> DEFINE w == Later(wm, t)
<1>0. TypeOK /\ IdsInv /\ RingInv /\ HorizonInv /\ PendingInv
  BY DEF StreamInv
<1>1. w \in Times /\ w >= wm /\ wm \in Times
  BY <1>0, TimeAssumption DEF TypeOK, Later
<1>2. /\ wm' = w /\ ring' = GcRing(ring, w) /\ pending' = pending \ Expired(w)
      /\ missing' = missing \cup Orphans(w, ring) /\ steady' = {}
      /\ UNCHANGED <<lastTime, lateOut, sources, wall, accepted, spilledEv, spilledPm>>
  BY DEF SweepTo
<1>3. TypeOK'
  BY <1>0, <1>1, <1>2 DEF TypeOK, GcRing, Orphans, Expired
<1>4. IdsInv'
  BY <1>0, <1>2 DEF IdsInv, Arrived
<1>5. RingInv'
  BY <1>0, <1>2 DEF RingInv, GcRing
<1>6. HorizonInv'
  <2> SUFFICES ASSUME NEW x \in accepted, x.time >= Sub(w, MaxLookback)
               PROVE  x \in ring' \cup spilledEv
    BY <1>2 DEF HorizonInv
  <2>1. x.time \in Times
    BY <1>0 DEF TypeOK, EventType
  <2>2. Sub(wm, MaxLookback) <= Sub(w, MaxLookback)
    BY <1>1, HorizonMonotone
  <2>3. Sub(wm, MaxLookback) \in Int /\ Sub(w, MaxLookback) \in Int
    BY <1>1, SaturationTypes, LimitAssumption
  <2>4. x \in ring \cup spilledEv
    BY <1>0, <2>1, <2>2, <2>3 DEF HorizonInv
  <2> QED
    BY <1>2, <2>4 DEF GcRing
<1>7. PendingInv'
  <2>1. \A p \in pending : p.upper \in Int
    BY <1>0 DEF TypeOK, MatchType
  <2> QED
    BY <1>0, <1>1, <1>2, <2>1 DEF PendingInv, Expired, IsAnchor
<1> QED
  BY <1>3, <1>4, <1>5, <1>6, <1>7 DEF StreamInv

\* The events a capture offers are well typed.
LEMMA NewEventType ==
    ASSUME StreamInv, Cardinality(Arrived) < MaxEvents,
           NEW s \in Scopes, NEW ty \in EventTypes, NEW d \in Data, NEW t \in EventTimes
    PROVE  /\ NewEvent(s, ty, d, t) \in EventType
           /\ NewEvent(s, ty, d, t).id = Cardinality(Arrived) + 1
<1>1. Cardinality(Arrived) \in Nat
  BY FS_CardinalityType DEF StreamInv, IdsInv
<1> QED
  BY <1>1, TimeAssumption, LimitAssumption DEF NewEvent, EventType

\* Every step of the engine preserves the invariant.
LEMMA NextPreservesInv == StreamInv /\ [Next]_vars => StreamInv'
<1> SUFFICES ASSUME StreamInv, [Next]_vars PROVE StreamInv'
  OBVIOUS
<1>0. TypeOK /\ IdsInv
  BY DEF StreamInv
<1>1. CASE Ingest
  <2>1. PICK s \in Scopes, ty \in EventTypes, d \in Data, t \in EventTimes :
            /\ Cardinality(Arrived) < MaxEvents
            /\ DropLate(NewEvent(s, ty, d, t)) \/ Accept(NewEvent(s, ty, d, t))
    BY <1>1 DEF Ingest
  <2> DEFINE e == NewEvent(s, ty, d, t)
  <2>3. e \in EventType /\ e.id = Cardinality(Arrived) + 1
    BY <2>1, NewEventType
  <2>4. CASE Accept(e)
    BY <2>3, <2>4, AcceptPreservesInv
  <2>5. CASE DropLate(e)
    BY <2>3, <2>5, DropPreservesInv
  <2> QED
    BY <2>1, <2>4, <2>5
<1>2. CASE AdvanceWatermark
  <2>1. PICK t \in PunctTimes : SweepTo(t) /\ finished' = finished
    BY <1>2 DEF AdvanceWatermark
  <2> QED
    BY <1>0, <2>1, SweepPreservesInv, TimeAssumption DEF TypeOK
<1>3. CASE Finish
  <2>1. CASE lastTime = NoTime
    BY <1>0, <1>3, <2>1
    DEF Finish, StreamInv, TypeOK, IdsInv, RingInv, HorizonInv, PendingInv, IsAnchor,
        Arrived, storeVars, history
  <2>2. CASE lastTime # NoTime
    <3>1. SweepTo(FlushTime) /\ finished' = TRUE
      BY <1>3, <2>2 DEF Finish
    <3>2. lastTime \in Times
      BY <1>0, <2>2 DEF TypeOK
    <3>3. ImageMaxForward \in Nat
      BY ImageMaxForwardType
    <3>4. FlushTime \in Times
      BY <3>2, <3>3, SaturationTypes DEF FlushTime
    <3> QED
      BY <3>1, <3>4, SweepPreservesInv
  <2> QED
    BY <2>1, <2>2
<1>4. CASE AdvanceWallClock
  <2>1. wall' \in Times
    BY <1>0, <1>4, TimeAssumption DEF AdvanceWallClock, Later, TypeOK
  <2> QED
    BY <1>0, <1>4, <2>1
    DEF AdvanceWallClock, StreamInv, TypeOK, IdsInv, RingInv, HorizonInv, PendingInv,
        IsAnchor, Arrived, storeVars, history
<1>5. CASE UNCHANGED vars
  BY <1>5 DEF StreamInv, TypeOK, IdsInv, RingInv, HorizonInv, PendingInv,
        IsAnchor, Arrived, vars, storeVars, engineVars, history
<1> QED
  BY <1>1, <1>2, <1>3, <1>4, <1>5 DEF Next, FinishAgain

\* The initial state satisfies the invariant.
LEMMA InitEstablishesInv == Init => StreamInv
<1> SUFFICES ASSUME Init PROVE StreamInv
  OBVIOUS
<1>1. TypeOK
  <2>1. sources \in [Scopes -> [seen : BOOLEAN, local : Times, last : Times]]
    BY TimeAssumption DEF Init
  <2>2. MinTime \in Times /\ NoTime \in Times \cup {NoTime}
    BY TimeAssumption
  <2> QED
    BY <2>1, <2>2 DEF Init, TypeOK
<1>2. Arrived = {}
  BY DEF Init, Arrived
<1>3. IdsInv
  BY <1>2, FS_EmptySet DEF IdsInv
<1>4. RingInv /\ HorizonInv /\ PendingInv
  BY DEF Init, RingInv, HorizonInv, PendingInv
<1> QED
  BY <1>1, <1>3, <1>4 DEF StreamInv

\* The invariant holds for ever.
THEOREM StreamInvariant == Spec => []StreamInv
BY InitEstablishesInv, NextPreservesInv, PTL DEF Spec

\* The engine's variables keep to their types.
THEOREM TypeCorrect == Spec => []TypeOK
<1>1. StreamInv => TypeOK
  BY DEF StreamInv
<1> QED
  BY <1>1, StreamInvariant, PTL

\* Garbage collection never removes the anchor or the window evidence of a match
\* that waits (RingBuffer::gc and the verifier's MAX_LOOKBACK condition).
THEOREM EvidenceOutlivesWait == Spec => []WaitingEvidenceRetained
BY InvRetainsEvidence, StreamInvariant, PTL

-----------------------------------------------------------------------------
(* Verdicts of resumed matches. *)

\* The anchor a resume looks up is the event the match was suspended for.
LEMMA ResumeAnchor ==
    ASSUME StreamInv, NEW w, NEW R, NEW p \in Resumable(w, R),
           \A x \in R : \A y \in accepted : x.id = y.id => x = y
    PROVE  /\ p \in pending /\ p.rule \in RuleIds
           /\ AnchorOf(p, R) \in R \cap accepted /\ IsAnchor(AnchorOf(p, R), p)
           /\ Add(AnchorOf(p, R).time, MaxForward(p.rule)) >= wm
<1>1. p \in pending /\ \E x \in R : IsAnchor(x, p)
  BY DEF Resumable, Expired
<1>2. AnchorOf(p, R) \in R /\ IsAnchor(AnchorOf(p, R), p)
  BY <1>1 DEF AnchorOf
<1>3. PICK b \in accepted : IsAnchor(b, p) /\ p.upper = Add(b.time, MaxForward(p.rule))
  BY <1>1 DEF StreamInv, PendingInv
<1>4. AnchorOf(p, R) = b
  BY <1>2, <1>3 DEF IsAnchor
<1>5. p.upper >= wm /\ p.rule \in RuleIds
  BY <1>1 DEF StreamInv, PendingInv, TypeOK, MatchType
<1> QED
  BY <1>1, <1>2, <1>3, <1>4, <1>5

\* R holds whatever H holds within the horizon, and ids name one event.
Retains(R, H) ==
    /\ H \in SUBSET EventType /\ R \subseteq H
    /\ \A x \in R : \A y \in accepted : x.id = y.id => x = y
    /\ \A x \in H : x.time >= Sub(wm, MaxLookback) => x \in R

\* Let H be everything accepted and not spilled.  A ring R that still holds all
\* of H within the horizon gives a resumed match the bindings H gives.
LEMMA ResumeSeesWholeWindow ==
    ASSUME StreamInv, NEW w, NEW R, NEW H, Retains(R, H),
           NEW o \in ResumeRuns(w, R)
    PROVE  /\ o.how = "resumed"
           /\ \E a \in H \cap accepted :
                 /\ a.id = o.anchor /\ a.time = o.time /\ a.time >= Sub(wm, MaxLookback)
                 /\ o.bindings = Bindings(o.rule, a, H)
<1>0. /\ H \in SUBSET EventType /\ R \subseteq H
      /\ \A x \in R : \A y \in accepted : x.id = y.id => x = y
      /\ \A x \in H : x.time >= Sub(wm, MaxLookback) => x \in R
  BY DEF Retains
<1>1. PICK p \in Resumable(w, R) : o = Run(p.rule, AnchorOf(p, R), R, "resumed")
  BY DEF ResumeRuns
<1> DEFINE a == AnchorOf(p, R)
<1>2. /\ p.rule \in RuleIds /\ a \in R /\ a \in accepted
      /\ Add(a.time, MaxForward(p.rule)) >= wm
  BY <1>0, ResumeAnchor
<1>3. a \in EventType /\ a.time \in Times /\ wm \in Times
  BY <1>2 DEF StreamInv, TypeOK, EventType
<1> HIDE DEF a
<1>4. a.time >= Sub(wm, MaxLookback)
  BY <1>2, <1>3, WindowsWithinHorizon
<1>5. ASSUME NEW k \in DOMAIN Rules[p.rule].corr
      PROVE  Binding(Rules[p.rule].corr[k], a, R) = Binding(Rules[p.rule].corr[k], a, H)
  <2> DEFINE c == Rules[p.rule].corr[k]
  <2>1. CASE ~c.calc
    BY <2>1 DEF Binding
  <2>2. CASE c.calc
    <3>1. ASSUME NEW x \in H, Sub(a.time, c.back) <= x.time PROVE x \in R
      <4>1. x.time \in Times
        BY <1>0, <3>1 DEF EventType
      <4>2. Rules[p.rule] \in RuleType
        BY <1>2, RuleAssumption
      <4>3. c \in CorrelateType
        BY <1>5, <4>2 DEF RuleType
      <4>4. Sub(a.time, c.back) \in Times
        BY <1>3, <4>3, SaturationTypes DEF CorrelateType
      <4>5. x.time >= Sub(a.time, c.back)
        BY <3>1, <4>1, <4>4
      <4>6. x.time >= Sub(wm, MaxLookback)
        BY <1>2, <1>3, <1>5, <2>2, <4>1, <4>5, WindowsWithinHorizon
      <4> QED
        BY <1>0, <3>1, <4>6
    <3> HIDE DEF c
    <3>2. Candidates(c, a, R) = Candidates(c, a, H)
      BY <1>0, <3>1 DEF Candidates
    <3>3. Hits(c, a, R) = Hits(c, a, H) /\ Unsure(c, a, R) = Unsure(c, a, H)
      BY <3>2 DEF Hits, Unsure
    <3> QED
      BY <3>3 DEF Binding, c
  <2> QED
    BY <2>1, <2>2
<1>6. Bindings(p.rule, a, R) = Bindings(p.rule, a, H)
  BY <1>5 DEF Bindings
<1> QED
  BY <1>0, <1>1, <1>2, <1>4, <1>6 DEF Run, a

\* The two places a resume happens satisfy the premises above.
LEMMA AcceptRetains ==
    ASSUME StreamInv, NEW e \in EventType, e.id = Cardinality(Arrived) + 1, Accept(e)
    PROVE  Retains(PushEvent(e), accepted' \ spilledEv')
<1>1. /\ accepted' = accepted \cup {e} /\ lateOut' = lateOut
      /\ spilledEv' = spilledEv \cup RingVictims(e)
  BY DEF Accept
<1>2. RingVictims(e) \subseteq ring /\ PushEvent(e) = (ring \ RingVictims(e)) \cup {e}
  BY DEF RingVictims, InScope, PushEvent
<1>3. /\ ring \subseteq accepted \ spilledEv /\ spilledEv \subseteq accepted
      /\ accepted \subseteq EventType
  BY DEF StreamInv, RingInv, TypeOK
<1>4. e \notin Arrived
  <2>1. Arrived' = Arrived \cup {e}
    BY <1>1 DEF Arrived
  <2> QED
    BY <2>1, ArrivalKeepsIds DEF StreamInv
<1>5. \A x, y \in accepted : x.id = y.id => x = y
  BY DEF StreamInv, IdsInv, Arrived
<1>6. \A y \in accepted : y.id # e.id
  <2>1. Cardinality(Arrived) \in Nat
    BY FS_CardinalityType DEF StreamInv, IdsInv
  <2>2. \A y \in accepted : y \in Arrived /\ y.id \in Int
    BY <1>3 DEF Arrived, EventType
  <2>3. \A y \in accepted : y.id <= Cardinality(Arrived)
    BY <2>2 DEF StreamInv, IdsInv
  <2> QED
    BY <2>1, <2>2, <2>3
<1>7. \A x \in accepted : x.time >= Sub(wm, MaxLookback) => x \in ring \cup spilledEv
  BY DEF StreamInv, HorizonInv
<1> QED
  BY <1>1, <1>2, <1>3, <1>4, <1>5, <1>6, <1>7 DEF Arrived, Retains

\* Every verdict a resume reaches is the verdict of the whole accepted history.
THEOREM ResumesAreExact == Spec => ResumedVerdictsExact
<1> DEFINE Exact(o) == \E a \in accepted' :
                          /\ a.id = o.anchor
                          /\ o.bindings = Bindings(o.rule, a, accepted' \ spilledEv')
<1>1. ASSUME StreamInv, [Next]_vars,
             NEW o \in outcomes' \ outcomes, o.how = "resumed"
      PROVE  Exact(o)
  <2>1. CASE Ingest
    <3>1. PICK s \in Scopes, ty \in EventTypes, d \in Data, t \in EventTimes :
              /\ Cardinality(Arrived) < MaxEvents
              /\ DropLate(NewEvent(s, ty, d, t)) \/ Accept(NewEvent(s, ty, d, t))
      BY <2>1 DEF Ingest
    <3>2. PICK e \in EventType : e.id = Cardinality(Arrived) + 1 /\ (DropLate(e) \/ Accept(e))
      BY <1>1, <3>1, NewEventType
    <3>3. Accept(e)
      BY <1>1, <3>2 DEF DropLate, history
    <3>4. PICK R, H, w : R = PushEvent(e) /\ H = accepted' \ spilledEv' /\ w = WatermarkAfter(e)
      OBVIOUS
    <3>5. o \in ResumeRuns(w, R)
      <4>1. o \in ResumeRuns(w, R) \cup ImmediateRuns(e, w, GcRing(R, w))
        BY <1>1, <3>3, <3>4 DEF Accept
      <4>2. \A q \in ImmediateRuns(e, w, GcRing(R, w)) : q.how = "immediate"
        BY DEF ImmediateRuns, Run
      <4> QED
        BY <1>1, <4>1, <4>2
    <3>6. Retains(R, H)
      BY <1>1, <3>2, <3>3, <3>4, AcceptRetains
    <3>7. StreamInv
      BY <1>1
    <3>8. \E a \in H \cap accepted :
             /\ a.id = o.anchor /\ a.time = o.time /\ a.time >= Sub(wm, MaxLookback)
             /\ o.bindings = Bindings(o.rule, a, H)
      BY <3>5, <3>6, <3>7, ResumeSeesWholeWindow
    <3> QED
      BY <3>4, <3>8
  <2>2. ASSUME NEW t, SweepTo(t) PROVE Exact(o)
    <3>1. PICK H, w : H = accepted \ spilledEv /\ w = Later(wm, t)
      OBVIOUS
    <3>2. o \in ResumeRuns(w, ring) /\ accepted' = accepted /\ spilledEv' = spilledEv
      BY <1>1, <2>2, <3>1 DEF SweepTo
    <3>3. Retains(ring, H)
      BY <1>1, <3>1 DEF Retains, StreamInv, RingInv, TypeOK, IdsInv, Arrived, HorizonInv
    <3>4. StreamInv
      BY <1>1
    <3>5. \E a \in H \cap accepted :
             /\ a.id = o.anchor /\ a.time = o.time /\ a.time >= Sub(wm, MaxLookback)
             /\ o.bindings = Bindings(o.rule, a, H)
      BY <3>2, <3>3, <3>4, ResumeSeesWholeWindow
    <3> QED
      BY <3>1, <3>2, <3>5
  <2>3. CASE AdvanceWatermark
    BY <2>2, <2>3 DEF AdvanceWatermark
  <2>4. CASE Finish
    <3>1. CASE lastTime = NoTime
      BY <1>1, <2>4, <3>1 DEF Finish, history
    <3>2. CASE lastTime # NoTime
      BY <2>2, <2>4, <3>2 DEF Finish
    <3> QED
      BY <3>1, <3>2
  <2>5. CASE AdvanceWallClock
    BY <1>1, <2>5 DEF AdvanceWallClock, history
  <2>6. CASE UNCHANGED vars
    BY <1>1, <2>6 DEF vars, history
  <2> QED
    BY <1>1, <2>1, <2>3, <2>4, <2>5, <2>6 DEF Next, FinishAgain
<1>2. StreamInv /\ [Next]_vars =>
        [\A o \in outcomes' \ outcomes : o.how = "resumed" =>
          \E a \in accepted' : /\ a.id = o.anchor
                               /\ o.bindings = Bindings(o.rule, a, accepted' \ spilledEv')]_vars
  BY <1>1
<1> QED
  BY <1>2, StreamInvariant, PTL DEF Spec, ResumedVerdictsExact

-----------------------------------------------------------------------------
(* End of stream. *)

\* No waiting match is due later than the flush.
DueInv == \A a \in accepted : a.time <= lastTime /\ lastTime \in Times

\* last_event_time is the newest event time seen.
THEOREM NewestEventKnown == Spec => []DueInv
<1>1. Init => DueInv
  BY DEF Init, DueInv
<1>2. StreamInv /\ DueInv /\ [Next]_vars => DueInv'
  <2> SUFFICES ASSUME StreamInv, DueInv, [Next]_vars PROVE DueInv'
    OBVIOUS
  <2>0. lastTime \in Times \cup {NoTime} /\ accepted \subseteq EventType
    BY DEF StreamInv, TypeOK
  <2>1. CASE Ingest
    <3>1. PICK s \in Scopes, ty \in EventTypes, d \in Data, t \in EventTimes :
              /\ Cardinality(Arrived) < MaxEvents
              /\ DropLate(NewEvent(s, ty, d, t)) \/ Accept(NewEvent(s, ty, d, t))
      BY <2>1 DEF Ingest
    <3>2. PICK e \in EventType : e.id = Cardinality(Arrived) + 1 /\ (DropLate(e) \/ Accept(e))
      BY <3>1, NewEventType
    <3>3. /\ lastTime' = Later(lastTime, e.time)
          /\ accepted' \subseteq accepted \cup {e}
      BY <3>2 DEF DropLate, Accept, history
    <3>4. e.time \in Times /\ \A a \in accepted : a.time \in Times
      BY <2>0 DEF EventType
    <3>5. lastTime' \in Times /\ lastTime' >= e.time
          /\ (lastTime \in Times => lastTime' >= lastTime)
      BY <2>0, <3>3, <3>4, TimeAssumption DEF Later
    <3> QED
      BY <3>3, <3>4, <3>5, TimeAssumption DEF DueInv
  <2>2. ASSUME NEW t, SweepTo(t) PROVE DueInv'
    BY <2>2 DEF SweepTo, DueInv
  <2>3. CASE AdvanceWatermark
    BY <2>2, <2>3 DEF AdvanceWatermark
  <2>4. CASE Finish
    <3>1. CASE lastTime = NoTime
      BY <2>4, <3>1 DEF Finish, history, DueInv
    <3>2. CASE lastTime # NoTime
      BY <2>2, <2>4, <3>2 DEF Finish
    <3> QED
      BY <3>1, <3>2
  <2>5. CASE AdvanceWallClock
    BY <2>5 DEF AdvanceWallClock, history, DueInv
  <2>6. CASE UNCHANGED vars
    BY <2>6 DEF vars, history, engineVars, DueInv
  <2> QED
    BY <2>1, <2>3, <2>4, <2>5, <2>6 DEF Next, FinishAgain
<1> QED
  BY <1>1, <1>2, StreamInvariant, PTL DEF Spec

\* Where no flush saturates, finish closes every window the stream left open
\* (Engine::finish).
THEOREM FinishFlushes ==
    ASSUME \A t \in EventTimes : t + ImageMaxForward < MaxTime
    PROVE  Spec => FinishClosesWindows
<1> DEFINE LastInv == lastTime \in EventTimes \cup {NoTime}
<1>1. Init => LastInv
  BY DEF Init
<1>2. StreamInv /\ LastInv /\ [Next]_vars => LastInv'
  <2> SUFFICES ASSUME StreamInv, LastInv, [Next]_vars PROVE LastInv'
    OBVIOUS
  <2>1. CASE Ingest
    <3>1. PICK s \in Scopes, ty \in EventTypes, d \in Data, t \in EventTimes :
              DropLate(NewEvent(s, ty, d, t)) \/ Accept(NewEvent(s, ty, d, t))
      BY <2>1 DEF Ingest
    <3>2. lastTime' = Later(lastTime, t)
      BY <3>1 DEF DropLate, Accept, NewEvent
    <3> QED
      BY <3>1, <3>2 DEF Later
  <2>2. CASE ~Ingest
    BY <2>2 DEF Next, AdvanceWatermark, Finish, FinishAgain, AdvanceWallClock, SweepTo,
                vars, engineVars
  <2> QED
    BY <2>1, <2>2
<1>3. StreamInv /\ DueInv /\ LastInv /\ [Next]_vars => [finished' /\ ~finished => pending' = {}]_vars
  <2> SUFFICES ASSUME StreamInv, DueInv, LastInv, Next, finished', ~finished
               PROVE  pending' = {}
    OBVIOUS
  <2>1. Finish
    <3>1. ASSUME Ingest PROVE FALSE
      <4>1. PICK s \in Scopes, ty \in EventTypes, d \in Data, t \in EventTimes :
                DropLate(NewEvent(s, ty, d, t)) \/ Accept(NewEvent(s, ty, d, t))
        BY <3>1 DEF Ingest
      <4> DEFINE e == NewEvent(s, ty, d, t)
      <4> HIDE DEF e
      <4>2. DropLate(e) \/ Accept(e)
        BY <4>1 DEF e
      <4>3. DropLate(e) => finished' = finished
        BY DEF DropLate
      <4>4. Accept(e) => finished' = finished
        BY DEF Accept
      <4> QED
        BY <4>2, <4>3, <4>4
    <3>2. ~AdvanceWatermark /\ ~AdvanceWallClock
      BY DEF AdvanceWatermark, AdvanceWallClock
    <3>3. ~FinishAgain
      BY DEF FinishAgain
    <3> QED
      BY <3>1, <3>2, <3>3 DEF Next
  <2>2. CASE lastTime = NoTime
    <3>1. pending' = pending
      BY <2>1, <2>2 DEF Finish, storeVars
    <3>2. accepted = {}
      BY <2>2, TimeAssumption DEF DueInv
    <3> QED
      BY <3>1, <3>2 DEF StreamInv, PendingInv
  <2>3. CASE lastTime # NoTime
    <3>1. pending' = pending \ Expired(Later(wm, FlushTime))
      BY <2>1, <2>3 DEF Finish, SweepTo
    <3>2. lastTime \in EventTimes /\ lastTime \in Times /\ ImageMaxForward \in Nat
      BY <2>3, TimeAssumption, ImageMaxForwardType
    <3>3. FlushTime = lastTime + ImageMaxForward + 1
      BY <3>2, TimeAssumption DEF FlushTime, Add
    <3>4. ASSUME NEW p \in pending PROVE p.upper < Later(wm, FlushTime)
      <4>1. PICK a \in accepted : p.upper = Add(a.time, MaxForward(p.rule))
        BY DEF StreamInv, PendingInv
      <4>2. a.time \in Times /\ a.time <= lastTime /\ p.rule \in RuleIds /\ wm \in Times
        BY DEF StreamInv, TypeOK, EventType, MatchType, DueInv
      <4>3. MaxForward(p.rule) \in Nat /\ MaxForward(p.rule) <= ImageMaxForward
        BY <4>2, MaxForwardFacts
      <4>4. p.upper < FlushTime
        BY <3>2, <3>3, <4>1, <4>2, <4>3, TimeAssumption DEF Add
      <4>5. p.upper \in Int /\ FlushTime \in Int
        BY <3>2, <3>3, <4>1, <4>2, <4>3, SaturationTypes
      <4> QED
        BY <4>2, <4>4, <4>5 DEF Later
    <3> QED
      BY <3>1, <3>4 DEF Expired
  <2> QED
    BY <2>2, <2>3
<1> HIDE DEF LastInv
<1> QED
  BY <1>1, <1>2, <1>3, StreamInvariant, NewestEventKnown, PTL DEF Spec, FinishClosesWindows

-----------------------------------------------------------------------------
(* The kinds of steps. *)

\* What a capture promises of the next event.
Captured(e) ==
    /\ e \in EventType /\ e.id = Cardinality(Arrived) + 1 /\ e.time \in EventTimes
    /\ \A x \in InScope(Arrived, e.scope) : e.time >= x.time - SourceDisorder

\* Everything the properties of this module speak of stays, the wall clock apart.
Quiet ==
    /\ UNCHANGED <<storeVars, lateOut, absentLog, sources, history>>
    /\ wall <= wall'

\* The engine accepts an event, drops a late one, sweeps to a raised watermark, or
\* does nothing to the matches.
LEMMA StepKinds ==
    ASSUME StreamInv, [Next]_vars
    PROVE  \/ \E e : Captured(e) /\ Accept(e)
           \/ \E e : Captured(e) /\ DropLate(e)
           \/ \E t \in Times : SweepTo(t)
           \/ Quiet
<1>1. CASE Ingest
  <2>1. PICK s \in Scopes, ty \in EventTypes, d \in Data, t \in EventTimes :
            /\ Cardinality(Arrived) < MaxEvents
            /\ \A x \in InScope(Arrived, s) : t >= x.time - SourceDisorder
            /\ DropLate(NewEvent(s, ty, d, t)) \/ Accept(NewEvent(s, ty, d, t))
    BY <1>1 DEF Ingest
  <2>2. PICK e : e = NewEvent(s, ty, d, t)
    OBVIOUS
  <2>3. e \in EventType /\ e.id = Cardinality(Arrived) + 1
    BY <2>1, <2>2, NewEventType
  <2>4. e.scope = s /\ e.time = t
    BY <2>2 DEF NewEvent
  <2>5. Captured(e)
    BY <2>1, <2>3, <2>4 DEF Captured
  <2> QED
    BY <2>1, <2>2, <2>5
<1>2. CASE AdvanceWatermark
  BY <1>2, TimeAssumption DEF AdvanceWatermark
<1>3. CASE Finish
  <2>1. CASE lastTime = NoTime
    <3>1. wall \in Int /\ wall' = wall
      BY <1>3, <2>1, TimeAssumption DEF Finish, StreamInv, TypeOK, Times
    <3> QED
      BY <1>3, <2>1, <3>1 DEF Finish, Quiet, history
  <2>2. CASE lastTime # NoTime
    <3>1. lastTime \in Times
      BY <2>2 DEF StreamInv, TypeOK
    <3>2. FlushTime \in Times
      BY <3>1, ImageMaxForwardType, SaturationTypes DEF FlushTime
    <3> QED
      BY <1>3, <2>2, <3>2 DEF Finish
  <2> QED
    BY <2>1, <2>2
<1>4. CASE AdvanceWallClock \/ UNCHANGED vars
  <2>1. wall <= wall'
    <3>1. wall \in Int /\ WallTimes \subseteq Int
      BY TimeAssumption DEF StreamInv, TypeOK, Times
    <3> QED
      BY <1>4, <3>1 DEF AdvanceWallClock, Later, vars, engineVars
  <2> QED
    BY <1>4, <2>1 DEF AdvanceWallClock, Quiet, vars, history, storeVars, engineVars
<1> QED
  BY <1>1, <1>2, <1>3, <1>4 DEF Next, FinishAgain

-----------------------------------------------------------------------------
(* Matches whose anchor is gone. *)

\* A match that cannot be resumed lost its anchor to a full ring.
LEMMA OrphansWereSpilled ==
    ASSUME StreamInv, NEW w, NEW R, NEW H, NEW p \in Orphans(w, R),
           ring \subseteq R \cup H, spilledEv \subseteq H
    PROVE  \E a \in H : IsAnchor(a, p)
<1>1. p \in pending /\ ~\E x \in R : IsAnchor(x, p)
  BY DEF Orphans, Resumable, Expired
<1>2. PICK a \in accepted : IsAnchor(a, p)
  BY <1>1 DEF StreamInv, PendingInv
<1>3. a \in ring \cup spilledEv
  <2>1. a.scope = p.scope
    BY <1>2 DEF IsAnchor
  <2> QED
    BY <1>1, <1>2, <2>1, InvRetainsEvidence DEF WaitingEvidenceRetained
<1> QED
  BY <1>1, <1>2, <1>3

\* The only way to lose an anchor is a full ring (MissingAnchor of resume_expired):
\* garbage collection never does it.
THEOREM MissingMeansSpilled == Spec => []MissingAnchorsWereSpilled
<1>1. Init => MissingAnchorsWereSpilled
  BY DEF Init, MissingAnchorsWereSpilled
<1>2. ASSUME StreamInv, MissingAnchorsWereSpilled, [Next]_vars
      PROVE  MissingAnchorsWereSpilled'
  <2>1. ASSUME NEW e, Accept(e) PROVE MissingAnchorsWereSpilled'
    <3>1. PICK R, w, H : R = PushEvent(e) /\ w = WatermarkAfter(e)
                         /\ H = spilledEv \cup RingVictims(e)
      OBVIOUS
    <3>2. missing' = missing \cup Orphans(w, R) /\ spilledEv' = H
      BY <2>1, <3>1 DEF Accept
    <3>3. ring \subseteq R \cup H /\ spilledEv \subseteq H
      BY <3>1 DEF PushEvent
    <3>4. \A p \in Orphans(w, R) : \E a \in H : IsAnchor(a, p)
      BY <1>2, <3>3, OrphansWereSpilled
    <3> QED
      BY <1>2, <3>2, <3>3, <3>4 DEF MissingAnchorsWereSpilled, IsAnchor
  <2>2. ASSUME NEW t \in Times, SweepTo(t) PROVE MissingAnchorsWereSpilled'
    <3>1. PICK w : w = Later(wm, t)
      OBVIOUS
    <3>2. missing' = missing \cup Orphans(w, ring) /\ spilledEv' = spilledEv
      BY <2>2, <3>1 DEF SweepTo
    <3>3. \A p \in Orphans(w, ring) : \E a \in spilledEv : IsAnchor(a, p)
      BY <1>2, OrphansWereSpilled
    <3> QED
      BY <1>2, <3>2, <3>3 DEF MissingAnchorsWereSpilled, IsAnchor
  <2>3. ASSUME NEW e, DropLate(e) PROVE MissingAnchorsWereSpilled'
    BY <1>2, <2>3 DEF DropLate, history, MissingAnchorsWereSpilled, IsAnchor
  <2>4. CASE Quiet
    BY <1>2, <2>4 DEF Quiet, history, MissingAnchorsWereSpilled, IsAnchor
  <2> QED
    BY <1>2, <2>1, <2>2, <2>3, <2>4, StepKinds
<1> QED
  BY <1>1, <1>2, StreamInvariant, PTL DEF Spec

-----------------------------------------------------------------------------
(* What becomes of a match. *)

\* Every match the accepted events have made, as a (rule, anchor) pair.
MatchesOf(e) == {<<r, e.id>> : r \in Matched(e)}
Matches == UNION {MatchesOf(e) : e \in accepted}

\* A pair names one record of S.
DistinctPairs(S) == \A x, y \in S : x.rule = y.rule /\ x.anchor = y.anchor => x = y

\* No two of the sets have a member in common.
Apart(A, B, C, D, E) ==
    /\ A \cap (B \cup C \cup D \cup E) = {}
    /\ B \cap (C \cup D \cup E) = {}
    /\ C \cap (D \cup E) = {}
    /\ D \cap E = {}

\* The matches are shared out among the five fates.
FateInv ==
    /\ DistinctPairs(pending) /\ DistinctPairs(outcomes)
    /\ Matches = Pairs(pending) \cup Pairs(outcomes) \cup Pairs(spilledPm)
                 \cup Pairs(missing) \cup Pairs(unfunded)
    /\ Apart(Pairs(pending), Pairs(outcomes), Pairs(spilledPm), Pairs(missing),
             Pairs(unfunded))

\* Membership in a set of pairs.
LEMMA PairsMembers ==
    ASSUME NEW S
    PROVE  /\ \A x \in S : <<x.rule, x.anchor>> \in Pairs(S)
           /\ \A k \in Pairs(S) : \E x \in S : k = <<x.rule, x.anchor>>
BY DEF Pairs

\* The pairs of two sets together.
LEMMA PairsUnion ==
    ASSUME NEW S, NEW T
    PROVE  Pairs(S \cup T) = Pairs(S) \cup Pairs(T)
BY DEF Pairs

\* Where a pair names one record, a part and the rest share no pair.
LEMMA PairsSplit ==
    ASSUME NEW S, DistinctPairs(S), NEW A \in SUBSET S
    PROVE  /\ Pairs(S) = Pairs(A) \cup Pairs(S \ A)
           /\ Pairs(A) \cap Pairs(S \ A) = {}
BY DEF Pairs, DistinctPairs

\* A resume runs, or refuses, exactly the matches whose anchor is there.
LEMMA ResumePairs ==
    ASSUME NEW w, NEW R, DistinctPairs(pending)
    PROVE  /\ Pairs(ResumeRuns(w, R)) \cup Pairs(RefusedResumes(w, R)) = Pairs(Resumable(w, R))
           /\ Pairs(ResumeRuns(w, R)) \cap Pairs(RefusedResumes(w, R)) = {}
           /\ DistinctPairs(ResumeRuns(w, R))
<1>1. \A p \in Resumable(w, R) : AnchorOf(p, R).id = p.anchor /\ p \in pending
  BY DEF Resumable, AnchorOf, IsAnchor, Expired
<1>2. CASE MaxFirings = 0
  <2>1. ResumeRuns(w, R) = {}
    BY <1>2 DEF ResumeRuns
  <2>2. Pairs(RefusedResumes(w, R)) = Pairs(Resumable(w, R))
    <3> DEFINE Ref(p) == [rule |-> p.rule, anchor |-> p.anchor]
    <3>1. RefusedResumes(w, R) = {Ref(p) : p \in Resumable(w, R)}
      BY <1>2 DEF RefusedResumes
    <3>2. \A p \in Resumable(w, R) : Ref(p).rule = p.rule /\ Ref(p).anchor = p.anchor
      OBVIOUS
    <3> HIDE DEF Ref
    <3> QED
      BY <3>1, <3>2 DEF Pairs
  <2> QED
    BY <2>1, <2>2 DEF Pairs, DistinctPairs
<1>3. CASE MaxFirings # 0
  <2>1. RefusedResumes(w, R) = {}
    BY <1>3 DEF RefusedResumes
  <2> DEFINE RunOf(p) == Run(p.rule, AnchorOf(p, R), R, "resumed")
  <2>2. ResumeRuns(w, R) = {RunOf(p) : p \in Resumable(w, R)}
    BY <1>3 DEF ResumeRuns
  <2>3. \A p \in Resumable(w, R) : RunOf(p).rule = p.rule /\ RunOf(p).anchor = p.anchor
    BY <1>1 DEF Run
  <2> HIDE DEF RunOf
  <2>4. Pairs(ResumeRuns(w, R)) = Pairs(Resumable(w, R))
    BY <2>2, <2>3 DEF Pairs
  <2>5. DistinctPairs(ResumeRuns(w, R))
    BY <1>1, <2>2, <2>3 DEF DistinctPairs
  <2> QED
    BY <2>1, <2>4, <2>5 DEF Pairs
<1> QED
  BY <1>2, <1>3

\* The matches the firing budget of an event refuses.
OverBudget(e, w) ==
    {[rule |-> r, anchor |-> e.id] : r \in Immediate(e, w) \ Funded(e, w)}

\* An accepted event's matches wait, run at once or are over budget.
LEMMA AnchorPairs ==
    ASSUME NEW e, NEW w, NEW R
    PROVE  /\ MatchesOf(e) = Pairs(Suspended(e, w)) \cup Pairs(ImmediateRuns(e, w, R))
                             \cup Pairs(OverBudget(e, w))
           /\ Pairs(Suspended(e, w)) \cap (Pairs(ImmediateRuns(e, w, R)) \cup Pairs(OverBudget(e, w))) = {}
           /\ Pairs(ImmediateRuns(e, w, R)) \cap Pairs(OverBudget(e, w)) = {}
           /\ DistinctPairs(Suspended(e, w)) /\ DistinctPairs(ImmediateRuns(e, w, R))
<1>1. Funded(e, w) \subseteq Immediate(e, w) /\ Immediate(e, w) \subseteq Matched(e)
  BY DEF Funded, Immediate
<1>2. /\ Pairs(Suspended(e, w)) = {<<r, e.id>> : r \in Matched(e) \ Immediate(e, w)}
      /\ DistinctPairs(Suspended(e, w))
  <2> DEFINE Wait(r) == [rule |-> r, anchor |-> e.id, upper |-> Add(e.time, MaxForward(r)),
                         scope |-> e.scope]
  <2>1. Suspended(e, w) = {Wait(r) : r \in Matched(e) \ Immediate(e, w)}
    BY DEF Suspended
  <2>2. \A r : Wait(r).rule = r /\ Wait(r).anchor = e.id
    OBVIOUS
  <2> HIDE DEF Wait
  <2> QED
    BY <2>1, <2>2 DEF Pairs, DistinctPairs
<1>3. Pairs(OverBudget(e, w)) = {<<r, e.id>> : r \in Immediate(e, w) \ Funded(e, w)}
  <2> DEFINE Ref(r) == [rule |-> r, anchor |-> e.id]
  <2>1. OverBudget(e, w) = {Ref(r) : r \in Immediate(e, w) \ Funded(e, w)}
    BY DEF OverBudget
  <2>2. \A r : Ref(r).rule = r /\ Ref(r).anchor = e.id
    OBVIOUS
  <2> HIDE DEF Ref
  <2> QED
    BY <2>1, <2>2 DEF Pairs
<1>4. /\ Pairs(ImmediateRuns(e, w, R)) = {<<r, e.id>> : r \in Funded(e, w)}
      /\ DistinctPairs(ImmediateRuns(e, w, R))
  <2> DEFINE RunOf(r) == Run(r, e, R, "immediate")
  <2>1. ImmediateRuns(e, w, R) = {RunOf(r) : r \in Funded(e, w)}
    BY DEF ImmediateRuns
  <2>2. \A r : RunOf(r).rule = r /\ RunOf(r).anchor = e.id
    BY DEF Run
  <2> HIDE DEF RunOf
  <2> QED
    BY <2>1, <2>2 DEF Pairs, DistinctPairs
<1> QED
  BY <1>1, <1>2, <1>3, <1>4 DEF MatchesOf

\* The matches of the next event are new.
LEMMA FreshMatches ==
    ASSUME StreamInv, NEW e, e.id = Cardinality(Arrived) + 1
    PROVE  MatchesOf(e) \cap Matches = {}
<1>1. Cardinality(Arrived) \in Nat
  BY FS_CardinalityType DEF StreamInv, IdsInv
<1>2. ASSUME NEW x \in accepted PROVE x.id # e.id
  <2>1. x \in Arrived /\ x.id \in Int
    BY DEF Arrived, StreamInv, TypeOK, EventType
  <2>2. x.id <= Cardinality(Arrived)
    BY <2>1 DEF StreamInv, IdsInv
  <2> QED
    BY <1>1, <2>1, <2>2
<1> QED
  BY <1>2 DEF MatchesOf, Matches

\* A waiting match goes on waiting, runs, is refused or is orphaned.
LEMMA ResumeShares ==
    ASSUME NEW w, NEW R, DistinctPairs(pending)
    PROVE  /\ DistinctPairs(pending \ Expired(w)) /\ DistinctPairs(ResumeRuns(w, R))
           /\ Pairs(pending) = Pairs(pending \ Expired(w)) \cup Pairs(ResumeRuns(w, R))
                               \cup Pairs(RefusedResumes(w, R)) \cup Pairs(Orphans(w, R))
           /\ Apart(Pairs(pending \ Expired(w)), Pairs(ResumeRuns(w, R)),
                    Pairs(RefusedResumes(w, R)), Pairs(Orphans(w, R)), {})
<1>1. /\ Expired(w) \in SUBSET pending /\ Resumable(w, R) \in SUBSET Expired(w)
      /\ Orphans(w, R) = Expired(w) \ Resumable(w, R)
  BY DEF Expired, Resumable, Orphans
<1>2. /\ Pairs(pending) = Pairs(Expired(w)) \cup Pairs(pending \ Expired(w))
      /\ Pairs(Expired(w)) \cap Pairs(pending \ Expired(w)) = {}
  BY <1>1, PairsSplit
<1>3. DistinctPairs(pending \ Expired(w)) /\ DistinctPairs(Expired(w))
  BY <1>1 DEF DistinctPairs
<1>4. /\ Pairs(Expired(w)) = Pairs(Resumable(w, R)) \cup Pairs(Orphans(w, R))
      /\ Pairs(Resumable(w, R)) \cap Pairs(Orphans(w, R)) = {}
  BY <1>1, <1>3, PairsSplit
<1>5. /\ Pairs(ResumeRuns(w, R)) \cup Pairs(RefusedResumes(w, R)) = Pairs(Resumable(w, R))
      /\ Pairs(ResumeRuns(w, R)) \cap Pairs(RefusedResumes(w, R)) = {}
      /\ DistinctPairs(ResumeRuns(w, R))
  BY ResumePairs
<1> QED
  BY <1>2, <1>3, <1>4, <1>5 DEF Apart

\* Sets of records that share no pair make a set where a pair names one record.
LEMMA DistinctUnion ==
    ASSUME NEW S, NEW T, DistinctPairs(S), DistinctPairs(T), Pairs(S) \cap Pairs(T) = {}
    PROVE  DistinctPairs(S \cup T)
<1> SUFFICES ASSUME NEW x \in S \cup T, NEW y \in S \cup T,
                    x.rule = y.rule, x.anchor = y.anchor
             PROVE  x = y
  BY DEF DistinctPairs
<1>1. <<x.rule, x.anchor>> = <<y.rule, y.anchor>>
  OBVIOUS
<1>2. /\ x \in S => <<x.rule, x.anchor>> \in Pairs(S)
      /\ x \in T => <<x.rule, x.anchor>> \in Pairs(T)
      /\ y \in S => <<x.rule, x.anchor>> \in Pairs(S)
      /\ y \in T => <<x.rule, x.anchor>> \in Pairs(T)
  BY <1>1, PairsMembers
<1>3. x \in S <=> y \in S
  BY <1>2
<1> QED
  BY <1>3 DEF DistinctPairs

\* An accepted event moves every match to one fate.
LEMMA AcceptShares ==
    ASSUME StreamInv, FateInv, NEW e, Captured(e), Accept(e)
    PROVE  FateInv'
<1>1. PICK w, R, R2, QV, B :
         /\ w = WatermarkAfter(e) /\ R = PushEvent(e) /\ R2 = GcRing(R, w)
         /\ QV = QueueVictims(InScope((pending \ Expired(w)) \cup Suspended(e, w), e.scope))
         /\ B = OverBudget(e, w)
  OBVIOUS
<1>2. PICK K, Wt, Res, Imm, Ref, Orp :
         /\ K = pending \ Expired(w) /\ Wt = Suspended(e, w) /\ Res = ResumeRuns(w, R)
         /\ Imm = ImmediateRuns(e, w, R2) /\ Ref = RefusedResumes(w, R) /\ Orp = Orphans(w, R)
  OBVIOUS
<1>3. /\ pending' = (K \cup Wt) \ QV
      /\ outcomes' = outcomes \cup Res \cup Imm
      /\ spilledPm' = spilledPm \cup QV
      /\ missing' = missing \cup Orp
      /\ unfunded' = unfunded \cup Ref \cup B
      /\ accepted' = accepted \cup {e}
  BY <1>1, <1>2 DEF Accept, OverBudget
<1>4. QV \in SUBSET (K \cup Wt)
  BY <1>1, <1>2 DEF QueueVictims, InScope
<1>5. /\ DistinctPairs(K) /\ DistinctPairs(Res)
      /\ Pairs(pending) = Pairs(K) \cup Pairs(Res) \cup Pairs(Ref) \cup Pairs(Orp)
      /\ Apart(Pairs(K), Pairs(Res), Pairs(Ref), Pairs(Orp), {})
  BY <1>2, ResumeShares DEF FateInv
<1>6. /\ MatchesOf(e) = Pairs(Wt) \cup Pairs(Imm) \cup Pairs(B)
      /\ Pairs(Wt) \cap (Pairs(Imm) \cup Pairs(B)) = {}
      /\ Pairs(Imm) \cap Pairs(B) = {}
      /\ DistinctPairs(Wt) /\ DistinctPairs(Imm)
  BY <1>1, <1>2, AnchorPairs
<1>7. MatchesOf(e) \cap Matches = {} /\ Matches' = Matches \cup MatchesOf(e)
  <2>1. MatchesOf(e) \cap Matches = {}
    BY FreshMatches DEF Captured
  <2>2. Matches' = Matches \cup MatchesOf(e)
    BY <1>3 DEF Matches, MatchesOf, Matched
  <2> QED
    BY <2>1, <2>2
<1>8. DistinctPairs(K \cup Wt)
  BY <1>5, <1>6, <1>7, DistinctUnion DEF FateInv
<1>9. DistinctPairs(pending')
  BY <1>3, <1>8 DEF DistinctPairs
<1>10. DistinctPairs(outcomes')
  <2>1. DistinctPairs(outcomes) /\ Pairs(outcomes) \cap Pairs(Res) = {}
    BY <1>5 DEF FateInv, Apart
  <2>2. DistinctPairs(outcomes \cup Res)
    BY <1>5, <2>1, DistinctUnion
  <2>3. Pairs(outcomes \cup Res) = Pairs(outcomes) \cup Pairs(Res)
    BY PairsUnion
  <2>4. Pairs(outcomes \cup Res) \cap Pairs(Imm) = {}
    BY <1>5, <1>6, <1>7, <2>3 DEF FateInv
  <2> QED
    BY <1>3, <1>6, <2>2, <2>4, DistinctUnion
<1>11. /\ Pairs(K) \cup Pairs(Wt) = Pairs(pending') \cup Pairs(QV)
       /\ Pairs(pending') \cap Pairs(QV) = {}
  <2>1. Pairs(K \cup Wt) = Pairs(K) \cup Pairs(Wt)
    BY PairsUnion
  <2>2. /\ Pairs(K \cup Wt) = Pairs(QV) \cup Pairs((K \cup Wt) \ QV)
        /\ Pairs(QV) \cap Pairs((K \cup Wt) \ QV) = {}
    BY <1>4, <1>8, PairsSplit
  <2> QED
    BY <1>3, <2>1, <2>2
<1>12. /\ Pairs(outcomes') = Pairs(outcomes) \cup Pairs(Res) \cup Pairs(Imm)
       /\ Pairs(spilledPm') = Pairs(spilledPm) \cup Pairs(QV)
       /\ Pairs(missing') = Pairs(missing) \cup Pairs(Orp)
       /\ Pairs(unfunded') = Pairs(unfunded) \cup Pairs(Ref) \cup Pairs(B)
  <2>1. /\ Pairs((outcomes \cup Res) \cup Imm) = Pairs(outcomes \cup Res) \cup Pairs(Imm)
        /\ Pairs(outcomes \cup Res) = Pairs(outcomes) \cup Pairs(Res)
    BY PairsUnion, Zenon
  <2>2. /\ Pairs((unfunded \cup Ref) \cup B) = Pairs(unfunded \cup Ref) \cup Pairs(B)
        /\ Pairs(unfunded \cup Ref) = Pairs(unfunded) \cup Pairs(Ref)
    BY PairsUnion, Zenon
  <2>3. /\ Pairs(spilledPm \cup QV) = Pairs(spilledPm) \cup Pairs(QV)
        /\ Pairs(missing \cup Orp) = Pairs(missing) \cup Pairs(Orp)
    BY PairsUnion, Zenon
  <2> QED
    BY <1>3, <2>1, <2>2, <2>3
<1>13. PICK P, O, S, M, U, Kp, Ro, Ru, Rm, N, W, I, Bp, P1, V :
         /\ P = Pairs(pending) /\ O = Pairs(outcomes) /\ S = Pairs(spilledPm)
         /\ M = Pairs(missing) /\ U = Pairs(unfunded)
         /\ Kp = Pairs(K) /\ Ro = Pairs(Res) /\ Ru = Pairs(Ref) /\ Rm = Pairs(Orp)
         /\ N = MatchesOf(e) /\ W = Pairs(Wt) /\ I = Pairs(Imm) /\ Bp = Pairs(B)
         /\ P1 = Pairs(pending') /\ V = Pairs(QV)
  OBVIOUS
<1>14. Apart(P, O, S, M, U) /\ Matches = P \cup O \cup S \cup M \cup U
  BY <1>13 DEF FateInv
<1>15. /\ P = Kp \cup Ro \cup Ru \cup Rm /\ Apart(Kp, Ro, Ru, Rm, {})
       /\ N \cap (P \cup O \cup S \cup M \cup U) = {}
       /\ N = W \cup I \cup Bp /\ W \cap (I \cup Bp) = {} /\ I \cap Bp = {}
       /\ Kp \cup W = P1 \cup V /\ P1 \cap V = {}
  BY <1>5, <1>6, <1>7, <1>11, <1>13, <1>14
<1>16. /\ Apart(P1, O \cup Ro \cup I, S \cup V, M \cup Rm, U \cup Ru \cup Bp)
       /\ P \cup O \cup S \cup M \cup U \cup N =
            P1 \cup (O \cup Ro \cup I) \cup (S \cup V) \cup (M \cup Rm) \cup (U \cup Ru \cup Bp)
  <2>1. ASSUME NEW k PROVE
           /\ k \in P1 => k \notin O /\ k \notin Ro /\ k \notin I /\ k \notin S /\ k \notin V
                          /\ k \notin M /\ k \notin Rm /\ k \notin U /\ k \notin Ru /\ k \notin Bp
           /\ k \in V => k \notin O /\ k \notin Ro /\ k \notin I
                         /\ k \notin M /\ k \notin Rm /\ k \notin U /\ k \notin Ru /\ k \notin Bp
           /\ k \in O => k \notin S /\ k \notin M /\ k \notin Rm /\ k \notin U /\ k \notin Ru
                         /\ k \notin Bp
           /\ k \in Ro => k \notin S /\ k \notin M /\ k \notin Rm /\ k \notin U /\ k \notin Ru
                          /\ k \notin Bp
           /\ k \in I => k \notin S /\ k \notin M /\ k \notin Rm /\ k \notin U /\ k \notin Ru
                         /\ k \notin Bp
           /\ k \in S => k \notin M /\ k \notin Rm /\ k \notin U /\ k \notin Ru /\ k \notin Bp
           /\ k \in M => k \notin U /\ k \notin Ru /\ k \notin Bp
           /\ k \in Rm => k \notin U /\ k \notin Ru /\ k \notin Bp
    <3>1. (k \in Kp \/ k \in W) <=> (k \in P1 \/ k \in V)
      BY <1>15
    <3>2. ~(k \in P1 /\ k \in V)
      BY <1>15
    <3> QED
      BY <1>14, <1>15, <3>1, <3>2 DEF Apart
  <2>2. Apart(P1, O \cup Ro \cup I, S \cup V, M \cup Rm, U \cup Ru \cup Bp)
    BY <2>1, Zenon DEF Apart
  <2> QED
    BY <1>15, <2>2
<1>17. /\ Pairs(pending)' = P1 /\ Pairs(outcomes)' = O \cup Ro \cup I
       /\ Pairs(spilledPm)' = S \cup V /\ Pairs(missing)' = M \cup Rm
       /\ Pairs(unfunded)' = U \cup Ru \cup Bp
       /\ Matches' = P \cup O \cup S \cup M \cup U \cup N
  BY <1>7, <1>12, <1>13, <1>14
<1>18. DistinctPairs(pending)' /\ DistinctPairs(outcomes)'
  BY <1>9, <1>10 DEF DistinctPairs
<1> QED
  BY <1>16, <1>17, <1>18 DEF FateInv, Apart

\* So does a raised watermark.
LEMMA SweepShares ==
    ASSUME FateInv, NEW t, SweepTo(t)
    PROVE  FateInv'
<1>1. PICK w : w = Later(wm, t)
  OBVIOUS
<1>2. PICK K, Res, Ref, Orp :
         /\ K = pending \ Expired(w) /\ Res = ResumeRuns(w, ring)
         /\ Ref = RefusedResumes(w, ring) /\ Orp = Orphans(w, ring)
  OBVIOUS
<1>3. /\ pending' = K /\ outcomes' = outcomes \cup Res /\ spilledPm' = spilledPm
      /\ missing' = missing \cup Orp /\ unfunded' = unfunded \cup Ref
      /\ accepted' = accepted
  BY <1>1, <1>2 DEF SweepTo
<1>4. /\ DistinctPairs(K) /\ DistinctPairs(Res)
      /\ Pairs(pending) = Pairs(K) \cup Pairs(Res) \cup Pairs(Ref) \cup Pairs(Orp)
      /\ Apart(Pairs(K), Pairs(Res), Pairs(Ref), Pairs(Orp), {})
  BY <1>2, ResumeShares DEF FateInv
<1>5. DistinctPairs(outcomes')
  <2>1. DistinctPairs(outcomes) /\ Pairs(outcomes) \cap Pairs(Res) = {}
    BY <1>4 DEF FateInv, Apart
  <2> QED
    BY <1>3, <1>4, <2>1, DistinctUnion
<1>6. /\ Pairs(outcomes') = Pairs(outcomes) \cup Pairs(Res)
      /\ Pairs(missing') = Pairs(missing) \cup Pairs(Orp)
      /\ Pairs(unfunded') = Pairs(unfunded) \cup Pairs(Ref)
  BY <1>3, PairsUnion
<1>7. Matches' = Matches
  BY <1>3 DEF Matches, MatchesOf, Matched
<1>8. PICK P, O, S, M, U, Kp, Ro, Ru, Rm :
         /\ P = Pairs(pending) /\ O = Pairs(outcomes) /\ S = Pairs(spilledPm)
         /\ M = Pairs(missing) /\ U = Pairs(unfunded)
         /\ Kp = Pairs(K) /\ Ro = Pairs(Res) /\ Ru = Pairs(Ref) /\ Rm = Pairs(Orp)
  OBVIOUS
<1>9. Apart(P, O, S, M, U) /\ Matches = P \cup O \cup S \cup M \cup U
  BY <1>8 DEF FateInv
<1>10. P = Kp \cup Ro \cup Ru \cup Rm /\ Apart(Kp, Ro, Ru, Rm, {})
  BY <1>4, <1>8
<1>11. /\ Apart(Kp, O \cup Ro \cup {}, S \cup {}, M \cup Rm, U \cup Ru \cup {})
       /\ P \cup O \cup S \cup M \cup U \cup {} =
            Kp \cup (O \cup Ro \cup {}) \cup (S \cup {}) \cup (M \cup Rm) \cup (U \cup Ru \cup {})
  BY <1>9, <1>10 DEF Apart
<1>12. /\ Pairs(pending)' = Kp /\ Pairs(outcomes)' = O \cup Ro
       /\ Pairs(spilledPm)' = S /\ Pairs(missing)' = M \cup Rm
       /\ Pairs(unfunded)' = U \cup Ru
       /\ Matches' = P \cup O \cup S \cup M \cup U
  BY <1>3, <1>6, <1>7, <1>8, <1>9
<1>13. DistinctPairs(pending)' /\ DistinctPairs(outcomes)'
  BY <1>3, <1>4, <1>5 DEF DistinctPairs
<1> QED
  BY <1>11, <1>12, <1>13 DEF FateInv, Apart

\* The matches are shared out among their fates in every reachable state.
LEMMA FatesInvariant == Spec => []FateInv
<1>1. Init => FateInv
  BY DEF Init, FateInv, Apart, Pairs, DistinctPairs, Matches
<1>2. ASSUME StreamInv, FateInv, [Next]_vars PROVE FateInv'
  <2>1. ASSUME UNCHANGED <<pending, outcomes, spilledPm, missing, unfunded, accepted>>
        PROVE  FateInv'
    BY <1>2, <2>1 DEF FateInv, Apart, Pairs, DistinctPairs, Matches, MatchesOf, Matched
  <2>2. CASE \E e : Captured(e) /\ Accept(e)
    BY <1>2, <2>2, AcceptShares
  <2>3. CASE \E e : Captured(e) /\ DropLate(e)
    BY <2>1, <2>3 DEF DropLate, storeVars, history
  <2>4. CASE \E t \in Times : SweepTo(t)
    BY <1>2, <2>4, SweepShares
  <2>5. CASE Quiet
    BY <2>1, <2>5 DEF Quiet, storeVars, history
  <2> QED
    BY <1>2, <2>2, <2>3, <2>4, <2>5, StepKinds
<1> QED
  BY <1>1, <1>2, StreamInvariant, PTL DEF Spec

\* No match is lost or run twice, whatever limit strikes: every match of an
\* accepted event has exactly one fate (ingest, resume_expired, WaitQueue::push).
THEOREM EveryMatchHasOneFate == Spec => []EveryMatchAccountedFor
<1>1. FateInv => EveryMatchAccountedFor
  <2> SUFFICES ASSUME FateInv, NEW e \in accepted, NEW r \in Matched(e)
               PROVE  LET fates == <<Pairs(pending), Pairs(outcomes), Pairs(spilledPm),
                                     Pairs(missing), Pairs(unfunded)>>
                      IN  Cardinality({f \in DOMAIN fates : <<r, e.id>> \in fates[f]}) = 1
    BY Zenon DEF EveryMatchAccountedFor
  <2> DEFINE fates == <<Pairs(pending), Pairs(outcomes), Pairs(spilledPm),
                        Pairs(missing), Pairs(unfunded)>>
  <2>1. PICK k, P, O, S, M, U :
          /\ k = <<r, e.id>> /\ P = Pairs(pending) /\ O = Pairs(outcomes)
          /\ S = Pairs(spilledPm) /\ M = Pairs(missing) /\ U = Pairs(unfunded)
    OBVIOUS
  <2>2. k \in P \cup O \cup S \cup M \cup U /\ Apart(P, O, S, M, U)
    BY <2>1 DEF FateInv, Matches, MatchesOf
  <2>3. PICK hit : hit = {f \in DOMAIN fates : k \in fates[f]}
    OBVIOUS
  <2>4. \E f \in 1..5 : hit = {f}
    <3>1. hit = {f \in 1..5 : k \in <<P, O, S, M, U>>[f]}
      BY <2>1, <2>3
    <3>2. /\ 1 \in hit <=> k \in P
          /\ 2 \in hit <=> k \in O
          /\ 3 \in hit <=> k \in S
          /\ 4 \in hit <=> k \in M
          /\ 5 \in hit <=> k \in U
      BY <3>1
    <3>3. hit \subseteq 1..5
      BY <3>1
    <3>4. \A f \in hit : f = 1 \/ f = 2 \/ f = 3 \/ f = 4 \/ f = 5
      BY <3>3
    <3> QED
      BY <2>2, <3>2, <3>4 DEF Apart
  <2>5. Cardinality(hit) = 1
    BY <2>4, FS_Singleton
  <2> QED
    BY <2>1, <2>3, <2>5
<1> QED
  BY <1>1, FatesInvariant, PTL

\* A rule runs at most once for an anchor, and only for one it matches.
THEOREM RunsAreUnique == Spec => []OneRunPerMatch
<1>1. FateInv => OneRunPerMatch
  <2> SUFFICES ASSUME FateInv, NEW o \in outcomes
               PROVE  /\ \E e \in accepted : e.id = o.anchor /\ o.rule \in Matched(e)
                      /\ \A q \in outcomes : q.rule = o.rule /\ q.anchor = o.anchor => q = o
    BY DEF OneRunPerMatch
  <2>1. <<o.rule, o.anchor>> \in Matches
    BY PairsMembers DEF FateInv
  <2>2. PICK e \in accepted : <<o.rule, o.anchor>> \in MatchesOf(e)
    BY <2>1 DEF Matches
  <2>3. e.id = o.anchor /\ o.rule \in Matched(e)
    BY <2>2 DEF MatchesOf
  <2> QED
    BY <2>3 DEF FateInv, DistinctPairs
<1> QED
  BY <1>1, FatesInvariant, PTL

-----------------------------------------------------------------------------
(* Full wait queues. *)

\* An event suspends finitely many matches.
LEMMA FiniteSuspended ==
    ASSUME NEW e, NEW w
    PROVE  IsFiniteSet(Suspended(e, w))
<1> DEFINE S == Suspended(e, w)
           f == [p \in S |-> p.rule]
<1>1. \A p \in S : p.rule \in RuleIds
  BY DEF Suspended, Matched
<1>2. \A p, q \in S : p.rule = q.rule => p = q
  BY DEF Suspended
<1> HIDE DEF S
<1>3. f \in Injection(S, RuleIds)
  BY <1>1, <1>2 DEF Injection, IsInjective
<1>4. IsFiniteSet(RuleIds)
  <2>1. Len(Rules) \in Nat /\ DOMAIN Rules = 1..Len(Rules)
    BY RuleAssumption
  <2>2. IsFiniteSet(1..Len(Rules))
    BY <2>1, FS_Interval
  <2> QED
    BY <2>1, <2>2 DEF RuleIds
<1> HIDE DEF f
<1>5. IsFiniteSet(S)
  BY <1>3, <1>4, FS_Injection
<1> QED
  BY <1>5 DEF S

\* A wait queue is finite.
LEMMA QueuesAreFinite == Spec => []IsFiniteSet(pending)
<1>1. Init => IsFiniteSet(pending)
  BY FS_EmptySet DEF Init
<1>2. ASSUME StreamInv, IsFiniteSet(pending), [Next]_vars PROVE IsFiniteSet(pending)'
  <2>1. ASSUME NEW e, Accept(e) PROVE IsFiniteSet(pending')
    <3>1. PICK w : pending' \subseteq pending \cup Suspended(e, w)
      BY <2>1 DEF Accept, QueueVictims, InScope, Expired
    <3>2. IsFiniteSet(pending \cup Suspended(e, w))
      BY <1>2, FiniteSuspended, FS_Union
    <3> QED
      BY <3>1, <3>2, FS_Subset
  <2>2. CASE \E t \in Times : SweepTo(t)
    <3>1. pending' \subseteq pending
      BY <2>2 DEF SweepTo
    <3> QED
      BY <1>2, <3>1, FS_Subset
  <2>3. CASE (\E e : DropLate(e)) \/ Quiet
    BY <1>2, <2>3 DEF DropLate, Quiet, storeVars
  <2> QED
    BY <1>2, <2>1, <2>2, <2>3, StepKinds
<1> QED
  BY <1>1, <1>2, StreamInvariant, PTL DEF Spec

\* Matches of one scope are totally ordered by urgency.
LEMMA UrgencyIsTotal ==
    ASSUME NEW p \in MatchType, NEW q \in MatchType, p.scope = q.scope
    PROVE  p = q \/ Urgent(p, q) \/ Urgent(q, p)
<1>1. /\ p.upper \in Int /\ q.upper \in Int /\ p.anchor \in Int /\ q.anchor \in Int
      /\ p.rule \in Int /\ q.rule \in Int
  <2>1. DOMAIN Rules = 1..Len(Rules)
    BY RuleAssumption
  <2> QED
    BY <2>1, TimeAssumption DEF MatchType, RuleIds, Times
<1>2. p.upper = q.upper /\ p.rule = q.rule /\ p.anchor = q.anchor => p = q
  BY DEF MatchType
<1> QED
  BY <1>1, <1>2 DEF Urgent

\* And urgency is transitive.
LEMMA UrgencyIsTransitive ==
    ASSUME NEW p \in MatchType, NEW q \in MatchType, NEW x \in MatchType,
           Urgent(p, q), Urgent(q, x)
    PROVE  Urgent(p, x)
<1>1. /\ p.upper \in Int /\ q.upper \in Int /\ x.upper \in Int
      /\ p.anchor \in Int /\ q.anchor \in Int /\ x.anchor \in Int
      /\ p.rule \in Int /\ q.rule \in Int /\ x.rule \in Int
  <2>1. DOMAIN Rules = 1..Len(Rules)
    BY RuleAssumption
  <2> QED
    BY <2>1, TimeAssumption DEF MatchType, RuleIds, Times
<1> QED
  BY <1>1 DEF Urgent

\* What a full queue keeps is more urgent than what it drops (WaitQueue::push).
LEMMA VictimsAreLeastUrgent ==
    ASSUME NEW Q \in SUBSET MatchType, IsFiniteSet(Q),
           \A x, y \in Q : x.scope = y.scope,
           NEW p \in QueueVictims(Q), NEW q \in Q \ QueueVictims(Q)
    PROVE  Urgent(q, p)
<1> DEFINE Ahead(x) == {y \in Q : Urgent(y, x)}
           cap == Later(1, PendingCap)
<1>1. p \in Q /\ Cardinality(Ahead(p)) >= cap
  BY DEF QueueVictims
<1>2. ~(Cardinality(Ahead(q)) >= cap)
  BY DEF QueueVictims
<1>3. q # p
  BY <1>1, <1>2
<1>4. ASSUME Urgent(p, q) PROVE FALSE
  <2>1. Ahead(p) \subseteq Ahead(q)
    BY <1>1, <1>4, UrgencyIsTransitive
  <2>2. IsFiniteSet(Ahead(p)) /\ IsFiniteSet(Ahead(q))
    <3>1. Ahead(p) \in SUBSET Q /\ Ahead(q) \in SUBSET Q
      OBVIOUS
    <3> HIDE DEF Ahead
    <3> QED
      BY <3>1, FS_Subset
  <2> HIDE DEF Ahead
  <2>3. /\ Cardinality(Ahead(p)) <= Cardinality(Ahead(q))
        /\ Cardinality(Ahead(p)) \in Nat /\ Cardinality(Ahead(q)) \in Nat
    BY <2>1, <2>2, FS_Subset, FS_CardinalityType
  <2>4. cap \in Nat
    BY LimitAssumption DEF Later
  <2> HIDE DEF cap
  <2> QED
    BY <1>1, <1>2, <2>3, <2>4
<1>5. p \in MatchType /\ q \in MatchType /\ p.scope = q.scope
  BY <1>1
<1> QED
  BY <1>3, <1>4, <1>5, UrgencyIsTotal

\* A full wait queue drops its least urgent match: whatever still waits in that
\* scope is due no later than what was dropped.
THEOREM SpillsAreLeastUrgent == Spec => SpillDropsLeastUrgent
<1>1. ASSUME StreamInv, IsFiniteSet(pending), [Next]_vars,
             NEW p \in spilledPm' \ spilledPm, NEW q \in pending', q.scope = p.scope
      PROVE  Urgent(q, p)
  <2>1. ASSUME NEW e, Captured(e), Accept(e) PROVE Urgent(q, p)
    <3>1. PICK w, Q, S :
            /\ w = WatermarkAfter(e) /\ S = InScope(Q, e.scope)
            /\ Q = (pending \ Expired(w)) \cup Suspended(e, w)
      OBVIOUS
    <3>2. pending' = Q \ QueueVictims(S) /\ spilledPm' = spilledPm \cup QueueVictims(S)
      BY <2>1, <3>1 DEF Accept
    <3>3. IsFiniteSet(S)
      <4>1. IsFiniteSet(pending \cup Suspended(e, w))
        BY <1>1, FiniteSuspended, FS_Union
      <4>2. S \subseteq pending \cup Suspended(e, w)
        BY <3>1 DEF InScope
      <4> QED
        BY <4>1, <4>2, FS_Subset
    <3>4. S \in SUBSET MatchType
      <4>1. e \in EventType /\ w \in Times
        BY <1>1, <2>1, <3>1, WatermarkAfterType DEF StreamInv, Captured
      <4>2. \A x \in Suspended(e, w) : x \in MatchType
        BY <4>1, SuspendedFacts
      <4>3. pending \subseteq MatchType
        BY <1>1 DEF StreamInv, TypeOK
      <4> QED
        BY <3>1, <4>2, <4>3 DEF InScope
    <3>5. \A x, y \in S : x.scope = y.scope
      BY <3>1 DEF InScope
    <3>6. p \in QueueVictims(S) /\ p \in S
      BY <3>2 DEF QueueVictims
    <3>7. q \in S \ QueueVictims(S)
      BY <1>1, <3>1, <3>2, <3>6 DEF InScope
    <3> QED
      BY <3>3, <3>4, <3>5, <3>6, <3>7, VictimsAreLeastUrgent
  <2>2. CASE (\E e : DropLate(e)) \/ (\E t \in Times : SweepTo(t)) \/ Quiet
    BY <1>1, <2>2 DEF DropLate, SweepTo, Quiet, history
  <2> QED
    BY <1>1, <2>1, <2>2, StepKinds
<1>2. StreamInv /\ IsFiniteSet(pending) /\ [Next]_vars =>
        [\A p \in spilledPm' \ spilledPm : \A q \in pending' :
            q.scope = p.scope => Urgent(q, p)]_vars
  BY <1>1
<1> QED
  BY <1>2, StreamInvariant, QueuesAreFinite, PTL DEF Spec, SpillDropsLeastUrgent

-----------------------------------------------------------------------------
(* The live watermark. *)

\* The live target does not pass any active source.
LEMMA TargetBehindSources ==
    ASSUME TypeOK, NEW e \in EventType, NEW s \in Active(e)
    PROVE  LiveTarget(e) <= SourcesAfter(e)[s].local
<1> DEFINE locals == {SourcesAfter(e)[z].local : z \in Active(e)}
<1>1. SourcesAfter(e) \in [Scopes -> [seen : BOOLEAN, local : Times, last : Times]]
  BY WatermarkAfterType
<1>2. locals \subseteq Times /\ SourcesAfter(e)[s].local \in locals
  BY <1>1 DEF Active
<1>3. \E m \in locals : \A l \in locals : m <= l
  <2> HIDE DEF locals
  <2> QED
    BY <1>2, LeastTime
<1>4. LiveTarget(e) = CHOOSE m \in locals : \A l \in locals : m <= l
  BY DEF LiveTarget
<1> HIDE DEF locals
<1>5. \A l \in locals : LiveTarget(e) <= l
  BY <1>3, <1>4
<1> QED
  BY <1>2, <1>5

\* A source's own watermark never goes back.
LEMMA LocalsRise ==
    ASSUME TypeOK, NEW e \in EventType, NEW s \in Scopes
    PROVE  /\ sources[s].seen => SourcesAfter(e)[s].seen
                                 /\ SourcesAfter(e)[s].local >= sources[s].local
           /\ SourcesAfter(e)[e.scope].seen
           /\ SourcesAfter(e)[e.scope].local >= Sub(e.time, MaxDisorder)
           /\ s # e.scope => SourcesAfter(e)[s] = sources[s]
           /\ SourcesAfter(e)[e.scope].local \in
                 {sources[e.scope].local, Sub(e.time, MaxDisorder)}
           /\ ~sources[e.scope].seen =>
                 SourcesAfter(e)[e.scope].local = Sub(e.time, MaxDisorder)
<1>1. /\ sources \in [Scopes -> [seen : BOOLEAN, local : Times, last : Times]]
      /\ e.scope \in Scopes /\ e.time \in Times
  BY DEF TypeOK, EventType
<1>2. PICK m : m = Sub(e.time, MaxDisorder)
  OBVIOUS
<1>3. m \in Int /\ sources[s].local \in Int /\ sources[e.scope].local \in Int
  BY <1>1, <1>2, SaturationTypes, LimitAssumption, TimeAssumption DEF Times
<1>4. SourcesAfter(e) =
        [sources EXCEPT ![e.scope] =
            [seen |-> TRUE,
             local |-> IF sources[e.scope].seen THEN Later(sources[e.scope].local, m) ELSE m,
             last |-> Wall(e.time)]]
  BY <1>2 DEF SourcesAfter
<1>5. /\ SourcesAfter(e)[e.scope].seen
      /\ SourcesAfter(e)[e.scope].local =
            IF sources[e.scope].seen THEN Later(sources[e.scope].local, m) ELSE m
      /\ s # e.scope => SourcesAfter(e)[s] = sources[s]
  BY <1>1, <1>4
<1> QED
  BY <1>2, <1>3, <1>5 DEF Later

SteadyInv == SteadySourcesHoldWatermark /\ (Mode = "Offline" => steady = {})

\* The watermark never overtakes a source that keeps sending
\* (advance_live_watermark): however many sources there are and whichever of them
\* fall idle, the minimum is taken over all that are active.
THEOREM WatermarkWaitsForSteady == Spec => []SteadySourcesHoldWatermark
<1>1. Init => SteadyInv
  BY DEF Init, SteadyInv, SteadySourcesHoldWatermark
<1>2. ASSUME StreamInv, SteadyInv, [Next]_vars PROVE SteadyInv'
  <2>1. ASSUME NEW e, Captured(e), Accept(e) PROVE SteadyInv'
    <3>0. TypeOK /\ e \in EventType
      BY <1>2, <2>1 DEF StreamInv, Captured
    <3>1. CASE Mode = "Offline"
      <4>1. steady' = {}
        BY <1>2, <2>1, <3>1 DEF Accept, SteadyInv
      <4> QED
        BY <3>1, <4>1 DEF SteadyInv, SteadySourcesHoldWatermark
    <3>2. CASE Mode = "Live"
      <4>1. /\ sources' = SourcesAfter(e) /\ wm' = Later(wm, LiveTarget(e))
            /\ steady' = {s \in Active(e) : \/ s \in steady
                                            \/ /\ s = e.scope /\ ~sources[s].seen
                                               /\ wm <= Sub(e.time, MaxDisorder)}
        BY <2>1, <3>2 DEF Accept, WatermarkAfter
      <4>2. ASSUME NEW s \in steady' PROVE sources'[s].seen /\ wm' <= sources'[s].local
        <5>1. s \in Active(e) /\ s \in Scopes
          BY <4>1 DEF Active
        <5>2. LiveTarget(e) <= SourcesAfter(e)[s].local
          BY <3>0, <5>1, TargetBehindSources
        <5>3. SourcesAfter(e)[s].seen
          BY <5>1 DEF Active
        <5>4. /\ wm \in Int /\ sources[s].local \in Int
              /\ SourcesAfter(e)[s].local \in Int
          BY <3>0, <5>1, WatermarkAfterType, TimeAssumption DEF TypeOK, Times
        <5>5. wm <= SourcesAfter(e)[s].local
          <6>1. CASE s \in steady
            <7>1. sources[s].seen /\ wm <= sources[s].local
              BY <1>2, <6>1 DEF SteadyInv, SteadySourcesHoldWatermark
            <7>2. SourcesAfter(e)[s].local >= sources[s].local
              BY <3>0, <5>1, <7>1, LocalsRise
            <7> QED
              BY <5>4, <7>1, <7>2
          <6>2. CASE s = e.scope /\ ~sources[s].seen /\ wm <= Sub(e.time, MaxDisorder)
            <7>1. SourcesAfter(e)[s].local = Sub(e.time, MaxDisorder)
              BY <3>0, <5>1, <6>2, LocalsRise
            <7> QED
              BY <6>2, <7>1
          <6> QED
            BY <4>1, <6>1, <6>2
        <5> QED
          BY <4>1, <5>2, <5>3, <5>5 DEF Later
      <4> QED
        BY <3>2, <4>2 DEF SteadyInv, SteadySourcesHoldWatermark
    <3> QED
      BY <3>1, <3>2, LimitAssumption
  <2>2. CASE \E t \in Times : SweepTo(t)
    BY <2>2 DEF SweepTo, SteadyInv, SteadySourcesHoldWatermark
  <2>3. CASE (\E e : DropLate(e)) \/ Quiet
    BY <1>2, <2>3 DEF DropLate, Quiet, storeVars, history, SteadyInv, SteadySourcesHoldWatermark
  <2> QED
    BY <1>2, <2>1, <2>2, <2>3, StepKinds
<1>3. SteadyInv => SteadySourcesHoldWatermark
  BY DEF SteadyInv
<1> QED
  BY <1>1, <1>2, <1>3, StreamInvariant, PTL DEF Spec

\* A source's watermark is an arrived event of it less the allowed disorder.
SourceInv ==
    \A s \in Scopes : sources[s].seen =>
        \E x \in InScope(Arrived, s) : sources[s].local = Sub(x.time, MaxDisorder)

\* Where a source stands is known from its events.
LEMMA SourcesFollowEvents == Spec => []SourceInv
<1>1. Init => SourceInv
  BY DEF Init, SourceInv
<1>2. ASSUME StreamInv, SourceInv, [Next]_vars PROVE SourceInv'
  <2>1. ASSUME Arrived \subseteq Arrived', sources' = sources PROVE SourceInv'
    BY <1>2, <2>1 DEF SourceInv, InScope
  <2>2. ASSUME NEW e, Captured(e), Accept(e) PROVE SourceInv'
    <3>0. TypeOK /\ e \in EventType /\ e.scope \in Scopes
      BY <1>2, <2>2 DEF StreamInv, Captured, EventType
    <3>1. Arrived' = Arrived \cup {e}
      BY <2>2 DEF Accept, Arrived
    <3>2. CASE Mode = "Offline"
      BY <2>1, <2>2, <3>1, <3>2 DEF Accept
    <3>3. CASE Mode = "Live"
      <4>1. sources' = SourcesAfter(e)
        BY <2>2, <3>3 DEF Accept
      <4>2. ASSUME NEW s \in Scopes, sources'[s].seen
            PROVE  \E x \in InScope(Arrived', s) : sources'[s].local = Sub(x.time, MaxDisorder)
        <5>1. CASE s = e.scope /\ sources'[s].local = Sub(e.time, MaxDisorder)
          BY <3>1, <5>1 DEF InScope
        <5>2. CASE s = e.scope /\ sources'[s].local # Sub(e.time, MaxDisorder)
          <6>1. sources[s].seen /\ sources'[s].local = sources[s].local
            BY <3>0, <4>1, <5>2, LocalsRise
          <6> QED
            BY <1>2, <3>1, <6>1 DEF SourceInv, InScope
        <5>3. CASE s # e.scope
          <6>1. sources'[s] = sources[s]
            BY <3>0, <4>1, <5>3, LocalsRise
          <6> QED
            BY <1>2, <3>1, <4>2, <6>1 DEF SourceInv, InScope
        <5> QED
          BY <5>1, <5>2, <5>3
      <4> QED
        BY <4>2 DEF SourceInv
    <3> QED
      BY <3>2, <3>3, LimitAssumption
  <2>3. CASE \E t \in Times : SweepTo(t)
    BY <2>1, <2>3 DEF SweepTo, Arrived
  <2>4. CASE (\E e : DropLate(e)) \/ Quiet
    BY <2>1, <2>4 DEF DropLate, Quiet, storeVars, history, Arrived
  <2> QED
    BY <1>2, <2>2, <2>3, <2>4, StepKinds
<1> QED
  BY <1>1, <1>2, StreamInvariant, PTL DEF Spec

\* No event carries i64::MIN, the value the store uses for "no watermark yet".
RealTimes == MinTime \notin EventTimes

\* A source that keeps sending within max_disorder never loses an event to the
\* late-event side output (ADGL3003).
THEOREM OnTimeIsKept ==
    ASSUME RealTimes
    PROVE  Spec => OnTimeNeverDropped
<1>1. ASSUME StreamInv, SteadySourcesHoldWatermark, SourceInv, [Next]_vars,
             SourceDisorder < MaxDisorder + AllowedLateness,
             NEW e \in lateOut' \ lateOut, e.scope \in steady
      PROVE  FALSE
  <2>1. CASE \E d : Captured(d) /\ DropLate(d)
    <3>1. Captured(e) /\ DropLate(e)
      BY <1>1, <2>1 DEF DropLate
    <3>2. wm # MinTime /\ e.time <= Sub(wm, AllowedLateness)
      BY <3>1 DEF DropLate, TooLate, IsLate
    <3>3. e.scope \in Scopes /\ sources[e.scope].seen /\ wm <= sources[e.scope].local
      BY <1>1 DEF StreamInv, TypeOK, SteadySourcesHoldWatermark
    <3>4. PICK x \in InScope(Arrived, e.scope) : sources[e.scope].local = Sub(x.time, MaxDisorder)
      BY <1>1, <3>3 DEF SourceInv
    <3>5. e.time >= x.time - SourceDisorder /\ e.time # MinTime
      BY <3>1 DEF Captured, RealTimes
    <3>6. wm \in Times /\ e.time \in Times /\ x.time \in Times
      BY <1>1, <3>1, <3>4 DEF StreamInv, TypeOK, EventType, Captured, InScope, Arrived
    <3>7. wm <= x.time - MaxDisorder
      BY <3>2, <3>3, <3>4, <3>6, TimeAssumption, LimitAssumption DEF Sub, Times
    <3>8. e.time <= wm - AllowedLateness
      BY <3>2, <3>5, <3>6, TimeAssumption, LimitAssumption DEF Sub, Times
    <3> QED
      BY <1>1, <3>5, <3>6, <3>7, <3>8, TimeAssumption, LimitAssumption DEF Times
  <2>2. CASE \/ \E d : Accept(d)
             \/ \E t \in Times : SweepTo(t)
             \/ Quiet
    BY <1>1, <2>2 DEF Accept, SweepTo, Quiet
  <2> QED
    BY <1>1, <2>1, <2>2, StepKinds
<1>2. StreamInv /\ SteadySourcesHoldWatermark /\ SourceInv /\ [Next]_vars =>
        [SourceDisorder < MaxDisorder + AllowedLateness =>
            \A e \in lateOut' \ lateOut : e.scope \notin steady]_vars
  BY <1>1
<1> QED
  BY <1>2, StreamInvariant, WatermarkWaitsForSteady, SourcesFollowEvents, PTL
  DEF Spec, OnTimeNeverDropped

-----------------------------------------------------------------------------
(* Runs and the windows they closed. *)

\* What a run o for the anchor a is once the watermark is w: its windows are closed.
Settled(o, a, w) ==
    /\ o.rule \in RuleIds /\ o.anchor = a.id /\ o.scope = a.scope /\ o.time = a.time
    /\ Add(a.time, MaxForward(o.rule)) <= w
    /\ DOMAIN o.bindings = DOMAIN Rules[o.rule].corr

\* Every run was for an accepted event whose windows the watermark has passed.
RunsInv ==
    /\ \A x \in Arrived : x.time \in EventTimes
    /\ \A o \in outcomes : \E a \in accepted : Settled(o, a, wm)

\* A resumed run was for an accepted event that was due.
LEMMA ResumedSettled ==
    ASSUME StreamInv, NEW w \in Times, NEW R,
           \A x \in R : \A y \in accepted : x.id = y.id => x = y,
           NEW o \in ResumeRuns(w, R)
    PROVE  \E a \in accepted : Settled(o, a, w) /\ Add(a.time, MaxForward(o.rule)) >= wm
<1>1. PICK p \in Resumable(w, R) : o = Run(p.rule, AnchorOf(p, R), R, "resumed")
  BY DEF ResumeRuns
<1>2. PICK a : a = AnchorOf(p, R)
  OBVIOUS
<1>3. /\ p \in pending /\ p.rule \in RuleIds /\ a \in accepted /\ IsAnchor(a, p)
      /\ Add(a.time, MaxForward(p.rule)) >= wm
  BY <1>2, ResumeAnchor
<1>4. p.upper = Add(a.time, MaxForward(p.rule))
  <2>1. PICK b \in accepted : IsAnchor(b, p) /\ p.upper = Add(b.time, MaxForward(p.rule))
    BY <1>3 DEF StreamInv, PendingInv
  <2>2. a = b
    BY <1>3, <2>1 DEF StreamInv, IdsInv, Arrived, IsAnchor
  <2> QED
    BY <2>1, <2>2
<1>5. p.upper < w /\ p.upper \in Int
  BY <1>1, <1>3, TimeAssumption DEF Resumable, Expired, StreamInv, TypeOK, MatchType, Times
<1>6. /\ o.rule = p.rule /\ o.anchor = a.id /\ o.scope = a.scope /\ o.time = a.time
      /\ DOMAIN o.bindings = DOMAIN Rules[p.rule].corr
  BY <1>1, <1>2 DEF Run, Bindings
<1> QED
  BY <1>3, <1>4, <1>5, <1>6, TimeAssumption DEF Settled, Times

\* So was an immediate one.
LEMMA ImmediateSettled ==
    ASSUME NEW e, NEW w, NEW R, NEW o \in ImmediateRuns(e, w, R)
    PROVE  /\ Settled(o, e, w) /\ o.rule \in Matched(e)
           /\ o.bindings = Bindings(o.rule, e, R)
<1>1. PICK r \in Funded(e, w) : o = Run(r, e, R, "immediate")
  BY DEF ImmediateRuns
<1>2. r \in Matched(e) /\ r \in RuleIds /\ Add(e.time, MaxForward(r)) <= w
  BY DEF Funded, Immediate, Matched
<1> QED
  BY <1>1, <1>2 DEF Run, Bindings, Settled

\* Ids name one event in a ring that has just taken an event.
LEMMA RingsNameEvents ==
    ASSUME StreamInv
    PROVE  /\ \A x \in ring : \A y \in accepted : x.id = y.id => x = y
           /\ \A e : Captured(e) /\ Accept(e) =>
                 \A x \in PushEvent(e) : \A y \in accepted : x.id = y.id => x = y
<1>1. \A x \in ring : \A y \in accepted : x.id = y.id => x = y
  BY DEF StreamInv, RingInv, IdsInv, Arrived
<1>2. ASSUME NEW e, Captured(e), Accept(e)
      PROVE  \A x \in PushEvent(e) : \A y \in accepted : x.id = y.id => x = y
  BY <1>2, AcceptRetains DEF Captured, Retains
<1> QED
  BY <1>1, <1>2

\* The runs of a step: what an accepted event or a sweep adds to the outcomes.
LEMMA NewRunsSettled ==
    ASSUME StreamInv, [Next]_vars, NEW o \in outcomes' \ outcomes
    PROVE  \E a \in accepted' : Settled(o, a, wm')
<1>1. ASSUME NEW e, Captured(e), Accept(e) PROVE \E a \in accepted' : Settled(o, a, wm')
  <2>1. PICK w, R, R2 : w = WatermarkAfter(e) /\ R = PushEvent(e) /\ R2 = GcRing(R, w)
    OBVIOUS
  <2>2. /\ wm' = w /\ accepted' = accepted \cup {e}
        /\ o \in ResumeRuns(w, R) \cup ImmediateRuns(e, w, R2)
    BY <1>1, <2>1 DEF Accept
  <2>3. w \in Times
    BY <1>1, <2>1, WatermarkAfterType DEF StreamInv, Captured
  <2>4. \A x \in R : \A y \in accepted : x.id = y.id => x = y
    BY <1>1, <2>1, RingsNameEvents
  <2>5. CASE o \in ResumeRuns(w, R)
    BY <2>2, <2>3, <2>4, <2>5, ResumedSettled
  <2>6. CASE o \in ImmediateRuns(e, w, R2)
    BY <2>2, <2>6, ImmediateSettled
  <2> QED
    BY <2>2, <2>5, <2>6
<1>2. ASSUME NEW t \in Times, SweepTo(t) PROVE \E a \in accepted' : Settled(o, a, wm')
  <2>1. PICK w : w = Later(wm, t)
    OBVIOUS
  <2>2. wm' = w /\ accepted' = accepted /\ o \in ResumeRuns(w, ring)
    BY <1>2, <2>1 DEF SweepTo
  <2>3. w \in Times
    BY <2>1, TimeAssumption DEF StreamInv, TypeOK, Later
  <2> QED
    BY <2>2, <2>3, RingsNameEvents, ResumedSettled
<1>3. CASE (\E e : DropLate(e)) \/ Quiet
  BY <1>3 DEF DropLate, Quiet, history
<1> QED
  BY <1>1, <1>2, <1>3, StepKinds

\* The watermark does not go back and accepted events stay accepted.
LEMMA HistoryGrows ==
    ASSUME StreamInv, [Next]_vars
    PROVE  /\ wm \in Times /\ wm' \in Times /\ wm <= wm'
           /\ accepted \subseteq accepted' /\ spilledEv \subseteq spilledEv'
<1>1. wm \in Times
  BY DEF StreamInv, TypeOK
<1>2. ASSUME NEW e, Captured(e), Accept(e)
      PROVE  /\ wm' \in Times /\ wm <= wm'
             /\ accepted \subseteq accepted' /\ spilledEv \subseteq spilledEv'
  <2>1. WatermarkAfter(e) \in Times /\ WatermarkAfter(e) >= wm
    BY <1>2, WatermarkAfterType DEF StreamInv, Captured
  <2>2. wm' = WatermarkAfter(e) /\ accepted' = accepted \cup {e}
        /\ spilledEv' = spilledEv \cup RingVictims(e)
    BY <1>2 DEF Accept
  <2> QED
    BY <1>1, <2>1, <2>2, TimeAssumption
<1>3. ASSUME NEW t \in Times, SweepTo(t)
      PROVE  /\ wm' \in Times /\ wm <= wm'
             /\ accepted \subseteq accepted' /\ spilledEv \subseteq spilledEv'
  <2>1. wm' = Later(wm, t) /\ accepted' = accepted /\ spilledEv' = spilledEv
    BY <1>3 DEF SweepTo
  <2> QED
    BY <1>1, <2>1, TimeAssumption DEF Later, Times
<1>4. CASE (\E e : DropLate(e)) \/ Quiet
  BY <1>1, <1>4, TimeAssumption DEF DropLate, Quiet, storeVars, history, Times
<1> QED
  BY <1>1, <1>2, <1>3, <1>4, StepKinds

\* Every run is for an accepted event, after its windows have closed.
LEMMA RunsInvariant == Spec => []RunsInv
<1>1. Init => RunsInv
  BY DEF Init, RunsInv, Arrived
<1>2. ASSUME StreamInv, RunsInv, [Next]_vars PROVE RunsInv'
  <2>1. \A x \in Arrived' : x.time \in EventTimes
    <3>1. CASE \E e : Captured(e) /\ (Accept(e) \/ DropLate(e))
      <4>1. PICK e : Captured(e) /\ (Accept(e) \/ DropLate(e))
        BY <3>1
      <4>2. Arrived' = Arrived \cup {e}
        BY <4>1 DEF Accept, DropLate, history, Arrived
      <4> QED
        BY <1>2, <4>1, <4>2 DEF Captured, RunsInv
    <3>2. CASE (\E t \in Times : SweepTo(t)) \/ Quiet
      <4>1. Arrived' = Arrived
        BY <3>2 DEF SweepTo, Quiet, history, Arrived
      <4> QED
        BY <1>2, <4>1 DEF RunsInv
    <3> QED
      BY <1>2, <3>1, <3>2, StepKinds
  <2>2. ASSUME NEW o \in outcomes' PROVE \E a \in accepted' : Settled(o, a, wm')
    <3>1. CASE o \in outcomes
      <4>1. PICK a \in accepted : Settled(o, a, wm)
        BY <1>2, <3>1 DEF RunsInv
      <4>2. a \in accepted' /\ wm \in Times /\ wm' \in Times /\ wm <= wm'
        BY <1>2, HistoryGrows
      <4>3. Add(a.time, MaxForward(o.rule)) \in Times
        <5>1. a.time \in Times /\ o.rule \in RuleIds
          BY <1>2, <4>1 DEF Settled, StreamInv, TypeOK, EventType
        <5> QED
          BY <5>1, MaxForwardFacts, SaturationTypes
      <4> QED
        BY <4>1, <4>2, <4>3, TimeAssumption DEF Settled, Times
    <3> QED
      BY <1>2, <2>2, <3>1, NewRunsSettled
  <2> QED
    BY <2>1, <2>2 DEF RunsInv, Settled
<1> QED
  BY <1>1, <1>2, StreamInvariant, PTL DEF Spec

\* Absence windows of the runs are on record (Engine::record_resolved_absent).
AbsenceInv == AbsentWindows(outcomes) \subseteq absentLog

\* The windows of two sets of runs together.
LEMMA AbsentWindowsUnion ==
    ASSUME NEW S, NEW T
    PROVE  AbsentWindows(S \cup T) = AbsentWindows(S) \cup AbsentWindows(T)
<1> DEFINE Of(o) == {[scope |-> o.scope, rule |-> o.rule, type |-> c.type,
                      lo |-> Sub(o.time, c.back), hi |-> Add(o.time, c.fwd)] :
                        c \in {Rules[o.rule].corr[k] :
                                 k \in {j \in DOMAIN o.bindings :
                                          o.bindings[j].kind = "absent"
                                          /\ Rules[o.rule].corr[j].calc}}}
<1>1. \A X : AbsentWindows(X) = UNION {Of(o) : o \in X}
  BY DEF AbsentWindows
<1> HIDE DEF Of
<1> QED
  BY <1>1

\* An absent binding of a run leaves its window.
LEMMA AbsentWindowOf ==
    ASSUME NEW S, NEW o \in S, NEW k \in DOMAIN o.bindings,
           o.bindings[k].kind = "absent", Rules[o.rule].corr[k].calc
    PROVE  \E x \in AbsentWindows(S) :
              /\ x.scope = o.scope /\ x.type = Rules[o.rule].corr[k].type
              /\ x.lo = Sub(o.time, Rules[o.rule].corr[k].back)
              /\ x.hi = Add(o.time, Rules[o.rule].corr[k].fwd)
<1> DEFINE Win(c) == [scope |-> o.scope, rule |-> o.rule, type |-> c.type,
                      lo |-> Sub(o.time, c.back), hi |-> Add(o.time, c.fwd)]
           Cs == {Rules[o.rule].corr[j] :
                    j \in {i \in DOMAIN o.bindings :
                             o.bindings[i].kind = "absent" /\ Rules[o.rule].corr[i].calc}}
<1>1. Rules[o.rule].corr[k] \in Cs
  OBVIOUS
<1>2. {Win(c) : c \in Cs} \subseteq AbsentWindows(S)
  BY DEF AbsentWindows
<1>3. Win(Rules[o.rule].corr[k]) \in AbsentWindows(S)
  BY <1>1, <1>2
<1> QED
  BY <1>3

\* The record of absences keeps up with the runs.
LEMMA AbsencesRecorded == Spec => []AbsenceInv
<1>1. Init => AbsenceInv
  BY DEF Init, AbsenceInv, AbsentWindows
<1>2. ASSUME StreamInv, AbsenceInv, [Next]_vars PROVE AbsenceInv'
  <2>1. ASSUME NEW e, Accept(e) PROVE AbsenceInv'
    <3>1. PICK O, I : /\ outcomes' = outcomes \cup O \cup I
                      /\ absentLog' = absentLog \cup AbsentWindows(O \cup I)
      BY <2>1 DEF Accept
    <3>2. outcomes' = outcomes \cup (O \cup I)
      BY <3>1
    <3>3. AbsentWindows(outcomes') = AbsentWindows(outcomes) \cup AbsentWindows(O \cup I)
      BY <3>2, AbsentWindowsUnion
    <3>4. AbsentWindows(outcomes)' = AbsentWindows(outcomes')
      BY DEF AbsentWindows
    <3> QED
      BY <1>2, <3>1, <3>3, <3>4 DEF AbsenceInv
  <2>2. ASSUME NEW t \in Times, SweepTo(t) PROVE AbsenceInv'
    <3>1. PICK O : /\ outcomes' = outcomes \cup O
                   /\ absentLog' = absentLog \cup AbsentWindows(O)
      BY <2>2 DEF SweepTo
    <3>2. AbsentWindows(outcomes') = AbsentWindows(outcomes) \cup AbsentWindows(O)
      BY <3>1, AbsentWindowsUnion
    <3>3. AbsentWindows(outcomes)' = AbsentWindows(outcomes')
      BY DEF AbsentWindows
    <3> QED
      BY <1>2, <3>1, <3>2, <3>3 DEF AbsenceInv
  <2>3. CASE (\E e : DropLate(e)) \/ Quiet
    <3>1. outcomes' = outcomes /\ absentLog' = absentLog
      BY <2>3 DEF DropLate, Quiet, history
    <3> QED
      BY <1>2, <3>1 DEF AbsenceInv, AbsentWindows
  <2> QED
    BY <1>2, <2>1, <2>2, <2>3, StepKinds
<1> QED
  BY <1>1, <1>2, StreamInvariant, PTL DEF Spec

\* No event contradicts an absence verdict unnoticed (ADGL3002): offline, an event
\* that arrives in a window over which a correlate of its type was found absent is
\* audited.
THEOREM LateEvidenceIsAudited ==
    ASSUME RealTimes
    PROVE  Spec => LateEvidenceAudited
<1> DEFINE Contradicts(e, o) ==
             /\ o.scope = e.scope
             /\ \E k \in DOMAIN o.bindings :
                   LET c == Rules[o.rule].corr[k]
                   IN /\ c.calc /\ o.bindings[k].kind = "absent" /\ c.type = e.type
                      /\ Sub(o.time, c.back) <= e.time /\ e.time <= Add(o.time, c.fwd)
<1>1. ASSUME StreamInv, RunsInv, AbsenceInv, [Next]_vars, Mode = "Offline",
             NEW e \in accepted' \ accepted, NEW o \in outcomes, Contradicts(e, o)
      PROVE  e.id \in audited'
  <2>1. CASE \E d : Captured(d) /\ Accept(d)
    <3>1. Captured(e) /\ Accept(e)
      <4>1. PICK d : Captured(d) /\ Accept(d)
        BY <2>1
      <4>2. accepted' = accepted \cup {d}
        BY <4>1 DEF Accept
      <4>3. e = d
        BY <1>1, <4>2
      <4> QED
        BY <4>1, <4>3
    <3>2. PICK k \in DOMAIN o.bindings :
             /\ Rules[o.rule].corr[k].calc /\ o.bindings[k].kind = "absent"
             /\ Rules[o.rule].corr[k].type = e.type
             /\ Sub(o.time, Rules[o.rule].corr[k].back) <= e.time
             /\ e.time <= Add(o.time, Rules[o.rule].corr[k].fwd)
      BY <1>1
    <3>3. PICK x \in absentLog :
             /\ x.scope = o.scope /\ x.type = Rules[o.rule].corr[k].type
             /\ x.lo = Sub(o.time, Rules[o.rule].corr[k].back)
             /\ x.hi = Add(o.time, Rules[o.rule].corr[k].fwd)
      BY <1>1, <3>2, AbsentWindowOf DEF AbsenceInv
    <3>4. PICK a \in accepted : Settled(o, a, wm)
      BY <1>1 DEF RunsInv
    <3>5. /\ o.rule \in RuleIds /\ k \in DOMAIN Rules[o.rule].corr
          /\ o.time \in Times /\ e.time \in Times /\ wm \in Times /\ e.time # MinTime
      BY <1>1, <3>1, <3>2, <3>4
      DEF Settled, StreamInv, TypeOK, EventType, Captured, RealTimes
    <3>6. Rules[o.rule].corr[k].fwd \in Nat
      <4>1. Rules[o.rule] \in RuleType
        BY <3>5, RuleAssumption DEF RuleIds
      <4>2. Rules[o.rule].corr[k] \in CorrelateType
        BY <3>5, <4>1 DEF RuleType
      <4> QED
        BY <4>2 DEF CorrelateType
    <3>7. /\ MaxForward(o.rule) \in Nat
          /\ Rules[o.rule].corr[k].fwd <= MaxForward(o.rule)
      BY <3>2, <3>5, MaxForwardFacts
    <3>8. e.time <= wm
      BY <3>2, <3>4, <3>5, <3>6, <3>7, TimeAssumption DEF Settled, Add, Times
    <3>9. IsLateEvidence(e)
      <4>1. wm # MinTime
        BY <3>5, <3>8, TimeAssumption DEF Times
      <4> QED
        BY <1>1, <3>2, <3>3, <3>8, <4>1 DEF IsLateEvidence, IsLate
    <3> QED
      BY <3>1, <3>9 DEF Accept
  <2>2. CASE \/ \E d : DropLate(d)
             \/ \E t \in Times : SweepTo(t)
             \/ Quiet
    BY <1>1, <2>2 DEF DropLate, SweepTo, Quiet, history
  <2> QED
    BY <1>1, <2>1, <2>2, StepKinds
<1>2. StreamInv /\ RunsInv /\ AbsenceInv /\ [Next]_vars =>
        [Mode = "Offline" =>
           \A e \in accepted' \ accepted : \A o \in outcomes :
              Contradicts(e, o) => e.id \in audited']_vars
  BY <1>1
<1> QED
  BY <1>2, StreamInvariant, RunsInvariant, AbsencesRecorded, PTL
  DEF Spec, LateEvidenceAudited

-----------------------------------------------------------------------------
(* Live verdicts. *)

\* A source was last heard from in the past (Engine::advance_live_watermark).
ClockInv == \A s \in Scopes : sources[s].last <= wall

\* The wall clock leads the sources.
LEMMA ClockLeads == Spec => []ClockInv
<1>1. Init => ClockInv
  BY TimeAssumption DEF Init, ClockInv
<1>2. ASSUME StreamInv, ClockInv, [Next]_vars PROVE ClockInv'
  <2>0. /\ sources \in [Scopes -> [seen : BOOLEAN, local : Times, last : Times]]
        /\ wall \in Times
    BY <1>2 DEF StreamInv, TypeOK
  <2>1. ASSUME NEW e, Captured(e), Accept(e) PROVE ClockInv'
    <3>1. CASE Mode = "Offline"
      BY <1>2, <2>1, <3>1 DEF Accept, ClockInv
    <3>2. CASE Mode = "Live"
      <4>1. sources' = SourcesAfter(e) /\ wall' = Wall(e.time)
        BY <2>1, <3>2 DEF Accept
      <4>2. Wall(e.time) \in Int /\ wall \in Int /\ wall <= Wall(e.time)
        BY <2>0, <2>1, TimeAssumption DEF Captured, EventType, Wall, Later, Times
      <4>3. ASSUME NEW s \in Scopes
            PROVE  SourcesAfter(e)[s].last = Wall(e.time) \/ SourcesAfter(e)[s] = sources[s]
        BY <2>0, <4>3 DEF SourcesAfter
      <4>4. \A s \in Scopes : sources[s].last \in Int
        BY <2>0, TimeAssumption DEF Times
      <4> QED
        BY <1>2, <4>1, <4>2, <4>3, <4>4 DEF ClockInv
    <3> QED
      BY <3>1, <3>2, LimitAssumption
  <2>2. CASE (\E t \in Times : SweepTo(t)) \/ \E e : DropLate(e)
    BY <1>2, <2>2 DEF SweepTo, DropLate, ClockInv
  <2>3. CASE Quiet
    <3>1. sources' = sources /\ wall <= wall' /\ wall' \in Int
      <4>1. StreamInv'
        BY <1>2, NextPreservesInv
      <4> QED
        BY <2>3, <4>1, TimeAssumption DEF Quiet, StreamInv, TypeOK, Times
    <3>2. \A s \in Scopes : sources[s].last \in Int
      BY <2>0, TimeAssumption DEF Times
    <3> QED
      BY <1>2, <2>0, <3>1, <3>2, TimeAssumption DEF ClockInv, Times
  <2> QED
    BY <1>2, <2>1, <2>2, <2>3, StepKinds
<1> QED
  BY <1>1, <1>2, StreamInvariant, PTL DEF Spec

\* A live watermark that moves stays behind the source that moved it: no further
\* past the event than the source's disorder exceeds the disorder allowed for.
LEMMA LiveWatermarkBound ==
    ASSUME StreamInv, SourceInv, ClockInv, Mode = "Live", NEW e, Captured(e),
           WatermarkAfter(e) # wm
    PROVE  WatermarkAfter(e) <= e.time + SourceDisorder - MaxDisorder
<1>0. /\ TypeOK /\ e \in EventType /\ e.scope \in Scopes /\ e.time \in Times /\ wm \in Times
      /\ sources \in [Scopes -> [seen : BOOLEAN, local : Times, last : Times]]
      /\ wall \in Times
  BY DEF StreamInv, TypeOK, Captured, EventType
<1>1. WatermarkAfter(e) = LiveTarget(e) /\ wm < LiveTarget(e)
  BY DEF WatermarkAfter, Later
<1>2. PICK s : s \in Active(e)
  BY <1>0, <1>1, TimeAssumption DEF LiveTarget, Times
<1>3. Wall(e.time) \in Int /\ wall <= Wall(e.time)
  BY <1>0, TimeAssumption DEF Wall, Later, Times
<1>4. e.scope \in Active(e)
  <2>1. SourcesAfter(e)[e.scope].seen /\ SourcesAfter(e)[e.scope].last = Wall(e.time)
    BY <1>0 DEF SourcesAfter
  <2>2. s \in Scopes /\ Wall(e.time) - SourcesAfter(e)[s].last < IdleTimeout
    BY <1>2 DEF Active
  <2>3. SourcesAfter(e)[s].last = Wall(e.time) \/ SourcesAfter(e)[s] = sources[s]
    BY <1>0, <2>2 DEF SourcesAfter
  <2>4. sources[s].last \in Int /\ wall \in Int /\ sources[s].last <= wall
    BY <1>0, <2>2, TimeAssumption DEF ClockInv, Times
  <2>5. IdleTimeout > 0
    BY <1>3, <2>2, <2>3, <2>4, LimitAssumption
  <2> QED
    BY <1>0, <1>3, <2>1, <2>5 DEF Active
<1>5. LiveTarget(e) <= SourcesAfter(e)[e.scope].local
  BY <1>0, <1>4, TargetBehindSources
<1>6. PICK x \in InScope(Arrived \cup {e}, e.scope) :
          SourcesAfter(e)[e.scope].local = Sub(x.time, MaxDisorder)
  <2>1. CASE sources[e.scope].seen
    <3>1. PICK x \in InScope(Arrived, e.scope) : sources[e.scope].local = Sub(x.time, MaxDisorder)
      BY <1>0, <2>1 DEF SourceInv
    <3>2. x \in InScope(Arrived \cup {e}, e.scope) /\ e \in InScope(Arrived \cup {e}, e.scope)
      BY DEF InScope
    <3> QED
      BY <1>0, <3>1, <3>2, LocalsRise
  <2>2. CASE ~sources[e.scope].seen
    <3>1. e \in InScope(Arrived \cup {e}, e.scope)
      BY DEF InScope
    <3> QED
      BY <1>0, <2>2, <3>1, LocalsRise
  <2> QED
    BY <2>1, <2>2
<1>7. x.time \in Times /\ x.time <= e.time + SourceDisorder
  <2>1. CASE x = e
    BY <1>0, <2>1, LimitAssumption, TimeAssumption DEF Times
  <2>2. CASE x \in InScope(Arrived, e.scope)
    <3>1. x.time \in Times
      BY <2>2 DEF StreamInv, TypeOK, EventType, InScope, Arrived
    <3> QED
      BY <1>0, <2>2, <3>1, LimitAssumption, TimeAssumption DEF Captured, Times
  <2> QED
    BY <2>1, <2>2 DEF InScope
<1>8. Sub(x.time, MaxDisorder) > wm
  <2>1. LiveTarget(e) \in Int
    BY <1>0, <1>1, WatermarkAfterType, TimeAssumption DEF Times
  <2>2. Sub(x.time, MaxDisorder) \in Int
    BY <1>7, SaturationTypes, LimitAssumption, TimeAssumption DEF Times
  <2> QED
    BY <1>0, <1>1, <1>5, <1>6, <2>1, <2>2, TimeAssumption DEF Times
<1>9. Sub(x.time, MaxDisorder) = x.time - MaxDisorder
  BY <1>0, <1>7, <1>8, LimitAssumption, TimeAssumption DEF Sub, Times
<1>10. LiveTarget(e) \in Int
  BY <1>0, <1>1, WatermarkAfterType, TimeAssumption DEF Times
<1> QED
  BY <1>0, <1>1, <1>5, <1>6, <1>7, <1>9, <1>10, LimitAssumption, TimeAssumption DEF Times

\* A set of events that holds what H has in the windows of r around a gives the
\* bindings H gives.
LEMMA BindingsAgree ==
    ASSUME NEW r, NEW a, NEW H, NEW R \in SUBSET H,
           \A x \in H : InWindow(x, r, a.time) => x \in R
    PROVE  Bindings(r, a, R) = Bindings(r, a, H)
<1>1. ASSUME NEW k \in DOMAIN Rules[r].corr
      PROVE  Binding(Rules[r].corr[k], a, R) = Binding(Rules[r].corr[k], a, H)
  <2> DEFINE c == Rules[r].corr[k]
  <2>1. CASE ~c.calc
    BY <2>1 DEF Binding
  <2>2. CASE c.calc
    <3>1. \A x \in H : Sub(a.time, c.back) <= x.time /\ x.time <= Add(a.time, c.fwd) => x \in R
      BY <1>1, <2>2 DEF InWindow
    <3> HIDE DEF c
    <3>2. Candidates(c, a, R) = Candidates(c, a, H)
      BY <3>1 DEF Candidates
    <3>3. Hits(c, a, R) = Hits(c, a, H) /\ Unsure(c, a, R) = Unsure(c, a, H)
      BY <3>2 DEF Hits, Unsure
    <3> QED
      BY <3>3 DEF Binding, c
  <2> QED
    BY <2>1, <2>2
<1> QED
  BY <1>1 DEF Bindings

\* What lies in a window of r around t, and where the window ends.
LEMMA WindowBounds ==
    ASSUME NEW r \in RuleIds, NEW t \in Times, NEW x, x.time \in Times, InWindow(x, r, t)
    PROVE  /\ x.time <= Add(t, MaxForward(r))
           /\ x.time >= t - (MaxLookback - ImageMaxForward)
<1>1. PICK k \in DOMAIN Rules[r].corr :
         /\ Rules[r].corr[k].calc
         /\ Sub(t, Rules[r].corr[k].back) <= x.time /\ x.time <= Add(t, Rules[r].corr[k].fwd)
  BY DEF InWindow
<1>2. Rules[r].corr[k] \in CorrelateType
  <2>1. Rules[r] \in RuleType
    BY RuleAssumption DEF RuleIds
  <2> QED
    BY <1>1, <2>1 DEF RuleType
<1>3. Rules[r].corr[k].fwd \in Nat /\ Rules[r].corr[k].back \in Nat
  BY <1>2 DEF CorrelateType
<1>4. /\ MaxForward(r) \in Nat /\ Rules[r].corr[k].fwd <= MaxForward(r)
  BY <1>1, MaxForwardFacts
<1>5. Rules[r].corr[k].back <= MaxLookback - ImageMaxForward
  BY <1>1, VerifiedWindows DEF FitsLookback, RuleIds
<1>6. x.time <= Add(t, MaxForward(r))
  BY <1>1, <1>3, <1>4, TimeAssumption DEF Add, Times
<1>7. x.time >= t - Rules[r].corr[k].back
  BY <1>1, <1>3, TimeAssumption DEF Sub, Times
<1> QED
  BY <1>3, <1>5, <1>6, <1>7, ImageMaxForwardType, LimitAssumption, TimeAssumption DEF Times

\* A live verdict is final when no lateness is allowed: nothing accepted later could
\* have changed the bindings of any run, resumed or immediate.  The hypothesis on
\* the disorder is needed: a source further behind may be overtaken by the horizon
\* when an idle neighbour stops holding the watermark back.
THEOREM VerdictsAreFinal ==
    ASSUME Mode = "Live", AllowedLateness = 0, RealTimes,
           SourceDisorder <= MaxDisorder + ImageMaxForward
    PROVE  Spec => []VerdictsFinal
<1>1. Init => VerdictsFinal
  BY DEF Init, VerdictsFinal
<1>2. ASSUME StreamInv, RunsInv, SourceInv, ClockInv, VerdictsFinal, [Next]_vars
      PROVE  VerdictsFinal'
  <2>0. ImageMaxForward \in Nat /\ MaxLookback \in Nat /\ MaxDisorder \in Nat
        /\ SourceDisorder \in Nat
    BY ImageMaxForwardType, LimitAssumption
  <2>1. ASSUME UNCHANGED <<spilledEv, outcomes, accepted>> PROVE VerdictsFinal'
    BY <1>2, <2>1 DEF VerdictsFinal
  <2>2. ASSUME NEW e, Captured(e), Accept(e) PROVE VerdictsFinal'
    <3> SUFFICES ASSUME spilledEv' = {}, NEW o \in outcomes'
                 PROVE  \E a \in accepted' :
                           a.id = o.anchor /\ o.bindings = Bindings(o.rule, a, accepted')
      BY Zenon DEF VerdictsFinal, Bindings
    <3>1. PICK w, R, R2, H :
            /\ w = WatermarkAfter(e) /\ R = PushEvent(e) /\ R2 = GcRing(R, w)
            /\ H = accepted'
      OBVIOUS
    <3>2. /\ wm' = w /\ ring' = R2 /\ accepted' = accepted \cup {e}
          /\ outcomes' = outcomes \cup ResumeRuns(w, R) \cup ImmediateRuns(e, w, R2)
          /\ spilledEv' = spilledEv \cup RingVictims(e)
      BY <2>2, <3>1 DEF Accept
    <3>3. /\ e \in EventType /\ e.time \in Times /\ wm \in Times /\ w \in Times
          /\ accepted \subseteq EventType
      BY <1>2, <2>2, <3>1, WatermarkAfterType DEF StreamInv, TypeOK, Captured, EventType
    <3>4. e.time > wm
      <4>1. Sub(wm, AllowedLateness) = wm
        BY <3>3, TimeAssumption DEF Sub, Times
      <4>2. ~(wm # MinTime /\ e.time <= wm)
        BY <2>2, <4>1 DEF Accept, TooLate, IsLate
      <4>3. e.time # MinTime
        BY <2>2 DEF Captured, RealTimes
      <4> QED
        BY <3>3, <4>2, <4>3, TimeAssumption DEF Times
    <3>5. CASE o \in outcomes
      <4>1. PICK a \in accepted : a.id = o.anchor /\ o.bindings = Bindings(o.rule, a, accepted)
        BY <1>2, <3>2, <3>5 DEF VerdictsFinal
      <4>2. PICK b \in accepted : Settled(o, b, wm)
        BY <1>2, <3>5 DEF RunsInv
      <4>3. a = b
        BY <1>2, <4>1, <4>2 DEF Settled, StreamInv, IdsInv, Arrived
      <4>4. /\ o.rule \in RuleIds /\ a.time \in Times /\ Add(a.time, MaxForward(o.rule)) <= wm
        BY <3>3, <4>2, <4>3 DEF Settled, EventType
      <4>5. ~InWindow(e, o.rule, a.time)
        <5>1. Add(a.time, MaxForward(o.rule)) \in Int
          BY <4>4, MaxForwardFacts, SaturationTypes, TimeAssumption DEF Times
        <5> QED
          BY <3>3, <3>4, <4>4, <5>1, WindowBounds, TimeAssumption DEF Times
      <4>6. Bindings(o.rule, a, accepted) = Bindings(o.rule, a, H)
        <5>1. accepted \in SUBSET H /\ \A x \in H : InWindow(x, o.rule, a.time) => x \in accepted
          BY <3>1, <3>2, <4>5
        <5> QED
          BY <5>1, BindingsAgree
      <4> QED
        BY <3>1, <3>2, <4>1, <4>6
    <3>6. CASE o \in ResumeRuns(w, R)
      <4>1. Retains(R, H)
        <5>1. Retains(PushEvent(e), accepted' \ spilledEv')
          BY <1>2, <2>2, AcceptRetains DEF Captured
        <5>2. accepted' \ spilledEv' = H
          BY <3>1
        <5> QED
          BY <3>1, <5>1, <5>2
      <4> QED
        BY <1>2, <3>1, <3>6, <4>1, ResumeSeesWholeWindow
    <3>7. CASE o \in ImmediateRuns(e, w, R2)
      <4>1. /\ Settled(o, e, w) /\ o.bindings = Bindings(o.rule, e, R2)
        BY <3>7, ImmediateSettled
      <4>2. o.rule \in RuleIds /\ o.anchor = e.id
        BY <4>1 DEF Settled
      <4>3. w <= e.time + ImageMaxForward
        BY <1>2, <2>0, <2>2, <3>1, <3>3, <3>4, LiveWatermarkBound, TimeAssumption DEF Times
      <4>4. ASSUME NEW x \in H, InWindow(x, o.rule, e.time) PROVE x \in R2
        <5>1. x.time \in Times
          BY <3>1, <3>2, <3>3 DEF EventType
        <5>2. x.time >= e.time - (MaxLookback - ImageMaxForward)
          BY <3>3, <4>2, <4>4, <5>1, WindowBounds
        <5>3. x.time >= w - MaxLookback
          BY <2>0, <3>3, <4>3, <5>1, <5>2, TimeAssumption DEF Times
        <5>4. x.time >= Sub(w, MaxLookback)
          BY <2>0, <3>3, <5>1, <5>3, TimeAssumption DEF Sub, Times
        <5>5. StreamInv'
          BY <1>2, NextPreservesInv
        <5>6. x \in ring' \cup spilledEv'
          BY <3>1, <3>2, <5>4, <5>5 DEF StreamInv, HorizonInv
        <5> QED
          BY <3>2, <5>6
      <4>5. R2 \in SUBSET H
        <5>1. StreamInv'
          BY <1>2, NextPreservesInv
        <5> QED
          BY <3>1, <3>2, <5>1 DEF StreamInv, RingInv
      <4>6. Bindings(o.rule, e, R2) = Bindings(o.rule, e, H)
        BY <4>4, <4>5, BindingsAgree
      <4> QED
        BY <3>1, <3>2, <4>1, <4>2, <4>6
    <3> QED
      BY <3>2, <3>5, <3>6, <3>7
  <2>3. ASSUME NEW t \in Times, SweepTo(t) PROVE VerdictsFinal'
    <3> SUFFICES ASSUME spilledEv' = {}, NEW o \in outcomes'
                 PROVE  \E a \in accepted' :
                           a.id = o.anchor /\ o.bindings = Bindings(o.rule, a, accepted')
      BY Zenon DEF VerdictsFinal, Bindings
    <3>1. PICK w : w = Later(wm, t)
      OBVIOUS
    <3>2. /\ accepted' = accepted /\ spilledEv' = spilledEv
          /\ outcomes' = outcomes \cup ResumeRuns(w, ring)
      BY <2>3, <3>1 DEF SweepTo
    <3>3. CASE o \in outcomes
      BY <1>2, <3>2, <3>3 DEF VerdictsFinal
    <3>4. CASE o \in ResumeRuns(w, ring)
      <4>1. Retains(ring, accepted)
        BY <1>2, <3>2 DEF Retains, StreamInv, RingInv, TypeOK, IdsInv, Arrived, HorizonInv
      <4> QED
        BY <1>2, <3>2, <3>4, <4>1, ResumeSeesWholeWindow
    <3> QED
      BY <3>2, <3>3, <3>4
  <2>4. CASE (\E e : DropLate(e)) \/ Quiet
    BY <2>1, <2>4 DEF DropLate, Quiet, history
  <2> QED
    BY <1>2, <2>2, <2>3, <2>4, StepKinds
<1> QED
  BY <1>1, <1>2, StreamInvariant, RunsInvariant, SourcesFollowEvents, ClockLeads, PTL DEF Spec

-----------------------------------------------------------------------------
(* One application per dedup window. *)

\* Dedup windows follow time (SubGraph::window_id).
LEMMA WindowsFollowTime ==
    ASSUME NEW a \in Int, NEW b \in Int, a <= b
    PROVE  WindowId(a) \in Int /\ WindowId(b) \in Int /\ WindowId(a) <= WindowId(b)
<1>1. PICK d : d = Later(1, DedupWindow)
  OBVIOUS
<1>2. d \in Nat /\ d > 0
  BY <1>1, LimitAssumption DEF Later
<1>3. a \div d \in Int /\ b \div d \in Int /\ a \div d <= b \div d
  BY <1>2
<1> QED
  BY <1>1, <1>3 DEF WindowId

\* Every application left its key in the index, or its window is past the horizon.
DedupInv ==
    /\ applied \subseteq outcomes
    /\ \A a \in applied : \/ Key(a) \in prov
                          \/ Key(a).win < WindowId(Sub(wm, MaxLookback))

\* Runs that can be ordered.
TypedRuns(O) == \A o \in O : o.rule \in RuleIds /\ o.time \in Times /\ o.anchor \in Int

\* Of the runs O that share a key one applies, and none whose key is in P.
LEMMA FirstRunApplies ==
    ASSUME NEW O, NEW P, TypedRuns(O)
    PROVE  /\ Applying(O, P) \subseteq O
           /\ \A a \in Applying(O, P) : Key(a) \in Keys(O) /\ Key(a) \notin P
           /\ \A a, b \in Applying(O, P) : Key(a) = Key(b) => a = b
<1>1. /\ Applying(O, P) \subseteq O
      /\ \A a \in Applying(O, P) : Key(a) \in Keys(O) /\ Key(a) \notin P
  BY DEF Applying, Inferring, Keys
<1>2. ASSUME NEW a \in Applying(O, P), NEW b \in Applying(O, P), Key(a) = Key(b), a # b
      PROVE  FALSE
  <2>1. RunsFirst(a, b) /\ RunsFirst(b, a)
    BY <1>2 DEF Applying
  <2>2. a \in O /\ b \in O
    BY <1>1
  <2>3. PICK s, t : s = Add(a.time, MaxForward(a.rule)) /\ t = Add(b.time, MaxForward(b.rule))
    OBVIOUS
  <2>4. s \in Int /\ t \in Int /\ a.anchor \in Int /\ b.anchor \in Int
    BY <2>2, <2>3, MaxForwardFacts, SaturationTypes, TimeAssumption DEF TypedRuns, Times
  <2>5. /\ s < t \/ (s = t /\ a.anchor < b.anchor)
        /\ t < s \/ (s = t /\ b.anchor < a.anchor)
    BY <2>1, <2>3 DEF RunsFirst
  <2> QED
    BY <2>4, <2>5
<1> QED
  BY <1>1, <1>2

\* A run's key names the dedup window of its time.
LEMMA KeyWindow == \A o : Key(o).win = WindowId(o.time)
BY DEF Key

\* What a resume applies is within the horizon, and so is no repetition.
LEMMA ResumedWithinHorizon ==
    ASSUME StreamInv, NEW w \in Times, NEW R,
           \A x \in R : \A y \in accepted : x.id = y.id => x = y
    PROVE  /\ TypedRuns(ResumeRuns(w, R))
           /\ \A o \in ResumeRuns(w, R) : Key(o).win >= WindowId(Sub(wm, MaxLookback))
<1> SUFFICES ASSUME NEW o \in ResumeRuns(w, R)
             PROVE  /\ o.rule \in RuleIds /\ o.time \in Times /\ o.anchor \in Int
                    /\ Key(o).win >= WindowId(Sub(wm, MaxLookback))
  BY DEF TypedRuns
<1>1. PICK a \in accepted : Settled(o, a, w) /\ Add(a.time, MaxForward(o.rule)) >= wm
  BY ResumedSettled
<1>2. /\ o.rule \in RuleIds /\ o.time = a.time /\ a.time \in Times /\ a.id \in Int
      /\ o.anchor = a.id /\ wm \in Times
  BY <1>1 DEF Settled, StreamInv, TypeOK, EventType
<1>3. a.time >= Sub(wm, MaxLookback)
  BY <1>1, <1>2, WindowsWithinHorizon
<1>4. a.time \in Int /\ Sub(wm, MaxLookback) \in Int
  BY <1>2, SaturationTypes, LimitAssumption, TimeAssumption DEF Times
<1>5. WindowId(a.time) >= WindowId(Sub(wm, MaxLookback))
  BY <1>3, <1>4, WindowsFollowTime
<1> QED
  BY <1>2, <1>5, KeyWindow

\* What applies is one of the runs (exec_infer).
LEMMA AppliesOwnRuns ==
    ASSUME NEW O, NEW P
    PROVE  Applying(O, P) \subseteq O
BY DEF Applying, Inferring

\* A resumed match runs as one (resume_expired).
LEMMA ResumesAreResumed ==
    ASSUME NEW w, NEW R, NEW o \in ResumeRuns(w, R)
    PROVE  o.how = "resumed"
BY DEF ResumeRuns, Run

\* A step that applies something repeats a contribution only with a run at once, and
\* only behind the horizon of its sweep.
RepeatStep ==
    \A o \in applied' \ applied : \A q \in applied' \ {o} :
        Key(q) = Key(o) =>
            /\ Key(o).win < WindowId(Sub(wm', MaxLookback))
            /\ \E p \in {o, q} \ applied : p.how = "immediate"

\* No step loses a key whose window can still be asked for
\* (SubGraph::try_insert_provenance, prune_provenance).
LEMMA StepRepeats ==
    ASSUME StreamInv, RunsInv, DedupInv, [Next]_vars
    PROVE  DedupInv' /\ RepeatStep
<1>0. PICK h : h = WindowId(Sub(wm, MaxLookback))
  OBVIOUS
<1>1. \A a \in applied : Key(a).win \in Int
  <2> SUFFICES ASSUME NEW a \in applied PROVE Key(a).win \in Int
    OBVIOUS
  <2>1. PICK x \in accepted : Settled(a, x, wm)
    BY DEF DedupInv, RunsInv
  <2>2. a.time \in Int
    BY <2>1, TimeAssumption DEF Settled, StreamInv, TypeOK, EventType, Times
  <2> QED
    BY <2>2, KeyWindow, WindowsFollowTime
<1>2. ASSUME NEW w \in Times, w >= wm
      PROVE  h \in Int /\ WindowId(Sub(w, MaxLookback)) \in Int
             /\ h <= WindowId(Sub(w, MaxLookback))
  <2>1. wm \in Times
    BY DEF StreamInv, TypeOK
  <2>2. /\ Sub(wm, MaxLookback) \in Int /\ Sub(w, MaxLookback) \in Int
        /\ Sub(wm, MaxLookback) <= Sub(w, MaxLookback)
    BY <1>2, <2>1, HorizonMonotone, SaturationTypes, LimitAssumption, TimeAssumption DEF Times
  <2> QED
    BY <1>0, <2>2, WindowsFollowTime
<1>3. ASSUME NEW w \in Times, w >= wm, NEW R,
             \A x \in R : \A y \in accepted : x.id = y.id => x = y
      PROVE  /\ Applying(ResumeRuns(w, R), prov) \subseteq ResumeRuns(w, R)
             /\ \A a \in Applying(ResumeRuns(w, R), prov) : Key(a) \in Keys(ResumeRuns(w, R))
                                                            /\ Key(a).win \in Int
             /\ \A a \in Applying(ResumeRuns(w, R), prov) :
                   \A b \in applied \cup Applying(ResumeRuns(w, R), prov) :
                      Key(a) = Key(b) => a = b
  <2>1. PICK O : O = ResumeRuns(w, R)
    OBVIOUS
  <2>2. TypedRuns(O) /\ \A o \in O : Key(o).win >= h
    BY <1>0, <1>3, <2>1, ResumedWithinHorizon
  <2>3. /\ Applying(O, prov) \subseteq O
        /\ \A a \in Applying(O, prov) : Key(a) \in Keys(O) /\ Key(a) \notin prov
        /\ \A a, b \in Applying(O, prov) : Key(a) = Key(b) => a = b
    BY <2>2, FirstRunApplies
  <2>4. \A a \in Applying(O, prov) : Key(a).win \in Int
    <3>1. \A a \in O : a.time \in Int
      BY <2>2, TimeAssumption DEF TypedRuns, Times
    <3> QED
      BY <2>3, <3>1, KeyWindow, WindowsFollowTime
  <2>5. ASSUME NEW a \in applied, NEW b \in Applying(O, prov), Key(a) = Key(b) PROVE FALSE
    <3>1. Key(b) \notin prov /\ Key(b).win >= h /\ Key(b).win \in Int
      BY <2>2, <2>3, <2>4
    <3>2. Key(a) \in prov \/ Key(a).win < h
      BY <1>0 DEF DedupInv
    <3>3. h \in Int
      BY <1>2, <1>3
    <3> QED
      BY <2>5, <3>1, <3>2, <3>3
  <2> QED
    BY <2>1, <2>3, <2>4, <2>5
<1>4. ASSUME NEW e, Captured(e), Accept(e) PROVE DedupInv' /\ RepeatStep
  <2>1. PICK w, R, R2, O, P, I :
          /\ w = WatermarkAfter(e) /\ R = PushEvent(e) /\ R2 = GcRing(R, w)
          /\ O = ResumeRuns(w, R) /\ P = GcProv(prov \cup Keys(O), w)
          /\ I = ImmediateRuns(e, w, R2)
    OBVIOUS
  <2>2. /\ wm' = w /\ prov' = P \cup Keys(I)
        /\ outcomes' = outcomes \cup O \cup I
        /\ applied' = applied \cup Applying(O, prov) \cup Applying(I, P)
    BY <1>4, <2>1 DEF Accept
  <2>3. /\ e \in EventType /\ e.time \in Times /\ e.id \in Int /\ w \in Times /\ w >= wm
    BY <1>4, <2>1, WatermarkAfterType DEF StreamInv, Captured, EventType
  <2>4. \A x \in R : \A y \in accepted : x.id = y.id => x = y
    BY <1>4, <2>1, RingsNameEvents
  <2>5. /\ Applying(O, prov) \subseteq O
        /\ \A a \in Applying(O, prov) : Key(a) \in Keys(O) /\ Key(a).win \in Int
        /\ \A a \in Applying(O, prov) : \A b \in applied \cup Applying(O, prov) :
              Key(a) = Key(b) => a = b
    BY <1>3, <2>1, <2>3, <2>4
  <2>6. PICK g : g = WindowId(Sub(w, MaxLookback))
    OBVIOUS
  <2>7. h \in Int /\ g \in Int /\ h <= g
    BY <1>2, <2>3, <2>6
  <2>8. \A o \in I : /\ o.rule \in RuleIds /\ o.time = e.time /\ o.anchor = e.id
                     /\ o.how = "immediate"
    BY <2>1, ImmediateSettled DEF Settled, ImmediateRuns, Run
  <2>10. /\ Applying(I, P) \subseteq I
         /\ \A a \in Applying(I, P) : Key(a) \in Keys(I) /\ Key(a) \notin P
         /\ \A a, b \in Applying(I, P) : Key(a) = Key(b) => a = b
    <3>1. TypedRuns(I)
      BY <2>3, <2>8 DEF TypedRuns
    <3> QED
      BY <3>1, FirstRunApplies
  <2>11. \A k \in prov \cup Keys(O) : k \in P \/ ~(k.win >= g)
    BY <2>1, <2>6 DEF GcProv
  <2>12. ASSUME NEW a \in applied \cup Applying(O, prov)
         PROVE  /\ Key(a).win \in Int
                /\ Key(a) \in P \/ Key(a).win < g
    <3>1. Key(a).win \in Int
      BY <1>1, <2>5
    <3>2. Key(a) \in prov \cup Keys(O) \/ Key(a).win < h
      BY <1>0, <2>5 DEF DedupInv
    <3> QED
      BY <2>7, <2>11, <3>1, <3>2
  <2>13. ASSUME NEW a \in applied \cup Applying(O, prov), NEW b \in Applying(I, P),
                Key(a) = Key(b)
         PROVE  Key(a).win < g /\ b.how = "immediate"
    BY <2>8, <2>10, <2>12, <2>13
  <2>14. RepeatStep
    <3> SUFFICES ASSUME NEW o \in applied' \ applied, NEW q \in applied' \ {o},
                        Key(q) = Key(o)
                 PROVE  /\ Key(o).win < g
                        /\ \E p \in {o, q} \ applied : p.how = "immediate"
      BY <2>2, <2>6, Zenon DEF RepeatStep
    <3>1. CASE o \in Applying(I, P)
      <4>1. q \in applied \cup Applying(O, prov)
        BY <2>2, <2>10, <3>1
      <4>2. Key(o).win < g /\ o.how = "immediate"
        BY <2>13, <3>1, <4>1
      <4> QED
        BY <4>2
    <3>2. CASE o \in Applying(O, prov)
      <4>1. q \in Applying(I, P) /\ q \notin applied
        BY <2>2, <2>5, <3>2
      <4>2. Key(o).win < g /\ q.how = "immediate"
        BY <2>13, <3>2, <4>1
      <4> QED
        BY <4>1, <4>2
    <3> QED
      BY <2>2, <3>1, <3>2
  <2>15. DedupInv'
    <3>1. applied' \subseteq outcomes'
      BY <2>2, <2>5, <2>10 DEF DedupInv
    <3>2. \A a \in applied' : Key(a) \in prov' \/ Key(a).win < g
      BY <2>2, <2>10, <2>12
    <3> QED
      BY <2>2, <2>6, <3>1, <3>2 DEF DedupInv, Key
  <2> QED
    BY <2>14, <2>15
<1>5. ASSUME NEW t \in Times, SweepTo(t) PROVE DedupInv' /\ RepeatStep
  <2>1. PICK w, O : w = Later(wm, t) /\ O = ResumeRuns(w, ring)
    OBVIOUS
  <2>2. /\ wm' = w /\ prov' = GcProv(prov \cup Keys(O), w)
        /\ outcomes' = outcomes \cup O /\ applied' = applied \cup Applying(O, prov)
    BY <1>5, <2>1 DEF SweepTo
  <2>3. w \in Times /\ w >= wm
    BY <1>5, <2>1, TimeAssumption DEF StreamInv, TypeOK, Later, Times
  <2>4. \A x \in ring : \A y \in accepted : x.id = y.id => x = y
    BY RingsNameEvents
  <2>5. /\ Applying(O, prov) \subseteq O
        /\ \A a \in Applying(O, prov) : Key(a) \in Keys(O) /\ Key(a).win \in Int
        /\ \A a \in Applying(O, prov) : \A b \in applied \cup Applying(O, prov) :
              Key(a) = Key(b) => a = b
    BY <1>3, <2>1, <2>3, <2>4
  <2>6. PICK g : g = WindowId(Sub(w, MaxLookback))
    OBVIOUS
  <2>7. h \in Int /\ g \in Int /\ h <= g
    BY <1>2, <2>3, <2>6
  <2>8. \A k \in prov \cup Keys(O) : k \in prov' \/ ~(k.win >= g)
    BY <2>2, <2>6 DEF GcProv
  <2>9. ASSUME NEW a \in applied' PROVE Key(a) \in prov' \/ Key(a).win < g
    <3>1. Key(a).win \in Int
      BY <1>1, <2>2, <2>5
    <3>2. Key(a) \in prov \cup Keys(O) \/ Key(a).win < h
      BY <1>0, <2>2, <2>5 DEF DedupInv
    <3> QED
      BY <2>7, <2>8, <3>1, <3>2
  <2>10. RepeatStep
    BY <2>2, <2>5 DEF RepeatStep
  <2>11. DedupInv'
    <3>1. applied' \subseteq outcomes'
      BY <2>2, <2>5 DEF DedupInv
    <3> QED
      BY <2>2, <2>6, <2>9, <3>1 DEF DedupInv, Key
  <2> QED
    BY <2>10, <2>11
<1>6. CASE (\E e : DropLate(e)) \/ Quiet
  <2>1. UNCHANGED <<applied, outcomes, prov, wm>>
    BY <1>6 DEF DropLate, Quiet, history, storeVars
  <2> QED
    BY <2>1 DEF DedupInv, RepeatStep, Key
<1> QED
  BY <1>4, <1>5, <1>6, StepKinds

\* A contribution is applied again only by a run at once of a late anchor whose whole
\* dedup window lies behind the horizon of the sweep (SubGraph::prune_provenance),
\* offline and live, for every image, capacity and capture.
THEOREM RepeatsStayBehind == Spec => []DedupInv /\ RepeatsOnlyBehindHorizon
<1>1. Init => DedupInv
  BY DEF Init, DedupInv
<1>2. StreamInv /\ RunsInv /\ DedupInv /\ [Next]_vars => DedupInv' /\ RepeatStep
  BY StepRepeats
<1>3. RepeatStep => \A o \in applied' \ applied : \A q \in applied' \ {o} :
                       Key(q) = Key(o) =>
                           /\ Key(o).win < WindowId(Sub(wm', MaxLookback))
                           /\ \E p \in {o, q} \ applied : p.how = "immediate"
  BY DEF RepeatStep
<1> QED
  BY <1>1, <1>2, <1>3, StreamInvariant, RunsInvariant, PTL DEF Spec, RepeatsOnlyBehindHorizon

\* A live event the engine accepts is within the horizon of the watermark it sets.
LEMMA LiveWithinHorizon ==
    ASSUME StreamInv, SourceInv, ClockInv, Mode = "Live", AllowedLateness <= MaxLookback,
           SourceDisorder <= MaxDisorder + MaxLookback, NEW e, Captured(e), Accept(e)
    PROVE  e.time >= Sub(WatermarkAfter(e), MaxLookback)
<1>1. /\ e.time \in Times /\ wm \in Times /\ WatermarkAfter(e) \in Times
  BY WatermarkAfterType DEF StreamInv, TypeOK, Captured, EventType
<1>2. CASE WatermarkAfter(e) = wm
  <2>1. ~(wm # MinTime /\ e.time <= wm /\ e.time <= Sub(wm, AllowedLateness))
    BY DEF Accept, TooLate, IsLate
  <2> QED
    BY <1>1, <1>2, <2>1, LimitAssumption, TimeAssumption DEF Sub, Times
<1>3. CASE WatermarkAfter(e) # wm
  BY <1>1, <1>3, LiveWatermarkBound, LimitAssumption, TimeAssumption DEF Sub, Times
<1> QED
  BY <1>2, <1>3

\* Live, one (rule, cause, target) applies at most once per dedup window, although
\* the index forgets the windows behind the horizon (SubGraph::prune_provenance).
\* Offline an event older than the horizon is still accepted, so the hypotheses
\* that keep live events within it are needed.
THEOREM AppliesOncePerWindow ==
    ASSUME Mode = "Live", AllowedLateness <= MaxLookback,
           SourceDisorder <= MaxDisorder + MaxLookback
    PROVE  Spec => []OncePerWindow
<1>1. Init => OncePerWindow
  BY DEF Init, OncePerWindow
<1>2. ASSUME StreamInv, RunsInv, SourceInv, ClockInv, DedupInv, OncePerWindow, [Next]_vars
      PROVE  OncePerWindow'
  <2>1. RepeatStep
    BY <1>2, StepRepeats
  <2>2. ASSUME NEW p \in applied' \ applied, p.how = "immediate"
        PROVE  WindowId(Sub(wm', MaxLookback)) <= Key(p).win
               /\ WindowId(Sub(wm', MaxLookback)) \in Int /\ Key(p).win \in Int
    <3>1. CASE \E e : Captured(e) /\ Accept(e)
      <4>1. PICK e : Captured(e) /\ Accept(e)
        BY <3>1
      <4>2. PICK w, R, R2, P :
              /\ w = WatermarkAfter(e) /\ R = PushEvent(e) /\ R2 = GcRing(R, w)
              /\ P = GcProv(prov \cup Keys(ResumeRuns(w, R)), w)
        OBVIOUS
      <4>3. /\ wm' = w
            /\ applied' = applied \cup Applying(ResumeRuns(w, R), prov)
                                  \cup Applying(ImmediateRuns(e, w, R2), P)
        BY <4>1, <4>2 DEF Accept
      <4>4. e.time \in Times /\ w \in Times
        BY <1>2, <4>1, <4>2, WatermarkAfterType DEF StreamInv, Captured, EventType
      <4>5. p \in ImmediateRuns(e, w, R2)
        BY <2>2, <4>3, AppliesOwnRuns, ResumesAreResumed
      <4>6. Key(p).win = WindowId(e.time)
        BY <4>5, ImmediateSettled, KeyWindow DEF Settled
      <4>7. e.time >= Sub(w, MaxLookback)
        BY <1>2, <4>1, <4>2, LiveWithinHorizon
      <4>8. e.time \in Int /\ Sub(w, MaxLookback) \in Int
        BY <4>4, SaturationTypes, LimitAssumption, TimeAssumption DEF Times
      <4> QED
        BY <4>3, <4>6, <4>7, <4>8, WindowsFollowTime
    <3>2. ASSUME NEW t \in Times, SweepTo(t) PROVE FALSE
      <4>1. applied' = applied \cup Applying(ResumeRuns(Later(wm, t), ring), prov)
        BY <3>2 DEF SweepTo
      <4> QED
        BY <2>2, <4>1, AppliesOwnRuns, ResumesAreResumed
    <3>3. CASE (\E e : DropLate(e)) \/ Quiet
      BY <2>2, <3>3 DEF DropLate, Quiet, history
    <3> QED
      BY <1>2, <3>1, <3>2, <3>3, StepKinds
  <2> QED
    BY <1>2, <2>1, <2>2 DEF RepeatStep, OncePerWindow
<1> QED
  BY <1>1, <1>2, StreamInvariant, RunsInvariant, SourcesFollowEvents, ClockLeads,
     RepeatsStayBehind, PTL DEF Spec
=============================================================================
