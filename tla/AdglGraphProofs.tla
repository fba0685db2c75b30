---------------------------- MODULE AdglGraphProofs ----------------------------
(***************************************************************************)
(* Proofs about AdglGraph, for every image, every set of scopes and every  *)
(* stream of batches that satisfy the module's assumptions.                *)
(***************************************************************************)
EXTENDS AdglGraph, FiniteSetTheorems, SetInduction, TLAPS

-----------------------------------------------------------------------------
(* Types. *)

AnchorType == [src : {"event", "cause", "problem"}, id : Nat \cup CauseKinds,
               target : Scopes \cup {NoScope}, time : Int, conf : Int]

IntentOps == {"infer", "emit", "supersede", "mark", "action"}

CallType ==
    [op : {"rule"}, rule : Nat, anchor : AnchorType, scope : Scopes]
    \cup [op : IntentOps, rule : Nat, anchor : AnchorType, scope : Scopes, intent : IntentType]
    \cup [op : {"rivals"}, rule : Nat, anchor : AnchorType, scope : Scopes,
          pair : SUBSET CauseKinds]
    \cup [op : {"rollup"}, rule : Nat, anchor : AnchorType, scope : Scopes]

KeyType == [rule : Nat, cause : CauseKinds, target : Scopes, scope : Scopes, win : Int]

NodeType == [in : BOOLEAN, conf : 0..100, time : Int,
             from : Seq([key : KeyType, weight : Int])]

ProblemType == [scope : Scopes, kind : ProblemKinds \cup {"AmbiguousDiagnosis"},
                target : Scopes, time : Int, rule : Nat, superseded : BOOLEAN]

EmissionType ==
    [key : [rule : Nat, kind : ProblemKinds, target : Scopes, scope : Scopes], wm : Int]

\* What the sink is told: the actions' kinds, and the ambiguities.
LogKinds == STRING \cup {"mark_ambiguous"}

\* Every variable keeps to the values the engine's types allow.
TypeOK ==
    /\ deployment \in Deployments /\ wm \in Int /\ swept \in BOOLEAN
    /\ node \in [Scopes -> [CauseKinds -> [Scopes -> NodeType]]]
    /\ problems \in Seq(ProblemType)
    /\ ambig \in [Scopes -> [SUBSET CauseKinds -> [Scopes -> {"none", "active", "resolved"}]]]
    /\ prov \subseteq KeyType /\ emitted \subseteq EmissionType
    /\ audit \in Seq([kind : LogKinds, target : Scopes \cup {NoScope}, wm : Int])
    /\ stack \in Seq(CallType) /\ budget \in Nat /\ fires \in Nat

\* The intents a rule may run, in whichever branch.
IntentsOf(r) ==
    {Rules[r].body[j] : j \in DOMAIN Rules[r].body}
    \cup {Rules[r].else[j] : j \in DOMAIN Rules[r].else}
    \cup {Rules[r].unk[j] : j \in DOMAIN Rules[r].unk}

\* A pending call is one the image's rules give rise to.
Proper(f) ==
    /\ f.op \in IntentOps \cup {"rule"} =>
          /\ f.rule \in DOMAIN Rules /\ Rules[f.rule].src = f.anchor.src
          /\ Rules[f.rule].scope = TypeOf[f.scope]
    /\ f.op \in IntentOps => f.intent.op = f.op /\ f.intent \in IntentsOf(f.rule)
    /\ f.anchor.src = "event" => f.op \in IntentOps \cup {"rule"} /\ f.anchor.target \in Targets
    /\ f.anchor.src = "cause" => f.anchor.id \in CauseKinds /\ f.anchor.target \in Scopes
    /\ f.op \in {"rivals", "rollup"} => f.anchor.src = "cause"
    /\ f.op = "rivals" => \E j \in DOMAIN Exclusive : f.pair = Exclusive[j] /\ f.anchor.id \in f.pair
    /\ f.op = "rollup" => /\ f.scope # f.anchor.target
                          /\ SubsumedBy(TypeOf[f.scope], TypeOf[f.anchor.target])

\* The calls of a stack.
Frames(q) == {q[i] : i \in DOMAIN q}

StackInv ==
    \A f \in Frames(stack) :
        /\ Proper(f)
        /\ f.op = "rollup" => node[f.scope][f.anchor.id][f.anchor.target].in

GraphInv == TypeOK /\ StackInv

-----------------------------------------------------------------------------
(* What the properties rest on. *)

KeyOf(p) == EmitKey(p.rule, p.kind, p.target, p.scope)

\* The record of an emission outlives its cooldown (CooldownRespected).
CooldownInv ==
    /\ \A e \in emitted : e.wm <= wm
    /\ \A i \in DOMAIN problems : problems[i].time <= wm
    /\ \A i \in DOMAIN problems : problems[i].rule # 0 =>
          \/ \E e \in emitted : e.key = KeyOf(problems[i]) /\ problems[i].time <= e.wm
          \/ wm - problems[i].time > Cooldown
    /\ CooldownRespected

Reported(i, s, t) ==
    \E j \in DOMAIN problems : /\ problems[j].rule = i /\ problems[j].scope = s
                               /\ problems[j].target \in {s, t}

\* The run of rule i about t in s, or the emission it has come to, is still pending.
VerdictPending(i, s, t) ==
    \E f \in Frames(stack) : /\ f.op \in {"rule", "emit"} /\ f.rule = i
                             /\ f.scope = s /\ f.anchor.target = t

InRange(i, s, t) ==
    LET n == node[s][Rules[i].on][t]
    IN TypeOf[s] = Rules[i].scope /\ n.in /\ Rules[i].lo <= n.conf /\ n.conf <= Rules[i].hi

\* A verdict that holds has been reported or refused, or is pending.
VerdictInv ==
    /\ \A e \in emitted : \E j \in DOMAIN problems : KeyOf(problems[j]) = e.key
    /\ \A i \in PlainVerdicts, s \in Scopes, t \in Scopes :
          InRange(i, s, t) =>
             \/ Reported(i, s, t)
             \/ [rule |-> i, target |-> t, scope |-> s] \in refused
             \/ VerdictPending(i, s, t)

-----------------------------------------------------------------------------
(* Sequences. *)

\* The calls of two sequences, one after the other.
LEMMA ConcatFrames ==
    ASSUME NEW S, NEW q \in Seq(S), NEW t \in Seq(S)
    PROVE  q \o t \in Seq(S) /\ Frames(q \o t) = Frames(q) \cup Frames(t)
<1>0. q \o t \in Seq(S)
  OBVIOUS
<1>1. /\ DOMAIN (q \o t) = 1..(Len(q) + Len(t)) /\ DOMAIN q = 1..Len(q) /\ DOMAIN t = 1..Len(t)
      /\ Len(q) \in Nat /\ Len(t) \in Nat
  OBVIOUS
<1>2. \A i \in 1..Len(q) : (q \o t)[i] = q[i]
  OBVIOUS
<1>3. \A i \in 1..Len(t) : (q \o t)[Len(q) + i] = t[i]
  OBVIOUS
<1>4. \A i \in 1..(Len(q) + Len(t)) :
         i \in 1..Len(q) \/ (i - Len(q) \in 1..Len(t) /\ i = Len(q) + (i - Len(q)))
  BY <1>1
<1>5. \A i \in 1..Len(t) : Len(q) + i \in 1..(Len(q) + Len(t))
  BY <1>1
<1>6. \A i \in 1..Len(q) : i \in 1..(Len(q) + Len(t))
  BY <1>1
<1>7. Frames(q \o t) \subseteq Frames(q) \cup Frames(t)
  BY <1>1, <1>2, <1>3, <1>4 DEF Frames
<1>8. Frames(q) \subseteq Frames(q \o t)
  BY <1>1, <1>2, <1>6 DEF Frames
<1>9. Frames(t) \subseteq Frames(q \o t)
  BY <1>1, <1>3, <1>5 DEF Frames
<1> QED
  BY <1>0, <1>7, <1>8, <1>9

\* Replacing the head of a stack by a sequence of calls.
LEMMA PushFrames ==
    ASSUME NEW S, NEW st \in Seq(S), st # <<>>, NEW q \in Seq(S)
    PROVE  /\ q \o Tail(st) \in Seq(S)
           /\ Frames(q \o Tail(st)) = Frames(q) \cup Frames(Tail(st))
<1>1. PICK t : t = Tail(st)
  OBVIOUS
<1>2. t \in Seq(S)
  BY <1>1
<1> QED
  BY <1>1, <1>2, ConcatFrames

\* The head and the rest of a stack.
LEMMA HeadFrames ==
    ASSUME NEW S, NEW st \in Seq(S), st # <<>>
    PROVE  /\ Head(st) \in S /\ Tail(st) \in Seq(S)
           /\ Frames(st) = {Head(st)} \cup Frames(Tail(st))
<1>1. /\ DOMAIN st = 1..Len(st) /\ DOMAIN Tail(st) = 1..(Len(st) - 1) /\ Len(st) \in Nat
      /\ Len(st) # 0 /\ Head(st) = st[1] /\ Head(st) \in S /\ Tail(st) \in Seq(S)
      /\ \A i \in 1..(Len(st) - 1) : Tail(st)[i] = st[i + 1]
  OBVIOUS
<1>2. \A i \in 1..Len(st) : i = 1 \/ (i - 1 \in 1..(Len(st) - 1) /\ i = (i - 1) + 1)
  BY <1>1
<1>3. \A i \in 1..(Len(st) - 1) : i + 1 \in 1..Len(st)
  BY <1>1
<1>4. 1 \in 1..Len(st)
  BY <1>1
<1>5. ASSUME NEW e \in Frames(st) PROVE e \in {Head(st)} \cup Frames(Tail(st))
  <2>1. PICK i \in 1..Len(st) : e = st[i]
    BY <1>1 DEF Frames
  <2>2. CASE i = 1
    BY <1>1, <2>1, <2>2
  <2>3. CASE i - 1 \in 1..(Len(st) - 1) /\ i = (i - 1) + 1
    <3>1. Tail(st)[i - 1] = e
      BY <1>1, <2>1, <2>3
    <3>2. e \in Frames(Tail(st))
      BY <1>1, <2>3, <3>1 DEF Frames
    <3> QED
      BY <3>2
  <2> QED
    BY <1>2, <2>2, <2>3
<1>6. {Head(st)} \cup Frames(Tail(st)) \subseteq Frames(st)
  BY <1>1, <1>3, <1>4 DEF Frames
<1> QED
  BY <1>1, <1>5, <1>6

\* Every position of a finite set of numbers has its place in the ascending order,
\* and the order has no other members.
LEMMA OrderHasAll ==
    ASSUME NEW M \in SUBSET Nat, IsFiniteSet(M)
    PROVE  /\ DOMAIN InOrder(M) = 1..Cardinality(M) /\ Cardinality(M) \in Nat
           /\ Frames(InOrder(M)) = M
<1> DEFINE Below(i) == {j \in M : j < i}
           rank == [i \in M |-> Cardinality(Below(i)) + 1]
<1>1. Cardinality(M) \in Nat
  BY FS_CardinalityType
<1>2. ASSUME NEW i \in M
      PROVE  IsFiniteSet(Below(i)) /\ Cardinality(Below(i)) \in 0..(Cardinality(M) - 1)
  <2>1. Below(i) \in SUBSET M /\ Below(i) # M
    BY <1>2
  <2> HIDE DEF Below
  <2>2. IsFiniteSet(Below(i)) /\ Cardinality(Below(i)) <= Cardinality(M)
        /\ Cardinality(Below(i)) # Cardinality(M)
    BY <2>1, FS_Subset
  <2>3. Cardinality(Below(i)) \in Nat
    BY <2>2, FS_CardinalityType
  <2> QED
    BY <1>1, <2>2, <2>3
<1>3. ASSUME NEW i \in M, NEW k \in M, i < k
      PROVE  Cardinality(Below(i)) < Cardinality(Below(k))
  <2>0. i \in Nat /\ k \in Nat /\ \A j \in M : j \in Nat
    OBVIOUS
  <2>1. /\ \A j \in Below(i) : j \in Below(k)
        /\ i \in Below(k) /\ i \notin Below(i)
    <3>1. \A j \in M : j < i => j < k
      BY <1>3, <2>0
    <3>2. ~(i < i)
      BY <2>0
    <3> QED
      BY <1>3, <3>1, <3>2
  <2>2. IsFiniteSet(Below(k)) /\ Cardinality(Below(k)) \in Int /\ Cardinality(Below(i)) \in Int
    BY <1>2
  <2> HIDE DEF Below
  <2>3. Below(i) \in SUBSET Below(k) /\ Below(i) # Below(k)
    BY <2>1
  <2> QED
    BY <2>2, <2>3, FS_Subset
<1>4. rank \in Injection(M, 1..Cardinality(M))
  <2>1. \A i \in M : rank[i] \in 1..Cardinality(M)
    <3> SUFFICES ASSUME NEW i \in M PROVE Cardinality(Below(i)) + 1 \in 1..Cardinality(M)
      OBVIOUS
    <3> HIDE DEF Below
    <3> QED
      BY <1>1, <1>2
  <2>2. \A i, k \in M : rank[i] = rank[k] => i = k
    <3> SUFFICES ASSUME NEW i \in M, NEW k \in M,
                        Cardinality(Below(i)) + 1 = Cardinality(Below(k)) + 1
                 PROVE  i = k
      OBVIOUS
    <3> HIDE DEF Below
    <3>1. ~(i < k) /\ ~(k < i)
      BY <1>2, <1>3
    <3> QED
      BY <3>1
  <2> HIDE DEF rank
  <2>3. rank \in [M -> 1..Cardinality(M)]
    BY <2>1 DEF rank
  <2> QED
    BY <2>2, <2>3 DEF Injection, IsInjective
<1>5. rank \in Surjection(M, 1..Cardinality(M))
  <2> HIDE DEF rank
  <2>1. IsFiniteSet(1..Cardinality(M)) /\ Cardinality(1..Cardinality(M)) = Cardinality(M)
    BY <1>1, FS_Interval
  <2> QED
    BY <1>4, <2>1, FS_Injection
<1>6. \A n \in 1..Cardinality(M) : \E i \in M : Cardinality(Below(i)) = n - 1
  <2> SUFFICES ASSUME NEW n \in 1..Cardinality(M) PROVE \E i \in M : Cardinality(Below(i)) = n - 1
    OBVIOUS
  <2>1. PICK i \in M : rank[i] = n
    BY <1>5 DEF Surjection
  <2>2. Cardinality(Below(i)) + 1 = n /\ Cardinality(Below(i)) \in Int
    BY <1>2, <2>1
  <2> HIDE DEF Below
  <2> QED
    BY <1>1, <2>2
<1>7. InOrder(M) = [n \in 1..Cardinality(M) |-> CHOOSE i \in M : Cardinality(Below(i)) = n - 1]
  BY DEF InOrder
<1>8. \A n \in 1..Cardinality(M) :
         InOrder(M)[n] \in M /\ Cardinality(Below(InOrder(M)[n])) = n - 1
  <2> HIDE DEF Below
  <2> QED
    BY <1>6, <1>7
<1>9. ASSUME NEW i \in M PROVE \E n \in 1..Cardinality(M) : InOrder(M)[n] = i
  <2>1. PICK n : n = Cardinality(Below(i)) + 1
    OBVIOUS
  <2>2. n \in 1..Cardinality(M) /\ Cardinality(Below(i)) = n - 1
    BY <1>1, <1>2, <2>1
  <2>3. InOrder(M)[n] \in M /\ Cardinality(Below(InOrder(M)[n])) = n - 1
    BY <1>8, <2>2
  <2> HIDE DEF Below
  <2>4. PICK k \in M : k = InOrder(M)[n] /\ Cardinality(Below(k)) = Cardinality(Below(i))
    BY <2>2, <2>3
  <2>5. ~(i < k) /\ ~(k < i)
    BY <1>2, <1>3, <2>4
  <2> QED
    BY <2>2, <2>4, <2>5
<1>10. DOMAIN InOrder(M) = 1..Cardinality(M)
  BY <1>7
<1> HIDE DEF Below
<1> QED
  BY <1>1, <1>8, <1>9, <1>10 DEF Frames

-----------------------------------------------------------------------------
(* The shape of images, calls and intents. *)

\* The parts of the image an engine runs have their declared types.
LEMMA DeploymentShape ==
    ASSUME deployment \in Deployments
    PROVE  /\ Rules \in Seq(RuleType) /\ MaxFirings \in Nat
           /\ Times \subseteq Int /\ Targets \subseteq Scopes \cup {NoScope}
<1>1. deployment \in DeploymentType
  BY GraphConstants
<1> QED
  BY <1>1 DEF DeploymentType, Rules, MaxFirings, Times, Targets

\* What the fields of a rule are.
LEMMA RuleShape ==
    ASSUME deployment \in Deployments, NEW i \in DOMAIN Rules
    PROVE  /\ i \in Nat \ {0} /\ Rules[i].src \in {"event", "cause", "problem"}
           /\ Rules[i].src = "cause" => Rules[i].on \in CauseKinds
           /\ Rules[i].scope \in ScopeTypes /\ Rules[i].lo \in Int /\ Rules[i].hi \in Int
           /\ Rules[i].body \in Seq(IntentType) /\ Rules[i].else \in Seq(IntentType)
           /\ Rules[i].unk \in Seq(IntentType)
<1>1. Rules \in Seq(RuleType)
  BY DeploymentShape
<1>2. Rules[i] \in RuleType /\ i \in Nat \ {0}
  BY <1>1
<1> QED
  BY <1>2 DEF RuleType, RuleOn

\* What the fields of a call are.
LEMMA CallShape ==
    ASSUME NEW f \in CallType
    PROVE  /\ f.op \in IntentOps \cup {"rule", "rivals", "rollup"} /\ f.rule \in Nat
           /\ f.anchor \in AnchorType /\ f.scope \in Scopes
           /\ f.op \in IntentOps => f.intent \in IntentType
           /\ f.op = "rivals" => f.pair \in SUBSET CauseKinds
BY DEF CallType, IntentOps

\* What the fields of an intent are.
LEMMA IntentShape ==
    ASSUME NEW i \in IntentType
    PROVE  /\ i.op \in IntentOps
           /\ i.op = "infer" => i.cause \in CauseKinds /\ i.weight \in Int
           /\ i.op = "emit" => i.problem \in ProblemKinds /\ i.own \in BOOLEAN
           /\ i.op = "supersede" => i.problem \in ProblemKinds
           /\ i.op = "mark" => i.pair \in SUBSET CauseKinds
           /\ i.op = "action" => i.kind \in STRING
BY DEF IntentType, IntentOps

\* What the fields of an anchor are.
LEMMA AnchorShape ==
    ASSUME NEW a \in AnchorType
    PROVE  /\ a.src \in {"event", "cause", "problem"} /\ a.target \in Scopes \cup {NoScope}
           /\ a.time \in Int /\ a.conf \in Int
BY DEF AnchorType

-----------------------------------------------------------------------------
(* The calls the engine makes. *)

\* The rules a trigger finds are finitely many positions of the image.
LEMMA RulesForShape ==
    ASSUME deployment \in Deployments, NEW src, NEW name, NEW s
    PROVE  RulesFor(src, name, s) \in SUBSET Nat /\ IsFiniteSet(RulesFor(src, name, s))
<1>1. Rules \in Seq(RuleType)
  BY DeploymentShape
<1>2. DOMAIN Rules = 1..Len(Rules) /\ Len(Rules) \in Nat
  BY <1>1
<1>3. IsFiniteSet(1..Len(Rules))
  BY <1>2, FS_Interval
<1>4. RulesFor(src, name, s) \in SUBSET (1..Len(Rules))
  BY <1>2 DEF RulesFor
<1>5. 1..Len(Rules) \in SUBSET Nat
  BY <1>2
<1> QED
  BY <1>3, <1>4, <1>5, FS_Subset

\* Running a set of rules calls each of them once, about the one anchor.
LEMMA RuleCallsShape ==
    ASSUME NEW M \in SUBSET Nat, IsFiniteSet(M), NEW a \in AnchorType, NEW s \in Scopes
    PROVE  /\ RuleCalls(M, a, s) \in Seq(CallType)
           /\ \A i \in DOMAIN RuleCalls(M, a, s) : RuleCalls(M, a, s)[i].op = "rule"
                                                  /\ RuleCalls(M, a, s)[i].anchor = a
           /\ Frames(RuleCalls(M, a, s)) = {Call("rule", i, a, s) : i \in M}
<1> DEFINE C(i) == Call("rule", i, a, s)
<1>1. PICK o : o = InOrder(M)
  OBVIOUS
<1>2. DOMAIN o = 1..Cardinality(M) /\ Cardinality(M) \in Nat /\ Frames(o) = M
  BY <1>1, OrderHasAll
<1>3. RuleCalls(M, a, s) = [j \in DOMAIN o |-> C(o[j])]
  BY <1>1 DEF RuleCalls
<1>4. \A i \in Nat : C(i) \in CallType /\ C(i).op = "rule" /\ C(i).anchor = a
  BY DEF Call, CallType
<1> HIDE DEF C
<1>5. \A j \in DOMAIN o : o[j] \in M
  BY <1>2 DEF Frames
<1>6. PICK q : q = RuleCalls(M, a, s)
  OBVIOUS
<1>7. DOMAIN q = DOMAIN o /\ \A j \in DOMAIN o : q[j] = C(o[j])
  BY <1>3, <1>6
<1>8. \A j \in DOMAIN o : q[j] \in CallType /\ q[j].op = "rule" /\ q[j].anchor = a
  BY <1>4, <1>5, <1>7
<1>9. q \in Seq(CallType)
  <2>1. q = [j \in 1..Cardinality(M) |-> C(o[j])]
    BY <1>2, <1>3, <1>6
  <2>2. q \in [1..Cardinality(M) -> CallType]
    BY <1>2, <1>7, <1>8, <2>1
  <2> QED
    BY <1>2, <2>2
<1>10. Frames(q) = {C(i) : i \in M}
  <2>1. \A e \in Frames(q) : e \in {C(i) : i \in M}
    BY <1>5, <1>7 DEF Frames
  <2>2. ASSUME NEW i \in M PROVE C(i) \in Frames(q)
    <3>1. PICK j \in DOMAIN o : o[j] = i
      BY <1>2 DEF Frames
    <3> QED
      BY <1>7, <3>1 DEF Frames
  <2> QED
    BY <2>1, <2>2
<1>11. \A j \in DOMAIN q : q[j].op = "rule" /\ q[j].anchor = a
  BY <1>7, <1>8, Zenon
<1> QED
  BY <1>6, <1>9, <1>10, <1>11 DEF C

\* Of a rule that runs, one branch is pushed, all of it, about the rule's anchor.
LEMMA IntentCallsShape ==
    ASSUME deployment \in Deployments, NEW r \in DOMAIN Rules, NEW a \in AnchorType,
           NEW s \in Scopes
    PROVE  /\ IntentCalls(r, a, s) \in Seq(CallType)
           /\ DOMAIN IntentCalls(r, a, s) = DOMAIN Body(r, a, s)
           /\ \A j \in DOMAIN IntentCalls(r, a, s) :
                 LET f == IntentCalls(r, a, s)[j]
                 IN /\ f.op = f.intent.op /\ f.rule = r /\ f.anchor = a /\ f.scope = s
                    /\ f.intent = Body(r, a, s)[j]
                    /\ f.intent \in IntentsOf(r) /\ f.op \in IntentOps
<1> DEFINE C(x) == [op |-> x.op, rule |-> r, anchor |-> a, scope |-> s, intent |-> x]
<1>1. PICK b : b = Body(r, a, s)
  OBVIOUS
<1>2. b \in {Rules[r].body, Rules[r].else, Rules[r].unk}
  BY <1>1 DEF Body
<1>3. b \in Seq(IntentType) /\ \A j \in DOMAIN b : b[j] \in IntentsOf(r)
  BY <1>2, RuleShape DEF IntentsOf
<1>4. ASSUME NEW j \in DOMAIN b PROVE b[j] \in IntentType /\ b[j].op \in IntentOps
  BY <1>3, IntentShape
<1>5. ASSUME NEW x \in IntentType
      PROVE  /\ C(x) \in CallType /\ C(x).op = x.op /\ C(x).rule = r /\ C(x).anchor = a
             /\ C(x).scope = s /\ C(x).intent = x
  <2>1. x.op \in IntentOps /\ r \in Nat
    BY <1>5, IntentShape, RuleShape
  <2> QED
    BY <2>1, <1>5 DEF CallType
<1> HIDE DEF C
<1>6. IntentCalls(r, a, s) = [j \in DOMAIN b |-> C(b[j])]
  BY <1>1 DEF IntentCalls, C
<1>7. PICK q : q = IntentCalls(r, a, s)
  OBVIOUS
<1>8. DOMAIN q = DOMAIN b /\ \A j \in DOMAIN b : q[j] = C(b[j])
  BY <1>6, <1>7
<1>9. ASSUME NEW j \in DOMAIN b
      PROVE  /\ q[j] \in CallType /\ q[j].op = b[j].op /\ q[j].rule = r /\ q[j].anchor = a
             /\ q[j].scope = s /\ q[j].intent = b[j] /\ b[j] \in IntentsOf(r)
             /\ b[j].op \in IntentOps
  BY <1>3, <1>4, <1>5, <1>8
<1>10. q \in Seq(CallType)
  <2>1. DOMAIN b = 1..Len(b) /\ Len(b) \in Nat
    BY <1>3
  <2>2. q = [j \in 1..Len(b) |-> C(b[j])]
    BY <1>6, <1>7, <2>1
  <2>3. q \in [1..Len(b) -> CallType]
    BY <1>8, <1>9, <2>1, <2>2
  <2> QED
    BY <2>1, <2>3
<1> QED
  BY <1>1, <1>7, <1>8, <1>9, <1>10

\* The synthesis of one exclusive pair, at the snapshot a.
Rivals(a, s, p) == [op |-> "rivals", rule |-> 0, anchor |-> a, scope |-> s, pair |-> p]

\* A confidence that moved calls its decision rules and the synthesis of each of
\* its exclusive pairs, with one snapshot.
LEMMA MutationCallsShape ==
    ASSUME deployment \in Deployments, NEW k \in CauseKinds, NEW t \in Scopes,
           NEW n, n.time \in Int, n.conf \in Int, NEW s \in Scopes
    PROVE  /\ CauseAnchor(k, t, n) \in AnchorType
           /\ MutationCalls(k, t, n, s) \in Seq(CallType)
           /\ \A i \in DOMAIN MutationCalls(k, t, n, s) :
                 /\ MutationCalls(k, t, n, s)[i].op \in {"rule", "rivals"}
                 /\ MutationCalls(k, t, n, s)[i].anchor = CauseAnchor(k, t, n)
           /\ Frames(MutationCalls(k, t, n, s)) =
                {Call("rule", i, CauseAnchor(k, t, n), s) :
                   i \in {j \in RulesFor("cause", k, s) :
                            Rules[j].lo <= n.conf /\ n.conf <= Rules[j].hi}}
                \cup {Rivals(CauseAnchor(k, t, n), s, Exclusive[j]) :
                        j \in {l \in DOMAIN Exclusive : k \in Exclusive[l]}}
<1> DEFINE F == {j \in RulesFor("cause", k, s) : Rules[j].lo <= n.conf /\ n.conf <= Rules[j].hi}
           X == {l \in DOMAIN Exclusive : k \in Exclusive[l]}
<1>1. PICK a \in AnchorType : a = CauseAnchor(k, t, n)
  BY DEF CauseAnchor, AnchorType
<1>2. F \in SUBSET Nat /\ IsFiniteSet(F)
  <2>1. F \in SUBSET RulesFor("cause", k, s)
    OBVIOUS
  <2> HIDE DEF F
  <2> QED
    BY <2>1, RulesForShape, FS_Subset
<1>3. DOMAIN Exclusive = 1..Len(Exclusive) /\ Len(Exclusive) \in Nat
      /\ \A j \in DOMAIN Exclusive : Exclusive[j] \in SUBSET CauseKinds
  BY GraphConstants
<1>4. X \in SUBSET Nat /\ IsFiniteSet(X)
  <2>1. X \in SUBSET (1..Len(Exclusive)) /\ IsFiniteSet(1..Len(Exclusive))
    BY <1>3, FS_Interval
  <2>2. X \in SUBSET Nat
    BY <1>3
  <2> HIDE DEF X
  <2> QED
    BY <2>1, <2>2, FS_Subset
<1>5. PICK o : o = InOrder(X)
  OBVIOUS
<1>6. DOMAIN o = 1..Cardinality(X) /\ Cardinality(X) \in Nat /\ Frames(o) = X
  BY <1>4, <1>5, OrderHasAll
<1>7. PICK u : u = RuleCalls(F, a, s)
  OBVIOUS
<1>8. /\ u \in Seq(CallType) /\ \A i \in DOMAIN u : u[i].op = "rule" /\ u[i].anchor = a
      /\ Frames(u) = {Call("rule", i, a, s) : i \in F}
  <2> HIDE DEF F
  <2>1. /\ RuleCalls(F, a, s) \in Seq(CallType)
        /\ \A i \in DOMAIN RuleCalls(F, a, s) : RuleCalls(F, a, s)[i].op = "rule"
                                               /\ RuleCalls(F, a, s)[i].anchor = a
        /\ Frames(RuleCalls(F, a, s)) = {Call("rule", i, a, s) : i \in F}
    BY <1>2, RuleCallsShape
  <2> QED
    BY <1>7, <2>1
<1>9. PICK v : v = [j \in DOMAIN o |-> Rivals(a, s, Exclusive[o[j]])]
  OBVIOUS
<1>10. MutationCalls(k, t, n, s) = u \o v
  BY <1>1, <1>5, <1>7, <1>9 DEF MutationCalls, Rivals
<1>11. \A l \in X : /\ Rivals(a, s, Exclusive[l]) \in CallType
                    /\ Rivals(a, s, Exclusive[l]).op = "rivals"
                    /\ Rivals(a, s, Exclusive[l]).anchor = a
  BY <1>3 DEF Rivals, CallType
<1>12. \A j \in DOMAIN o : o[j] \in X
  BY <1>6 DEF Frames
<1> HIDE DEF F, X
<1>13. DOMAIN v = DOMAIN o /\ \A j \in DOMAIN o : /\ v[j] = Rivals(a, s, Exclusive[o[j]])
                                                  /\ v[j] \in CallType
                                                  /\ v[j].op = "rivals" /\ v[j].anchor = a
  BY <1>9, <1>11, <1>12
<1>14. v \in Seq(CallType)
  <2>1. v = [j \in 1..Cardinality(X) |-> Rivals(a, s, Exclusive[o[j]])]
    BY <1>6, <1>9
  <2>2. v \in [1..Cardinality(X) -> CallType]
    BY <1>6, <1>13, <2>1
  <2> QED
    BY <1>6, <2>2
<1>15. Frames(v) = {Rivals(a, s, Exclusive[j]) : j \in X}
  <2>1. \A e \in Frames(v) : e \in {Rivals(a, s, Exclusive[j]) : j \in X}
    BY <1>12, <1>13 DEF Frames
  <2>2. ASSUME NEW l \in X PROVE Rivals(a, s, Exclusive[l]) \in Frames(v)
    <3>1. PICK j \in DOMAIN o : o[j] = l
      BY <1>6 DEF Frames
    <3> QED
      BY <1>13, <3>1 DEF Frames
  <2> QED
    BY <2>1, <2>2
<1>16. PICK q : q = u \o v
  OBVIOUS
<1>17. q \in Seq(CallType) /\ Frames(q) = Frames(u) \cup Frames(v)
  BY <1>8, <1>14, <1>16, ConcatFrames
<1>18. ASSUME NEW i \in DOMAIN q PROVE q[i].op \in {"rule", "rivals"} /\ q[i].anchor = a
  <2>1. q[i] \in Frames(u) \/ q[i] \in Frames(v)
    BY <1>17 DEF Frames
  <2>2. CASE q[i] \in Frames(u)
    <3>1. PICK j \in DOMAIN u : q[i] = u[j]
      BY <2>2 DEF Frames
    <3> QED
      BY <1>8, <3>1
  <2>3. CASE q[i] \in Frames(v)
    <3>1. PICK j \in DOMAIN v : q[i] = v[j]
      BY <2>3 DEF Frames
    <3> QED
      BY <1>13, <3>1
  <2> QED
    BY <2>1, <2>2, <2>3
<1>19. CauseAnchor(k, t, n) = a /\ MutationCalls(k, t, n, s) = q
  BY <1>1, <1>10, <1>16
<1> QED
  BY <1>8, <1>15, <1>17, <1>18, <1>19 DEF F, X

-----------------------------------------------------------------------------
(* Types and pending calls. *)

\* What the engine has inferred stays inferred.
NodesStay == \A s \in Scopes, k \in CauseKinds, t \in Scopes : node[s][k][t].in => node'[s][k][t].in

\* What a call may be depends on the image alone.
LEMMA ProperStays ==
    ASSUME UNCHANGED deployment, NEW f, Proper(f) PROVE Proper(f)'
BY DEF Proper, IntentsOf, Rules, Targets

\* Finishing the call at the head.
LEMMA PopKeeps ==
    ASSUME TypeOK, StackInv, stack # <<>>, UNCHANGED deployment, NodesStay,
           stack' = Tail(stack)
    PROVE  stack' \in Seq(CallType) /\ StackInv'
<1>1. stack \in Seq(CallType)
  BY DEF TypeOK
<1>2. /\ stack' \in Seq(CallType) /\ Frames(stack) = {Head(stack)} \cup Frames(stack')
      /\ \A f \in Frames(stack) : f \in CallType
  BY <1>1, HeadFrames DEF Frames
<1>3. ASSUME NEW f \in Frames(stack')
      PROVE  Proper(f)' /\ (f.op = "rollup" => node'[f.scope][f.anchor.id][f.anchor.target].in)
  <2>1. f \in CallType /\ Proper(f)
        /\ (f.op = "rollup" => node[f.scope][f.anchor.id][f.anchor.target].in)
    BY <1>2, <1>3 DEF StackInv
  <2>2. f.op = "rollup" =>
          f.scope \in Scopes /\ f.anchor.id \in CauseKinds /\ f.anchor.target \in Scopes
    BY <2>1, CallShape DEF Proper
  <2>3. f.op = "rollup" => node'[f.scope][f.anchor.id][f.anchor.target].in
    BY <2>1, <2>2 DEF NodesStay
  <2> QED
    BY <2>1, <2>3, ProperStays
<1> QED
  BY <1>2, <1>3, Zenon DEF StackInv

\* Replacing the call at the head by the calls it makes.
LEMMA PushKeeps ==
    ASSUME TypeOK, StackInv, stack # <<>>, UNCHANGED deployment, NodesStay,
           NEW q \in Seq(CallType), stack' = q \o Tail(stack),
           \A f \in Frames(q) : Proper(f),
           \A f \in Frames(q) : f.op = "rollup" =>
                node'[f.scope][f.anchor.id][f.anchor.target].in
    PROVE  stack' \in Seq(CallType) /\ StackInv'
<1>1. stack \in Seq(CallType)
  BY DEF TypeOK
<1>2. /\ stack' \in Seq(CallType) /\ Frames(stack') = Frames(q) \cup Frames(Tail(stack))
      /\ Frames(stack) = {Head(stack)} \cup Frames(Tail(stack))
      /\ \A f \in Frames(stack) : f \in CallType
  <2>1. /\ q \o Tail(stack) \in Seq(CallType)
        /\ Frames(q \o Tail(stack)) = Frames(q) \cup Frames(Tail(stack))
    BY <1>1, PushFrames
  <2>2. Frames(stack) = {Head(stack)} \cup Frames(Tail(stack))
    BY <1>1, HeadFrames
  <2>3. \A f \in Frames(stack) : f \in CallType
    BY <1>1 DEF Frames
  <2> QED
    BY <2>1, <2>2, <2>3
<1>3. ASSUME NEW f \in Frames(Tail(stack))
      PROVE  Proper(f)' /\ (f.op = "rollup" => node'[f.scope][f.anchor.id][f.anchor.target].in)
  <2>1. f \in CallType /\ Proper(f)
        /\ (f.op = "rollup" => node[f.scope][f.anchor.id][f.anchor.target].in)
    BY <1>2, <1>3 DEF StackInv
  <2>2. f.op = "rollup" =>
          f.scope \in Scopes /\ f.anchor.id \in CauseKinds /\ f.anchor.target \in Scopes
    BY <2>1, CallShape DEF Proper
  <2>3. f.op = "rollup" => node'[f.scope][f.anchor.id][f.anchor.target].in
    BY <2>1, <2>2 DEF NodesStay
  <2> QED
    BY <2>1, <2>3, ProperStays
<1>4. ASSUME NEW f \in Frames(q)
      PROVE  Proper(f)' /\ (f.op = "rollup" => node'[f.scope][f.anchor.id][f.anchor.target].in)
  BY <1>4, ProperStays
<1> QED
  BY <1>2, <1>3, <1>4, Zenon DEF StackInv

\* The call at the head.
LEMMA HeadShape ==
    ASSUME GraphInv, stack # <<>>
    PROVE  /\ Head(stack) \in CallType /\ Head(stack) \in Frames(stack) /\ Proper(Head(stack))
           /\ Head(stack).op = "rollup" =>
                node[Head(stack).scope][Head(stack).anchor.id][Head(stack).anchor.target].in
<1>1. stack \in Seq(CallType)
  BY DEF GraphInv, TypeOK
<1>2. Head(stack) \in CallType /\ Head(stack) \in Frames(stack)
  BY <1>1, HeadFrames
<1> QED
  BY <1>2 DEF GraphInv, StackInv

\* Starting a rule keeps the types, and pushes only intents of that rule.
LEMMA RunRuleTyped ==
    ASSUME GraphInv, RunRule PROVE GraphInv'
<1> USE DEF GraphInv
<1>1. PICK f : f = Head(stack)
  OBVIOUS
<1>2. /\ f \in CallType /\ Proper(f) /\ f.op = "rule" /\ f.anchor \in AnchorType
      /\ f.scope \in Scopes /\ f.rule \in DOMAIN Rules /\ Rules[f.rule].src = f.anchor.src
      /\ Rules[f.rule].scope = TypeOf[f.scope]
  BY <1>1, HeadShape, CallShape DEF RunRule, Proper
<1>3. NodesStay /\ UNCHANGED deployment
  BY DEF RunRule, NodesStay
<1>4. stack' \in Seq(CallType) /\ StackInv'
  <2>1. CASE stack' = Tail(stack)
    BY <1>3, <2>1, PopKeeps DEF RunRule
  <2>2. CASE stack' = IntentCalls(f.rule, f.anchor, f.scope) \o Tail(stack)
    <3>1. PICK q : q = IntentCalls(f.rule, f.anchor, f.scope)
      OBVIOUS
    <3>2. /\ q \in Seq(CallType)
          /\ \A j \in DOMAIN q : /\ q[j].op = q[j].intent.op /\ q[j].rule = f.rule
                                 /\ q[j].anchor = f.anchor /\ q[j].scope = f.scope
                                 /\ q[j].intent \in IntentsOf(f.rule) /\ q[j].op \in IntentOps
      BY <1>2, <3>1, IntentCallsShape DEF TypeOK
    <3>3. \A g \in Frames(q) : Proper(g) /\ g.op # "rollup"
      BY <1>2, <3>2 DEF Proper, Frames, IntentOps
    <3> QED
      BY <1>3, <2>2, <3>1, <3>2, <3>3, PushKeeps DEF RunRule
  <2> QED
    BY <1>1, <2>1, <2>2 DEF RunRule
<1>5. budget' \in Nat
  BY DEF RunRule, TypeOK
<1> QED
  BY <1>4, <1>5 DEF RunRule, TypeOK

\* A call without a target changes the log of refusals only.
LEMMA UnresolvedTyped ==
    ASSUME GraphInv, Unresolved PROVE GraphInv'
<1>1. NodesStay /\ UNCHANGED deployment /\ stack # <<>> /\ stack' = Tail(stack)
  BY DEF Unresolved, NodesStay
<1>2. stack' \in Seq(CallType) /\ StackInv'
  BY <1>1, PopKeeps DEF GraphInv
<1> QED
  BY <1>2 DEF Unresolved, TypeOK, GraphInv

\* Adding a weight keeps a confidence within 0..100.
LEMMA ApplyBounds ==
    ASSUME NEW c \in Int, NEW w \in Int PROVE Apply(c, w) \in 0..100
BY DEF Apply

\* The node of a cause.
LEMMA NodeShape ==
    ASSUME TypeOK, NEW s \in Scopes, NEW k \in CauseKinds, NEW t \in Scopes
    PROVE  /\ node[s][k][t] \in NodeType /\ node[s][k][t].in \in BOOLEAN
           /\ node[s][k][t].conf \in 0..100 /\ node[s][k][t].time \in Int
           /\ node[s][k][t].from \in Seq([key : KeyType, weight : Int])
<1>1. node[s][k][t] \in NodeType
  BY DEF TypeOK
<1> QED
  BY <1>1 DEF NodeType

\* What it holds are numbers.
LEMMA NodeNumbers ==
    ASSUME NEW n \in NodeType PROVE n.time \in Int /\ n.conf \in Int
<1>1. n.time \in Int /\ n.conf \in 0..100
  BY Zenon DEF NodeType
<1> QED
  BY <1>1

\* The call at the head names its scope, target and cause.
LEMMA HeadInfer ==
    ASSUME GraphInv, Resolved("infer")
    PROVE  /\ stack # <<>> /\ Head(stack).op = "infer" /\ Head(stack).scope \in Scopes
           /\ Head(stack).anchor.target \in Scopes /\ Head(stack).anchor.time \in Int
           /\ Head(stack).intent.cause \in CauseKinds /\ Head(stack).intent.weight \in Int
           /\ Head(stack).rule \in Nat
<1>1. PICK f : f = Head(stack)
  OBVIOUS
<1>2. f \in CallType /\ f.op = "infer" /\ f.anchor.target # NoScope /\ stack # <<>>
      /\ f.intent.op = "infer"
  BY <1>1, HeadShape DEF Resolved, Proper, IntentOps
<1>3. f.anchor \in AnchorType /\ f.intent \in IntentType /\ f.scope \in Scopes /\ f.rule \in Nat
  BY <1>2, CallShape DEF IntentOps
<1> QED
  BY <1>1, <1>2, <1>3, AnchorShape, IntentShape

\* The windows that identify a contribution are integers.
LEMMA WindowIdType ==
    ASSUME NEW t \in Int PROVE WindowId(t) \in Int
<1>1. DedupWindow \in Nat
  BY GraphConstants
<1> QED
  BY <1>1 DEF WindowId

\* The node an inference writes, and what it calls.
InferKey == ProvKey(Head(stack).rule, Head(stack).intent.cause, Head(stack).anchor.target,
                    Head(stack).scope, Head(stack).anchor.time)

Inferred ==
    LET f   == Head(stack)
        old == node[f.scope][f.intent.cause][f.anchor.target]
    IN [in   |-> TRUE,
        conf |-> Apply(old.conf, f.intent.weight),
        time |-> IF old.in THEN old.time ELSE f.anchor.time,
        from |-> Append(old.from, [key |-> InferKey, weight |-> f.intent.weight])]

InferCalls(k, t, n, s) ==
    MutationCalls(k, t, n, s)
    \o (IF s # t /\ SubsumedBy(TypeOf[s], TypeOf[t])
        THEN <<[op |-> "rollup", rule |-> 0, anchor |-> CauseAnchor(k, t, n), scope |-> s]>>
        ELSE <<>>)

\* What an inference pushes: its reactions, then the roll-up it may start.
LEMMA InferCallsShape ==
    ASSUME deployment \in Deployments, NEW k \in CauseKinds, NEW t \in Scopes,
           NEW n \in NodeType, NEW s \in Scopes
    PROVE  LET up == [op |-> "rollup", rule |-> 0, anchor |-> CauseAnchor(k, t, n), scope |-> s]
               below == s # t /\ SubsumedBy(TypeOf[s], TypeOf[t])
           IN /\ InferCalls(k, t, n, s) \in Seq(CallType) /\ up \in CallType
              /\ Frames(InferCalls(k, t, n, s)) =
                   Frames(MutationCalls(k, t, n, s)) \cup (IF below THEN {up} ELSE {})
              /\ Frames(MutationCalls(k, t, n, s)) \subseteq Frames(InferCalls(k, t, n, s))
<1> DEFINE up == [op |-> "rollup", rule |-> 0, anchor |-> CauseAnchor(k, t, n), scope |-> s]
           below == s # t /\ SubsumedBy(TypeOf[s], TypeOf[t])
<1>1. PICK v : v = IF below THEN <<up>> ELSE <<>>
  OBVIOUS
<1>2. n.time \in Int /\ n.conf \in Int
  <2>1. n.time \in Int /\ n.conf \in 0..100
    BY Zenon DEF NodeType
  <2> QED
    BY <2>1
<1>3. CauseAnchor(k, t, n) \in AnchorType /\ MutationCalls(k, t, n, s) \in Seq(CallType)
  BY <1>2, MutationCallsShape
<1>4. up \in CallType
  BY <1>3 DEF CallType
<1> HIDE DEF up, below
<1>5. v \in Seq(CallType) /\ Frames(v) = IF below THEN {up} ELSE {}
  BY <1>1, <1>4 DEF Frames
<1>6. InferCalls(k, t, n, s) = MutationCalls(k, t, n, s) \o v
  BY <1>1 DEF InferCalls, up, below
<1>7. /\ InferCalls(k, t, n, s) \in Seq(CallType)
      /\ Frames(InferCalls(k, t, n, s)) = Frames(MutationCalls(k, t, n, s)) \cup Frames(v)
  BY <1>3, <1>5, <1>6, ConcatFrames
<1> QED
  BY <1>4, <1>5, <1>7 DEF up, below

\* What an inference that is neither refused nor a duplicate does.
LEMMA InferStep ==
    ASSUME GraphInv, Infer
    PROVE  \/ UNCHANGED <<node, prov>> /\ stack' = Tail(stack)
           \/ LET f == Head(stack)
              IN /\ InferKey \notin prov /\ prov' = prov \cup {InferKey}
                 /\ node' = [node EXCEPT ![f.scope][f.intent.cause][f.anchor.target] = Inferred]
                 /\ stack' = InferCalls(f.intent.cause, f.anchor.target, Inferred, f.scope)
                             \o Tail(stack)
<1>1. stack \in Seq(CallType) /\ deployment \in Deployments
  BY DEF GraphInv, TypeOK
<1> QED
  BY <1>1 DEF Infer, Inferred, InferKey, AfterInfer, InferCalls

\* The reactions to a confidence are calls the image gives rise to.
LEMMA MutationCallsProper ==
    ASSUME TypeOK, NEW k \in CauseKinds, NEW t \in Scopes, NEW n \in NodeType, NEW s \in Scopes,
           NEW g \in Frames(MutationCalls(k, t, n, s))
    PROVE  Proper(g) /\ g.op \in {"rule", "rivals"} /\ g.anchor = CauseAnchor(k, t, n) /\ g.scope = s
<1>1. n.time \in Int /\ n.conf \in Int /\ deployment \in Deployments
  <2>1. n.time \in Int /\ n.conf \in 0..100
    BY Zenon DEF NodeType
  <2>2. deployment \in Deployments
    BY DEF TypeOK
  <2> QED
    BY <2>1, <2>2
<1>2. PICK a : a = CauseAnchor(k, t, n)
  OBVIOUS
<1>3. a.src = "cause" /\ a.id = k /\ a.target = t
  BY <1>2 DEF CauseAnchor
<1>4. \/ \E i \in RulesFor("cause", k, s) : g = Call("rule", i, a, s)
      \/ \E j \in DOMAIN Exclusive : k \in Exclusive[j] /\ g = Rivals(a, s, Exclusive[j])
  BY <1>1, <1>2, MutationCallsShape
<1>5. CASE \E i \in RulesFor("cause", k, s) : g = Call("rule", i, a, s)
  <2>1. PICK i \in RulesFor("cause", k, s) : g = Call("rule", i, a, s)
    BY <1>5
  <2>2. g.op = "rule" /\ g.rule = i /\ g.anchor = a /\ g.scope = s
    BY <2>1 DEF Call
  <2> QED
    BY <1>2, <1>3, <2>2 DEF Proper, RulesFor, IntentOps
<1>6. CASE \E j \in DOMAIN Exclusive : k \in Exclusive[j] /\ g = Rivals(a, s, Exclusive[j])
  <2>1. PICK j \in DOMAIN Exclusive : k \in Exclusive[j] /\ g = Rivals(a, s, Exclusive[j])
    BY <1>6
  <2>2. g.op = "rivals" /\ g.anchor = a /\ g.scope = s /\ g.pair = Exclusive[j]
    BY <2>1 DEF Rivals
  <2> QED
    BY <1>2, <1>3, <2>1, <2>2 DEF Proper, IntentOps
<1> QED
  BY <1>4, <1>5, <1>6

\* The contribution an inference would make, and the node it would leave.
LEMMA InferredShape ==
    ASSUME GraphInv, Resolved("infer")
    PROVE  /\ InferKey \in KeyType /\ Inferred \in NodeType /\ Inferred.in
           /\ Inferred.from # <<>>
<1>1. PICK f : f = Head(stack)
  OBVIOUS
<1>2. /\ f.scope \in Scopes /\ f.anchor.target \in Scopes /\ f.anchor.time \in Int
      /\ f.intent.cause \in CauseKinds /\ f.intent.weight \in Int /\ f.rule \in Nat
  BY <1>1, HeadInfer
<1>3. PICK old \in NodeType : old = node[f.scope][f.intent.cause][f.anchor.target]
  BY <1>2, NodeShape DEF GraphInv
<1>4. /\ old.in \in BOOLEAN /\ old.conf \in 0..100 /\ old.time \in Int
      /\ old.from \in Seq([key : KeyType, weight : Int])
  BY Zenon DEF NodeType
<1>5. PICK key : key = InferKey
  OBVIOUS
<1>6. key \in KeyType
  <2>1. WindowId(f.anchor.time) \in Int
    BY <1>2, WindowIdType
  <2> QED
    BY <1>1, <1>2, <1>5, <2>1 DEF InferKey, ProvKey, KeyType
<1>7. PICK c : c = Apply(old.conf, f.intent.weight)
  OBVIOUS
<1>8. c \in 0..100
  <2>1. old.conf \in 0..100
    BY <1>4, Zenon
  <2>2. \A x \in 0..100 : x \in Int
    OBVIOUS
  <2>3. old.conf \in Int
    BY <2>1, <2>2, Zenon
  <2>4. Apply(old.conf, f.intent.weight) \in 0..100
    BY <1>2, <2>3, ApplyBounds, Zenon
  <2> QED
    BY <1>7, <2>4, Zenon
<1>9. PICK from : from = Append(old.from, [key |-> key, weight |-> f.intent.weight])
  OBVIOUS
<1>10. from \in Seq([key : KeyType, weight : Int]) /\ from # <<>>
  <2>1. [key |-> key, weight |-> f.intent.weight] \in [key : KeyType, weight : Int]
    BY <1>2, <1>6
  <2> QED
    BY <1>4, <1>9, <2>1
<1>11. PICK time : time = IF old.in THEN old.time ELSE f.anchor.time
  OBVIOUS
<1>12. time \in Int
  BY <1>2, <1>4, <1>11
<1>13. Inferred = [in |-> TRUE, conf |-> c, time |-> time, from |-> from]
  BY <1>1, <1>3, <1>5, <1>7, <1>9, <1>11, Zenon DEF Inferred
<1>14. PICK new : new = [in |-> TRUE, conf |-> c, time |-> time, from |-> from]
  OBVIOUS
<1>15. new \in NodeType /\ new.in /\ new.from = from
  BY <1>8, <1>10, <1>12, <1>14 DEF NodeType
<1> QED
  BY <1>5, <1>6, <1>10, <1>13, <1>14, <1>15

\* An inference keeps the types; the roll-up it starts finds the node it wrote.
LEMMA InferTyped ==
    ASSUME GraphInv, Infer PROVE GraphInv'
<1>1. PICK f : f = Head(stack)
  OBVIOUS
<1>2. Resolved("infer") /\ deployment \in Deployments /\ stack # <<>>
      /\ UNCHANGED <<deployment, wm, swept, problems, ambig, emitted, budget, audit, fires>>
  BY DEF Infer, GraphInv, TypeOK, Resolved
<1>3. /\ f.scope \in Scopes /\ f.anchor.target \in Scopes /\ f.intent.cause \in CauseKinds
  BY <1>1, <1>2, HeadInfer
<1>4. CASE UNCHANGED <<node, prov>> /\ stack' = Tail(stack)
  <2>1. NodesStay
    BY <1>4 DEF NodesStay
  <2>2. stack' \in Seq(CallType) /\ StackInv'
    BY <1>2, <1>4, <2>1, PopKeeps DEF GraphInv
  <2> QED
    BY <1>2, <1>4, <2>2 DEF GraphInv, TypeOK
<1>5. CASE /\ prov' = prov \cup {InferKey}
           /\ node' = [node EXCEPT ![f.scope][f.intent.cause][f.anchor.target] = Inferred]
           /\ stack' = InferCalls(f.intent.cause, f.anchor.target, Inferred, f.scope)
                       \o Tail(stack)
  <2>1. PICK n \in NodeType : n = Inferred
    BY <1>2, InferredShape
  <2>2. n.in /\ InferKey \in KeyType
    BY <1>2, <2>1, InferredShape
  <2>3. PICK s \in Scopes, k \in CauseKinds, t \in Scopes :
           s = f.scope /\ k = f.intent.cause /\ t = f.anchor.target
    BY <1>3
  <2>4. /\ node' \in [Scopes -> [CauseKinds -> [Scopes -> NodeType]]]
        /\ node'[s][k][t] = n
        /\ \A s1 \in Scopes, k1 \in CauseKinds, t1 \in Scopes :
                 <<s1, k1, t1>> # <<s, k, t>> => node'[s1][k1][t1] = node[s1][k1][t1]
    <3>1. node' = [node EXCEPT ![s][k][t] = n]
      BY <1>5, <2>1, <2>3
    <3>2. node \in [Scopes -> [CauseKinds -> [Scopes -> NodeType]]]
      BY DEF GraphInv, TypeOK
    <3> QED
      BY <3>1, <3>2
  <2>5. NodesStay
    BY <2>2, <2>4 DEF NodesStay
  <2>6. PICK q : q = InferCalls(k, t, n, s)
    OBVIOUS
  <2>7. PICK up : up = [op |-> "rollup", rule |-> 0, anchor |-> CauseAnchor(k, t, n), scope |-> s]
    OBVIOUS
  <2>8. /\ q \in Seq(CallType)
        /\ \A g \in Frames(q) : \/ g \in Frames(MutationCalls(k, t, n, s))
                                \/ g = up /\ s # t /\ SubsumedBy(TypeOf[s], TypeOf[t])
    BY <1>2, <2>6, <2>7, InferCallsShape
  <2>9. \A g \in Frames(MutationCalls(k, t, n, s)) : Proper(g) /\ g.op # "rollup"
    BY <1>2, <2>1, MutationCallsProper DEF GraphInv
  <2>10. up.op = "rollup" /\ up.scope = s /\ up.anchor = CauseAnchor(k, t, n) /\ up.rule = 0
    BY <2>7
  <2>11. CauseAnchor(k, t, n).src = "cause" /\ CauseAnchor(k, t, n).id = k
         /\ CauseAnchor(k, t, n).target = t
    BY DEF CauseAnchor
  <2>12. s # t /\ SubsumedBy(TypeOf[s], TypeOf[t]) => Proper(up)
    BY <2>10, <2>11 DEF Proper, IntentOps
  <2>13. \A g \in Frames(q) : Proper(g)
    BY <2>8, <2>9, <2>12
  <2>14. \A g \in Frames(q) : g.op = "rollup" => node'[g.scope][g.anchor.id][g.anchor.target].in
    BY <2>2, <2>4, <2>8, <2>9, <2>10, <2>11
  <2>15. stack' = q \o Tail(stack)
    BY <1>5, <2>1, <2>3, <2>6
  <2>16. stack' \in Seq(CallType) /\ StackInv'
    BY <1>2, <2>5, <2>8, <2>13, <2>14, <2>15, PushKeeps DEF GraphInv
  <2> QED
    BY <1>2, <1>5, <2>2, <2>4, <2>16 DEF GraphInv, TypeOK
<1> QED
  BY <1>1, <1>4, <1>5, InferStep

\* Some confidence is the largest of any that are.
LEMMA LargestOf ==
    ASSUME NEW S \in SUBSET (0..100), S # {}
    PROVE  \E m \in S : \A x \in S : x <= m
<1> DEFINE T == {d \in Nat : \E x \in S : d = 100 - x}
<1>1. \A x \in S : x \in 0..100
  OBVIOUS
<1>2. \A x \in S : 100 - x \in T
  <2> SUFFICES ASSUME NEW x \in S PROVE 100 - x \in Nat
    OBVIOUS
  <2>1. x \in 0..100
    BY <1>1
  <2> QED
    BY <2>1
<1>3. T \in SUBSET Nat /\ T # {}
  BY <1>2
<1>4. PICK d \in T : \A e \in T : d <= e
  <2> HIDE DEF T
  <2> QED
    BY <1>3, LeastNatural
<1>5. PICK m \in S : d = 100 - m
  BY <1>4
<1>6. ASSUME NEW x \in S PROVE x <= m
  <2>1. 100 - m <= 100 - x
    BY <1>2, <1>4, <1>5
  <2>2. x \in 0..100 /\ m \in 0..100
    BY <1>1
  <2> QED
    BY <2>1, <2>2
<1> QED
  BY <1>6

\* The maximum a roll-up takes is attained and is one.
LEMMA ChildMaxShape ==
    ASSUME TypeOK, NEW k \in CauseKinds, NEW t \in Scopes, NEW s, Children(k, t) # {}
    PROVE  /\ ChildMax(k, t, s) \in 0..100
           /\ \E c \in Children(k, t) : node[c][k][t].conf = ChildMax(k, t, s)
           /\ \A c \in Children(k, t) : node[c][k][t].conf <= ChildMax(k, t, s)
<1> DEFINE S == {node[c][k][t].conf : c \in Children(k, t)}
<1>1. \A c \in Children(k, t) : node[c][k][t].conf \in 0..100
  <2>1. \A c \in Children(k, t) : c \in Scopes
    BY DEF Children
  <2> QED
    BY <2>1, NodeShape
<1>2. S \in SUBSET (0..100) /\ S # {}
  BY <1>1
<1>3. \E m \in S : \A x \in S : x <= m
  <2> HIDE DEF S
  <2> QED
    BY <1>2, LargestOf
<1>4. \E m \in S : \A c \in Children(k, t) : node[c][k][t].conf <= m
  BY <1>3
<1>5. PICK m : m = ChildMax(k, t, s)
  OBVIOUS
<1>6. m \in S /\ \A c \in Children(k, t) : node[c][k][t].conf <= m
  BY <1>4, <1>5, Zenon DEF ChildMax
<1> QED
  BY <1>2, <1>5, <1>6

\* The call at the head of a roll-up names a partition below the target's that
\* has the cause.
LEMMA HeadRollup ==
    ASSUME GraphInv, Resolved("rollup")
    PROVE  /\ stack # <<>> /\ Head(stack).op = "rollup"
           /\ Head(stack).anchor.target \in Scopes /\ Head(stack).anchor.id \in CauseKinds
           /\ Head(stack).scope \in Children(Head(stack).anchor.id, Head(stack).anchor.target)
<1>1. PICK f : f = Head(stack)
  OBVIOUS
<1>2. stack # <<>> /\ f \in CallType /\ f.op = "rollup" /\ Proper(f)
      /\ node[f.scope][f.anchor.id][f.anchor.target].in
  BY <1>1, HeadShape DEF Resolved
<1>3. f.scope \in Scopes
  BY <1>2, CallShape
<1> QED
  BY <1>1, <1>2, <1>3 DEF Proper, Children

\* The node a roll-up writes.
RolledUp ==
    LET k == Head(stack).anchor.id
        t == Head(stack).anchor.target
    IN [node[t][k][t] EXCEPT !.in = TRUE, !.conf = ChildMax(k, t, Head(stack).scope),
                             !.time = IF node[t][k][t].in THEN @ ELSE wm]

\* It is the parent's node with the largest confidence of its children.
LEMMA RolledUpShape ==
    ASSUME GraphInv, Resolved("rollup")
    PROVE  LET k == Head(stack).anchor.id
               t == Head(stack).anchor.target
           IN /\ RolledUp \in NodeType /\ RolledUp.in /\ RolledUp.from = node[t][k][t].from
              /\ \E c \in Children(k, t) : node[c][k][t].conf = RolledUp.conf
              /\ \A c \in Children(k, t) : node[c][k][t].conf <= RolledUp.conf
<1>1. PICK f : f = Head(stack)
  OBVIOUS
<1>2. PICK k \in CauseKinds, t \in Scopes : k = f.anchor.id /\ t = f.anchor.target
  BY <1>1, HeadRollup
<1>3. Children(k, t) # {}
  BY <1>1, <1>2, HeadRollup
<1>4. PICK m : m = ChildMax(k, t, f.scope)
  OBVIOUS
<1>5. /\ m \in 0..100
      /\ \E c \in Children(k, t) : node[c][k][t].conf = m
      /\ \A c \in Children(k, t) : node[c][k][t].conf <= m
  BY <1>3, <1>4, ChildMaxShape DEF GraphInv
<1>6. PICK old \in NodeType : old = node[t][k][t]
  BY NodeShape DEF GraphInv
<1>7. wm \in Int
  BY DEF GraphInv, TypeOK
<1>8. PICK time \in Int : time = IF old.in THEN old.time ELSE wm
  BY <1>7, Zenon DEF NodeType
<1>9. RolledUp = [old EXCEPT !.in = TRUE, !.conf = m, !.time = time]
  BY <1>1, <1>2, <1>4, <1>6, <1>8 DEF RolledUp
<1>10. PICK new : new = [old EXCEPT !.in = TRUE, !.conf = m, !.time = time]
  OBVIOUS
<1>11. new \in NodeType /\ new.in /\ new.from = old.from /\ new.conf = m
  BY <1>5, <1>10 DEF NodeType
<1> QED
  BY <1>1, <1>2, <1>5, <1>6, <1>9, <1>10, <1>11

\* What a roll-up does: nothing in a full partition, or one write and its reactions.
LEMMA RollupStep ==
    ASSUME GraphInv, Rollup
    PROVE  LET k == Head(stack).anchor.id
               t == Head(stack).anchor.target
           IN \/ ~node[t][k][t].in /\ UNCHANGED node /\ stack' = Tail(stack)
              \/ /\ node' = [node EXCEPT ![t][k][t] = RolledUp]
                 /\ stack' = MutationCalls(k, t, RolledUp, t) \o Tail(stack)
BY DEF Rollup, RolledUp, AfterRollup, AtCapacity

\* A roll-up keeps the types.
LEMMA RollupTyped ==
    ASSUME GraphInv, Rollup PROVE GraphInv'
<1>1. PICK f : f = Head(stack)
  OBVIOUS
<1>2. Resolved("rollup") /\ stack # <<>>
      /\ UNCHANGED <<deployment, wm, swept, problems, ambig, prov, emitted, budget, audit, fires>>
  BY DEF Rollup, Resolved
<1>3. PICK k \in CauseKinds, t \in Scopes : k = f.anchor.id /\ t = f.anchor.target
  BY <1>1, <1>2, HeadRollup
<1>4. CASE UNCHANGED node /\ stack' = Tail(stack)
  <2>1. NodesStay
    BY <1>4 DEF NodesStay
  <2>2. stack' \in Seq(CallType) /\ StackInv'
    BY <1>2, <1>4, <2>1, PopKeeps DEF GraphInv
  <2> QED
    BY <1>2, <1>4, <2>2 DEF GraphInv, TypeOK
<1>5. CASE /\ node' = [node EXCEPT ![t][k][t] = RolledUp]
           /\ stack' = MutationCalls(k, t, RolledUp, t) \o Tail(stack)
  <2>1. PICK n \in NodeType : n = RolledUp
    BY <1>2, RolledUpShape
  <2>2. n.in
    BY <1>2, <2>1, RolledUpShape
  <2>3. /\ node' \in [Scopes -> [CauseKinds -> [Scopes -> NodeType]]]
        /\ node'[t][k][t] = n
        /\ \A s1 \in Scopes, k1 \in CauseKinds, t1 \in Scopes :
                 <<s1, k1, t1>> # <<t, k, t>> => node'[s1][k1][t1] = node[s1][k1][t1]
    <3>1. node' = [node EXCEPT ![t][k][t] = n]
      BY <1>5, <2>1
    <3>2. node \in [Scopes -> [CauseKinds -> [Scopes -> NodeType]]]
      BY DEF GraphInv, TypeOK
    <3> QED
      BY <3>1, <3>2
  <2>4. NodesStay
    BY <2>2, <2>3 DEF NodesStay
  <2>5. PICK q : q = MutationCalls(k, t, n, t)
    OBVIOUS
  <2>6. /\ q \in Seq(CallType)
        /\ \A g \in Frames(q) : Proper(g) /\ g.op # "rollup"
    <3>1. TypeOK /\ deployment \in Deployments
      BY DEF GraphInv, TypeOK
    <3>2. n.time \in Int /\ n.conf \in 0..100
      BY Zenon DEF NodeType
    <3>3. n.time \in Int /\ n.conf \in Int
      BY <3>2
    <3>4. q \in Seq(CallType)
      BY <2>5, <3>1, <3>3, MutationCallsShape
    <3>5. \A g \in Frames(q) : Proper(g) /\ g.op # "rollup"
      BY <2>5, <3>1, MutationCallsProper
    <3> QED
      BY <3>4, <3>5
  <2>7. stack' = q \o Tail(stack)
    BY <1>5, <2>1, <2>5
  <2>8. stack' \in Seq(CallType) /\ StackInv'
    BY <1>2, <2>4, <2>6, <2>7, PushKeeps DEF GraphInv
  <2> QED
    BY <1>2, <2>3, <2>8 DEF GraphInv, TypeOK
<1> QED
  BY <1>1, <1>3, <1>4, <1>5, RollupStep

\* Writing one cell of a table with three indices.
LEMMA CellWrite ==
    ASSUME NEW A, NEW B, NEW C, NEW V, NEW g \in [A -> [B -> [C -> V]]],
           NEW a \in A, NEW b \in B, NEW c \in C, NEW v \in V
    PROVE  /\ [g EXCEPT ![a][b][c] = v] \in [A -> [B -> [C -> V]]]
           /\ [g EXCEPT ![a][b][c] = v][a][b][c] = v
           /\ \A x \in A, y \in B, z \in C :
                 x # a \/ y # b \/ z # c => [g EXCEPT ![a][b][c] = v][x][y][z] = g[x][y][z]
OBVIOUS

\* An ambiguity's state is one of three.
AmbigType == [Scopes -> [SUBSET CauseKinds -> [Scopes -> {"none", "active", "resolved"}]]]

\* Changing the state of one ambiguity.
LEMMA AmbigWrite ==
    ASSUME TypeOK, NEW s \in Scopes, NEW p \in SUBSET CauseKinds, NEW t \in Scopes,
           NEW v \in {"none", "active", "resolved"}, ambig' = [ambig EXCEPT ![s][p][t] = v]
    PROVE  /\ ambig' \in AmbigType /\ ambig'[s][p][t] = v
           /\ \A s1 \in Scopes, p1 \in SUBSET CauseKinds, t1 \in Scopes :
                 s1 # s \/ p1 # p \/ t1 # t => ambig'[s1][p1][t1] = ambig[s1][p1][t1]
<1>1. PICK P : P = SUBSET CauseKinds
  OBVIOUS
<1>2. ambig \in [Scopes -> [P -> [Scopes -> {"none", "active", "resolved"}]]] /\ p \in P
  BY <1>1 DEF TypeOK
<1>3. /\ ambig' \in [Scopes -> [P -> [Scopes -> {"none", "active", "resolved"}]]]
      /\ ambig'[s][p][t] = v
      /\ \A s1 \in Scopes, p1 \in P, t1 \in Scopes :
                 s1 # s \/ p1 # p \/ t1 # t => ambig'[s1][p1][t1] = ambig[s1][p1][t1]
  BY <1>2, CellWrite
<1> QED
  BY <1>1, <1>3 DEF AmbigType

\* A problem as it is pushed.
LEMMA PushedProblem ==
    ASSUME TypeOK, NEW s \in Scopes, NEW t \in Scopes, NEW r \in Nat,
           NEW kind \in ProblemKinds \cup {"AmbiguousDiagnosis"}
    PROVE  /\ PushProblem(Problem(s, kind, t, r)) \in Seq(ProblemType)
           /\ Len(PushProblem(Problem(s, kind, t, r))) = Len(problems) + 1
           /\ DOMAIN PushProblem(Problem(s, kind, t, r)) = 1..(Len(problems) + 1)
           /\ DOMAIN problems = 1..Len(problems) /\ Len(problems) \in Nat
           /\ PushProblem(Problem(s, kind, t, r))[Len(problems) + 1] = Problem(s, kind, t, r)
           /\ \A j \in DOMAIN problems :
                 PushProblem(Problem(s, kind, t, r))[j] = problems[j]
<1>1. PICK p : p = Problem(s, kind, t, r)
  OBVIOUS
<1>2. p \in ProblemType
  BY <1>1 DEF TypeOK, Problem, ProblemType
<1>3. problems \in Seq(ProblemType)
  BY DEF TypeOK
<1>4. PushProblem(p) = Append(problems, p)
  BY DEF PushProblem
<1> QED
  BY <1>1, <1>2, <1>3, <1>4

\* What synthesis pushes is a problem as well.
LEMMA PushedSynthesis ==
    ASSUME TypeOK, NEW s \in Scopes, NEW t \in Scopes
    PROVE  LET new == Problem(s, "AmbiguousDiagnosis", t, 0)
           IN /\ DOMAIN PushProblem(new) = 1..(Len(problems) + 1)
              /\ DOMAIN problems = 1..Len(problems) /\ Len(problems) \in Nat
              /\ PushProblem(new)[Len(problems) + 1] = new
              /\ \A j \in DOMAIN problems : PushProblem(new)[j] = problems[j]
<1>1. PICK p : p = Problem(s, "AmbiguousDiagnosis", t, 0)
  OBVIOUS
<1>2. p \in ProblemType
  BY <1>1 DEF TypeOK, Problem, ProblemType
<1>3. problems \in Seq(ProblemType)
  BY DEF TypeOK
<1>4. PushProblem(p) = Append(problems, p)
  BY DEF PushProblem
<1> QED
  BY <1>1, <1>2, <1>3, <1>4

\* Logging one intent.
LEMMA LoggedIntent ==
    ASSUME TypeOK, NEW kind \in LogKinds, NEW t \in Scopes \cup {NoScope}
    PROVE  /\ Append(audit, [kind |-> kind, target |-> t, wm |-> wm])
                \in Seq([kind : LogKinds, target : Scopes \cup {NoScope}, wm : Int])
           /\ DOMAIN audit \subseteq DOMAIN Append(audit, [kind |-> kind, target |-> t, wm |-> wm])
           /\ \A i \in DOMAIN audit :
                 Append(audit, [kind |-> kind, target |-> t, wm |-> wm])[i] = audit[i]
           /\ \E i \in DOMAIN Append(audit, [kind |-> kind, target |-> t, wm |-> wm]) :
                 Append(audit, [kind |-> kind, target |-> t, wm |-> wm])[i]
                   = [kind |-> kind, target |-> t, wm |-> wm]
<1>1. PICK e : e = [kind |-> kind, target |-> t, wm |-> wm]
  OBVIOUS
<1>2. e \in [kind : LogKinds, target : Scopes \cup {NoScope}, wm : Int]
  BY <1>1 DEF TypeOK
<1>3. audit \in Seq([kind : LogKinds, target : Scopes \cup {NoScope}, wm : Int])
  BY DEF TypeOK
<1>4. Append(audit, e)[Len(audit) + 1] = e /\ Len(audit) + 1 \in DOMAIN Append(audit, e)
  BY <1>2, <1>3
<1> QED
  BY <1>1, <1>2, <1>3, <1>4

\* Logging that an ambiguity is told.
LEMMA LoggedMark ==
    ASSUME TypeOK, NEW t \in Scopes
    PROVE  LET log == Append(audit, [kind |-> "mark_ambiguous", target |-> t, wm |-> wm])
           IN /\ log \in Seq([kind : LogKinds, target : Scopes \cup {NoScope}, wm : Int])
              /\ DOMAIN audit \subseteq DOMAIN log
              /\ \A i \in DOMAIN audit : log[i] = audit[i]
              /\ \E i \in DOMAIN log : log[i].kind = "mark_ambiguous" /\ log[i].target = t
<1>1. PICK k \in LogKinds : k = "mark_ambiguous"
  BY DEF LogKinds
<1>2. t \in Scopes \cup {NoScope}
  OBVIOUS
<1>3. PICK log : log = Append(audit, [kind |-> k, target |-> t, wm |-> wm])
  OBVIOUS
<1>4. /\ log \in Seq([kind : LogKinds, target : Scopes \cup {NoScope}, wm : Int])
      /\ DOMAIN audit \subseteq DOMAIN log
      /\ \A i \in DOMAIN audit : log[i] = audit[i]
      /\ \E i \in DOMAIN log : log[i] = [kind |-> k, target |-> t, wm |-> wm]
  BY <1>2, <1>3, LoggedIntent, Zenon
<1>5. \E i \in DOMAIN log : log[i].kind = k /\ log[i].target = t
  BY <1>4
<1> QED
  BY <1>1, <1>3, <1>4, <1>5, Zenon

\* The call at the head of a synthesis names a pair and one of its causes.
LEMMA HeadRivals ==
    ASSUME GraphInv, Resolved("rivals")
    PROVE  /\ stack # <<>> /\ Head(stack).op = "rivals" /\ Head(stack).scope \in Scopes
           /\ Head(stack).anchor.target \in Scopes /\ Head(stack).anchor.id \in CauseKinds
           /\ Head(stack).anchor.id \in Head(stack).pair
           /\ Head(stack).pair \in SUBSET CauseKinds
           /\ \E j \in DOMAIN Exclusive : Head(stack).pair = Exclusive[j]
<1>1. PICK f : f = Head(stack)
  OBVIOUS
<1>2. stack # <<>> /\ f \in CallType /\ f.op = "rivals" /\ Proper(f)
  BY <1>1, HeadShape DEF Resolved
<1>3. f.scope \in Scopes /\ f.pair \in SUBSET CauseKinds
  BY <1>2, CallShape
<1> QED
  BY <1>1, <1>2, <1>3 DEF Proper

\* Ambiguity synthesis keeps the types.
LEMMA SynthesizeTyped ==
    ASSUME GraphInv, SynthesizeAmbiguity PROVE GraphInv'
<1>1. PICK f : f = Head(stack)
  OBVIOUS
<1>2. Resolved("rivals") /\ stack # <<>> /\ stack' = Tail(stack)
      /\ UNCHANGED <<deployment, wm, swept, node, prov, emitted, budget, refused, fires>>
  BY DEF SynthesizeAmbiguity, Resolved
<1>3. PICK s \in Scopes, t \in Scopes, p \in SUBSET CauseKinds :
         s = f.scope /\ t = f.anchor.target /\ p = f.pair
  BY <1>1, <1>2, HeadRivals
<1>4. \/ UNCHANGED <<ambig, problems, audit>>
      \/ /\ ambig' = [ambig EXCEPT ![s][p][t] = "active"]
         /\ problems' = PushProblem(Problem(s, "AmbiguousDiagnosis", t, 0))
         /\ audit' = Append(audit, [kind |-> "mark_ambiguous", target |-> t, wm |-> wm])
      \/ /\ ambig' = [ambig EXCEPT ![s][p][t] = "resolved"]
         /\ UNCHANGED <<problems, audit>>
  BY <1>1, <1>3 DEF SynthesizeAmbiguity
<1>5. ambig' \in AmbigType
  <2>1. ambig \in AmbigType /\ TypeOK
    BY DEF GraphInv, TypeOK, AmbigType
  <2>2. CASE UNCHANGED ambig
    BY <2>1, <2>2
  <2>3. CASE ambig' = [ambig EXCEPT ![s][p][t] = "active"]
    BY <2>1, <2>3, AmbigWrite
  <2>4. CASE ambig' = [ambig EXCEPT ![s][p][t] = "resolved"]
    BY <2>1, <2>4, AmbigWrite
  <2> QED
    BY <1>4, <2>2, <2>3, <2>4
<1>5a. problems' \in Seq(ProblemType)
  <2>1. PushProblem(Problem(s, "AmbiguousDiagnosis", t, 0)) \in Seq(ProblemType)
    BY PushedProblem DEF GraphInv
  <2>2. problems \in Seq(ProblemType)
    BY DEF GraphInv, TypeOK
  <2> QED
    BY <1>4, <2>1, <2>2
<1>5b. audit' \in Seq([kind : LogKinds, target : Scopes \cup {NoScope}, wm : Int])
  <2>1. Append(audit, [kind |-> "mark_ambiguous", target |-> t, wm |-> wm])
          \in Seq([kind : LogKinds, target : Scopes \cup {NoScope}, wm : Int])
    BY LoggedMark DEF GraphInv
  <2>2. audit \in Seq([kind : LogKinds, target : Scopes \cup {NoScope}, wm : Int])
    BY DEF GraphInv, TypeOK
  <2> QED
    BY <1>4, <2>1, <2>2
<1>6. NodesStay
  BY <1>2 DEF NodesStay
<1>7. stack' \in Seq(CallType) /\ StackInv'
  BY <1>2, <1>6, PopKeeps DEF GraphInv
<1> QED
  BY <1>2, <1>5, <1>5a, <1>5b, <1>7 DEF GraphInv, TypeOK, AmbigType

\* The call at the head of an intent names a resolved target in the image.
LEMMA HeadIntent ==
    ASSUME GraphInv, stack # <<>>, NEW op \in IntentOps, Head(stack).op = op
    PROVE  /\ Head(stack).scope \in Scopes /\ Head(stack).anchor.target \in Scopes \cup {NoScope}
           /\ Head(stack).rule \in DOMAIN Rules /\ Head(stack).rule \in Nat \ {0}
           /\ Head(stack).intent \in IntentType /\ Head(stack).intent.op = op
           /\ Head(stack).intent \in IntentsOf(Head(stack).rule)
           /\ Rules[Head(stack).rule].src = Head(stack).anchor.src
<1>1. PICK f : f = Head(stack)
  OBVIOUS
<1>2. f \in CallType /\ Proper(f) /\ f.op = op
  BY <1>1, HeadShape
<1>3. /\ f.scope \in Scopes /\ f.anchor \in AnchorType /\ f.intent \in IntentType
      /\ f.rule \in DOMAIN Rules /\ f.intent.op = op /\ f.intent \in IntentsOf(f.rule)
      /\ Rules[f.rule].src = f.anchor.src
  BY <1>2, CallShape DEF Proper
<1>4. f.anchor.target \in Scopes \cup {NoScope}
  BY <1>3, AnchorShape
<1>5. f.rule \in Nat \ {0}
  BY <1>3, RuleShape DEF GraphInv, TypeOK
<1> QED
  BY <1>1, <1>3, <1>4, <1>5

\* A mark of a rule keeps the types.
LEMMA MarkTyped ==
    ASSUME GraphInv, MarkAmbiguous PROVE GraphInv'
<1>1. PICK f : f = Head(stack)
  OBVIOUS
<1>2. Resolved("mark") /\ stack # <<>> /\ stack' = Tail(stack) /\ f.op = "mark"
      /\ f.anchor.target # NoScope
      /\ UNCHANGED <<deployment, wm, swept, node, problems, prov, emitted, budget, refused, fires>>
  BY <1>1 DEF MarkAmbiguous, Resolved
<1>3. PICK s \in Scopes, t \in Scopes, p \in SUBSET CauseKinds :
         s = f.scope /\ t = f.anchor.target /\ p = f.intent.pair
  BY <1>1, <1>2, HeadIntent, IntentShape DEF IntentOps
<1>4. /\ ambig' = [ambig EXCEPT ![s][p][t] = "active"] \/ UNCHANGED ambig
      /\ audit' = Append(audit, [kind |-> "mark_ambiguous", target |-> t, wm |-> wm])
  BY <1>1, <1>3 DEF MarkAmbiguous
<1>5. ambig' \in AmbigType
  <2>1. ambig \in AmbigType /\ TypeOK
    BY DEF GraphInv, TypeOK, AmbigType
  <2>2. CASE UNCHANGED ambig
    BY <2>1, <2>2
  <2>3. CASE ambig' = [ambig EXCEPT ![s][p][t] = "active"]
    BY <2>1, <2>3, AmbigWrite
  <2> QED
    BY <1>4, <2>2, <2>3
<1>6. audit' \in Seq([kind : LogKinds, target : Scopes \cup {NoScope}, wm : Int])
  BY <1>4, LoggedMark DEF GraphInv
<1>7. NodesStay
  BY <1>2 DEF NodesStay
<1>8. stack' \in Seq(CallType) /\ StackInv'
  BY <1>2, <1>7, PopKeeps DEF GraphInv
<1> QED
  BY <1>2, <1>5, <1>6, <1>8 DEF GraphInv, TypeOK, AmbigType

\* An emission keeps the types, and calls the rules on the problem it pushed.
LEMMA EmitTyped ==
    ASSUME GraphInv, EmitProblem PROVE GraphInv'
<1>1. PICK f : f = Head(stack)
  OBVIOUS
<1>2. /\ stack # <<>> /\ f.op = "emit" /\ (f.intent.own \/ f.anchor.target # NoScope)
      /\ UNCHANGED <<deployment, wm, swept, node, ambig, prov, budget, audit, refused, fires>>
  BY <1>1 DEF EmitProblem
<1>3. /\ f.scope \in Scopes /\ f.anchor.target \in Scopes \cup {NoScope} /\ f.rule \in Nat
      /\ f.intent.problem \in ProblemKinds
  BY <1>1, <1>2, HeadIntent, IntentShape DEF IntentOps
<1>4. PICK s \in Scopes, t \in Scopes, p \in ProblemKinds :
         s = f.scope /\ t = (IF f.intent.own THEN s ELSE f.anchor.target) /\ p = f.intent.problem
  BY <1>2, <1>3
<1>5. NodesStay /\ TypeOK /\ StackInv /\ deployment \in Deployments
  BY <1>2 DEF NodesStay, GraphInv, TypeOK
<1>6. CASE stack' = Tail(stack) /\ UNCHANGED <<problems, emitted>>
  <2>1. stack' \in Seq(CallType) /\ StackInv'
    BY <1>2, <1>5, <1>6, PopKeeps
  <2> QED
    BY <1>2, <1>6, <2>1 DEF GraphInv, TypeOK
<1>7. CASE /\ emitted' = {e \in emitted : e.key # EmitKey(f.rule, p, t, s)}
                         \cup {[key |-> EmitKey(f.rule, p, t, s), wm |-> wm]}
           /\ problems' = PushProblem(Problem(s, p, t, f.rule))
           /\ stack' = RuleCalls(RulesFor("problem", p, s),
                                 ProblemAnchor(Len(problems) + 1, t, wm), s) \o Tail(stack)
  <2>1. problems' \in Seq(ProblemType) /\ Len(problems) \in Nat
    BY <1>3, <1>5, <1>7, PushedProblem
  <2>2. emitted' \subseteq EmissionType
    <3>1. [key |-> EmitKey(f.rule, p, t, s), wm |-> wm] \in EmissionType
      BY <1>3, <1>5 DEF EmitKey, EmissionType, TypeOK
    <3>2. emitted \subseteq EmissionType
      BY <1>5 DEF TypeOK
    <3> QED
      BY <1>7, <3>1, <3>2
  <2>3. PICK a \in AnchorType : a = ProblemAnchor(Len(problems) + 1, t, wm)
    <3>1. Len(problems) + 1 \in Nat /\ wm \in Int /\ t \in Scopes \cup {NoScope}
      BY <1>5, <2>1 DEF TypeOK
    <3>2. PICK i \in Nat : i = Len(problems) + 1
      BY <3>1
    <3>3. ProblemAnchor(i, t, wm) \in AnchorType
      BY <3>1 DEF ProblemAnchor, AnchorType
    <3> QED
      BY <3>2, <3>3
  <2>4. a.src = "problem"
    BY <2>3 DEF ProblemAnchor
  <2>5. PICK M : M = RulesFor("problem", p, s)
    OBVIOUS
  <2>6. M \in SUBSET Nat /\ IsFiniteSet(M)
    BY <1>5, <2>5, RulesForShape
  <2>7. \A i \in M : i \in DOMAIN Rules /\ Rules[i].src = "problem" /\ Rules[i].scope = TypeOf[s]
    BY <2>5 DEF RulesFor
  <2>8. PICK q : q = RuleCalls(M, a, s)
    OBVIOUS
  <2>9. q \in Seq(CallType) /\ Frames(q) = {Call("rule", i, a, s) : i \in M}
    BY <2>6, <2>8, RuleCallsShape
  <2>10. \A g \in Frames(q) : Proper(g) /\ g.op # "rollup"
    BY <2>4, <2>7, <2>9 DEF Call, Proper, IntentOps
  <2>11. stack' = q \o Tail(stack)
    BY <1>7, <2>3, <2>5, <2>8
  <2>12. stack' \in Seq(CallType) /\ StackInv'
    BY <1>2, <1>5, <2>9, <2>10, <2>11, PushKeeps
  <2> QED
    BY <1>2, <2>1, <2>2, <2>12 DEF GraphInv, TypeOK
<1> QED
  BY <1>1, <1>4, <1>6, <1>7 DEF EmitProblem

\* Superseding marks problems and changes nothing else of them.
LEMMA SupersedeProblems ==
    ASSUME TypeOK, Supersede
    PROVE  /\ problems' \in Seq(ProblemType) /\ DOMAIN problems' = DOMAIN problems
           /\ \A i \in DOMAIN problems :
                 /\ problems'[i].scope = problems[i].scope /\ problems'[i].kind = problems[i].kind
                 /\ problems'[i].target = problems[i].target
                 /\ problems'[i].time = problems[i].time /\ problems'[i].rule = problems[i].rule
<1>1. problems \in Seq(ProblemType)
  BY DEF TypeOK
<1>2. PICK n \in Nat : DOMAIN problems = 1..n
  BY <1>1
<1>3. \A i \in 1..n : problems[i] \in ProblemType
  BY <1>1, <1>2
<1>4. /\ DOMAIN problems' = 1..n
      /\ \A i \in 1..n : \/ problems'[i] = problems[i]
                         \/ problems'[i] = [problems[i] EXCEPT !.superseded = TRUE]
  BY <1>2 DEF Supersede
<1>5. \A i \in 1..n :
         /\ problems'[i] \in ProblemType
         /\ problems'[i].scope = problems[i].scope /\ problems'[i].kind = problems[i].kind
         /\ problems'[i].target = problems[i].target
         /\ problems'[i].time = problems[i].time /\ problems'[i].rule = problems[i].rule
  BY <1>3, <1>4 DEF ProblemType
<1>6. problems' = [i \in 1..n |-> problems'[i]]
  BY <1>2 DEF Supersede
<1>7. problems' \in Seq(ProblemType)
  <2>1. problems' \in [1..n -> ProblemType]
    BY <1>5, <1>6
  <2> QED
    BY <2>1
<1> QED
  BY <1>2, <1>4, <1>5, <1>7

\* It keeps the types.
LEMMA SupersedeTyped ==
    ASSUME GraphInv, Supersede PROVE GraphInv'
<1>1. /\ stack # <<>> /\ stack' = Tail(stack)
      /\ UNCHANGED <<deployment, wm, swept, node, ambig, prov, emitted, budget, audit, fires>>
  BY DEF Supersede, Resolved
<1>2. NodesStay /\ TypeOK /\ StackInv
  BY <1>1 DEF NodesStay, GraphInv
<1>3. stack' \in Seq(CallType) /\ StackInv'
  BY <1>1, <1>2, PopKeeps
<1>4. problems' \in Seq(ProblemType)
  BY <1>2, SupersedeProblems
<1> QED
  BY <1>1, <1>3, <1>4 DEF GraphInv, TypeOK

\* An action keeps the types.
LEMMA ActionTyped ==
    ASSUME GraphInv, EmitAction PROVE GraphInv'
<1>1. PICK f : f = Head(stack)
  OBVIOUS
<1>2. /\ stack # <<>> /\ stack' = Tail(stack) /\ f.op = "action"
      /\ audit' = Append(audit, [kind |-> f.intent.kind, target |-> f.anchor.target, wm |-> wm])
      /\ UNCHANGED <<deployment, wm, swept, node, problems, ambig, prov, emitted, budget, fires>>
  BY <1>1 DEF EmitAction
<1>3. f.intent.kind \in LogKinds /\ f.anchor.target \in Scopes \cup {NoScope}
  BY <1>1, <1>2, HeadIntent, IntentShape DEF IntentOps, LogKinds
<1>4. NodesStay /\ TypeOK /\ StackInv
  BY <1>2 DEF NodesStay, GraphInv
<1>5. audit' \in Seq([kind : LogKinds, target : Scopes \cup {NoScope}, wm : Int])
  BY <1>2, <1>3, <1>4, LoggedIntent, Zenon
<1>6. stack' \in Seq(CallType) /\ StackInv'
  BY <1>2, <1>4, PopKeeps
<1> QED
  BY <1>2, <1>5, <1>6 DEF GraphInv, TypeOK

\* A batch calls evidence rules about one event.
LEMMA FireStep ==
    ASSUME TypeOK, Fire
    PROVE  \E s \in Scopes, t \in Times, tgt \in Targets, M \in SUBSET Nat :
              /\ IsFiniteSet(M) /\ EventAnchor(t, tgt) \in AnchorType
              /\ \A i \in M : /\ i \in DOMAIN Rules /\ Rules[i].src = "event"
                              /\ Rules[i].scope = TypeOf[s]
              /\ stack' = RuleCalls(M, EventAnchor(t, tgt), s)
<1>0. PICK s \in Scopes, e \in EventTypes, t \in Times, tgt \in Targets :
         \E M \in SUBSET RulesFor("event", e, s) : stack' = RuleCalls(M, EventAnchor(t, tgt), s)
  BY DEF Fire
<1>1. PICK M \in SUBSET RulesFor("event", e, s) : stack' = RuleCalls(M, EventAnchor(t, tgt), s)
  BY <1>0
<1>2. deployment \in Deployments
  BY DEF TypeOK
<1>3. RulesFor("event", e, s) \in SUBSET Nat /\ IsFiniteSet(RulesFor("event", e, s))
  BY <1>2, RulesForShape
<1>4. M \in SUBSET Nat /\ IsFiniteSet(M)
  BY <1>1, <1>3, FS_Subset
<1>5. \A i \in M : /\ i \in DOMAIN Rules /\ Rules[i].src = "event" /\ Rules[i].scope = TypeOf[s]
  BY DEF RulesFor
<1>6. t \in Int /\ tgt \in Scopes \cup {NoScope}
  BY <1>2, DeploymentShape
<1>7. EventAnchor(t, tgt) \in AnchorType
  BY <1>6 DEF EventAnchor, AnchorType
<1> QED
  BY <1>1, <1>4, <1>5, <1>7

\* A batch keeps the types.
LEMMA FireTyped ==
    ASSUME GraphInv, Fire PROVE GraphInv'
<1>1. PICK s \in Scopes, t \in Times, tgt \in Targets, M \in SUBSET Nat :
              /\ IsFiniteSet(M) /\ EventAnchor(t, tgt) \in AnchorType
              /\ \A i \in M : /\ i \in DOMAIN Rules /\ Rules[i].src = "event"
                              /\ Rules[i].scope = TypeOf[s]
              /\ stack' = RuleCalls(M, EventAnchor(t, tgt), s)
  BY FireStep DEF GraphInv
<1>2. PICK a \in AnchorType : a = EventAnchor(t, tgt)
  BY <1>1
<1>3. a.src = "event" /\ a.target \in Targets
  BY <1>2 DEF EventAnchor
<1>4. stack' \in Seq(CallType) /\ Frames(stack') = {Call("rule", i, a, s) : i \in M}
  <2>1. PICK q : q = RuleCalls(M, a, s)
    OBVIOUS
  <2>2. M \in SUBSET Nat /\ IsFiniteSet(M)
    BY <1>1
  <2>3. q \in Seq(CallType) /\ Frames(q) = {Call("rule", i, a, s) : i \in M}
    BY <2>1, <2>2, RuleCallsShape, Zenon
  <2>4. stack' = q
    BY <1>1, <1>2, <2>1
  <2> QED
    BY <2>3, <2>4
<1>5. UNCHANGED <<deployment, wm, swept, node, problems, ambig, prov, emitted, audit>>
      /\ budget' = MaxFirings /\ fires' = fires + 1
  BY DEF Fire, graph
<1>6. \A g \in Frames(stack') : Proper(g) /\ g.op # "rollup"
  <2> SUFFICES ASSUME NEW g \in Frames(stack') PROVE Proper(g) /\ g.op # "rollup"
    OBVIOUS
  <2>1. PICK i \in M : g = Call("rule", i, a, s)
    BY <1>4
  <2>2. g.op = "rule" /\ g.rule = i /\ g.anchor = a /\ g.scope = s
    BY <2>1 DEF Call
  <2>3. i \in DOMAIN Rules /\ Rules[i].src = "event" /\ Rules[i].scope = TypeOf[s]
    BY <1>1
  <2> QED
    BY <1>3, <2>2, <2>3 DEF Proper, IntentOps
<1>7. \A g \in Frames(stack') : Proper(g)'
  BY <1>5, <1>6, ProperStays
<1>8. StackInv'
  BY <1>6, <1>7, Zenon DEF StackInv
<1>9. TypeOK /\ MaxFirings \in Nat
  BY DeploymentShape DEF GraphInv, TypeOK
<1>10. budget' \in Nat /\ fires' \in Nat
  BY <1>5, <1>9 DEF TypeOK
<1>11. /\ deployment' \in Deployments /\ wm' \in Int /\ swept' \in BOOLEAN
       /\ prov' \subseteq KeyType /\ emitted' \subseteq EmissionType
       /\ problems' \in Seq(ProblemType)
  BY <1>5, <1>9 DEF TypeOK
<1>12. TypeOK'
  BY <1>4, <1>5, <1>9, <1>10, <1>11 DEF TypeOK
<1> QED
  BY <1>8, <1>12 DEF GraphInv

\* So do the steps between batches.
LEMMA ClockTyped ==
    ASSUME GraphInv, Advance \/ Sweep \/ UNCHANGED vars PROVE GraphInv'
<1>1. /\ UNCHANGED <<deployment, node, problems, ambig, audit, stack, budget, fires>>
      /\ prov' \subseteq prov /\ emitted' \subseteq emitted /\ swept' \in BOOLEAN
      /\ wm' \in Times \cup {wm}
  BY DEF Advance, Sweep, vars, graph, GraphInv, TypeOK, PruneEmitted
<1>2. TypeOK /\ StackInv /\ Times \subseteq Int
  BY DeploymentShape DEF GraphInv, TypeOK
<1>3. \A f \in Frames(stack) : Proper(f)'
  BY <1>1, <1>2, ProperStays DEF StackInv
<1>4. StackInv'
  BY <1>1, <1>2, <1>3 DEF StackInv
<1> QED
  BY <1>1, <1>2, <1>4 DEF GraphInv, TypeOK

\* An engine starts with an empty graph.
LEMMA InitTyped ==
    ASSUME Init PROVE GraphInv
<1>1. deployment \in Deployments /\ wm \in Int
  BY DeploymentShape DEF Init
<1>2. node \in [Scopes -> [CauseKinds -> [Scopes -> NodeType]]]
  <2>1. NoNode \in NodeType
    BY DEF NoNode, NodeType
  <2> QED
    BY <2>1 DEF Init
<1>3. ambig \in AmbigType
  BY DEF Init, AmbigType
<1>4. StackInv
  BY DEF Init, StackInv, Frames
<1> QED
  BY <1>1, <1>2, <1>3, <1>4 DEF Init, GraphInv, TypeOK, AmbigType

\* The types and the shape of pending calls hold in every state: a call is always
\* one a rule of the image gives rise to, and a roll-up always has a child.
THEOREM GraphInvariant == Spec => []GraphInv
<1>1. Init => GraphInv
  BY InitTyped
<1>2. GraphInv /\ [Next]_vars => GraphInv'
  <2> SUFFICES ASSUME GraphInv, [Next]_vars PROVE GraphInv'
    OBVIOUS
  <2>1. CASE RunRule
    BY <2>1, RunRuleTyped
  <2>2. CASE Unresolved
    BY <2>2, UnresolvedTyped
  <2>3. CASE Infer
    BY <2>3, InferTyped
  <2>4. CASE Rollup
    BY <2>4, RollupTyped
  <2>5. CASE SynthesizeAmbiguity
    BY <2>5, SynthesizeTyped
  <2>6. CASE MarkAmbiguous
    BY <2>6, MarkTyped
  <2>7. CASE EmitProblem
    BY <2>7, EmitTyped
  <2>8. CASE Supersede
    BY <2>8, SupersedeTyped
  <2>9. CASE EmitAction
    BY <2>9, ActionTyped
  <2>10. CASE Fire
    BY <2>10, FireTyped
  <2>11. CASE Advance \/ Sweep \/ UNCHANGED vars
    BY <2>11, ClockTyped
  <2>12. CASE Idle
    BY <2>12, ClockTyped DEF Idle
  <2> QED
    BY <2>1, <2>2, <2>3, <2>4, <2>5, <2>6, <2>7, <2>8, <2>9, <2>10, <2>11, <2>12 DEF Next
<1> QED
  BY <1>1, <1>2, PTL DEF Spec

-----------------------------------------------------------------------------
(* Emissions and their cooldown. *)

\* Steps that neither report, nor forget a report, nor move the watermark.
SilentStep ==
    RunRule \/ Unresolved \/ Infer \/ Rollup \/ MarkAmbiguous \/ EmitAction \/ Fire
    \/ Idle \/ UNCHANGED vars

\* Nothing of what cooldown is about changes in such a step.
LEMMA SilentStepKeeps ==
    ASSUME SilentStep PROVE UNCHANGED <<wm, problems, emitted>>
BY DEF SilentStep, RunRule, Unresolved, Infer, Rollup, MarkAmbiguous, EmitAction, Fire, Idle,
       vars, graph

\* Two reports of one problem by one rule.
SameReport(p, q) == /\ p.scope = q.scope /\ p.kind = q.kind
                    /\ p.target = q.target /\ p.rule = q.rule

\* Cooldown as a relation between two reports.
LEMMA CooldownMeans ==
    CooldownRespected <=>
        \A i, j \in DOMAIN problems :
            i < j /\ problems[i].rule # 0 /\ SameReport(problems[i], problems[j]) =>
                problems[j].time - problems[i].time > Cooldown
BY DEF CooldownRespected, SameReport

\* Rule r reports p about t in s, or is cooling down.
Emits(s, t, p, r) ==
    \/ /\ CoolingDown(EmitKey(r, p, t, s)) /\ UNCHANGED <<problems, emitted>>
       /\ stack' = Tail(stack)
    \/ /\ ~CoolingDown(EmitKey(r, p, t, s))
       /\ emitted' = {e \in emitted : e.key # EmitKey(r, p, t, s)}
                     \cup {[key |-> EmitKey(r, p, t, s), wm |-> wm]}
       /\ problems' = PushProblem(Problem(s, p, t, r))
       /\ stack' = RuleCalls(RulesFor("problem", p, s),
                             ProblemAnchor(Len(problems) + 1, t, wm), s) \o Tail(stack)

\* That is what an emission does, for the rule, scope and target of the call.
LEMMA EmitStep ==
    ASSUME GraphInv, EmitProblem
    PROVE  \E s, t \in Scopes, p \in ProblemKinds, r \in Nat \ {0} :
              /\ r = Head(stack).rule /\ s = Head(stack).scope
              /\ t \in {s, Head(stack).anchor.target}
              /\ Emits(s, t, p, r)
<1>1. PICK f : f = Head(stack)
  OBVIOUS
<1>2. stack # <<>> /\ f.op = "emit" /\ (f.intent.own \/ f.anchor.target # NoScope)
  BY <1>1 DEF EmitProblem
<1>3. /\ f.scope \in Scopes /\ f.anchor.target \in Scopes \cup {NoScope} /\ f.rule \in Nat \ {0}
      /\ f.intent.problem \in ProblemKinds
  BY <1>1, <1>2, HeadIntent, IntentShape DEF IntentOps
<1>4. PICK t \in Scopes : t = IF f.intent.own THEN f.scope ELSE f.anchor.target
  BY <1>2, <1>3
<1>5. PICK s \in Scopes, p \in ProblemKinds, r \in Nat \ {0} :
         s = f.scope /\ p = f.intent.problem /\ r = f.rule
  BY <1>3
<1>6. Emits(s, t, p, r)
  BY <1>1, <1>4, <1>5 DEF EmitProblem, Emits
<1>7. r = Head(stack).rule /\ s = Head(stack).scope /\ t \in {s, Head(stack).anchor.target}
  BY <1>1, <1>4, <1>5
<1> QED
  BY <1>6, <1>7, Zenon

\* The fields of a pushed problem.
LEMMA ProblemFields ==
    ASSUME NEW s, NEW k, NEW t, NEW r
    PROVE  /\ Problem(s, k, t, r).scope = s /\ Problem(s, k, t, r).kind = k
           /\ Problem(s, k, t, r).target = t /\ Problem(s, k, t, r).rule = r
           /\ Problem(s, k, t, r).time = wm
           /\ KeyOf(Problem(s, k, t, r)) = EmitKey(r, k, t, s)
BY DEF Problem, KeyOf, EmitKey

\* Reports with one key are reports of one problem by one rule.
LEMMA KeysAreReports ==
    ASSUME NEW p, NEW q PROVE KeyOf(p) = KeyOf(q) <=> SameReport(p, q)
BY DEF KeyOf, EmitKey, SameReport

\* What cooldown rests on, for one list of reports and one set of records.
LEMMA EmitCools ==
    ASSUME GraphInv, CooldownInv, EmitProblem PROVE CooldownInv'
<1>1. PICK s, t \in Scopes, p \in ProblemKinds, r \in Nat \ {0} : Emits(s, t, p, r)
  BY EmitStep, Zenon
<1>2. wm' = wm
  BY DEF EmitProblem
<1>3. CASE UNCHANGED <<problems, emitted>>
  BY <1>2, <1>3 DEF CooldownInv, CooldownRespected
<1>4. CASE /\ ~CoolingDown(EmitKey(r, p, t, s))
           /\ emitted' = {e \in emitted : e.key # EmitKey(r, p, t, s)}
                         \cup {[key |-> EmitKey(r, p, t, s), wm |-> wm]}
           /\ problems' = PushProblem(Problem(s, p, t, r))
  <2>1. PICK key : key = EmitKey(r, p, t, s)
    OBVIOUS
  <2>2. PICK new : new = Problem(s, p, t, r)
    OBVIOUS
  <2>3. new.time = wm /\ KeyOf(new) = key
    BY <2>1, <2>2, ProblemFields
  <2>4. PICK n \in Nat : n = Len(problems)
    BY DEF GraphInv, TypeOK
  <2>5. /\ DOMAIN problems = 1..n /\ DOMAIN problems' = 1..(n + 1)
        /\ problems'[n + 1] = new /\ \A j \in 1..n : problems'[j] = problems[j]
    <3>1. TypeOK /\ p \in ProblemKinds \cup {"AmbiguousDiagnosis"} /\ r \in Nat
      BY DEF GraphInv
    <3>2. PICK ps : ps = PushProblem(Problem(s, p, t, r))
      OBVIOUS
    <3>3. /\ DOMAIN ps = 1..(Len(problems) + 1) /\ DOMAIN problems = 1..Len(problems)
          /\ ps[Len(problems) + 1] = Problem(s, p, t, r)
          /\ \A j \in DOMAIN problems : ps[j] = problems[j]
      BY <3>1, <3>2, PushedProblem
    <3> QED
      BY <1>4, <2>2, <2>4, <3>2, <3>3
  <2>6. /\ wm \in Int /\ Cooldown \in Nat /\ \A e \in emitted : e.wm \in Int
        /\ \A j \in 1..n : problems[j].time \in Int
    <3>1. wm \in Int /\ Cooldown \in Nat
      BY GraphConstants DEF GraphInv, TypeOK
    <3>2. \A e \in emitted : e.wm \in Int
      BY DEF GraphInv, TypeOK, EmissionType
    <3>3. problems \in Seq(ProblemType)
      BY DEF GraphInv, TypeOK
    <3>4. \A j \in 1..n : problems[j] \in ProblemType
      BY <2>5, <3>3
    <3> QED
      BY <3>1, <3>2, <3>4 DEF ProblemType
  <2>7. \A e \in emitted : e.key = key => wm - e.wm > Cooldown
    BY <1>4, <2>1, <2>6 DEF CoolingDown
  <2>8. PICK rec : rec = [key |-> key, wm |-> wm]
    OBVIOUS
  <2>9. /\ rec \in emitted' /\ rec.key = key /\ rec.wm = wm
        /\ \A e \in emitted' : e = rec \/ e \in emitted
        /\ \A e \in emitted : e.key # key => e \in emitted'
    BY <1>4, <2>1, <2>8
  <2>10. /\ \A e \in emitted : e.wm <= wm
         /\ \A j \in 1..n : problems[j].time <= wm
         /\ \A j \in 1..n : problems[j].rule # 0 =>
              \/ \E e \in emitted : e.key = KeyOf(problems[j]) /\ problems[j].time <= e.wm
              \/ wm - problems[j].time > Cooldown
    BY <2>5 DEF CooldownInv
  <2>11. \A e \in emitted' : e.wm <= wm'
    BY <1>2, <2>6, <2>9, <2>10
  <2>12. \A j \in 1..(n + 1) : j \in 1..n \/ j = n + 1
    BY <2>4
  <2>13. \A j \in DOMAIN problems' : problems'[j].time <= wm'
    BY <1>2, <2>3, <2>5, <2>6, <2>10, <2>12
  <2>14. ASSUME NEW j \in DOMAIN problems', problems'[j].rule # 0
         PROVE  \/ \E e \in emitted' : e.key = KeyOf(problems'[j]) /\ problems'[j].time <= e.wm
                \/ wm' - problems'[j].time > Cooldown
    <3>1. CASE KeyOf(problems'[j]) = key
      BY <1>2, <2>9, <2>13, <3>1
    <3>2. CASE KeyOf(problems'[j]) # key
      <4>1. j \in 1..n /\ problems'[j] = problems[j]
        BY <2>3, <2>5, <2>12, <3>2
      <4>2. \/ \E e \in emitted : e.key = KeyOf(problems[j]) /\ problems[j].time <= e.wm
            \/ wm - problems[j].time > Cooldown
        BY <2>10, <2>14, <4>1
      <4> QED
        BY <1>2, <2>9, <3>2, <4>1, <4>2
    <3> QED
      BY <3>1, <3>2
  <2>15. ASSUME NEW i \in DOMAIN problems', NEW j \in DOMAIN problems', i < j,
                problems'[i].rule # 0, SameReport(problems'[i], problems'[j])
         PROVE  problems'[j].time - problems'[i].time > Cooldown
    <3>1. i \in 1..n /\ problems'[i] = problems[i]
      BY <2>4, <2>5, <2>15
    <3>2. CASE j = n + 1
      <4>1. KeyOf(problems[i]) = key /\ problems'[j].time = wm
        BY <2>3, <2>5, <2>15, <3>1, <3>2, KeysAreReports
      <4>2. \/ \E e \in emitted : e.key = key /\ problems[i].time <= e.wm
            \/ wm - problems[i].time > Cooldown
        BY <2>10, <2>15, <3>1, <4>1
      <4>3. wm - problems[i].time > Cooldown
        BY <2>6, <2>7, <3>1, <4>2
      <4> QED
        BY <3>1, <4>1, <4>3
    <3>3. CASE j \in 1..n
      <4>1. problems'[j] = problems[j]
        BY <2>5, <3>3
      <4>2. CooldownRespected
        BY DEF CooldownInv
      <4>3. \A a, b \in 1..n :
              a < b /\ problems[a].rule # 0 /\ SameReport(problems[a], problems[b]) =>
                problems[b].time - problems[a].time > Cooldown
        BY <2>5, <4>2, CooldownMeans
      <4> QED
        BY <2>15, <3>1, <3>3, <4>1, <4>3
    <3> QED
      BY <2>5, <2>12, <3>2, <3>3
  <2>16. CooldownRespected'
    BY <2>15 DEF CooldownRespected, SameReport
  <2> QED
    BY <2>11, <2>13, <2>14, <2>16 DEF CooldownInv, KeyOf
<1> QED
  BY <1>1, <1>3, <1>4 DEF Emits

\* What synthesis does for the call at the head: open the ambiguity and tell it,
\* resolve it, or leave it.
Synthesizes(s, p, t) ==
    \/ UNCHANGED <<ambig, problems, audit>>
    \/ /\ ambig[s][p][t] = "none" /\ ambig' = [ambig EXCEPT ![s][p][t] = "active"]
       /\ problems' = PushProblem(Problem(s, "AmbiguousDiagnosis", t, 0))
       /\ audit' = Append(audit, [kind |-> "mark_ambiguous", target |-> t, wm |-> wm])
    \/ /\ ambig[s][p][t] = "active" /\ ambig' = [ambig EXCEPT ![s][p][t] = "resolved"]
       /\ UNCHANGED <<problems, audit>>

\* That is what it does, for the scope, target and pair of the call.
LEMMA SynthesisStep ==
    ASSUME GraphInv, SynthesizeAmbiguity
    PROVE  \E s, t \in Scopes, p \in SUBSET CauseKinds :
              /\ s = Head(stack).scope /\ t = Head(stack).anchor.target /\ p = Head(stack).pair
              /\ Synthesizes(s, p, t)
<1>1. PICK f : f = Head(stack)
  OBVIOUS
<1>2. Resolved("rivals")
  BY DEF SynthesizeAmbiguity
<1>3. PICK s \in Scopes, t \in Scopes, p \in SUBSET CauseKinds :
         s = f.scope /\ t = f.anchor.target /\ p = f.pair
  BY <1>1, <1>2, HeadRivals
<1>4. Synthesizes(s, p, t)
  BY <1>1, <1>3 DEF SynthesizeAmbiguity, Synthesizes, Vacant
<1> QED
  BY <1>1, <1>3, <1>4, Zenon

\* What synthesis pushes.
LEMMA SynthesisProblems ==
    ASSUME GraphInv, SynthesizeAmbiguity
    PROVE  \/ UNCHANGED problems
           \/ \E t, s \in Scopes :
              /\ s = Head(stack).scope /\ t = Head(stack).anchor.target
              /\ DOMAIN problems = 1..Len(problems) /\ Len(problems) \in Nat
              /\ DOMAIN problems' = 1..(Len(problems) + 1)
              /\ problems'[Len(problems) + 1] = Problem(s, "AmbiguousDiagnosis", t, 0)
              /\ \A j \in DOMAIN problems : problems'[j] = problems[j]
<1>1. PICK s, t \in Scopes, p \in SUBSET CauseKinds :
              /\ s = Head(stack).scope /\ t = Head(stack).anchor.target
              /\ Synthesizes(s, p, t)
  BY SynthesisStep, Zenon
<1>2. PICK new : new = Problem(s, "AmbiguousDiagnosis", t, 0)
  OBVIOUS
<1>3. PICK ps : ps = PushProblem(new)
  OBVIOUS
<1>4. UNCHANGED problems \/ problems' = ps
  BY <1>1, <1>2, <1>3 DEF Synthesizes
<1>5. TypeOK
  BY DEF GraphInv
<1>6. /\ DOMAIN ps = 1..(Len(problems) + 1) /\ DOMAIN problems = 1..Len(problems)
      /\ ps[Len(problems) + 1] = new /\ Len(problems) \in Nat
      /\ \A j \in DOMAIN problems : ps[j] = problems[j]
  BY <1>2, <1>3, <1>5, PushedSynthesis
<1> QED
  BY <1>1, <1>2, <1>4, <1>6

\* A synthesized report has no rule, so it is nobody's second one.
LEMMA SynthesisCools ==
    ASSUME GraphInv, CooldownInv, SynthesizeAmbiguity PROVE CooldownInv'
<1>1. UNCHANGED <<wm, emitted>>
  BY DEF SynthesizeAmbiguity
<1>2. CASE UNCHANGED problems
  BY <1>1, <1>2 DEF CooldownInv, CooldownRespected
<1>3. CASE \E t, s \in Scopes :
              /\ DOMAIN problems = 1..Len(problems) /\ Len(problems) \in Nat
              /\ DOMAIN problems' = 1..(Len(problems) + 1)
              /\ problems'[Len(problems) + 1] = Problem(s, "AmbiguousDiagnosis", t, 0)
              /\ \A j \in DOMAIN problems : problems'[j] = problems[j]
  <2>0. PICK s \in Scopes, t \in Scopes :
              /\ DOMAIN problems = 1..Len(problems) /\ Len(problems) \in Nat
              /\ DOMAIN problems' = 1..(Len(problems) + 1)
              /\ problems'[Len(problems) + 1] = Problem(s, "AmbiguousDiagnosis", t, 0)
              /\ \A j \in DOMAIN problems : problems'[j] = problems[j]
    BY <1>3
  <2>0a. PICK new : new = Problem(s, "AmbiguousDiagnosis", t, 0)
    OBVIOUS
  <2>0b. new.rule = 0 /\ new.time = wm
    BY <2>0a DEF Problem
  <2>0c. PICK n \in Nat : n = Len(problems)
    BY <2>0
  <2>1. /\ DOMAIN problems = 1..n /\ DOMAIN problems' = 1..(n + 1)
        /\ problems'[n + 1] = new /\ new.rule = 0 /\ new.time = wm
        /\ \A j \in 1..n : problems'[j] = problems[j]
    BY <2>0, <2>0a, <2>0b, <2>0c
  <2>2. \A j \in 1..(n + 1) : j \in 1..n \/ j = n + 1
    OBVIOUS
  <2>3. wm \in Int
    BY DEF GraphInv, TypeOK
  <2>4. \A j \in DOMAIN problems' : problems'[j].time <= wm'
    BY <1>1, <2>1, <2>2, <2>3 DEF CooldownInv
  <2>5. ASSUME NEW j \in DOMAIN problems', problems'[j].rule # 0
        PROVE  j \in DOMAIN problems /\ problems'[j] = problems[j]
    BY <2>1, <2>2, <2>5
  <2>6. ASSUME NEW j \in DOMAIN problems', problems'[j].rule # 0
        PROVE  \/ \E e \in emitted' : e.key = KeyOf(problems'[j]) /\ problems'[j].time <= e.wm
               \/ wm' - problems'[j].time > Cooldown
    BY <1>1, <2>5, <2>6 DEF CooldownInv
  <2>7. ASSUME NEW i \in DOMAIN problems', NEW j \in DOMAIN problems', i < j,
               problems'[i].rule # 0, SameReport(problems'[i], problems'[j])
        PROVE  problems'[j].time - problems'[i].time > Cooldown
    <3>1. problems'[j].rule # 0
      BY <2>7 DEF SameReport
    <3>2. /\ i \in DOMAIN problems /\ problems'[i] = problems[i]
          /\ j \in DOMAIN problems /\ problems'[j] = problems[j]
      BY <2>5, <2>7, <3>1
    <3> QED
      BY <2>7, <3>2, CooldownMeans DEF CooldownInv
  <2>8. CooldownRespected'
    BY <2>7 DEF CooldownRespected, SameReport
  <2> QED
    BY <1>1, <2>4, <2>6, <2>8 DEF CooldownInv, KeyOf
<1> QED
  BY <1>2, <1>3, SynthesisProblems, Zenon

\* Superseding a report changes neither what it reports nor when.
LEMMA SupersedeCools ==
    ASSUME GraphInv, CooldownInv, Supersede PROVE CooldownInv'
<1>1. UNCHANGED <<wm, emitted>>
  BY DEF Supersede
<1>2. /\ DOMAIN problems' = DOMAIN problems
      /\ \A i \in DOMAIN problems :
                 /\ problems'[i].scope = problems[i].scope /\ problems'[i].kind = problems[i].kind
                 /\ problems'[i].target = problems[i].target
                 /\ problems'[i].time = problems[i].time /\ problems'[i].rule = problems[i].rule
  BY SupersedeProblems DEF GraphInv
<1>3. \A i \in DOMAIN problems : KeyOf(problems'[i]) = KeyOf(problems[i])
  BY <1>2 DEF KeyOf
<1>4. ASSUME NEW i \in DOMAIN problems', NEW j \in DOMAIN problems', i < j,
             problems'[i].rule # 0, SameReport(problems'[i], problems'[j])
      PROVE  problems'[j].time - problems'[i].time > Cooldown
  <2>1. problems[i].rule # 0 /\ SameReport(problems[i], problems[j])
    BY <1>2, <1>4 DEF SameReport
  <2>2. problems[j].time - problems[i].time > Cooldown
    BY <1>2, <1>4, <2>1, CooldownMeans DEF CooldownInv
  <2> QED
    BY <1>2, <2>2
<1>5. CooldownRespected'
  BY <1>4 DEF CooldownRespected, SameReport
<1>6. \A j \in DOMAIN problems' : problems'[j].time <= wm'
  BY <1>1, <1>2 DEF CooldownInv
<1>7. ASSUME NEW j \in DOMAIN problems', problems'[j].rule # 0
      PROVE  \/ \E e \in emitted' : e.key = KeyOf(problems'[j]) /\ problems'[j].time <= e.wm
             \/ wm' - problems'[j].time > Cooldown
  BY <1>1, <1>2, <1>3, <1>7 DEF CooldownInv
<1> QED
  BY <1>1, <1>5, <1>6, <1>7 DEF CooldownInv, KeyOf

\* The watermark only moves on, and a record is swept only after its cooldown.
LEMMA ClockCools ==
    ASSUME GraphInv, CooldownInv, Advance \/ Sweep PROVE CooldownInv'
<1>1. UNCHANGED problems
  BY DEF Advance, Sweep, graph
<1>2. /\ wm \in Int /\ wm' \in Int /\ wm <= wm' /\ Cooldown \in Nat
      /\ \A e \in emitted : e.wm \in Int
      /\ \A j \in DOMAIN problems : problems[j].time \in Int
  <2>1. wm \in Int /\ Cooldown \in Nat /\ deployment \in Deployments
    BY GraphConstants DEF GraphInv, TypeOK
  <2>2. wm' \in Int /\ wm <= wm'
    <3>1. CASE Advance
      <4>1. PICK t \in Times : t > wm /\ wm' = t
        BY <3>1 DEF Advance
      <4>2. t \in Int
        BY <2>1, DeploymentShape
      <4> QED
        BY <2>1, <4>1, <4>2
    <3>2. CASE Sweep
      BY <2>1, <3>2 DEF Sweep
    <3> QED
      BY <3>1, <3>2
  <2>3. \A e \in emitted : e.wm \in Int
    BY DEF GraphInv, TypeOK, EmissionType
  <2>4. problems \in Seq(ProblemType)
    BY DEF GraphInv, TypeOK
  <2>5. \A j \in DOMAIN problems : problems[j] \in ProblemType
    BY <2>4
  <2> QED
    BY <2>1, <2>2, <2>3, <2>5 DEF ProblemType
<1>3. /\ emitted' \subseteq emitted
      /\ \A e \in emitted : e \in emitted' \/ e.wm < wm' - Cooldown
  <2>1. CASE Advance
    BY <2>1 DEF Advance, graph
  <2>2. CASE Sweep
    BY <1>2, <2>2 DEF Sweep, PruneEmitted
  <2> QED
    BY <2>1, <2>2
<1>4. \A e \in emitted' : e.wm <= wm'
  BY <1>2, <1>3 DEF CooldownInv
<1>5. \A j \in DOMAIN problems' : problems'[j].time <= wm'
  BY <1>1, <1>2 DEF CooldownInv
<1>6. ASSUME NEW j \in DOMAIN problems', problems'[j].rule # 0
      PROVE  \/ \E e \in emitted' : e.key = KeyOf(problems'[j]) /\ problems'[j].time <= e.wm
             \/ wm' - problems'[j].time > Cooldown
  <2>1. \/ \E e \in emitted : e.key = KeyOf(problems[j]) /\ problems[j].time <= e.wm
        \/ wm - problems[j].time > Cooldown
    BY <1>1, <1>6 DEF CooldownInv
  <2> QED
    BY <1>1, <1>2, <1>3, <1>6, <2>1
<1>7. CooldownRespected'
  BY <1>1 DEF CooldownInv, CooldownRespected
<1> QED
  BY <1>4, <1>5, <1>6, <1>7 DEF CooldownInv, KeyOf

\* Two reports of one problem by one rule about one target are more than the
\* cooldown apart (try_mark_emitted, prune_emitted): the record of an emission is
\* as late as the report it made until the cooldown is over.
THEOREM CooldownHolds == Spec => []CooldownRespected
<1>1. Init => CooldownInv
  BY DEF Init, CooldownInv, CooldownRespected
<1>2. GraphInv /\ CooldownInv /\ [Next]_vars => CooldownInv'
  <2> SUFFICES ASSUME GraphInv, CooldownInv, [Next]_vars PROVE CooldownInv'
    OBVIOUS
  <2>1. CASE SilentStep
    BY <2>1, SilentStepKeeps DEF CooldownInv, CooldownRespected
  <2>2. CASE EmitProblem
    BY <2>2, EmitCools
  <2>3. CASE SynthesizeAmbiguity
    BY <2>3, SynthesisCools
  <2>4. CASE Supersede
    BY <2>4, SupersedeCools
  <2>5. CASE Advance \/ Sweep
    BY <2>5, ClockCools
  <2> QED
    BY <2>1, <2>2, <2>3, <2>4, <2>5 DEF Next, SilentStep
<1>3. CooldownInv => CooldownRespected
  BY DEF CooldownInv
<1> QED
  BY <1>1, <1>2, <1>3, GraphInvariant, PTL DEF Spec

-----------------------------------------------------------------------------
(* How a step changes the pending calls. *)

\* The steps of a batch.
Work ==
    RunRule \/ Unresolved \/ Infer \/ Rollup \/ SynthesizeAmbiguity \/ MarkAmbiguous
    \/ EmitProblem \/ Supersede \/ EmitAction

\* A step finishes the call at the head, which may push others before the rest.
LEMMA WorkStack ==
    ASSUME GraphInv, Work
    PROVE  /\ stack # <<>> /\ UNCHANGED <<deployment, wm>>
           /\ Frames(stack) = {Head(stack)} \cup Frames(Tail(stack))
           /\ Frames(Tail(stack)) \subseteq Frames(stack')
           /\ \E q \in Seq(CallType) : stack' = q \o Tail(stack)
<1>1. stack # <<>> /\ UNCHANGED <<deployment, wm>>
  BY DEF Work, RunRule, Unresolved, Infer, Rollup, SynthesizeAmbiguity, MarkAmbiguous,
         EmitProblem, Supersede, EmitAction, Resolved
<1>2. stack \in Seq(CallType) /\ TypeOK /\ deployment \in Deployments
  BY DEF GraphInv, TypeOK
<1>3. Frames(stack) = {Head(stack)} \cup Frames(Tail(stack)) /\ Tail(stack) \in Seq(CallType)
  BY <1>1, <1>2, HeadFrames
<1>4. \E q \in Seq(CallType) : stack' = q \o Tail(stack)
  <2>1. CASE stack' = Tail(stack)
    <3>1. <<>> \in Seq(CallType) /\ stack' = <<>> \o Tail(stack)
      BY <1>3, <2>1
    <3> QED
      BY <3>1
  <2>2. CASE RunRule /\ stack' # Tail(stack)
    <3>1. PICK f : f = Head(stack)
      OBVIOUS
    <3>2. /\ f \in CallType /\ f.anchor \in AnchorType /\ f.scope \in Scopes
          /\ f.rule \in DOMAIN Rules
      BY <2>2, <3>1, HeadShape, CallShape DEF RunRule, Proper
    <3>3. PICK q : q = IntentCalls(f.rule, f.anchor, f.scope)
      OBVIOUS
    <3>4. q \in Seq(CallType)
      BY <1>2, <3>2, <3>3, IntentCallsShape
    <3>5. stack' = q \o Tail(stack)
      BY <2>2, <3>1, <3>3 DEF RunRule
    <3> QED
      BY <3>4, <3>5
  <2>3. CASE Infer /\ stack' # Tail(stack)
    <3>1. Resolved("infer")
      BY <2>3 DEF Infer
    <3>2. PICK k \in CauseKinds, s \in Scopes, t \in Scopes, n \in NodeType :
             /\ k = Head(stack).intent.cause /\ s = Head(stack).scope
             /\ t = Head(stack).anchor.target /\ n = Inferred
      BY <3>1, HeadInfer, InferredShape
    <3>3. PICK q : q = InferCalls(k, t, n, s)
      OBVIOUS
    <3>4. q \in Seq(CallType)
      BY <1>2, <3>3, InferCallsShape
    <3>5. stack' = q \o Tail(stack)
      BY <2>3, <3>2, <3>3, InferStep
    <3> QED
      BY <3>4, <3>5
  <2>4. CASE Rollup /\ stack' # Tail(stack)
    <3>1. Resolved("rollup")
      BY <2>4 DEF Rollup
    <3>2. PICK k \in CauseKinds, t \in Scopes, n \in NodeType :
             /\ k = Head(stack).anchor.id
             /\ t = Head(stack).anchor.target /\ n = RolledUp
      BY <3>1, HeadRollup, RolledUpShape
    <3>3. PICK q : q = MutationCalls(k, t, n, t)
      OBVIOUS
    <3>4. n.time \in Int /\ n.conf \in 0..100
      BY Zenon DEF NodeType
    <3>5. n.time \in Int /\ n.conf \in Int
      BY <3>4
    <3>6. q \in Seq(CallType)
      BY <1>2, <3>3, <3>5, MutationCallsShape
    <3>7. stack' = q \o Tail(stack)
      BY <2>4, <3>2, <3>3, RollupStep
    <3> QED
      BY <3>6, <3>7
  <2>5. CASE EmitProblem /\ stack' # Tail(stack)
    <3>1. PICK s \in Scopes, t \in Scopes, p \in ProblemKinds, r \in Nat \ {0} : Emits(s, t, p, r)
      BY <2>5, EmitStep, Zenon
    <3>2. PICK i \in Nat : i = Len(problems) + 1
      BY <1>2 DEF TypeOK
    <3>3. PICK a \in AnchorType : a = ProblemAnchor(i, t, wm)
      <4>1. wm \in Int /\ t \in Scopes \cup {NoScope}
        BY <1>2 DEF TypeOK
      <4>2. ProblemAnchor(i, t, wm) \in AnchorType
        BY <4>1 DEF ProblemAnchor, AnchorType
      <4> QED
        BY <4>2
    <3>4. PICK q : q = RuleCalls(RulesFor("problem", p, s), a, s)
      OBVIOUS
    <3>5. RulesFor("problem", p, s) \in SUBSET Nat /\ IsFiniteSet(RulesFor("problem", p, s))
      BY <1>2, RulesForShape
    <3>6. q \in Seq(CallType)
      BY <3>4, <3>5, RuleCallsShape
    <3>7. stack' = q \o Tail(stack)
      BY <2>5, <3>1, <3>2, <3>3, <3>4 DEF Emits
    <3> QED
      BY <3>6, <3>7
  <2>6. Unresolved \/ SynthesizeAmbiguity \/ MarkAmbiguous \/ Supersede \/ EmitAction
          => stack' = Tail(stack)
    BY DEF Unresolved, SynthesizeAmbiguity, MarkAmbiguous, Supersede, EmitAction
  <2> QED
    BY <2>1, <2>2, <2>3, <2>4, <2>5, <2>6 DEF Work
<1>5. Frames(Tail(stack)) \subseteq Frames(stack')
  <2>1. PICK q \in Seq(CallType) : stack' = q \o Tail(stack)
    BY <1>4
  <2>2. Frames(q \o Tail(stack)) = Frames(q) \cup Frames(Tail(stack))
    BY <1>1, <1>2, PushFrames
  <2> QED
    BY <2>1, <2>2
<1> QED
  BY <1>1, <1>3, <1>4, <1>5

\* A report is never withdrawn, nor does it change what it is about.
LEMMA ReportsStay ==
    ASSUME GraphInv, [Next]_vars
    PROVE  \A j \in DOMAIN problems :
              /\ j \in DOMAIN problems'
              /\ problems'[j].scope = problems[j].scope /\ problems'[j].kind = problems[j].kind
              /\ problems'[j].target = problems[j].target
              /\ problems'[j].rule = problems[j].rule
<1>1. CASE SilentStep \/ Advance \/ Sweep
  <2>1. UNCHANGED problems
    BY <1>1, SilentStepKeeps DEF Advance, Sweep, graph
  <2> QED
    BY <2>1
<1>2. CASE EmitProblem
  <2>1. PICK s \in Scopes, t \in Scopes, p \in ProblemKinds, r \in Nat \ {0} : Emits(s, t, p, r)
    BY <1>2, EmitStep, Zenon
  <2>2. PICK ps : ps = PushProblem(Problem(s, p, t, r))
    OBVIOUS
  <2>3. TypeOK /\ p \in ProblemKinds \cup {"AmbiguousDiagnosis"} /\ r \in Nat
    BY DEF GraphInv
  <2>4. /\ DOMAIN ps = 1..(Len(problems) + 1) /\ DOMAIN problems = 1..Len(problems)
        /\ Len(problems) \in Nat /\ \A j \in DOMAIN problems : ps[j] = problems[j]
    BY <2>2, <2>3, PushedProblem
  <2>5. problems' = problems \/ problems' = ps
    BY <2>1, <2>2 DEF Emits
  <2> QED
    BY <2>4, <2>5
<1>3. CASE SynthesizeAmbiguity
  BY <1>3, SynthesisProblems
<1>4. CASE Supersede
  BY <1>4, SupersedeProblems DEF GraphInv
<1> QED
  BY <1>1, <1>2, <1>3, <1>4 DEF Next, SilentStep

\* An emission that is not cooling down is a new report.
LEMMA EmitReports ==
    ASSUME GraphInv, NEW s \in Scopes, NEW t \in Scopes, NEW p \in ProblemKinds,
           NEW r \in Nat \ {0}, Emits(s, t, p, r), ~CoolingDown(EmitKey(r, p, t, s))
    PROVE  \E j \in DOMAIN problems' : /\ KeyOf(problems'[j]) = EmitKey(r, p, t, s)
                                       /\ problems'[j].rule = r /\ problems'[j].scope = s
                                       /\ problems'[j].target = t
<1>1. PICK new : new = Problem(s, p, t, r)
  OBVIOUS
<1>2. PICK ps : ps = PushProblem(Problem(s, p, t, r))
  OBVIOUS
<1>3. TypeOK /\ p \in ProblemKinds \cup {"AmbiguousDiagnosis"} /\ r \in Nat
  BY DEF GraphInv
<1>4. DOMAIN ps = 1..(Len(problems) + 1) /\ Len(problems) \in Nat /\ ps[Len(problems) + 1] = new
  BY <1>1, <1>2, <1>3, PushedProblem
<1>5. problems' = ps
  BY <1>2 DEF Emits
<1>6. KeyOf(new) = EmitKey(r, p, t, s) /\ new.rule = r /\ new.scope = s /\ new.target = t
  BY <1>1, ProblemFields
<1>7. Len(problems) + 1 \in DOMAIN ps
  BY <1>4
<1> QED
  BY <1>4, <1>5, <1>6, <1>7

-----------------------------------------------------------------------------
(* No verdict that holds stays silent. *)

Accounted(i, s, t) ==
    \/ Reported(i, s, t)
    \/ [rule |-> i, target |-> t, scope |-> s] \in refused
    \/ VerdictPending(i, s, t)

\* A verdict is about a cause, and its one branch emits.
LEMMA PlainVerdictShape ==
    ASSUME TypeOK, NEW i \in PlainVerdicts
    PROVE  /\ i \in DOMAIN Rules /\ Rules[i].on \in CauseKinds
           /\ \A a, s : Body(i, a, s) = Rules[i].body
           /\ \E j \in DOMAIN Rules[i].body : Rules[i].body[j].op = "emit"
<1>1. i \in DOMAIN Rules /\ Rules[i].src = "cause" /\ Rules[i].corr = <<>>
      /\ \E j \in DOMAIN Rules[i].body : Rules[i].body[j].op = "emit"
  BY DEF PlainVerdicts
<1>2. Rules[i].on \in CauseKinds
  BY <1>1, RuleShape DEF TypeOK
<1>3. \A a, s : Body(i, a, s) = Rules[i].body
  BY <1>1 DEF Body
<1> QED
  BY <1>1, <1>2, <1>3

\* The run at the head comes to its emission, or is refused.
LEMMA RunStaysAccounted ==
    ASSUME GraphInv, RunRule, NEW i \in PlainVerdicts, NEW s \in Scopes, NEW t \in Scopes,
           Head(stack).rule = i, Head(stack).scope = s, Head(stack).anchor.target = t
    PROVE  [rule |-> i, target |-> t, scope |-> s] \in refused' \/ VerdictPending(i, s, t)'
<1>1. PICK f : f = Head(stack)
  OBVIOUS
<1>2. /\ f \in CallType /\ f.op = "rule" /\ f.anchor \in AnchorType /\ stack # <<>>
      /\ f.rule = i /\ f.scope = s /\ f.anchor.target = t
  BY <1>1, HeadShape, CallShape DEF RunRule
<1>3. TypeOK /\ deployment \in Deployments /\ stack \in Seq(CallType)
  BY DEF GraphInv, TypeOK
<1>4. CASE budget = 0
  BY <1>1, <1>2, <1>4 DEF RunRule
<1>5. CASE stack' = IntentCalls(i, f.anchor, s) \o Tail(stack)
  <2>1. i \in DOMAIN Rules
    BY <1>3, PlainVerdictShape
  <2>2. PICK q : q = IntentCalls(i, f.anchor, s)
    OBVIOUS
  <2>3. /\ q \in Seq(CallType) /\ DOMAIN q = DOMAIN Body(i, f.anchor, s)
        /\ \A j \in DOMAIN q : /\ q[j].op = q[j].intent.op /\ q[j].rule = i
                               /\ q[j].anchor = f.anchor /\ q[j].scope = s
                               /\ q[j].intent = Body(i, f.anchor, s)[j]
    BY <1>2, <1>3, <2>1, <2>2, IntentCallsShape
  <2>4. PICK j \in DOMAIN q : q[j].intent.op = "emit"
    BY <1>3, <2>3, PlainVerdictShape
  <2>5. Frames(stack') = Frames(q) \cup Frames(Tail(stack))
    BY <1>2, <1>3, <1>5, <2>2, <2>3, PushFrames
  <2>6. q[j] \in Frames(stack')
    BY <2>5 DEF Frames
  <2>7. q[j].op = "emit" /\ q[j].rule = i /\ q[j].scope = s /\ q[j].anchor.target = t
    BY <1>2, <2>3, <2>4
  <2> QED
    BY <2>6, <2>7 DEF VerdictPending
<1> QED
  BY <1>1, <1>2, <1>4, <1>5 DEF RunRule

\* The emission at the head reports, now or within the cooldown before.
LEMMA EmissionStaysAccounted ==
    ASSUME GraphInv, VerdictInv, EmitProblem, NEW i, NEW s \in Scopes, NEW t \in Scopes,
           Head(stack).rule = i, Head(stack).scope = s, Head(stack).anchor.target = t
    PROVE  Reported(i, s, t)'
<1>1. PICK s1 \in Scopes, t1 \in Scopes, p \in ProblemKinds, r \in Nat \ {0} :
         /\ r = Head(stack).rule /\ s1 = Head(stack).scope
         /\ t1 \in {s1, Head(stack).anchor.target} /\ Emits(s1, t1, p, r)
  BY EmitStep, Zenon
<1>2. r = i /\ s1 = s /\ t1 \in {s, t}
  BY <1>1
<1>3. CASE CoolingDown(EmitKey(r, p, t1, s1))
  <2>1. PICK e \in emitted : e.key = EmitKey(r, p, t1, s1)
    BY <1>3 DEF CoolingDown
  <2>2. PICK j \in DOMAIN problems : KeyOf(problems[j]) = EmitKey(r, p, t1, s1)
    BY <2>1 DEF VerdictInv
  <2>3. problems[j].rule = r /\ problems[j].target = t1 /\ problems[j].scope = s1
    BY <2>2 DEF KeyOf, EmitKey
  <2>4. problems' = problems
    BY <1>1, <1>3 DEF Emits
  <2> QED
    BY <1>2, <2>3, <2>4 DEF Reported
<1>4. CASE ~CoolingDown(EmitKey(r, p, t1, s1))
  <2>1. \E j \in DOMAIN problems' : /\ problems'[j].rule = r /\ problems'[j].scope = s1
                                    /\ problems'[j].target = t1
    BY <1>1, <1>4, EmitReports
  <2> QED
    BY <1>2, <2>1 DEF Reported
<1> QED
  BY <1>3, <1>4

\* What accounts for a verdict is followed by what it leads to.
LEMMA StaysAccounted ==
    ASSUME GraphInv, VerdictInv, [Next]_vars, NEW i \in PlainVerdicts, NEW s \in Scopes,
           NEW t \in Scopes, Accounted(i, s, t)
    PROVE  Accounted(i, s, t)'
<1>1. Reported(i, s, t) => Reported(i, s, t)'
  BY ReportsStay DEF Reported
<1>2. refused \subseteq refused'
  BY DEF Next, RunRule, Unresolved, Infer, Rollup, SynthesizeAmbiguity, MarkAmbiguous,
         EmitProblem, Supersede, EmitAction, Fire, Advance, Sweep, Idle, vars, graph
<1>3. ASSUME NEW f \in Frames(stack), f.op \in {"rule", "emit"}, f.rule = i, f.scope = s,
             f.anchor.target = t
      PROVE  Accounted(i, s, t)'
  <2>1. CASE Work
    <3>1. CASE f \in Frames(Tail(stack))
      <4>1. f \in Frames(stack')
        BY <2>1, <3>1, WorkStack
      <4> QED
        BY <1>3, <4>1 DEF VerdictPending, Accounted
    <3>2. CASE f = Head(stack) /\ f.op = "rule"
      <4>1. RunRule
        BY <2>1, <3>2 DEF Work, RunRule, Unresolved, Infer, Rollup, SynthesizeAmbiguity,
             MarkAmbiguous, EmitProblem, Supersede, EmitAction, Resolved
      <4> QED
        BY <1>3, <3>2, <4>1, RunStaysAccounted DEF Accounted
    <3>3. CASE f = Head(stack) /\ f.op = "emit"
      <4>1. t # NoScope
        BY GraphConstants
      <4>2. EmitProblem
        BY <1>3, <2>1, <3>3, <4>1 DEF Work, RunRule, Unresolved, Infer, Rollup,
             SynthesizeAmbiguity, MarkAmbiguous, EmitProblem, Supersede, EmitAction, Resolved
      <4> QED
        BY <1>3, <3>3, <4>2, EmissionStaysAccounted DEF Accounted
    <3> QED
      BY <1>3, <2>1, <3>1, <3>2, <3>3, WorkStack
  <2>2. CASE ~Work
    <3>1. stack = <<>> \/ stack' = stack
      BY <2>2 DEF Next, Work, Fire, Advance, Sweep, Idle, vars
    <3>2. stack' = stack
      BY <3>1 DEF Frames
    <3> QED
      BY <1>3, <3>2 DEF VerdictPending, Accounted
  <2> QED
    BY <2>1, <2>2
<1> QED
  BY <1>1, <1>2, <1>3 DEF Accounted, VerdictPending

\* A write to the node of a cause calls its verdicts.
LEMMA MutationCallsVerdict ==
    ASSUME TypeOK, NEW k \in CauseKinds, NEW t \in Scopes, NEW n \in NodeType, NEW s \in Scopes,
           NEW i \in PlainVerdicts, Rules[i].on = k, TypeOf[s] = Rules[i].scope,
           Rules[i].lo <= n.conf, n.conf <= Rules[i].hi
    PROVE  \E g \in Frames(MutationCalls(k, t, n, s)) :
              g.op = "rule" /\ g.rule = i /\ g.scope = s /\ g.anchor.target = t
<1>1. n.time \in Int /\ n.conf \in 0..100
  BY Zenon DEF NodeType
<1>1a. n.time \in Int /\ n.conf \in Int
  BY <1>1
<1>2. n.time \in Int /\ n.conf \in Int /\ deployment \in Deployments
  BY <1>1a DEF TypeOK
<1>3. i \in RulesFor("cause", k, s)
  BY DEF PlainVerdicts, RulesFor
<1>4. PICK a : a = CauseAnchor(k, t, n)
  OBVIOUS
<1>5. PICK g : g = Call("rule", i, a, s)
  OBVIOUS
<1>6. g \in Frames(MutationCalls(k, t, n, s))
  BY <1>2, <1>3, <1>4, <1>5, MutationCallsShape
<1>7. g.op = "rule" /\ g.rule = i /\ g.scope = s /\ g.anchor.target = t
  BY <1>4, <1>5 DEF Call, CauseAnchor
<1> QED
  BY <1>6, <1>7

\* Only a write to a node brings it into a verdict's range, and it calls the verdict.
LEMMA NewlyInRange ==
    ASSUME GraphInv, [Next]_vars, NEW i \in PlainVerdicts, NEW s \in Scopes, NEW t \in Scopes,
           ~InRange(i, s, t), InRange(i, s, t)'
    PROVE  Accounted(i, s, t)'
<1>1. TypeOK /\ deployment \in Deployments /\ stack \in Seq(CallType)
  BY DEF GraphInv, TypeOK
<1>2. PICK k \in CauseKinds : k = Rules[i].on
  BY <1>1, PlainVerdictShape
<1>3. CASE UNCHANGED <<deployment, node>>
  BY <1>3 DEF InRange, Rules
<1>4. CASE Infer /\ ~UNCHANGED node
  <2>1. Resolved("infer") /\ UNCHANGED deployment /\ stack # <<>>
    BY <1>4 DEF Infer, Resolved
  <2>2. PICK k1 \in CauseKinds, s1 \in Scopes, t1 \in Scopes, n \in NodeType :
             /\ k1 = Head(stack).intent.cause /\ s1 = Head(stack).scope
             /\ t1 = Head(stack).anchor.target /\ n = Inferred
    BY <2>1, HeadInfer, InferredShape
  <2>3. /\ node' = [node EXCEPT ![s1][k1][t1] = n]
        /\ stack' = InferCalls(k1, t1, n, s1) \o Tail(stack)
    BY <1>4, <2>2, InferStep
  <2>4. node \in [Scopes -> [CauseKinds -> [Scopes -> NodeType]]]
    BY <1>1 DEF TypeOK
  <2>5. /\ node'[s1][k1][t1] = n
        /\ s # s1 \/ k # k1 \/ t # t1 => node'[s][k][t] = node[s][k][t]
    BY <2>3, <2>4
  <2>6. s = s1 /\ k = k1 /\ t = t1
    BY <1>2, <2>1, <2>5 DEF InRange, Rules
  <2>7. TypeOf[s] = Rules[i].scope /\ Rules[i].lo <= n.conf /\ n.conf <= Rules[i].hi
    BY <1>2, <2>1, <2>5, <2>6 DEF InRange, Rules
  <2>8. PICK g \in Frames(MutationCalls(k, t, n, s)) :
           g.op = "rule" /\ g.rule = i /\ g.scope = s /\ g.anchor.target = t
    BY <1>1, <1>2, <2>7, MutationCallsVerdict
  <2>9. PICK q : q = InferCalls(k, t, n, s)
    OBVIOUS
  <2>10. q \in Seq(CallType) /\ g \in Frames(q)
    <3>1. q \in Seq(CallType) /\ Frames(MutationCalls(k, t, n, s)) \subseteq Frames(q)
      BY <1>1, <2>9, InferCallsShape
    <3> QED
      BY <2>8, <3>1
  <2>11. stack' = q \o Tail(stack)
    BY <2>3, <2>6, <2>9
  <2>12. Frames(stack') = Frames(q) \cup Frames(Tail(stack))
    BY <1>1, <2>1, <2>10, <2>11, PushFrames
  <2> QED
    BY <2>8, <2>10, <2>12 DEF Accounted, VerdictPending
<1>5. CASE Rollup /\ ~UNCHANGED node
  <2>1. Resolved("rollup") /\ UNCHANGED deployment /\ stack # <<>>
    BY <1>5 DEF Rollup, Resolved
  <2>2. PICK k1 \in CauseKinds, t1 \in Scopes, n \in NodeType :
             /\ k1 = Head(stack).anchor.id
             /\ t1 = Head(stack).anchor.target /\ n = RolledUp
    BY <2>1, HeadRollup, RolledUpShape
  <2>3. /\ node' = [node EXCEPT ![t1][k1][t1] = n]
        /\ stack' = MutationCalls(k1, t1, n, t1) \o Tail(stack)
    BY <1>5, <2>2, RollupStep
  <2>4. node \in [Scopes -> [CauseKinds -> [Scopes -> NodeType]]]
    BY <1>1 DEF TypeOK
  <2>5. /\ node'[t1][k1][t1] = n
        /\ s # t1 \/ k # k1 \/ t # t1 => node'[s][k][t] = node[s][k][t]
    BY <2>3, <2>4
  <2>6. s = t1 /\ k = k1 /\ t = t1
    BY <1>2, <2>1, <2>5 DEF InRange, Rules
  <2>7. TypeOf[s] = Rules[i].scope /\ Rules[i].lo <= n.conf /\ n.conf <= Rules[i].hi
    BY <1>2, <2>1, <2>5, <2>6 DEF InRange, Rules
  <2>8. PICK g \in Frames(MutationCalls(k, t, n, s)) :
           g.op = "rule" /\ g.rule = i /\ g.scope = s /\ g.anchor.target = t
    BY <1>1, <1>2, <2>7, MutationCallsVerdict
  <2>9. PICK q : q = MutationCalls(k, t, n, s)
    OBVIOUS
  <2>10. n.time \in Int /\ n.conf \in 0..100
    BY Zenon DEF NodeType
  <2>11. n.time \in Int /\ n.conf \in Int
    BY <2>10
  <2>12. q \in Seq(CallType) /\ g \in Frames(q)
    BY <1>1, <2>8, <2>9, <2>11, MutationCallsShape
  <2>13. stack' = q \o Tail(stack)
    BY <2>3, <2>6, <2>9
  <2>14. Frames(stack') = Frames(q) \cup Frames(Tail(stack))
    BY <1>1, <2>1, <2>12, <2>13, PushFrames
  <2> QED
    BY <2>8, <2>12, <2>14 DEF Accounted, VerdictPending
<1>6. Infer \/ Rollup \/ UNCHANGED <<deployment, node>>
  BY DEF Next, RunRule, Unresolved, SynthesizeAmbiguity, MarkAmbiguous,
         EmitProblem, Supersede, EmitAction, Fire, Advance, Sweep, Idle, vars, graph
<1>7. UNCHANGED deployment
  BY <1>6 DEF Infer, Rollup
<1> QED
  BY <1>3, <1>4, <1>5, <1>6, <1>7

\* A record of an emission is a record of a report.
LEMMA EmissionsToldStep ==
    ASSUME GraphInv, VerdictInv, [Next]_vars
    PROVE  \A e \in emitted' : \E j \in DOMAIN problems' : KeyOf(problems'[j]) = e.key
<1>1. ASSUME NEW e \in emitted
      PROVE  \E j \in DOMAIN problems' : KeyOf(problems'[j]) = e.key
  <2>1. PICK j \in DOMAIN problems : KeyOf(problems[j]) = e.key
    BY DEF VerdictInv
  <2>2. j \in DOMAIN problems' /\ SameReport(problems'[j], problems[j])
    BY ReportsStay DEF SameReport
  <2> QED
    BY <2>1, <2>2, KeysAreReports
<1>2. CASE emitted' \subseteq emitted
  BY <1>1, <1>2
<1>3. CASE EmitProblem
  <2>1. PICK s \in Scopes, t \in Scopes, p \in ProblemKinds, r \in Nat \ {0} : Emits(s, t, p, r)
    BY <1>3, EmitStep, Zenon
  <2>2. CASE CoolingDown(EmitKey(r, p, t, s))
    BY <1>1, <2>1, <2>2 DEF Emits
  <2>3. CASE ~CoolingDown(EmitKey(r, p, t, s))
    <3>1. \E j \in DOMAIN problems' : KeyOf(problems'[j]) = EmitKey(r, p, t, s)
      BY <2>1, <2>3, EmitReports
    <3>2. \A e \in emitted' : e \in emitted \/ e = [key |-> EmitKey(r, p, t, s), wm |-> wm]
      BY <2>1, <2>3 DEF Emits
    <3>3. \A e \in emitted' : e \in emitted \/ e.key = EmitKey(r, p, t, s)
      BY <3>2
    <3> QED
      BY <1>1, <3>1, <3>3
  <2> QED
    BY <2>2, <2>3
<1>4. EmitProblem \/ emitted' \subseteq emitted
  BY DEF Next, RunRule, Unresolved, Infer, Rollup, SynthesizeAmbiguity, MarkAmbiguous,
         Supersede, EmitAction, Fire, Advance, Sweep, Idle, vars, graph, PruneEmitted
<1> QED
  BY <1>2, <1>3, <1>4

\* Between batches every cause a verdict is about and whose confidence the verdict
\* accepts has been reported by it, or the run was refused by the firing budget.
THEOREM VerdictsAreReported == Spec => []ConfirmedCausesReported
<1>1. Init => VerdictInv
  <2> SUFFICES ASSUME Init PROVE VerdictInv
    OBVIOUS
  <2>1. TypeOK
    BY InitTyped DEF GraphInv
  <2>2. ASSUME NEW i \in PlainVerdicts, NEW s \in Scopes, NEW t \in Scopes PROVE ~InRange(i, s, t)
    <3>1. Rules[i].on \in CauseKinds
      BY <2>1, PlainVerdictShape
    <3>2. ~node[s][Rules[i].on][t].in
      BY <3>1 DEF Init, NoNode
    <3> QED
      BY <3>2 DEF InRange
  <2> QED
    BY <2>2 DEF Init, VerdictInv
<1>2. GraphInv /\ VerdictInv /\ [Next]_vars => VerdictInv'
  <2> SUFFICES ASSUME GraphInv, VerdictInv, [Next]_vars PROVE VerdictInv'
    OBVIOUS
  <2>1. \A e \in emitted' : \E j \in DOMAIN problems' : KeyOf(problems'[j]) = e.key
    BY EmissionsToldStep
  <2>2. PlainVerdicts' = PlainVerdicts
    <3>1. UNCHANGED deployment
      BY DEF Next, RunRule, Unresolved, Infer, Rollup, SynthesizeAmbiguity, MarkAmbiguous,
             EmitProblem, Supersede, EmitAction, Fire, Advance, Sweep, Idle, vars
    <3> QED
      BY <3>1 DEF PlainVerdicts, Rules
  <2>3. ASSUME NEW i \in PlainVerdicts, NEW s \in Scopes, NEW t \in Scopes, InRange(i, s, t)'
        PROVE  Accounted(i, s, t)'
    <3>1. CASE InRange(i, s, t)
      <4>1. Accounted(i, s, t)
        BY <3>1 DEF VerdictInv, Accounted
      <4> QED
        BY <4>1, StaysAccounted
    <3>2. CASE ~InRange(i, s, t)
      BY <2>3, <3>2, NewlyInRange
    <3> QED
      BY <3>1, <3>2
  <2> QED
    BY <2>1, <2>2, <2>3 DEF VerdictInv, Accounted, KeyOf
<1>3. VerdictInv => ConfirmedCausesReported
  BY DEF VerdictInv, ConfirmedCausesReported, Quiescent, InRange, Reported, VerdictPending, Frames
<1> QED
  BY <1>1, <1>2, <1>3, GraphInvariant, PTL DEF Spec
=============================================================================
