------------------------- MODULE AdglConfidenceProofs -------------------------
(***************************************************************************)
(* Proofs about AdglGraph, continued: the confidences the engine keeps and *)
(* acts on are current, and what that says of an ambiguity's life.         *)
(***************************************************************************)
EXTENDS AdglGraphProofs

-----------------------------------------------------------------------------
(* What the properties rest on. *)

IsMax(k, t) ==
    /\ \E c \in Children(k, t) : node[c][k][t].conf = node[t][k][t].conf
    /\ \A c \in Children(k, t) : node[c][k][t].conf <= node[t][k][t].conf

RollupPending(k, t) ==
    \E f \in Frames(stack) : f.op = "rollup" /\ f.anchor.id = k /\ f.anchor.target = t

\* A rolled-up confidence is the largest of the children's, or about to be.
RollupInv ==
    \A k \in CauseKinds, t \in Scopes :
        node[t][k][t].in /\ node[t][k][t].from = <<>> /\ Children(k, t) # {} =>
            IsMax(k, t) \/ RollupPending(k, t)

\* The reactions to a confidence run before the roll-up it starts, and both before
\* the next intent of the batch.
Rank(f) == IF f.anchor.src = "event" THEN 2 ELSE IF f.op = "rollup" THEN 1 ELSE 0

Ordered(q) ==
    \A i, j \in DOMAIN q : i < j =>
        Rank(q[i]) <= Rank(q[j]) /\ ~(Rank(q[i]) = 1 /\ Rank(q[j]) = 1)

\* The image's decision rules infer nothing: the parser and the verifier refuse
\* one that does (ADGL0450).
DecisionsDoNotInfer ==
    \A d \in Deployments : \A i \in DOMAIN d.rules :
        d.rules[i].src # "event" =>
            /\ \A j \in DOMAIN d.rules[i].body : d.rules[i].body[j].op # "infer"
            /\ \A j \in DOMAIN d.rules[i].else : d.rules[i].else[j].op # "infer"
            /\ \A j \in DOMAIN d.rules[i].unk : d.rules[i].unk[j].op # "infer"

FreshInv == Ordered(stack) /\ SnapshotsFresh

OpenPairs(s, t) == {p \in SUBSET CauseKinds : ambig[s][p][t] # "none"}

Synthesized(s, t) ==
    {j \in DOMAIN problems : /\ problems[j].kind = "AmbiguousDiagnosis"
                             /\ problems[j].rule = 0
                             /\ problems[j].scope = s /\ problems[j].target = t}

Told(s, t) ==
    /\ IsFiniteSet(OpenPairs(s, t)) /\ IsFiniteSet(Synthesized(s, t))
    /\ Cardinality(Synthesized(s, t)) <= Cardinality(OpenPairs(s, t))
    /\ OpenPairs(s, t) # {} => \E i \in DOMAIN audit :
          audit[i].kind = "mark_ambiguous" /\ audit[i].target = t

\* An ambiguity that is told was opened, and one that is open was told.
ToldInv == \A s, t \in Scopes : Told(s, t)

Undecided(s, t, p) ==
    \A k, o \in p : /\ ~IsConfirmed(node[s][k][t].conf)
                    /\ Abs(node[s][k][t].conf - node[s][o][t].conf) < 15

SynthesisPending(s, t, p) ==
    \E f \in Frames(stack) : /\ f.op = "rivals" /\ f.pair = p
                             /\ f.scope = s /\ f.anchor.target = t

\* An active ambiguity is undecided, or its synthesis is pending.
ActiveInv ==
    \A s, t \in Scopes : \A j \in DOMAIN Exclusive :
        ambig[s][Exclusive[j]][t] = "active" /\ Exclusive[j] \notin MarkedByRules =>
            Undecided(s, t, Exclusive[j]) \/ SynthesisPending(s, t, Exclusive[j])

-----------------------------------------------------------------------------
(* Confidences are current. *)

\* What a roll-up of (k, t) depends on is as it was.
SameNodes(k, t) == \A c \in Scopes : node'[c][k][t] = node[c][k][t]

\* Then it is a maximum if it was.
LEMMA SameNodesSameMax ==
    ASSUME NEW k, NEW t \in Scopes, SameNodes(k, t)
    PROVE  /\ Children(k, t)' = Children(k, t)
           /\ IsMax(k, t)' <=> IsMax(k, t)
           /\ node'[t][k][t] = node[t][k][t]
<1>1. \A c \in Scopes : node'[c][k][t] = node[c][k][t]
  BY DEF SameNodes
<1>2. Children(k, t)' = Children(k, t)
  BY <1>1 DEF Children
<1>3. \A c \in Children(k, t) : c \in Scopes
  BY DEF Children
<1>4. IsMax(k, t)' <=> IsMax(k, t)
  BY <1>1, <1>2, <1>3 DEF IsMax
<1> QED
  BY <1>1, <1>2, <1>4

\* The head of a batch's step is a roll-up only when the step is one.
LEMMA RollupAtHead ==
    ASSUME Work, Head(stack).op = "rollup" PROVE Rollup
BY DEF Work, RunRule, Unresolved, Infer, Rollup, SynthesizeAmbiguity, MarkAmbiguous,
       EmitProblem, Supersede, EmitAction, Resolved

\* A roll-up that is pending stays so until it runs.
LEMMA RollupStaysPending ==
    ASSUME GraphInv, [Next]_vars, NEW k, NEW t, RollupPending(k, t)
    PROVE  \/ RollupPending(k, t)'
           \/ Rollup /\ Head(stack).anchor.id = k /\ Head(stack).anchor.target = t
<1>1. PICK f \in Frames(stack) : f.op = "rollup" /\ f.anchor.id = k /\ f.anchor.target = t
  BY DEF RollupPending
<1>2. CASE Work
  <2>1. CASE f \in Frames(Tail(stack))
    BY <1>1, <1>2, <2>1, WorkStack DEF RollupPending
  <2>2. CASE f = Head(stack)
    BY <1>1, <1>2, <2>2, RollupAtHead
  <2> QED
    BY <1>1, <1>2, <2>1, <2>2, WorkStack
<1>3. CASE ~Work
  <2>1. stack = <<>> \/ stack' = stack
    BY <1>3 DEF Next, Work, Fire, Advance, Sweep, Idle, vars
  <2>2. stack' = stack
    BY <1>1, <2>1 DEF Frames
  <2> QED
    BY <1>1, <2>2 DEF RollupPending
<1> QED
  BY <1>2, <1>3

\* An inference leaves every other roll-up as it was, and starts those it affects.
LEMMA InferRolls ==
    ASSUME GraphInv, RollupInv, Infer, ~UNCHANGED node,
           NEW k \in CauseKinds, NEW t \in Scopes,
           node'[t][k][t].in, node'[t][k][t].from = <<>>, Children(k, t)' # {}
    PROVE  (IsMax(k, t) \/ RollupPending(k, t))'
<1>1. Resolved("infer") /\ UNCHANGED deployment /\ stack # <<>>
  BY DEF Infer, Resolved
<1>2. TypeOK /\ deployment \in Deployments /\ stack \in Seq(CallType)
  BY DEF GraphInv, TypeOK
<1>3. PICK k1 \in CauseKinds, s1 \in Scopes, t1 \in Scopes, n \in NodeType :
             /\ k1 = Head(stack).intent.cause /\ s1 = Head(stack).scope
             /\ t1 = Head(stack).anchor.target /\ n = Inferred
  BY <1>1, HeadInfer, InferredShape
<1>4. /\ node' = [node EXCEPT ![s1][k1][t1] = n]
      /\ stack' = InferCalls(k1, t1, n, s1) \o Tail(stack)
  BY <1>3, InferStep
<1>5. n.from # <<>>
  BY <1>1, <1>3, InferredShape
<1>6. node \in [Scopes -> [CauseKinds -> [Scopes -> NodeType]]]
  BY <1>2 DEF TypeOK
<1>7. /\ node'[s1][k1][t1] = n
      /\ \A c \in Scopes : c # s1 \/ k # k1 \/ t # t1 => node'[c][k][t] = node[c][k][t]
  BY <1>4, <1>6
<1>8. CASE k = k1 /\ t = t1
  <2>1. s1 # t
    BY <1>5, <1>7, <1>8
  <2>2. CASE SubsumedBy(TypeOf[s1], TypeOf[t])
    <3>1. PICK up : up = [op |-> "rollup", rule |-> 0, anchor |-> CauseAnchor(k, t, n),
                          scope |-> s1]
      OBVIOUS
    <3>2. PICK q : q = InferCalls(k, t, n, s1)
      OBVIOUS
    <3>3. q \in Seq(CallType) /\ up \in Frames(q)
      <4>1. s1 # t /\ SubsumedBy(TypeOf[s1], TypeOf[t])
        BY <2>1, <2>2
      <4>2. /\ q \in Seq(CallType)
            /\ Frames(q) = Frames(MutationCalls(k, t, n, s1))
                 \cup (IF s1 # t /\ SubsumedBy(TypeOf[s1], TypeOf[t]) THEN {up} ELSE {})
        BY <1>2, <3>1, <3>2, InferCallsShape
      <4> QED
        BY <4>1, <4>2
    <3>4. Frames(stack') = Frames(q) \cup Frames(Tail(stack))
      BY <1>1, <1>2, <1>4, <1>8, <3>2, <3>3, PushFrames
    <3>5. up.op = "rollup" /\ up.anchor.id = k /\ up.anchor.target = t
      BY <3>1 DEF CauseAnchor
    <3> QED
      BY <3>3, <3>4, <3>5 DEF RollupPending
  <2>3. CASE ~SubsumedBy(TypeOf[s1], TypeOf[t])
    <3>1. /\ Children(k, t)' = Children(k, t) /\ s1 \notin Children(k, t)
          /\ node'[t][k][t] = node[t][k][t]
      BY <1>7, <2>1, <2>3 DEF Children
    <3>2. \A c \in Children(k, t) : node'[c][k][t] = node[c][k][t]
      BY <1>7, <3>1 DEF Children
    <3>3. IsMax(k, t)' <=> IsMax(k, t)
      BY <3>1, <3>2 DEF IsMax
    <3>4. IsMax(k, t) \/ RollupPending(k, t)
      BY <3>1 DEF RollupInv
    <3>5. ~Rollup
      BY <1>1 DEF Rollup, Resolved
    <3>6. RollupPending(k, t) => RollupPending(k, t)'
      BY <3>5, RollupStaysPending DEF Next
    <3> QED
      BY <3>3, <3>4, <3>6
  <2> QED
    BY <2>2, <2>3
<1>9. CASE ~(k = k1 /\ t = t1)
  <2>1. SameNodes(k, t)
    BY <1>7, <1>9 DEF SameNodes
  <2>2. IsMax(k, t) \/ RollupPending(k, t)
    BY <2>1, SameNodesSameMax DEF RollupInv
  <2>3. ~Rollup
    BY <1>1 DEF Rollup, Resolved
  <2>4. RollupPending(k, t) => RollupPending(k, t)'
    BY <2>3, RollupStaysPending DEF Next
  <2> QED
    BY <2>1, <2>2, <2>4, SameNodesSameMax
<1> QED
  BY <1>8, <1>9

\* A roll-up leaves the maximum.
LEMMA RollupRolls ==
    ASSUME GraphInv, RollupInv, Rollup, NEW k \in CauseKinds, NEW t \in Scopes,
           node'[t][k][t].in, node'[t][k][t].from = <<>>, Children(k, t)' # {}
    PROVE  (IsMax(k, t) \/ RollupPending(k, t))'
<1>1. Resolved("rollup")
  BY DEF Rollup
<1>2. PICK k1 \in CauseKinds, t1 \in Scopes, n \in NodeType :
             /\ k1 = Head(stack).anchor.id
             /\ t1 = Head(stack).anchor.target /\ n = RolledUp
  BY <1>1, HeadRollup, RolledUpShape
<1>3. \/ ~node[t1][k1][t1].in /\ UNCHANGED node
      \/ node' = [node EXCEPT ![t1][k1][t1] = n]
  BY <1>2, RollupStep
<1>4. node \in [Scopes -> [CauseKinds -> [Scopes -> NodeType]]]
  BY DEF GraphInv, TypeOK
<1>5. CASE k = k1 /\ t = t1
  <2>1. node' = [node EXCEPT ![t1][k1][t1] = n]
    BY <1>3, <1>5
  <2>2. /\ node'[t][k][t] = n
        /\ \A c \in Scopes : c # t => node'[c][k][t] = node[c][k][t]
    BY <1>4, <1>5, <2>1
  <2>3. Children(k, t)' = Children(k, t) /\ t \notin Children(k, t)
    BY <2>2 DEF Children
  <2>4. \A c \in Children(k, t) : node'[c][k][t] = node[c][k][t]
    BY <2>2, <2>3 DEF Children
  <2>5. /\ \E c \in Children(k, t) : node[c][k][t].conf = n.conf
        /\ \A c \in Children(k, t) : node[c][k][t].conf <= n.conf
    BY <1>1, <1>2, <1>5, RolledUpShape
  <2> QED
    BY <2>2, <2>3, <2>4, <2>5 DEF IsMax
<1>6. CASE ~(k = k1 /\ t = t1)
  <2>0. \A c \in Scopes : c # t1 \/ k # k1 \/ t # t1 => node'[c][k][t] = node[c][k][t]
    <3>1. CASE UNCHANGED node
      BY <3>1
    <3>2. CASE node' = [node EXCEPT ![t1][k1][t1] = n]
      BY <1>4, <3>2
    <3> QED
      BY <1>3, <3>1, <3>2
  <2>1. SameNodes(k, t)
    BY <1>6, <2>0 DEF SameNodes
  <2>2. IsMax(k, t) \/ RollupPending(k, t)
    BY <2>1, SameNodesSameMax DEF RollupInv
  <2>3. RollupPending(k, t) => RollupPending(k, t)'
    BY <1>2, <1>6, RollupStaysPending DEF Next
  <2> QED
    BY <2>1, <2>2, <2>3, SameNodesSameMax
<1> QED
  BY <1>5, <1>6

\* Only inferences and roll-ups write nodes.
LEMMA NodesWritten ==
    ASSUME [Next]_vars PROVE Infer \/ Rollup \/ UNCHANGED node
BY DEF Next, RunRule, Unresolved, SynthesizeAmbiguity, MarkAmbiguous,
       EmitProblem, Supersede, EmitAction, Fire, Advance, Sweep, Idle, vars, graph

\* Between batches the confidence a roll-up wrote is the largest of the children's.
LEMMA RollupHolds ==
    ASSUME GraphInv, RollupInv, [Next]_vars PROVE RollupInv'
<1> SUFFICES ASSUME NEW k \in CauseKinds, NEW t \in Scopes,
                    node'[t][k][t].in, node'[t][k][t].from = <<>>, Children(k, t)' # {}
             PROVE  (IsMax(k, t) \/ RollupPending(k, t))'
  BY DEF RollupInv
<1>1. CASE UNCHANGED node /\ ~Rollup
  <2>1. SameNodes(k, t)
    BY <1>1 DEF SameNodes
  <2>2. IsMax(k, t) \/ RollupPending(k, t)
    BY <2>1, SameNodesSameMax DEF RollupInv
  <2>3. RollupPending(k, t) => RollupPending(k, t)'
    BY <1>1, RollupStaysPending
  <2> QED
    BY <2>1, <2>2, <2>3, SameNodesSameMax
<1>2. CASE Infer /\ ~UNCHANGED node
  BY <1>2, InferRolls
<1>3. CASE Rollup
  BY <1>3, RollupRolls
<1> QED
  BY <1>1, <1>2, <1>3, NodesWritten

\* A call has one of three ranks; a synthesis and a roll-up react to a cause.
LEMMA RankShape ==
    ASSUME NEW f, Proper(f)
    PROVE  /\ Rank(f) \in {0, 1, 2} /\ (Rank(f) = 2 <=> f.anchor.src = "event")
           /\ f.op = "rivals" => Rank(f) = 0
           /\ f.op = "rollup" => Rank(f) = 1
           /\ f.op \in IntentOps \cup {"rule"} => Rank(f) \in {0, 2}
BY DEF Rank, Proper, IntentOps

\* What comes after the head does not come before it.
LEMMA TailAbove ==
    ASSUME NEW st \in Seq(CallType), st # <<>>, Ordered(st)
    PROVE  /\ Ordered(Tail(st))
           /\ \A f \in Frames(Tail(st)) : /\ Rank(Head(st)) <= Rank(f)
                                          /\ ~(Rank(Head(st)) = 1 /\ Rank(f) = 1)
<1>1. PICK u : u = Tail(st)
  OBVIOUS
<1>2. PICK n \in Nat : n = Len(st)
  OBVIOUS
<1>3. /\ DOMAIN st = 1..n /\ DOMAIN u = 1..(n - 1) /\ n # 0 /\ Head(st) = st[1]
      /\ \A i \in 1..(n - 1) : u[i] = st[i + 1]
  BY <1>1, <1>2
<1>4. \A i \in 1..(n - 1) : i + 1 \in 1..n /\ 1 < i + 1
  OBVIOUS
<1>5. 1 \in 1..n
  BY <1>3
<1>6. \A i, j \in 1..n : i < j =>
         Rank(st[i]) <= Rank(st[j]) /\ ~(Rank(st[i]) = 1 /\ Rank(st[j]) = 1)
  BY <1>3 DEF Ordered
<1>7. ASSUME NEW i \in 1..(n - 1), NEW j \in 1..(n - 1), i < j
      PROVE  Rank(u[i]) <= Rank(u[j]) /\ ~(Rank(u[i]) = 1 /\ Rank(u[j]) = 1)
  <2>1. i + 1 \in 1..n /\ j + 1 \in 1..n /\ i + 1 < j + 1
    BY <1>4, <1>7
  <2>2. u[i] = st[i + 1] /\ u[j] = st[j + 1]
    BY <1>3
  <2> QED
    BY <1>6, <2>1, <2>2
<1>8. ASSUME NEW f \in Frames(u)
      PROVE  Rank(Head(st)) <= Rank(f) /\ ~(Rank(Head(st)) = 1 /\ Rank(f) = 1)
  <2>1. PICK i \in 1..(n - 1) : f = st[i + 1]
    BY <1>3 DEF Frames
  <2>2. i + 1 \in 1..n /\ 1 < i + 1
    BY <1>4
  <2> QED
    BY <1>3, <1>5, <1>6, <2>1, <2>2
<1>9. Ordered(u)
  BY <1>3, <1>7 DEF Ordered
<1> QED
  BY <1>1, <1>8, <1>9

\* Calls of one rank that is not a roll-up's are in order.
LEMMA UniformOrdered ==
    ASSUME NEW q, NEW h \in {0, 2}, \A f \in Frames(q) : Rank(f) = h
    PROVE  Ordered(q)
<1>1. \A i \in DOMAIN q : Rank(q[i]) = h
  BY DEF Frames
<1> QED
  BY <1>1 DEF Ordered

\* One order after another that it does not overtake.
LEMMA ConcatOrdered ==
    ASSUME NEW q \in Seq(CallType), NEW u \in Seq(CallType), Ordered(q), Ordered(u),
           \A f \in Frames(q), g \in Frames(u) :
              Rank(f) <= Rank(g) /\ ~(Rank(f) = 1 /\ Rank(g) = 1)
    PROVE  Ordered(q \o u)
<1>1a. PICK m \in Nat, n \in Nat : m = Len(q) /\ n = Len(u)
  OBVIOUS
<1>1b. PICK w : w = q \o u
  OBVIOUS
<1>2. /\ DOMAIN q = 1..m /\ DOMAIN u = 1..n /\ DOMAIN w = 1..(m + n)
      /\ \A i \in 1..m : w[i] = q[i]
      /\ \A i \in (m + 1)..(m + n) : w[i] = u[i - m]
  BY <1>1a, <1>1b
<1>3. ASSUME NEW i \in 1..(m + n), NEW j \in 1..(m + n), i < j
      PROVE  Rank(w[i]) <= Rank(w[j]) /\ ~(Rank(w[i]) = 1 /\ Rank(w[j]) = 1)
  <2>1. CASE i <= m /\ j <= m
    <3>1. i \in 1..m /\ j \in 1..m
      BY <2>1
    <3>2. \A a, b \in 1..m : a < b =>
             Rank(q[a]) <= Rank(q[b]) /\ ~(Rank(q[a]) = 1 /\ Rank(q[b]) = 1)
      BY <1>2 DEF Ordered
    <3>3. w[i] = q[i] /\ w[j] = q[j]
      BY <1>2, <3>1
    <3> QED
      BY <1>3, <3>1, <3>2, <3>3
  <2>2. CASE i <= m /\ m < j
    <3>1. i \in 1..m /\ j \in (m + 1)..(m + n) /\ j - m \in 1..n
      BY <2>2
    <3>2. w[i] \in Frames(q) /\ w[j] \in Frames(u)
      BY <1>2, <3>1 DEF Frames
    <3> QED
      BY <3>2
  <2>3. CASE m < i
    <3>1. /\ i \in (m + 1)..(m + n) /\ j \in (m + 1)..(m + n)
          /\ i - m \in 1..n /\ j - m \in 1..n /\ i - m < j - m
      BY <1>3, <2>3
    <3>2. \A a, b \in 1..n : a < b =>
             Rank(u[a]) <= Rank(u[b]) /\ ~(Rank(u[a]) = 1 /\ Rank(u[b]) = 1)
      BY <1>2 DEF Ordered
    <3>3. w[i] = u[i - m] /\ w[j] = u[j - m]
      BY <1>2, <3>1
    <3> QED
      BY <3>1, <3>2, <3>3
  <2> QED
    BY <2>1, <2>2, <2>3
<1>4. Ordered(w)
  BY <1>2, <1>3 DEF Ordered
<1> QED
  BY <1>1b, <1>4

\* An inference is evidence: its call is anchored at an event.
LEMMA InferIsEvidence ==
    ASSUME GraphInv, DecisionsDoNotInfer, Resolved("infer")
    PROVE  Head(stack).anchor.src = "event"
<1>1. PICK f : f = Head(stack)
  OBVIOUS
<1>2. stack # <<>> /\ f.op = "infer"
  BY <1>1 DEF Resolved
<1>3. /\ f.rule \in DOMAIN Rules /\ f.intent.op = "infer" /\ f.intent \in IntentsOf(f.rule)
      /\ Rules[f.rule].src = f.anchor.src
  BY <1>1, <1>2, HeadIntent DEF IntentOps
<1>4. deployment \in Deployments
  BY DEF GraphInv, TypeOK
<1>5. SUFFICES ASSUME Rules[f.rule].src # "event" PROVE FALSE
  BY <1>1, <1>3
<1>6. \A x \in IntentsOf(f.rule) : x.op # "infer"
  BY <1>3, <1>4, <1>5 DEF DecisionsDoNotInfer, IntentsOf, Rules
<1> QED
  BY <1>3, <1>6

Fresh(f) == node[f.scope][f.anchor.id][f.anchor.target].conf = f.anchor.conf

\* SnapshotsFresh, by calls instead of positions.
LEMMA FreshByCall ==
    SnapshotsFresh <=> \A f \in Frames(stack) : f.op = "rivals" => Fresh(f)
BY DEF SnapshotsFresh, Frames, Fresh

\* Starting a rule calls its intents in the place of the rule.
LEMMA RunRuleOrder ==
    ASSUME GraphInv, FreshInv, RunRule PROVE FreshInv'
<1>1. PICK f : f = Head(stack)
  OBVIOUS
<1>2. stack \in Seq(CallType) /\ TypeOK /\ deployment \in Deployments /\ stack # <<>>
  BY DEF GraphInv, TypeOK, RunRule
<1>3. /\ f \in CallType /\ f.op = "rule" /\ Proper(f) /\ f.anchor \in AnchorType
      /\ f.scope \in Scopes /\ f.rule \in DOMAIN Rules /\ UNCHANGED node
  BY <1>1, HeadShape, CallShape DEF RunRule, Proper
<1>4. /\ Ordered(Tail(stack)) /\ Tail(stack) \in Seq(CallType)
      /\ \A g \in Frames(Tail(stack)) : Rank(f) <= Rank(g)
      /\ Frames(stack) = {f} \cup Frames(Tail(stack))
  BY <1>1, <1>2, TailAbove, HeadFrames DEF FreshInv
<1>5. \A g \in Frames(Tail(stack)) : g.op = "rivals" => Fresh(g)'
  BY <1>3, <1>4, FreshByCall DEF FreshInv, Fresh
<1>6. CASE stack' = Tail(stack)
  BY <1>4, <1>5, <1>6, FreshByCall DEF FreshInv, SnapshotsFresh, Frames, Fresh
<1>7. CASE stack' = IntentCalls(f.rule, f.anchor, f.scope) \o Tail(stack)
  <2>1. PICK q : q = IntentCalls(f.rule, f.anchor, f.scope)
    OBVIOUS
  <2>2. /\ q \in Seq(CallType)
        /\ \A j \in DOMAIN q : q[j].anchor = f.anchor /\ q[j].op \in IntentOps
    BY <1>2, <1>3, <2>1, IntentCallsShape
  <2>3. \A g \in Frames(q) : g.anchor = f.anchor /\ g.op # "rollup" /\ g.op # "rivals"
    BY <2>2 DEF Frames, IntentOps
  <2>4. Rank(f) \in {0, 2} /\ \A g \in Frames(q) : Rank(g) = Rank(f)
    BY <1>3, <2>3 DEF Rank
  <2>5. Ordered(q)
    BY <2>4, UniformOrdered
  <2>6. \A g \in Frames(q), h \in Frames(Tail(stack)) :
              Rank(g) <= Rank(h) /\ ~(Rank(g) = 1 /\ Rank(h) = 1)
    BY <1>4, <2>4
  <2>7. PICK u \in Seq(CallType) : u = Tail(stack)
    BY <1>4
  <2>8. Ordered(q \o u)
    BY <1>4, <2>2, <2>5, <2>6, <2>7, ConcatOrdered
  <2>9. Frames(stack') = Frames(q) \cup Frames(Tail(stack)) /\ stack' = q \o u
    BY <1>2, <1>7, <2>1, <2>2, <2>7, PushFrames
  <2>10. \A g \in Frames(stack') : g.op = "rivals" => Fresh(g)'
    BY <1>5, <2>3, <2>9
  <2>11. SnapshotsFresh'
    BY <2>10 DEF SnapshotsFresh, Frames, Fresh
  <2> QED
    BY <2>8, <2>9, <2>11 DEF FreshInv
<1> QED
  BY <1>1, <1>6, <1>7 DEF RunRule

\* What an inference pushes is in order, and its snapshots are the node it wrote.
LEMMA InferCallsOrder ==
    ASSUME TypeOK, NEW k \in CauseKinds, NEW t \in Scopes, NEW n \in NodeType, NEW s \in Scopes
    PROVE  /\ Ordered(MutationCalls(k, t, n, s)) /\ Ordered(InferCalls(k, t, n, s))
           /\ \A g \in Frames(MutationCalls(k, t, n, s)) : Rank(g) = 0
           /\ \A g \in Frames(InferCalls(k, t, n, s)) : Rank(g) \in {0, 1}
<1>1. PICK v : v = IF s # t /\ SubsumedBy(TypeOf[s], TypeOf[t])
                   THEN <<[op |-> "rollup", rule |-> 0, anchor |-> CauseAnchor(k, t, n),
                           scope |-> s]>>
                   ELSE <<>>
  OBVIOUS
<1>2. PICK u : u = MutationCalls(k, t, n, s)
  OBVIOUS
<1>3. PICK up : up = [op |-> "rollup", rule |-> 0, anchor |-> CauseAnchor(k, t, n), scope |-> s]
  OBVIOUS
<1>4. up.anchor.src = "cause" /\ up.op = "rollup" /\ CauseAnchor(k, t, n).src = "cause"
  BY <1>3 DEF CauseAnchor
<1>5. \A g \in Frames(u) : Rank(g) = 0
  BY <1>2, <1>4, MutationCallsProper DEF Rank
<1>6. n.time \in Int /\ n.conf \in 0..100
  BY Zenon DEF NodeType
<1>7. n.time \in Int /\ n.conf \in Int
  BY <1>6
<1>8. deployment \in Deployments
  BY DEF TypeOK
<1>9. u \in Seq(CallType) /\ up \in CallType
  BY <1>2, <1>3, <1>7, <1>8, MutationCallsShape, InferCallsShape
<1>10. v \in Seq(CallType) /\ (v = <<up>> \/ v = <<>>)
  BY <1>1, <1>3, <1>9
<1>11. (\A g \in Frames(v) : Rank(g) = 1) /\ Ordered(v)
  BY <1>4, <1>10 DEF Frames, Rank, Ordered
<1>12. Ordered(u)
  BY <1>5, UniformOrdered
<1>13. Ordered(u \o v) /\ Frames(u \o v) = Frames(u) \cup Frames(v)
  <2>1. \A g \in Frames(u), h \in Frames(v) :
              Rank(g) <= Rank(h) /\ ~(Rank(g) = 1 /\ Rank(h) = 1)
    BY <1>5, <1>11
  <2> QED
    BY <1>9, <1>10, <1>11, <1>12, <2>1, ConcatOrdered, ConcatFrames
<1>14. InferCalls(k, t, n, s) = u \o v
  BY <1>1, <1>2 DEF InferCalls
<1> QED
  BY <1>2, <1>5, <1>11, <1>12, <1>13, <1>14

\* What a write to a node pushes is fresh, and nothing else pending is a synthesis
\* unless the call at the head was a reaction itself.
LEMMA WriteOrder ==
    ASSUME GraphInv, FreshInv, stack # <<>>, Rank(Head(stack)) \in {1, 2},
           NEW k \in CauseKinds, NEW t \in Scopes, NEW n \in NodeType, NEW s \in Scopes,
           NEW q \in Seq(CallType), Ordered(q),
           node' = [node EXCEPT ![s][k][t] = n], stack' = q \o Tail(stack),
           \A g \in Frames(q) : Rank(g) < Rank(Head(stack)),
           \A g \in Frames(q) : g \in Frames(MutationCalls(k, t, n, s)) \/ g.op # "rivals"
    PROVE  FreshInv'
<1>1. stack \in Seq(CallType) /\ TypeOK
  BY DEF GraphInv, TypeOK
<1>2. /\ Ordered(Tail(stack)) /\ Tail(stack) \in Seq(CallType)
      /\ \A g \in Frames(Tail(stack)) : /\ Rank(Head(stack)) <= Rank(g)
                                        /\ ~(Rank(Head(stack)) = 1 /\ Rank(g) = 1)
      /\ \A g \in Frames(Tail(stack)) : g \in Frames(stack)
  BY <1>1, TailAbove, HeadFrames DEF FreshInv
<1>3. \A g \in Frames(Tail(stack)) : Rank(g) = 2 /\ g.op # "rivals"
  <2> SUFFICES ASSUME NEW g \in Frames(Tail(stack)) PROVE Rank(g) = 2 /\ g.op # "rivals"
    OBVIOUS
  <2>1. Proper(g)
    BY <1>2 DEF GraphInv, StackInv
  <2>2. Rank(g) \in {0, 1, 2} /\ (g.op = "rivals" => Rank(g) = 0)
    BY <2>1, RankShape
  <2> QED
    BY <1>2, <2>2
<1>4. PICK u \in Seq(CallType) : u = Tail(stack)
  BY <1>2
<1>5. \A g \in Frames(q), h \in Frames(u) : Rank(g) <= Rank(h) /\ ~(Rank(g) = 1 /\ Rank(h) = 1)
  <2> SUFFICES ASSUME NEW g \in Frames(q), NEW h \in Frames(u)
               PROVE  Rank(g) <= Rank(h) /\ ~(Rank(g) = 1 /\ Rank(h) = 1)
    OBVIOUS
  <2>1. Rank(h) = 2 /\ Rank(g) < Rank(Head(stack)) /\ Rank(g) \in {0, 1, 2}
    BY <1>3, <1>4 DEF Rank
  <2> QED
    BY <2>1
<1>6. Ordered(q \o u) /\ stack' = q \o u
  BY <1>2, <1>4, <1>5, ConcatOrdered
<1>7. Frames(stack') = Frames(q) \cup Frames(Tail(stack))
  BY <1>1, PushFrames
<1>8. node'[s][k][t] = n
  BY <1>1 DEF TypeOK
<1>9. ASSUME NEW g \in Frames(stack'), g.op = "rivals"
      PROVE  node'[g.scope][g.anchor.id][g.anchor.target].conf = g.anchor.conf
  <2>1. g \in Frames(MutationCalls(k, t, n, s))
    BY <1>3, <1>7, <1>9
  <2>2. g.anchor = CauseAnchor(k, t, n) /\ g.scope = s
    BY <1>1, <2>1, MutationCallsProper
  <2>3. g.anchor.id = k /\ g.anchor.target = t /\ g.anchor.conf = n.conf
    BY <2>2 DEF CauseAnchor
  <2> QED
    BY <1>8, <2>2, <2>3
<1>10. SnapshotsFresh'
  BY <1>9 DEF SnapshotsFresh, Frames
<1> QED
  BY <1>6, <1>10 DEF FreshInv

\* Finishing a call leaves the rest in order, and its snapshots fresh.
LEMMA PopOrder ==
    ASSUME GraphInv, FreshInv, stack # <<>>, stack' = Tail(stack), UNCHANGED node
    PROVE  FreshInv'
<1>1. stack \in Seq(CallType)
  BY DEF GraphInv, TypeOK
<1>2. Ordered(stack') /\ Frames(stack) = {Head(stack)} \cup Frames(stack')
  BY <1>1, TailAbove, HeadFrames DEF FreshInv
<1>3. \A f \in Frames(stack') : f.op = "rivals" => Fresh(f)
  BY <1>2, FreshByCall DEF FreshInv
<1>4. SnapshotsFresh'
  BY <1>3 DEF SnapshotsFresh, Frames, Fresh
<1> QED
  BY <1>2, <1>4 DEF FreshInv

\* Calls of rules on a problem come before everything else that is pending.
LEMMA PushOrder ==
    ASSUME GraphInv, FreshInv, stack # <<>>, UNCHANGED node,
           NEW q \in Seq(CallType), stack' = q \o Tail(stack),
           \A f \in Frames(q) : Rank(f) = 0 /\ f.op # "rivals"
    PROVE  FreshInv'
<1>1. stack \in Seq(CallType)
  BY DEF GraphInv, TypeOK
<1>2. /\ Ordered(Tail(stack)) /\ Tail(stack) \in Seq(CallType)
      /\ Frames(stack) = {Head(stack)} \cup Frames(Tail(stack))
  BY <1>1, TailAbove, HeadFrames DEF FreshInv
<1>3. PICK u \in Seq(CallType) : u = Tail(stack)
  BY <1>2
<1>4. Ordered(q)
  BY UniformOrdered
<1>5. \A f \in Frames(q), g \in Frames(u) :
              Rank(f) <= Rank(g) /\ ~(Rank(f) = 1 /\ Rank(g) = 1)
  BY DEF Rank
<1>6. Ordered(q \o u) /\ stack' = q \o u
  BY <1>2, <1>3, <1>4, <1>5, ConcatOrdered
<1>7. Frames(stack') = Frames(q) \cup Frames(Tail(stack))
  BY <1>1, PushFrames
<1>8. \A f \in Frames(stack') : f.op = "rivals" => Fresh(f)
  BY <1>2, <1>7, FreshByCall DEF FreshInv
<1>9. SnapshotsFresh'
  BY <1>8 DEF SnapshotsFresh, Frames, Fresh
<1> QED
  BY <1>6, <1>9 DEF FreshInv

\* An emission calls the rules on the problem it pushed.
LEMMA EmitOrder ==
    ASSUME GraphInv, FreshInv, EmitProblem PROVE FreshInv'
<1>1. stack # <<>> /\ UNCHANGED node /\ TypeOK /\ deployment \in Deployments
  BY DEF EmitProblem, GraphInv, TypeOK
<1>2. PICK s \in Scopes, t \in Scopes, p \in ProblemKinds, r \in Nat \ {0} : Emits(s, t, p, r)
  BY EmitStep, Zenon
<1>3. CASE stack' = Tail(stack)
  BY <1>1, <1>3, PopOrder
<1>4. CASE stack' = RuleCalls(RulesFor("problem", p, s),
                              ProblemAnchor(Len(problems) + 1, t, wm), s) \o Tail(stack)
  <2>1. PICK i \in Nat : i = Len(problems) + 1
    BY <1>1 DEF TypeOK
  <2>2. wm \in Int /\ t \in Scopes \cup {NoScope}
    BY <1>1 DEF TypeOK
  <2>3. PICK a \in AnchorType : a = ProblemAnchor(i, t, wm)
    <3>1. ProblemAnchor(i, t, wm) \in AnchorType
      BY <2>2 DEF ProblemAnchor, AnchorType
    <3> QED
      BY <3>1
  <2>4. a.src = "problem"
    BY <2>3 DEF ProblemAnchor
  <2>5. PICK q : q = RuleCalls(RulesFor("problem", p, s), a, s)
    OBVIOUS
  <2>6. RulesFor("problem", p, s) \in SUBSET Nat /\ IsFiniteSet(RulesFor("problem", p, s))
    BY <1>1, RulesForShape
  <2>7. q \in Seq(CallType) /\ \A j \in DOMAIN q : q[j].op = "rule" /\ q[j].anchor = a
    BY <2>5, <2>6, RuleCallsShape
  <2>8. \A f \in Frames(q) : Rank(f) = 0 /\ f.op # "rivals"
    BY <2>4, <2>7 DEF Frames, Rank
  <2>9. stack' = q \o Tail(stack)
    BY <1>4, <2>1, <2>3, <2>5
  <2> QED
    BY <1>1, <2>7, <2>8, <2>9, PushOrder
<1> QED
  BY <1>2, <1>3, <1>4 DEF Emits

\* A batch calls rules about an event, and nothing else is pending.
LEMMA FireOrder ==
    ASSUME GraphInv, Fire PROVE FreshInv'
<1>1. PICK s \in Scopes, t \in Times, tgt \in Targets, M \in SUBSET Nat :
              /\ IsFiniteSet(M) /\ EventAnchor(t, tgt) \in AnchorType
              /\ stack' = RuleCalls(M, EventAnchor(t, tgt), s)
  BY FireStep DEF GraphInv
<1>2. PICK a \in AnchorType : a = EventAnchor(t, tgt)
  BY <1>1
<1>3. a.src = "event"
  BY <1>2 DEF EventAnchor
<1>4. PICK q : q = RuleCalls(M, a, s)
  OBVIOUS
<1>5. \A j \in DOMAIN q : q[j].op = "rule" /\ q[j].anchor = a
  BY <1>1, <1>4, RuleCallsShape
<1>6. stack' = q
  BY <1>1, <1>2, <1>4
<1>7. \A f \in Frames(q) : Rank(f) = 2
  BY <1>3, <1>5 DEF Rank, Frames
<1>8. Ordered(q)
  BY <1>7, UniformOrdered
<1>9. SnapshotsFresh'
  BY <1>5, <1>6 DEF SnapshotsFresh
<1> QED
  BY <1>6, <1>8, <1>9 DEF FreshInv

\* An inference is made when nothing but evidence is pending, so what reacts to it
\* sees the confidence it wrote.
LEMMA InferOrder ==
    ASSUME GraphInv, FreshInv, DecisionsDoNotInfer, Infer PROVE FreshInv'
<1>1. Resolved("infer") /\ stack # <<>> /\ TypeOK /\ deployment \in Deployments
  BY DEF Infer, Resolved, GraphInv, TypeOK
<1>2. PICK k \in CauseKinds, s \in Scopes, t \in Scopes, n \in NodeType :
             /\ k = Head(stack).intent.cause /\ s = Head(stack).scope
             /\ t = Head(stack).anchor.target /\ n = Inferred
  BY <1>1, HeadInfer, InferredShape
<1>3. CASE UNCHANGED node /\ stack' = Tail(stack)
  BY <1>1, <1>3, PopOrder
<1>4. CASE /\ node' = [node EXCEPT ![s][k][t] = n]
           /\ stack' = InferCalls(k, t, n, s) \o Tail(stack)
  <2>1. Rank(Head(stack)) = 2
    BY <1>1, InferIsEvidence DEF Rank
  <2>2. PICK q : q = InferCalls(k, t, n, s)
    OBVIOUS
  <2>3. PICK up : up = [op |-> "rollup", rule |-> 0, anchor |-> CauseAnchor(k, t, n), scope |-> s]
    OBVIOUS
  <2>4. /\ q \in Seq(CallType)
        /\ Frames(q) = Frames(MutationCalls(k, t, n, s))
                 \cup (IF s # t /\ SubsumedBy(TypeOf[s], TypeOf[t]) THEN {up} ELSE {})
    BY <1>1, <2>2, <2>3, InferCallsShape
  <2>5. \A g \in Frames(q) : g \in Frames(MutationCalls(k, t, n, s)) \/ g.op # "rivals"
    BY <2>3, <2>4
  <2>6. Ordered(q) /\ \A g \in Frames(q) : Rank(g) \in {0, 1}
    BY <1>1, <2>2, InferCallsOrder
  <2>7. \A g \in Frames(q) : Rank(g) < Rank(Head(stack))
    BY <2>1, <2>6
  <2>8. stack' = q \o Tail(stack) /\ Rank(Head(stack)) \in {1, 2}
    BY <1>4, <2>1, <2>2
  <2> QED
    BY <1>1, <1>4, <2>4, <2>5, <2>6, <2>7, <2>8, WriteOrder
<1> QED
  BY <1>2, <1>3, <1>4, InferStep

\* So is the roll-up it starts, and the reactions to that.
LEMMA RollupOrder ==
    ASSUME GraphInv, FreshInv, Rollup PROVE FreshInv'
<1>1. Resolved("rollup") /\ stack # <<>> /\ TypeOK /\ deployment \in Deployments
  BY DEF Rollup, Resolved, GraphInv, TypeOK
<1>2. PICK k \in CauseKinds, t \in Scopes, n \in NodeType :
             /\ k = Head(stack).anchor.id
             /\ t = Head(stack).anchor.target /\ n = RolledUp
  BY <1>1, HeadRollup, RolledUpShape
<1>3. CASE UNCHANGED node /\ stack' = Tail(stack)
  BY <1>1, <1>3, PopOrder
<1>4. CASE /\ node' = [node EXCEPT ![t][k][t] = n]
           /\ stack' = MutationCalls(k, t, n, t) \o Tail(stack)
  <2>1. Rank(Head(stack)) = 1
    BY <1>1, HeadShape, RankShape DEF Resolved
  <2>2. PICK q : q = MutationCalls(k, t, n, t)
    OBVIOUS
  <2>3. n.time \in Int /\ n.conf \in 0..100
    BY Zenon DEF NodeType
  <2>4. n.time \in Int /\ n.conf \in Int
    BY <2>3
  <2>5. q \in Seq(CallType)
    BY <1>1, <2>2, <2>4, MutationCallsShape
  <2>6. Ordered(q) /\ \A g \in Frames(q) : Rank(g) = 0
    BY <1>1, <2>2, InferCallsOrder
  <2>7. \A g \in Frames(q) : Rank(g) < Rank(Head(stack))
    BY <2>1, <2>6
  <2>8. stack' = q \o Tail(stack) /\ Rank(Head(stack)) \in {1, 2}
    BY <1>4, <2>1, <2>2
  <2>9. \A g \in Frames(q) : g \in Frames(MutationCalls(k, t, n, t)) \/ g.op # "rivals"
    BY <2>2
  <2> QED
    BY <1>1, <1>4, <2>5, <2>6, <2>7, <2>8, <2>9, WriteOrder
<1> QED
  BY <1>2, <1>3, <1>4, RollupStep

\* No step leaves a stale snapshot behind.
LEMMA FreshHolds ==
    ASSUME GraphInv, FreshInv, DecisionsDoNotInfer, [Next]_vars PROVE FreshInv'
<1>1. CASE RunRule
  BY <1>1, RunRuleOrder
<1>2. CASE Unresolved \/ SynthesizeAmbiguity \/ MarkAmbiguous \/ Supersede \/ EmitAction
  <2>1. stack # <<>> /\ stack' = Tail(stack) /\ UNCHANGED node
    BY <1>2 DEF Unresolved, SynthesizeAmbiguity, MarkAmbiguous, Supersede, EmitAction, Resolved
  <2> QED
    BY <2>1, PopOrder
<1>3. CASE Infer
  BY <1>3, InferOrder
<1>4. CASE Rollup
  BY <1>4, RollupOrder
<1>5. CASE EmitProblem
  BY <1>5, EmitOrder
<1>6. CASE Fire
  BY <1>6, FireOrder
<1>7. CASE Advance \/ Sweep \/ Idle \/ UNCHANGED vars
  <2>1. UNCHANGED <<stack, node>>
    BY <1>7 DEF Advance, Sweep, Idle, vars, graph
  <2> QED
    BY <2>1 DEF FreshInv, Ordered, SnapshotsFresh, Rank
<1> QED
  BY <1>1, <1>2, <1>3, <1>4, <1>5, <1>6, <1>7 DEF Next

\* Roll-up is MAX: between batches the confidence of a cause that only roll-up has
\* written is the largest of its children's, for every image (exec_infer's
\* propagation to the target's own partition).
THEOREM RollupTakesMax == Spec => []RollupIsMax
<1>1. Init => RollupInv
  BY DEF Init, RollupInv, NoNode
<1>2. GraphInv /\ RollupInv /\ [Next]_vars => RollupInv'
  BY RollupHolds
<1>3. RollupInv => RollupIsMax
  BY DEF RollupInv, RollupIsMax, Quiescent, RollupPending, IsMax, Frames
<1> QED
  BY <1>1, <1>2, <1>3, GraphInvariant, PTL DEF Spec

\* Every confidence the engine keeps or acts on is current, whatever the image's
\* rules are that the verifier accepts: a roll-up is the maximum of the children,
\* and ambiguity synthesis never works on a confidence that has moved since.
THEOREM ConfidencesStayCurrent ==
    ASSUME DecisionsDoNotInfer
    PROVE  Spec => []ConfidencesCurrent
<1>1. Init => FreshInv
  BY DEF Init, FreshInv, Ordered, SnapshotsFresh
<1>2. GraphInv /\ FreshInv /\ [Next]_vars => FreshInv'
  BY FreshHolds
<1>3. FreshInv => SnapshotsFresh
  BY DEF FreshInv
<1>4. RollupIsMax /\ SnapshotsFresh => ConfidencesCurrent
  BY DEF ConfidencesCurrent
<1> QED
  BY <1>1, <1>2, <1>3, <1>4, GraphInvariant, RollupTakesMax, PTL DEF Spec

-----------------------------------------------------------------------------
(* The life of an ambiguity. *)

\* What the sink has been told stays told.
LogStays == \A i \in DOMAIN audit : i \in DOMAIN audit' /\ audit'[i] = audit[i]

\* A step that neither opens an ambiguity nor synthesizes a problem.
LEMMA ToldStays ==
    ASSUME NEW s, NEW t, Told(s, t), LogStays,
           OpenPairs(s, t)' = OpenPairs(s, t), Synthesized(s, t)' = Synthesized(s, t)
    PROVE  Told(s, t)'
BY DEF Told, LogStays

\* Which pairs are open depends on the ambiguities' states alone, and which problems
\* are synthesized on the problems'.
LEMMA SameAmbiguities ==
    ASSUME NEW s, NEW t
    PROVE  /\ UNCHANGED ambig => OpenPairs(s, t)' = OpenPairs(s, t)
           /\ UNCHANGED problems => Synthesized(s, t)' = Synthesized(s, t)
           /\ UNCHANGED audit => LogStays
BY DEF OpenPairs, Synthesized, LogStays

\* The names an ambiguity goes by; most of them stand for no two causes.
Pairs == SUBSET CauseKinds

\* The state of one ambiguity is written.
Writes(s, p, t, v) == ambig' = [ambig EXCEPT ![s][p][t] = v]

\* Writing one ambiguity (SubGraph's ambiguity map) leaves every other as it was.
LEMMA WritesOne ==
    ASSUME GraphInv, NEW s \in Scopes, NEW p \in Pairs, NEW t \in Scopes,
           NEW v \in {"none", "active", "resolved"}, Writes(s, p, t, v)
    PROVE  /\ ambig'[s][p][t] = v
           /\ \A s1 \in Scopes, p1 \in Pairs, t1 \in Scopes :
                 s1 # s \/ p1 # p \/ t1 # t => ambig'[s1][p1][t1] = ambig[s1][p1][t1]
<1>1. ambig' = [ambig EXCEPT ![s][p][t] = v]
  BY DEF Writes
<1>2. ambig \in [Scopes -> [Pairs -> [Scopes -> {"none", "active", "resolved"}]]]
  BY DEF GraphInv, TypeOK, Pairs
<1> QED
  BY <1>1, <1>2, CellWrite

\* Writing one ambiguity's state opens that one at most.
LEMMA OpenedPairs ==
    ASSUME GraphInv, NEW s \in Scopes, NEW p \in Pairs, NEW t \in Scopes,
           NEW v \in {"active", "resolved"}, Writes(s, p, t, v)
    PROVE  /\ OpenPairs(s, t)' = OpenPairs(s, t) \cup {p}
           /\ \A s1, t1 \in Scopes :
                 s1 # s \/ t1 # t => OpenPairs(s1, t1)' = OpenPairs(s1, t1)
<1>1. v \in {"none", "active", "resolved"} /\ v # "none"
  OBVIOUS
<1>2. /\ ambig'[s][p][t] = v
      /\ \A s1 \in Scopes, p1 \in Pairs, t1 \in Scopes :
            s1 # s \/ p1 # p \/ t1 # t => ambig'[s1][p1][t1] = ambig[s1][p1][t1]
  BY <1>1, WritesOne
<1>3. \A s1, t1 \in Scopes : /\ OpenPairs(s1, t1) = {q \in Pairs : ambig[s1][q][t1] # "none"}
                             /\ OpenPairs(s1, t1)' = {q \in Pairs : ambig'[s1][q][t1] # "none"}
  BY DEF OpenPairs, Pairs
<1>4. OpenPairs(s, t)' = OpenPairs(s, t) \cup {p}
  BY <1>1, <1>2, <1>3
<1>5. ASSUME NEW s1 \in Scopes, NEW t1 \in Scopes, s1 # s \/ t1 # t
      PROVE  OpenPairs(s1, t1)' = OpenPairs(s1, t1)
  <2>1. \A q \in Pairs : ambig'[s1][q][t1] = ambig[s1][q][t1]
    BY <1>2, <1>5
  <2> QED
    BY <2>1 DEF OpenPairs, Pairs
<1> QED
  BY <1>4, <1>5

\* Opening one more ambiguity does not lower the bound on what is told.
LEMMA OneMoreOpen ==
    ASSUME NEW S, IsFiniteSet(S), NEW x
    PROVE  /\ IsFiniteSet(S \cup {x}) /\ Cardinality(S) \in Nat
           /\ Cardinality(S) <= Cardinality(S \cup {x}) /\ Cardinality(S \cup {x}) \in Nat
           /\ x \notin S => Cardinality(S \cup {x}) = Cardinality(S) + 1
<1>1. Cardinality(S) \in Nat
  BY FS_CardinalityType
<1>2. /\ IsFiniteSet(S \cup {x})
      /\ Cardinality(S \cup {x}) = IF x \in S THEN Cardinality(S) ELSE Cardinality(S) + 1
  BY FS_AddElement
<1> QED
  BY <1>1, <1>2

\* A rule's report is not a synthesized one, nor does marking a report change it.
LEMMA RuleReportsKeepTold ==
    ASSUME GraphInv, ToldInv, EmitProblem \/ Supersede PROVE ToldInv'
<1>1. UNCHANGED <<ambig, audit>> /\ TypeOK
  BY DEF EmitProblem, Supersede, GraphInv
<1>2. ASSUME NEW s \in Scopes, NEW t \in Scopes
      PROVE  Synthesized(s, t)' = Synthesized(s, t)
  <2>1. CASE Supersede
    BY <1>1, <2>1, SupersedeProblems DEF Synthesized
  <2>2. CASE EmitProblem
    <3>1. PICK s1 \in Scopes, t1 \in Scopes, p \in ProblemKinds, r \in Nat \ {0} :
             Emits(s1, t1, p, r)
      BY <2>2, EmitStep, Zenon
    <3>2. CASE UNCHANGED problems
      BY <3>2 DEF Synthesized
    <3>3. CASE problems' = PushProblem(Problem(s1, p, t1, r))
      <4>1. PICK kind \in ProblemKinds \cup {"AmbiguousDiagnosis"} : kind = p
        OBVIOUS
      <4>2. PICK ps : ps = PushProblem(Problem(s1, kind, t1, r))
        OBVIOUS
      <4>3. /\ DOMAIN ps = 1..(Len(problems) + 1) /\ DOMAIN problems = 1..Len(problems)
            /\ ps[Len(problems) + 1] = Problem(s1, kind, t1, r) /\ Len(problems) \in Nat
            /\ \A j \in DOMAIN problems : ps[j] = problems[j]
        BY <1>1, <4>2, PushedProblem
      <4>4. ps = problems' /\ ps[Len(problems) + 1].rule # 0
        BY <3>3, <4>1, <4>2, <4>3, ProblemFields
      <4>5. \A j \in DOMAIN ps : j \in DOMAIN problems \/ j = Len(problems) + 1
        BY <4>3
      <4>6. \A j \in DOMAIN problems : j \in DOMAIN ps
        BY <4>3
      <4> QED
        BY <4>3, <4>4, <4>5, <4>6 DEF Synthesized
    <3> QED
      BY <3>1, <3>2, <3>3 DEF Emits
  <2> QED
    BY <2>1, <2>2
<1>3. ASSUME NEW s \in Scopes, NEW t \in Scopes PROVE Told(s, t)'
  <2>1. OpenPairs(s, t)' = OpenPairs(s, t) /\ LogStays /\ Told(s, t)
    BY <1>1, SameAmbiguities DEF ToldInv
  <2> QED
    BY <1>2, <2>1, ToldStays
<1> QED
  BY <1>3 DEF ToldInv

\* A rule's mark opens an ambiguity and tells it.
LEMMA MarkTells ==
    ASSUME GraphInv, ToldInv, MarkAmbiguous PROVE ToldInv'
<1>1. PICK f : f = Head(stack)
  OBVIOUS
<1>2. /\ Resolved("mark") /\ stack # <<>> /\ f.op = "mark" /\ f.anchor.target # NoScope
      /\ UNCHANGED problems /\ TypeOK
  BY <1>1 DEF MarkAmbiguous, Resolved, GraphInv
<1>3. PICK s \in Scopes, t \in Scopes, p \in SUBSET CauseKinds :
         s = f.scope /\ t = f.anchor.target /\ p = f.intent.pair
  BY <1>1, <1>2, HeadIntent, IntentShape DEF IntentOps
<1>4. /\ ambig' = [ambig EXCEPT ![s][p][t] = "active"] \/ UNCHANGED ambig
      /\ audit' = Append(audit, [kind |-> "mark_ambiguous", target |-> t, wm |-> wm])
  BY <1>1, <1>3 DEF MarkAmbiguous
<1>5. LogStays /\ \E i \in DOMAIN audit' : audit'[i].kind = "mark_ambiguous" /\ audit'[i].target = t
  BY <1>2, <1>4, LoggedMark DEF LogStays
<1>6. ASSUME NEW s1 \in Scopes, NEW t1 \in Scopes PROVE Told(s1, t1)'
  <2>1. Synthesized(s1, t1)' = Synthesized(s1, t1) /\ Told(s1, t1)
    BY <1>2, SameAmbiguities DEF ToldInv
  <2>2. CASE OpenPairs(s1, t1)' = OpenPairs(s1, t1)
    BY <1>5, <2>1, <2>2, ToldStays
  <2>3. CASE s1 = s /\ t1 = t /\ OpenPairs(s1, t1)' = OpenPairs(s1, t1) \cup {p}
    <3>1. PICK S : S = OpenPairs(s1, t1)
      OBVIOUS
    <3>2. IsFiniteSet(S) /\ IsFiniteSet(Synthesized(s1, t1))
          /\ Cardinality(Synthesized(s1, t1)) <= Cardinality(S)
      BY <2>1, <3>1 DEF Told
    <3>3. Cardinality(Synthesized(s1, t1)) \in Nat
      BY <3>2, FS_CardinalityType
    <3>4. /\ IsFiniteSet(S \cup {p}) /\ Cardinality(S) \in Nat
          /\ Cardinality(S) <= Cardinality(S \cup {p}) /\ Cardinality(S \cup {p}) \in Nat
      BY <3>2, OneMoreOpen
    <3> QED
      BY <1>5, <2>1, <2>3, <3>1, <3>2, <3>3, <3>4 DEF Told
  <2>4. CASE UNCHANGED ambig
    BY <2>2, <2>4, SameAmbiguities
  <2>5. CASE ambig' = [ambig EXCEPT ![s][p][t] = "active"]
    <3>1. OpenPairs(s1, t1)' = IF s1 = s /\ t1 = t THEN OpenPairs(s1, t1) \cup {p}
                               ELSE OpenPairs(s1, t1)
      <4>1. PICK v \in {"active", "resolved"} : v = "active"
        OBVIOUS
      <4>2. Writes(s, p, t, v) /\ p \in Pairs
        BY <2>5, <4>1 DEF Writes, Pairs
      <4>3. /\ OpenPairs(s, t)' = OpenPairs(s, t) \cup {p}
            /\ s1 # s \/ t1 # t => OpenPairs(s1, t1)' = OpenPairs(s1, t1)
        BY <4>2, OpenedPairs
      <4> QED
        BY <4>3
    <3> QED
      BY <2>2, <2>3, <3>1
  <2> QED
    BY <1>4, <2>4, <2>5
<1> QED
  BY <1>6 DEF ToldInv

\* A synthesis that pushes a problem opens an ambiguity that was not open.
LEMMA SynthesisTells ==
    ASSUME GraphInv, ToldInv, SynthesizeAmbiguity PROVE ToldInv'
<1>0. TypeOK
  BY DEF GraphInv
<1>1. PICK s, t \in Scopes, p \in SUBSET CauseKinds : Synthesizes(s, p, t)
  BY SynthesisStep, Zenon
<1>2. CASE UNCHANGED <<ambig, problems, audit>>
  <2>1. ASSUME NEW s1 \in Scopes, NEW t1 \in Scopes PROVE Told(s1, t1)'
    BY <1>2, SameAmbiguities, ToldStays DEF ToldInv
  <2> QED
    BY <2>1 DEF ToldInv
<1>3. CASE /\ ambig[s][p][t] = "active" /\ ambig' = [ambig EXCEPT ![s][p][t] = "resolved"]
           /\ UNCHANGED <<problems, audit>>
  <2>1. ASSUME NEW s1 \in Scopes, NEW t1 \in Scopes PROVE Told(s1, t1)'
    <3>1. OpenPairs(s1, t1)' = IF s1 = s /\ t1 = t THEN OpenPairs(s1, t1) \cup {p}
                               ELSE OpenPairs(s1, t1)
      <4>1. PICK v \in {"active", "resolved"} : v = "resolved"
        OBVIOUS
      <4>2. Writes(s, p, t, v) /\ p \in Pairs
        BY <1>3, <4>1 DEF Writes, Pairs
      <4>3. /\ OpenPairs(s, t)' = OpenPairs(s, t) \cup {p}
            /\ s1 # s \/ t1 # t => OpenPairs(s1, t1)' = OpenPairs(s1, t1)
        BY <4>2, OpenedPairs
      <4> QED
        BY <4>3
    <3>2. p \in OpenPairs(s, t)
      BY <1>3 DEF OpenPairs
    <3>3. OpenPairs(s1, t1)' = OpenPairs(s1, t1)
      BY <3>1, <3>2
    <3> QED
      BY <1>3, <3>3, SameAmbiguities, ToldStays DEF ToldInv
  <2> QED
    BY <2>1 DEF ToldInv
<1>4. CASE /\ ambig[s][p][t] = "none" /\ ambig' = [ambig EXCEPT ![s][p][t] = "active"]
           /\ problems' = PushProblem(Problem(s, "AmbiguousDiagnosis", t, 0))
           /\ audit' = Append(audit, [kind |-> "mark_ambiguous", target |-> t, wm |-> wm])
  <2>1. LogStays /\ \E i \in DOMAIN audit' : audit'[i].kind = "mark_ambiguous" /\ audit'[i].target = t
    BY <1>0, <1>4, LoggedMark DEF LogStays
  <2>2. PICK n \in Nat : n = Len(problems)
    BY <1>0 DEF TypeOK
  <2>3. /\ DOMAIN problems' = 1..(n + 1) /\ DOMAIN problems = 1..n
        /\ problems'[n + 1] = Problem(s, "AmbiguousDiagnosis", t, 0)
        /\ \A j \in DOMAIN problems : problems'[j] = problems[j]
    BY <1>0, <1>4, <2>2, PushedSynthesis
  <2>4. /\ problems'[n + 1].kind = "AmbiguousDiagnosis" /\ problems'[n + 1].rule = 0
        /\ problems'[n + 1].scope = s /\ problems'[n + 1].target = t
    BY <2>3, ProblemFields
  <2>5. ASSUME NEW s1 \in Scopes, NEW t1 \in Scopes
        PROVE  /\ n + 1 \notin Synthesized(s1, t1)
               /\ Synthesized(s1, t1)' = IF s1 = s /\ t1 = t THEN Synthesized(s1, t1) \cup {n + 1}
                                         ELSE Synthesized(s1, t1)
    <3>1. \A j \in 1..(n + 1) : j \in 1..n \/ j = n + 1
      OBVIOUS
    <3>2. \A j \in 1..n : j \in 1..(n + 1) /\ j # n + 1
      OBVIOUS
    <3>3. n + 1 \notin 1..n /\ n + 1 \in 1..(n + 1)
      OBVIOUS
    <3>4. CASE s1 = s /\ t1 = t
      BY <2>3, <2>4, <3>1, <3>2, <3>3, <3>4 DEF Synthesized
    <3>5. CASE ~(s1 = s /\ t1 = t)
      BY <2>3, <2>4, <3>1, <3>2, <3>3, <3>5 DEF Synthesized
    <3> QED
      BY <3>4, <3>5
  <2>6. p \notin OpenPairs(s, t)
    BY <1>4 DEF OpenPairs
  <2>7. ASSUME NEW s1 \in Scopes, NEW t1 \in Scopes PROVE Told(s1, t1)'
    <3>1. OpenPairs(s1, t1)' = IF s1 = s /\ t1 = t THEN OpenPairs(s1, t1) \cup {p}
                               ELSE OpenPairs(s1, t1)
      <4>1. PICK v \in {"active", "resolved"} : v = "active"
        OBVIOUS
      <4>2. Writes(s, p, t, v) /\ p \in Pairs
        BY <1>4, <4>1 DEF Writes, Pairs
      <4>3. /\ OpenPairs(s, t)' = OpenPairs(s, t) \cup {p}
            /\ s1 # s \/ t1 # t => OpenPairs(s1, t1)' = OpenPairs(s1, t1)
        BY <4>2, OpenedPairs
      <4> QED
        BY <4>3
    <3>2. Told(s1, t1)
      BY DEF ToldInv
    <3>3. CASE ~(s1 = s /\ t1 = t)
      BY <2>1, <2>5, <3>1, <3>2, <3>3, ToldStays
    <3>4. CASE s1 = s /\ t1 = t
      <4>1. PICK S : S = OpenPairs(s1, t1)
        OBVIOUS
      <4>2. PICK P : P = Synthesized(s1, t1)
        OBVIOUS
      <4>3. IsFiniteSet(S) /\ IsFiniteSet(P) /\ Cardinality(P) <= Cardinality(S)
            /\ p \notin S /\ n + 1 \notin P
        BY <2>5, <2>6, <3>2, <3>4, <4>1, <4>2 DEF Told
      <4>4. PICK i : i = n + 1
        OBVIOUS
      <4>5. /\ IsFiniteSet(S \cup {p}) /\ Cardinality(S) \in Nat
            /\ Cardinality(S \cup {p}) = Cardinality(S) + 1
        BY <4>3, OneMoreOpen
      <4>6. /\ IsFiniteSet(P \cup {i}) /\ Cardinality(P) \in Nat
            /\ Cardinality(P \cup {i}) = Cardinality(P) + 1
        BY <4>3, <4>4, OneMoreOpen
      <4>7. Cardinality(P \cup {i}) <= Cardinality(S \cup {p})
        BY <4>3, <4>5, <4>6
      <4>8. OpenPairs(s1, t1)' = S \cup {p} /\ Synthesized(s1, t1)' = P \cup {i}
        BY <2>5, <3>1, <3>4, <4>1, <4>2, <4>4
      <4> QED
        BY <2>1, <3>4, <4>5, <4>6, <4>7, <4>8 DEF Told
    <3> QED
      BY <3>3, <3>4
  <2> QED
    BY <2>7 DEF ToldInv
<1> QED
  BY <1>1, <1>2, <1>3, <1>4 DEF Synthesizes

\* What is told of an ambiguity and what is open agree after every step.
LEMMA ToldHolds ==
    ASSUME GraphInv, ToldInv, [Next]_vars PROVE ToldInv'
<1>1. CASE EmitProblem \/ Supersede
  BY <1>1, RuleReportsKeepTold
<1>2. CASE MarkAmbiguous
  BY <1>2, MarkTells
<1>3. CASE SynthesizeAmbiguity
  BY <1>3, SynthesisTells
<1>4. CASE UNCHANGED <<ambig, problems>> /\ LogStays
  <2>1. ASSUME NEW s \in Scopes, NEW t \in Scopes PROVE Told(s, t)'
    BY <1>4, SameAmbiguities, ToldStays DEF ToldInv
  <2> QED
    BY <2>1 DEF ToldInv
<1>5. CASE RunRule \/ Unresolved \/ Infer \/ Rollup \/ Fire \/ Advance \/ Sweep \/ Idle
           \/ UNCHANGED vars
  <2>1. UNCHANGED <<ambig, problems, audit>>
    BY <1>5 DEF RunRule, Unresolved, Infer, Rollup, Fire, Advance, Sweep, Idle, vars, graph
  <2> QED
    BY <1>4, <2>1, SameAmbiguities
<1>6. CASE EmitAction
  <2>1. PICK f : f = Head(stack)
    OBVIOUS
  <2>2. /\ stack # <<>> /\ f.op = "action" /\ UNCHANGED <<ambig, problems>> /\ TypeOK
        /\ audit' = Append(audit, [kind |-> f.intent.kind, target |-> f.anchor.target, wm |-> wm])
    BY <1>6, <2>1 DEF EmitAction, GraphInv
  <2>3. f.intent.kind \in LogKinds /\ f.anchor.target \in Scopes \cup {NoScope}
    BY <2>1, <2>2, HeadIntent, IntentShape DEF IntentOps, LogKinds
  <2>4. LogStays
    BY <2>2, <2>3, LoggedIntent DEF LogStays
  <2> QED
    BY <1>4, <2>2, <2>4
<1> QED
  BY <1>1, <1>2, <1>3, <1>5, <1>6 DEF Next

\* The other cause of an exclusive pair.
LEMMA RivalShape ==
    ASSUME NEW j \in DOMAIN Exclusive, NEW k \in Exclusive[j]
    PROVE  /\ k \in CauseKinds /\ Rival(Exclusive[j], k) \in CauseKinds
           /\ Exclusive[j] = {k, Rival(Exclusive[j], k)}
           /\ Exclusive[j] \in SUBSET CauseKinds
<1>1. Exclusive[j] \in {p \in SUBSET CauseKinds : \E a, o \in p : a # o /\ p = {a, o}}
  BY GraphConstants
<1>2. PICK p : p = Exclusive[j]
  OBVIOUS
<1>3. PICK a \in p, o \in p : a # o /\ p = {a, o} /\ p \in SUBSET CauseKinds
  BY <1>1, <1>2
<1>4. \E x \in p : x # k
  BY <1>3
<1>5. PICK r : r = Rival(p, k)
  OBVIOUS
<1>6. r \in p /\ r # k
  BY <1>4, <1>5, Zenon DEF Rival
<1>7. p = {k, r} /\ k \in CauseKinds /\ r \in CauseKinds
  BY <1>2, <1>3, <1>6
<1> QED
  BY <1>2, <1>3, <1>5, <1>7

\* The distance of two confidences.
LEMMA AbsShape ==
    ASSUME NEW c \in Int, NEW d \in Int
    PROVE  /\ Abs(c - d) = Abs(d - c) /\ Abs(c - c) = 0
BY DEF Abs

\* Two causes are undecided when neither is confirmed and they are close.
LEMMA UndecidedPair ==
    ASSUME GraphInv, NEW s \in Scopes, NEW t \in Scopes,
           NEW j \in DOMAIN Exclusive, NEW k \in Exclusive[j],
           LET c == node[s][k][t].conf
               d == node[s][Rival(Exclusive[j], k)][t].conf
           IN ~IsConfirmed(c) /\ ~IsConfirmed(d) /\ Close(c, d)
    PROVE  Undecided(s, t, Exclusive[j])
<1>1. PICK r \in CauseKinds : r = Rival(Exclusive[j], k)
  BY RivalShape
<1>2. k \in CauseKinds /\ Exclusive[j] = {k, r}
  BY <1>1, RivalShape
<1>3. PICK c \in 0..100, d \in 0..100 : c = node[s][k][t].conf /\ d = node[s][r][t].conf
  BY <1>1, <1>2, NodeShape DEF GraphInv
<1>4. c \in Int /\ d \in Int
  OBVIOUS
<1>5. ~IsConfirmed(c) /\ ~IsConfirmed(d) /\ Abs(c - d) < 15
  BY <1>1, <1>3 DEF Close
<1>6. Abs(d - c) < 15 /\ Abs(c - c) < 15 /\ Abs(d - d) < 15
  BY <1>4, <1>5, AbsShape
<1> QED
  BY <1>2, <1>3, <1>5, <1>6 DEF Undecided

\* What synthesis leaves active is undecided: it looked at the confidences of now.
LEMMA SynthesisDecides ==
    ASSUME GraphInv, FreshInv, SynthesizeAmbiguity,
           NEW j \in DOMAIN Exclusive, Head(stack).pair = Exclusive[j],
           NEW s, s = Head(stack).scope, NEW t, t = Head(stack).anchor.target,
           ambig'[s][Exclusive[j]][t] = "active"
    PROVE  Undecided(s, t, Exclusive[j])
<1>1. PICK f : f = Head(stack)
  OBVIOUS
<1>2. Resolved("rivals") /\ stack # <<>> /\ f \in Frames(stack) /\ f.op = "rivals"
  BY <1>1, HeadShape DEF SynthesizeAmbiguity, Resolved
<1>3. s \in Scopes /\ t \in Scopes /\ f.anchor.id \in Exclusive[j]
  BY <1>1, <1>2, HeadRivals
<1>4. PICK k \in Exclusive[j] : k = f.anchor.id
  BY <1>3
<1>5. PICK p : p = Exclusive[j]
  OBVIOUS
<1>6. PICK r \in CauseKinds : r = Rival(p, k)
  BY <1>5, RivalShape
<1>7. k \in CauseKinds
  BY RivalShape
<1>8. PICK c \in 0..100, d \in 0..100 : c = node[s][k][t].conf /\ d = node[s][r][t].conf
  BY <1>3, <1>6, <1>7, NodeShape DEF GraphInv
<1>9. f.anchor.conf = c
  BY <1>1, <1>2, <1>4, <1>8, FreshByCall DEF FreshInv, Fresh
<1>10. CASE IsProbable(c) /\ IsProbable(d) /\ Close(c, d)
  <2>1. ~IsConfirmed(c) /\ ~IsConfirmed(d)
    BY <1>10 DEF IsProbable, IsConfirmed
  <2> QED
    BY <1>3, <1>5, <1>6, <1>8, <1>10, <2>1, UndecidedPair
<1>11. CASE ~(IsProbable(c) /\ IsProbable(d) /\ Close(c, d))
  <2>1. ambig' = IF Separated(c, d) /\ ambig[s][p][t] = "active"
                 THEN [ambig EXCEPT ![s][p][t] = "resolved"] ELSE ambig
    BY <1>1, <1>4, <1>5, <1>6, <1>8, <1>9, <1>11 DEF SynthesizeAmbiguity
  <2>2. CASE Separated(c, d) /\ ambig[s][p][t] = "active"
    <3>1. PICK v \in {"none", "active", "resolved"} : v = "resolved"
      OBVIOUS
    <3>2. Writes(s, p, t, v) /\ p \in Pairs
      BY <1>5, <2>1, <2>2, <3>1, RivalShape DEF Writes, Pairs
    <3>3. ambig'[s][p][t] = v
      BY <1>3, <3>2, WritesOne
    <3> QED
      BY <1>5, <3>1, <3>3
  <2>3. CASE ~(Separated(c, d) /\ ambig[s][p][t] = "active")
    <3>1. ambig[s][p][t] = "active"
      BY <1>5, <2>1, <2>3
    <3>2. ~IsConfirmed(c) /\ ~IsConfirmed(d) /\ Close(c, d)
      BY <2>3, <3>1 DEF Separated
    <3> QED
      BY <1>3, <1>5, <1>6, <1>8, <3>2, UndecidedPair
  <2> QED
    BY <2>2, <2>3
<1> QED
  BY <1>10, <1>11

\* A synthesis that is pending stays so until it runs.
LEMMA SynthesisStaysPending ==
    ASSUME GraphInv, [Next]_vars, NEW s, NEW t, NEW p, SynthesisPending(s, t, p)
    PROVE  \/ SynthesisPending(s, t, p)'
           \/ /\ SynthesizeAmbiguity /\ Head(stack).pair = p
              /\ Head(stack).scope = s /\ Head(stack).anchor.target = t
<1>1. PICK f \in Frames(stack) : /\ f.op = "rivals" /\ f.pair = p
                                 /\ f.scope = s /\ f.anchor.target = t
  BY DEF SynthesisPending
<1>2. CASE Work
  <2>1. CASE f \in Frames(Tail(stack))
    BY <1>1, <1>2, <2>1, WorkStack DEF SynthesisPending
  <2>2. CASE f = Head(stack)
    <3>1. SynthesizeAmbiguity
      BY <1>1, <1>2, <2>2 DEF Work, RunRule, Unresolved, Infer, Rollup, SynthesizeAmbiguity,
            MarkAmbiguous, EmitProblem, Supersede, EmitAction, Resolved
    <3> QED
      BY <1>1, <2>2, <3>1
  <2> QED
    BY <1>1, <1>2, <2>1, <2>2, WorkStack
<1>3. CASE ~Work
  <2>1. stack = <<>> \/ stack' = stack
    BY <1>3 DEF Next, Work, Fire, Advance, Sweep, Idle, vars
  <2>2. stack' = stack
    BY <1>1, <2>1 DEF Frames
  <2> QED
    BY <1>1, <2>2 DEF SynthesisPending
<1> QED
  BY <1>2, <1>3

\* A rule's mark is one of those the image's rules may make.
LEMMA MarkIsMarked ==
    ASSUME GraphInv, MarkAmbiguous PROVE Head(stack).intent.pair \in MarkedByRules
<1>1. PICK f : f = Head(stack)
  OBVIOUS
<1>2. /\ f.rule \in DOMAIN Rules /\ f.intent.op = "mark" /\ f.intent \in IntentsOf(f.rule)
  BY <1>1, HeadIntent DEF MarkAmbiguous, Resolved, IntentOps
<1>3. PICK b : /\ b \in {Rules[f.rule].body, Rules[f.rule].else, Rules[f.rule].unk}
               /\ \E l \in DOMAIN b : f.intent = b[l]
  BY <1>2 DEF IntentsOf
<1>4. PICK l \in DOMAIN b : f.intent = b[l]
  BY <1>3
<1>5. PICK B : B = UNION {{Rules[i].body, Rules[i].else, Rules[i].unk} : i \in DOMAIN Rules}
  OBVIOUS
<1>6. b \in B
  BY <1>2, <1>3, <1>5
<1>7. f.intent.pair \in {b[j].pair : j \in {m \in DOMAIN b : b[m].op = "mark"}}
  BY <1>2, <1>4
<1>8. MarkedByRules = UNION {{x[j].pair : j \in {m \in DOMAIN x : x[m].op = "mark"}} : x \in B}
  BY <1>5 DEF MarkedByRules
<1> QED
  BY <1>1, <1>6, <1>7, <1>8

\* An ambiguity becomes active by a rule's mark or by its own synthesis.
LEMMA BecomesActive ==
    ASSUME GraphInv, [Next]_vars, NEW s \in Scopes, NEW t \in Scopes, NEW p \in Pairs,
           p \notin MarkedByRules, ambig'[s][p][t] = "active"
    PROVE  \/ ambig[s][p][t] = "active"
           \/ /\ SynthesizeAmbiguity /\ Head(stack).pair = p
              /\ Head(stack).scope = s /\ Head(stack).anchor.target = t
<1>1. CASE SynthesizeAmbiguity
  <2>1. PICK s1, t1 \in Scopes, p1 \in SUBSET CauseKinds :
             /\ s1 = Head(stack).scope /\ t1 = Head(stack).anchor.target /\ p1 = Head(stack).pair
             /\ Synthesizes(s1, p1, t1)
    BY <1>1, SynthesisStep, Zenon
  <2>2. CASE UNCHANGED ambig
    BY <2>2
  <2>3. ASSUME NEW v \in {"none", "active", "resolved"}, Writes(s1, p1, t1, v)
        PROVE  ambig'[s][p][t] = ambig[s][p][t] \/ (s = s1 /\ p = p1 /\ t = t1)
    <3>1. p1 \in Pairs
      BY DEF Pairs
    <3> QED
      BY <2>3, <3>1, WritesOne
  <2>4. PICK a \in {"none", "active", "resolved"}, b \in {"none", "active", "resolved"} :
           a = "active" /\ b = "resolved"
    OBVIOUS
  <2>5. UNCHANGED ambig \/ Writes(s1, p1, t1, a) \/ Writes(s1, p1, t1, b)
    BY <2>1, <2>4 DEF Synthesizes, Writes
  <2> QED
    BY <1>1, <2>1, <2>2, <2>3, <2>5
<1>2. CASE MarkAmbiguous
  <2>1. PICK f : f = Head(stack)
    OBVIOUS
  <2>2. /\ Resolved("mark") /\ stack # <<>> /\ f.op = "mark" /\ f.anchor.target # NoScope
    BY <1>2, <2>1 DEF MarkAmbiguous, Resolved
  <2>3. PICK s1 \in Scopes, t1 \in Scopes, p1 \in SUBSET CauseKinds :
           s1 = f.scope /\ t1 = f.anchor.target /\ p1 = f.intent.pair
    BY <2>1, <2>2, HeadIntent, IntentShape DEF IntentOps
  <2>4. PICK v \in {"none", "active", "resolved"} : v = "active"
    OBVIOUS
  <2>5. (Writes(s1, p1, t1, v) \/ UNCHANGED ambig) /\ p1 \in Pairs
    BY <1>2, <2>1, <2>3, <2>4 DEF MarkAmbiguous, Writes, Pairs
  <2>6. p # p1
    BY <1>2, <2>1, <2>3, MarkIsMarked
  <2> QED
    BY <2>5, <2>6, WritesOne
<1>3. CASE ~SynthesizeAmbiguity /\ ~MarkAmbiguous
  <2>1. UNCHANGED ambig
    BY <1>3 DEF Next, RunRule, Unresolved, Infer, Rollup, EmitProblem, Supersede, EmitAction,
          Fire, Advance, Sweep, Idle, vars, graph
  <2> QED
    BY <2>1
<1> QED
  BY <1>1, <1>2, <1>3

\* A confidence that moves has the syntheses of all its cause's pairs pending.
LEMMA WriteStartsSynthesis ==
    ASSUME GraphInv, NEW k \in CauseKinds, NEW s1 \in Scopes, NEW t1 \in Scopes,
           NEW n \in NodeType, NEW q \in Seq(CallType), stack # <<>>,
           node' = [node EXCEPT ![s1][k][t1] = n], stack' = q \o Tail(stack),
           Frames(MutationCalls(k, t1, n, s1)) \subseteq Frames(q),
           NEW s \in Scopes, NEW t \in Scopes, NEW j \in DOMAIN Exclusive
    PROVE  SynthesisPending(s, t, Exclusive[j])' \/ (Undecided(s, t, Exclusive[j])
              => Undecided(s, t, Exclusive[j])')
<1>1. stack \in Seq(CallType) /\ deployment \in Deployments
      /\ node \in [Scopes -> [CauseKinds -> [Scopes -> NodeType]]]
  BY DEF GraphInv, TypeOK
<1>2. CASE s = s1 /\ t = t1 /\ k \in Exclusive[j]
  <2>1. PICK a : a = CauseAnchor(k, t1, n)
    OBVIOUS
  <2>2. n.time \in Int /\ n.conf \in Int
    BY NodeNumbers, Zenon
  <2>3. Rivals(a, s1, Exclusive[j]) \in Frames(MutationCalls(k, t1, n, s1))
    BY <1>1, <1>2, <2>1, <2>2, MutationCallsShape
  <2>4. Frames(stack') = Frames(q) \cup Frames(Tail(stack))
    BY <1>1, PushFrames
  <2>5. PICK g : g = Rivals(a, s1, Exclusive[j])
    OBVIOUS
  <2>6. g.op = "rivals" /\ g.pair = Exclusive[j] /\ g.scope = s /\ g.anchor.target = t
    BY <1>2, <2>1, <2>5 DEF Rivals, CauseAnchor
  <2>7. g \in Frames(stack')
    BY <2>3, <2>4, <2>5
  <2> QED
    BY <2>6, <2>7 DEF SynthesisPending
<1>3. CASE ~(s = s1 /\ t = t1 /\ k \in Exclusive[j])
  <2>1. \A c \in Exclusive[j] : c \in CauseKinds /\ (s # s1 \/ c # k \/ t # t1)
    BY <1>3, RivalShape
  <2>2. \A c \in Exclusive[j] : node'[s][c][t] = node[s][c][t]
    BY <1>1, <2>1
  <2> QED
    BY <2>2 DEF Undecided
<1> QED
  BY <1>2, <1>3

\* An active ambiguity that no rule marks stays undecided, or its synthesis is coming.
LEMMA ActiveHolds ==
    ASSUME GraphInv, FreshInv, ActiveInv, [Next]_vars PROVE ActiveInv'
<1>1. UNCHANGED deployment
  BY DEF Next, RunRule, Unresolved, Infer, Rollup, SynthesizeAmbiguity, MarkAmbiguous,
         EmitProblem, Supersede, EmitAction, Fire, Advance, Sweep, Idle, vars
<1>2. MarkedByRules' = MarkedByRules
  BY <1>1 DEF MarkedByRules, Rules
<1>3. SUFFICES ASSUME NEW s \in Scopes, NEW t \in Scopes, NEW j \in DOMAIN Exclusive,
                      ambig'[s][Exclusive[j]][t] = "active", Exclusive[j] \notin MarkedByRules
               PROVE  (Undecided(s, t, Exclusive[j]) \/ SynthesisPending(s, t, Exclusive[j]))'
  BY <1>2 DEF ActiveInv
<1>4. PICK p \in Pairs : p = Exclusive[j]
  <2>1. Exclusive[j] \in SUBSET CauseKinds
    BY GraphConstants
  <2> QED
    BY <2>1 DEF Pairs
<1>5. CASE /\ SynthesizeAmbiguity /\ Head(stack).pair = p
           /\ Head(stack).scope = s /\ Head(stack).anchor.target = t
  <2>1. Undecided(s, t, Exclusive[j])
    BY <1>3, <1>4, <1>5, SynthesisDecides
  <2>2. UNCHANGED node
    BY <1>5 DEF SynthesizeAmbiguity
  <2> QED
    BY <2>1, <2>2 DEF Undecided
<1>6. CASE ~(/\ SynthesizeAmbiguity /\ Head(stack).pair = p
             /\ Head(stack).scope = s /\ Head(stack).anchor.target = t)
  <2>1. ambig[s][p][t] = "active"
    BY <1>3, <1>4, <1>6, BecomesActive
  <2>2. Undecided(s, t, p) \/ SynthesisPending(s, t, p)
    BY <1>3, <1>4, <2>1 DEF ActiveInv
  <2>3. SynthesisPending(s, t, p) => SynthesisPending(s, t, p)'
    BY <1>6, SynthesisStaysPending
  <2>4. CASE UNCHANGED node
    BY <1>4, <2>2, <2>3, <2>4 DEF Undecided
  <2>5. CASE Infer /\ ~UNCHANGED node
    <3>1. Resolved("infer") /\ stack # <<>> /\ deployment \in Deployments
      BY <2>5 DEF Infer, Resolved, GraphInv, TypeOK
    <3>2. PICK k1 \in CauseKinds, s1 \in Scopes, t1 \in Scopes, n \in NodeType :
             /\ k1 = Head(stack).intent.cause /\ s1 = Head(stack).scope
             /\ t1 = Head(stack).anchor.target /\ n = Inferred
      BY <3>1, HeadInfer, InferredShape
    <3>3. PICK q : q = InferCalls(k1, t1, n, s1)
      OBVIOUS
    <3>4. /\ q \in Seq(CallType)
          /\ Frames(MutationCalls(k1, t1, n, s1)) \subseteq Frames(q)
      BY <3>1, <3>3, InferCallsShape
    <3>5. /\ node' = [node EXCEPT ![s1][k1][t1] = n]
          /\ stack' = q \o Tail(stack)
      BY <2>5, <3>2, <3>3, InferStep
    <3>6. SynthesisPending(s, t, Exclusive[j])' \/ (Undecided(s, t, Exclusive[j])
              => Undecided(s, t, Exclusive[j])')
      BY <3>1, <3>4, <3>5, WriteStartsSynthesis
    <3> QED
      BY <1>4, <2>2, <2>3, <3>6
  <2>6. CASE Rollup /\ ~UNCHANGED node
    <3>1. Resolved("rollup") /\ stack # <<>> /\ deployment \in Deployments
      BY <2>6 DEF Rollup, Resolved, GraphInv, TypeOK
    <3>2. PICK k1 \in CauseKinds, t1 \in Scopes, n \in NodeType :
             /\ k1 = Head(stack).anchor.id
             /\ t1 = Head(stack).anchor.target /\ n = RolledUp
      BY <3>1, HeadRollup, RolledUpShape
    <3>3. PICK q : q = MutationCalls(k1, t1, n, t1)
      OBVIOUS
    <3>4. n.time \in Int /\ n.conf \in 0..100
      BY Zenon DEF NodeType
    <3>5. n.time \in Int /\ n.conf \in Int
      BY <3>4
    <3>6. q \in Seq(CallType)
      BY <3>1, <3>3, <3>5, MutationCallsShape
    <3>7. /\ node' = [node EXCEPT ![t1][k1][t1] = n]
          /\ stack' = q \o Tail(stack)
      BY <2>6, <3>2, <3>3, RollupStep
    <3>8. SynthesisPending(s, t, Exclusive[j])' \/ (Undecided(s, t, Exclusive[j])
              => Undecided(s, t, Exclusive[j])')
      BY <3>1, <3>3, <3>6, <3>7, WriteStartsSynthesis
    <3> QED
      BY <1>4, <2>2, <2>3, <3>8
  <2> QED
    BY <2>4, <2>5, <2>6, NodesWritten
<1> QED
  BY <1>5, <1>6

\* The life of an ambiguity: one that synthesis has opened is open only while it is
\* undecided, whichever of its causes moved last, and it is told once to the problems
\* and never opened behind the sink's back (synthesize_ambiguity, exec_mark_ambiguous).
THEOREM AmbiguitiesLive ==
    ASSUME DecisionsDoNotInfer
    PROVE  Spec => []AmbiguityLife
<1>1. Init => FreshInv
  BY DEF Init, FreshInv, Ordered, SnapshotsFresh
<1>2. Init => ToldInv
  <2> SUFFICES ASSUME Init PROVE ToldInv
    OBVIOUS
  <2>1. ASSUME NEW s \in Scopes, NEW t \in Scopes PROVE OpenPairs(s, t) = {} /\ Synthesized(s, t) = {}
    BY DEF Init, OpenPairs, Synthesized
  <2>2. IsFiniteSet({}) /\ Cardinality({}) = 0
    BY FS_EmptySet
  <2> QED
    BY <2>1, <2>2 DEF ToldInv, Told
<1>3. Init => ActiveInv
  <2> SUFFICES ASSUME Init, NEW s \in Scopes, NEW t \in Scopes, NEW j \in DOMAIN Exclusive
               PROVE  ambig[s][Exclusive[j]][t] # "active"
    BY DEF ActiveInv
  <2>1. Exclusive[j] \in SUBSET CauseKinds
    BY GraphConstants
  <2> QED
    BY <2>1 DEF Init
<1>4. GraphInv /\ FreshInv /\ [Next]_vars => FreshInv'
  BY FreshHolds
<1>5. GraphInv /\ ToldInv /\ [Next]_vars => ToldInv'
  BY ToldHolds
<1>6. GraphInv /\ FreshInv /\ ActiveInv /\ [Next]_vars => ActiveInv'
  BY ActiveHolds
<1>7. ActiveInv => ActiveIsUndecided
  BY DEF ActiveInv, ActiveIsUndecided, Quiescent, Undecided, SynthesisPending, Frames
<1>8. ToldInv => ToldOnce
  BY DEF ToldInv, Told, ToldOnce, OpenPairs, Synthesized
<1>9. ActiveIsUndecided /\ ToldOnce => AmbiguityLife
  BY DEF AmbiguityLife
<1> QED
  BY <1>1, <1>2, <1>3, <1>4, <1>5, <1>6, <1>7, <1>8, <1>9, GraphInvariant, PTL DEF Spec
=============================================================================
