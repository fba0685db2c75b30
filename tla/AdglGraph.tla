------------------------------- MODULE AdglGraph -------------------------------
(***************************************************************************)
(* What a running ADGL rule does to the diagnostic graph: the intents of   *)
(* its body, the decision rules they trigger in turn, cross-scope roll-up  *)
(* and ambiguity synthesis, all under one firing budget.                   *)
(*                                                                         *)
(* Source: crates/airpulse_dsl-evaluator/src/engine.rs (run_rule and the   *)
(* exec_ functions) and crates/airpulse_dsl-store/src/subgraph.rs.         *)
(*                                                                         *)
(* The engine is a depth-first recursion; here its call stack is explicit  *)
(* (stack, head first) and every call that changes the graph is a step.    *)
(* Which rules match an event, when, and what their event correlates bind  *)
(* to is AdglStream.tla; here a rule run is handed its anchor.             *)
(*                                                                         *)
(* Abstractions: every target path denotes the anchor's target; evidence   *)
(* edges, severities and SARIF ids only explain a node and are left out; a *)
(* problem's node id is its position in problems.                          *)
(***************************************************************************)
EXTENDS Integers, FiniteSets, Sequences

CONSTANTS
    Scopes,        \* scope instances (partitions and targets)
    TypeOf,        \* [Scopes -> ScopeTypes]
    CauseKinds, ProblemKinds, EventTypes,
    Deployments,   \* what an engine may be started with, see below
    Exclusive,     \* the effective exclusivity groups, as a sequence of pairs of causes
    Topo,          \* [Scopes -> [Scopes -> {"T","F","U"}]]: anchor target, candidate target
    MaxCauses,     \* max_causes_per_scope
    Cooldown,      \* Engine::problem_cooldown
    MaxLookback, DedupWindow,
    MaxFires       \* bound: number of rule batches the stream hands over

NoScope == "unresolved"            \* a target key the interner does not know

ScopeTypes == {"Session", "ClientMac", "Vlan", "Port", "AccessPoint", "Global"}

\* ScopeType::parent
Parent == [t \in ScopeTypes \cup {"none"} |->
             IF t \in {"Session", "ClientMac"} THEN "Vlan"
             ELSE IF t \in {"Vlan", "Port", "AccessPoint"} THEN "Global" ELSE "none"]

\* ScopeType::is_subsumed_by: b is a or an ancestor of a.
SubsumedBy(a, b) == b \in {a, Parent[a], Parent[Parent[a]]}

IntentType ==
    [op : {"infer"}, cause : CauseKinds, weight : -100..100]
    \cup [op : {"emit"}, problem : ProblemKinds, own : BOOLEAN]
    \cup [op : {"supersede"}, problem : ProblemKinds]
    \cup [op : {"mark"}, pair : SUBSET CauseKinds]
    \cup [op : {"action"}, kind : STRING]

CorrelateType == [src : {"cause", "problem"}, kind : CauseKinds \cup ProblemKinds,
                  back : Nat, fwd : Nat, min : Nat]

\* lo..hi is the range of confidence a Cause anchor's predicate accepts; a rule
\* with a correlate branches on present(correlate).
RuleOn(source, names) ==
    [src : {source}, on : names, scope : ScopeTypes, lo : Int, hi : Int,
     corr : Seq(CorrelateType),
     body : Seq(IntentType), else : Seq(IntentType), unk : Seq(IntentType)]

RuleType == RuleOn("event", EventTypes) \cup RuleOn("cause", CauseKinds)
            \cup RuleOn("problem", ProblemKinds)

\* The image's rules in declaration order, max_rule_firings_per_event, and the
\* environment: the values of the watermark and of anchor times, and the scopes
\* the events' target fields name, or NoScope.
DeploymentType == [rules : Seq(RuleType), firings : Nat, times : SUBSET Int,
                   targets : SUBSET (Scopes \cup {NoScope})]

ASSUME GraphConstants ==
    /\ TypeOf \in [Scopes -> ScopeTypes] /\ NoScope \notin Scopes
    /\ Deployments \subseteq DeploymentType
    /\ Exclusive \in Seq({p \in SUBSET CauseKinds : \E k, o \in p : k # o /\ p = {k, o}})
    /\ Topo \in [Scopes -> [Scopes -> {"T", "F", "U"}]]
    /\ {MaxCauses, Cooldown, MaxLookback, DedupWindow, MaxFires} \subseteq Nat

VARIABLES
    deployment, \* what this engine was started with
    wm,         \* GraphStore::watermark
    swept,      \* gc_sweep has run since the last advance
    node,       \* SubGraph::causes: [scope -> [cause -> [target -> CauseNode]]]
    problems,   \* SubGraph::problems of every partition, in emission order
    ambig,      \* SubGraph::ambiguities: [scope -> [pair -> [target -> state]]]
    prov,       \* SubGraph::seen_provenance
    emitted,    \* SubGraph::emitted_problems
    stack,      \* the engine's pending calls, next one first
    budget,     \* firings left in this batch
    audit,      \* the sink's log
    refused,    \* runs refused by the budget (ADGL3103)
    overCap,    \* infers refused by max_causes_per_scope, unresolved targets
    fires       \* batches so far

Rules      == deployment.rules
MaxFirings == deployment.firings
Times      == deployment.times
Targets    == deployment.targets

graph == <<node, problems, ambig, prov, emitted, audit, refused, overCap>>
vars  == <<deployment, wm, swept, graph, stack, budget, fires>>

-----------------------------------------------------------------------------
NoNode == [in |-> FALSE, conf |-> 0, time |-> 0, from |-> <<>>]

WindowId(t) == t \div (IF DedupWindow > 1 THEN DedupWindow ELSE 1)

Abs(n) == IF n < 0 THEN -n ELSE n

\* Confidence::apply
Apply(c, w) == IF c + w < 0 THEN 0 ELSE IF c + w > 100 THEN 100 ELSE c + w

IsProbable(c)  == 40 <= c /\ c <= 79
IsConfirmed(c) == c >= 80

CausesIn(s) == {kt \in CauseKinds \X Scopes : node[s][kt[1]][kt[2]].in}

\* A call of the engine: what to do, for which rule, about which anchor, where.
Call(op, r, a, s) == [op |-> op, rule |-> r, anchor |-> a, scope |-> s]

EventAnchor(t, tgt)      == [src |-> "event", id |-> 0, target |-> tgt, time |-> t, conf |-> 0]
CauseAnchor(k, tgt, n)   == [src |-> "cause", id |-> k, target |-> tgt, time |-> n.time,
                             conf |-> n.conf]
ProblemAnchor(i, tgt, t) == [src |-> "problem", id |-> i, target |-> tgt, time |-> t, conf |-> 0]

\* The positions M in ascending order: declaration order (ProgramImage::rules_for).
InOrder(M) ==
    [n \in 1..Cardinality(M) |-> CHOOSE i \in M : Cardinality({j \in M : j < i}) = n - 1]

RulesFor(src, name, s) ==
    {i \in DOMAIN Rules : /\ Rules[i].src = src /\ Rules[i].on = name
                          /\ Rules[i].scope = TypeOf[s]}

RuleCalls(M, a, s) ==
    LET order == InOrder(M) IN [j \in DOMAIN order |-> Call("rule", order[j], a, s)]

-----------------------------------------------------------------------------
(* Engine::run_rule with Problem and Cause correlates (resolve_bindings). *)

CorrelateTargets(c, a, s) ==
    IF c.src = "problem"
    THEN [i \in {j \in DOMAIN problems :
                   /\ problems[j].scope = s /\ problems[j].kind = c.kind
                   /\ ~(a.src = "problem" /\ a.id = j)
                   /\ a.time - c.back <= problems[j].time
                   /\ problems[j].time <= a.time + c.fwd} |-> problems[i].target]
    ELSE [t \in {u \in Scopes :
                   /\ node[s][c.kind][u].in
                   /\ ~(a.src = "cause" /\ a.id = c.kind /\ a.target = u)
                   /\ a.time - c.back <= node[s][c.kind][u].time
                   /\ node[s][c.kind][u].time <= a.time + c.fwd} |-> t]

Verdict(c, a, s) ==
    LET found == CorrelateTargets(c, a, s)
        Answering(v) == {x \in DOMAIN found :
                           (IF a.target = NoScope THEN "U" ELSE Topo[a.target][found[x]]) = v}
    IN IF Cardinality(Answering("T")) >= c.min /\ Answering("T") # {} THEN "present"
       ELSE IF Answering("U") # {} \/ Cardinality(Answering("T")) >= c.min THEN "unknown"
       ELSE "absent"

Body(r, a, s) ==
    IF Rules[r].corr = <<>> THEN Rules[r].body
    ELSE CASE Verdict(Rules[r].corr[1], a, s) = "present" -> Rules[r].body
           [] Verdict(Rules[r].corr[1], a, s) = "absent"  -> Rules[r].else
           [] OTHER                                       -> Rules[r].unk

IntentCalls(r, a, s) ==
    LET b == Body(r, a, s)
    IN [j \in DOMAIN b |-> [op |-> b[j].op, rule |-> r, anchor |-> a, scope |-> s,
                            intent |-> b[j]]]

RunRule ==
    /\ stack # <<>> /\ Head(stack).op = "rule"
    /\ LET f == Head(stack)
       IN IF budget = 0
          THEN /\ refused' = refused \cup {[rule |-> f.rule, target |-> f.anchor.target,
                                            scope |-> f.scope]}
               /\ stack' = Tail(stack)
               /\ UNCHANGED budget
          ELSE /\ budget' = budget - 1
               /\ stack' = IntentCalls(f.rule, f.anchor, f.scope) \o Tail(stack)
               /\ UNCHANGED refused
    /\ UNCHANGED <<deployment, wm, swept, node, problems, ambig, prov, emitted, audit, overCap, fires>>

\* exec_intents with a target that does not resolve: a diagnostic, nothing else.
\* An action goes to the sink without its target; an emit without a target path
\* is about the rule's scope.
Unresolved ==
    /\ stack # <<>> /\ Head(stack).op \in {"infer", "emit", "supersede", "mark"}
    /\ Head(stack).anchor.target = NoScope
    /\ Head(stack).op = "emit" => ~Head(stack).intent.own
    /\ overCap' = overCap \cup {[code |-> "UnresolvedTarget", scope |-> Head(stack).scope]}
    /\ stack' = Tail(stack)
    /\ UNCHANGED <<deployment, wm, swept, node, problems, ambig, prov, emitted, budget, audit, refused, fires>>

Resolved(op) == stack # <<>> /\ Head(stack).op = op /\ Head(stack).anchor.target # NoScope

-----------------------------------------------------------------------------
(* exec_infer and the roll-up it may start. *)

\* on_confidence_mutation: the decision rules on this cause whose predicate the
\* snapshot satisfies, then ambiguity synthesis with the same snapshot.
MutationCalls(k, t, n, s) ==
    LET a      == CauseAnchor(k, t, n)
        firing == {i \in RulesFor("cause", k, s) : Rules[i].lo <= n.conf /\ n.conf <= Rules[i].hi}
        pairs  == InOrder({i \in DOMAIN Exclusive : k \in Exclusive[i]})
    IN RuleCalls(firing, a, s)
       \o [j \in DOMAIN pairs |-> [op |-> "rivals", rule |-> 0, anchor |-> a, scope |-> s,
                                   pair |-> Exclusive[pairs[j]]]]

ProvKey(r, k, t, s, time) ==
    [rule |-> r, cause |-> k, target |-> t, scope |-> s, win |-> WindowId(time)]

AfterInfer(k, t, n, s) ==
    MutationCalls(k, t, n, s)
    \o (IF s # t /\ SubsumedBy(TypeOf[s], TypeOf[t])
        THEN <<[op |-> "rollup", rule |-> 0, anchor |-> CauseAnchor(k, t, n), scope |-> s]>>
        ELSE <<>>)
    \o Tail(stack)

AtCapacity(s, k, t) == ~node[s][k][t].in /\ Cardinality(CausesIn(s)) >= MaxCauses

Infer ==
    /\ Resolved("infer")
    /\ LET f   == Head(stack)
           s   == f.scope
           k   == f.intent.cause
           t   == f.anchor.target
           key == ProvKey(f.rule, k, t, s, f.anchor.time)
           old == node[s][k][t]
           new == [in   |-> TRUE,
                   conf |-> Apply(old.conf, f.intent.weight),
                   time |-> IF old.in THEN old.time ELSE f.anchor.time,
                   from |-> Append(old.from, [key |-> key, weight |-> f.intent.weight])]
       IN \/ /\ AtCapacity(s, k, t)
             /\ overCap' = overCap \cup {[code |-> "CauseCapacity", scope |-> s]}
             /\ stack' = Tail(stack)
             /\ UNCHANGED <<node, prov>>
          \/ /\ ~AtCapacity(s, k, t) /\ key \in prov
             /\ stack' = Tail(stack)
             /\ UNCHANGED <<node, prov, overCap>>
          \/ /\ ~AtCapacity(s, k, t) /\ key \notin prov
             /\ prov' = prov \cup {key}
             /\ node' = [node EXCEPT ![s][k][t] = new]
             /\ stack' = AfterInfer(k, t, new, s)
             /\ UNCHANGED overCap
    /\ UNCHANGED <<deployment, wm, swept, problems, ambig, emitted, budget, audit, refused, fires>>

\* The partitions that count for a roll-up of (k, t): every scope below t's type.
Children(k, t) == {s \in Scopes \ {t} : SubsumedBy(TypeOf[s], TypeOf[t]) /\ node[s][k][t].in}

ChildMax_Sum(k, t, s) == Apply(node[t][k][t].conf, node[s][k][t].conf)   \* slip: adds up
ChildMax(k, t, s) ==
    CHOOSE m \in {node[c][k][t].conf : c \in Children(k, t)} :
        \A c \in Children(k, t) : node[c][k][t].conf <= m

AfterRollup_Silent(k, t, n) == <<>>         \* slip: the parent's decisions are not re-run
AfterRollup(k, t, n) == MutationCalls(k, t, n, t)

Rollup ==
    /\ Resolved("rollup")
    /\ LET f   == Head(stack)
           k   == f.anchor.id
           t   == f.anchor.target
           new == [node[t][k][t] EXCEPT !.in = TRUE, !.conf = ChildMax(k, t, f.scope),
                                        !.time = IF node[t][k][t].in THEN @ ELSE wm]
       IN \/ /\ AtCapacity(t, k, t)
             /\ overCap' = overCap \cup {[code |-> "CauseCapacity", scope |-> t]}
             /\ stack' = Tail(stack)
             /\ UNCHANGED node
          \/ /\ ~AtCapacity(t, k, t)
             /\ node' = [node EXCEPT ![t][k][t] = new]
             /\ stack' = AfterRollup(k, t, new) \o Tail(stack)
             /\ UNCHANGED overCap
    /\ UNCHANGED <<deployment, wm, swept, problems, ambig, prov, emitted, budget, audit, refused, fires>>

-----------------------------------------------------------------------------
(* synthesize_ambiguity for one exclusive pair, and exec_mark_ambiguous. *)

Rival(p, k) == CHOOSE o \in p : o # k

Close(c, d) == Abs(c - d) < 15

Separated(c, d) == IsConfirmed(c) \/ IsConfirmed(d) \/ ~Close(c, d)

Vacant_Reopens(st) == st # "active"                                 \* slip: resolved is vacant
Vacant(st) == st = "none"

\* SubGraph::push_problem
PushProblem(p) == Append(problems, p)

Problem(s, kind, t, r) == [scope |-> s, kind |-> kind, target |-> t, time |-> wm, rule |-> r,
                           superseded |-> FALSE]

SynthesizeAmbiguity ==
    /\ Resolved("rivals")
    /\ LET f  == Head(stack)
           s  == f.scope
           t  == f.anchor.target
           c1 == f.anchor.conf
           c2 == node[s][Rival(f.pair, f.anchor.id)][t].conf
           st == ambig[s][f.pair][t]
       IN IF IsProbable(c1) /\ IsProbable(c2) /\ Close(c1, c2)
          THEN IF Vacant(st)
               THEN /\ ambig' = [ambig EXCEPT ![s][f.pair][t] = "active"]
                    /\ problems' = PushProblem(Problem(s, "AmbiguousDiagnosis", t, 0))
                    /\ audit' = Append(audit, [kind |-> "mark_ambiguous", target |-> t, wm |-> wm])
               ELSE UNCHANGED <<ambig, problems, audit>>
          ELSE /\ ambig' = IF Separated(c1, c2) /\ st = "active"
                           THEN [ambig EXCEPT ![s][f.pair][t] = "resolved"] ELSE ambig
               /\ UNCHANGED <<problems, audit>>
    /\ stack' = Tail(stack)
    /\ UNCHANGED <<deployment, wm, swept, node, prov, emitted, budget, refused, overCap, fires>>

MarkAmbiguous ==
    /\ Resolved("mark")
    /\ LET f == Head(stack)
           t == f.anchor.target
       IN /\ ambig' = IF ambig[f.scope][f.intent.pair][t] = "none"
                      THEN [ambig EXCEPT ![f.scope][f.intent.pair][t] = "active"] ELSE ambig
          /\ audit' = Append(audit, [kind |-> "mark_ambiguous", target |-> t, wm |-> wm])
    /\ stack' = Tail(stack)
    /\ UNCHANGED <<deployment, wm, swept, node, problems, prov, emitted, budget, refused, overCap, fires>>

-----------------------------------------------------------------------------
(* exec_emit_problem, exec_supersede and exec_action. *)

EmitKey(r, kind, t, s) == [rule |-> r, kind |-> kind, target |-> t, scope |-> s]

\* SubGraph::try_mark_emitted
CoolingDown(key) == \E e \in emitted : e.key = key /\ wm - e.wm <= Cooldown

EmitProblem ==
    /\ stack # <<>> /\ Head(stack).op = "emit"
    /\ Head(stack).intent.own \/ Head(stack).anchor.target # NoScope
    /\ LET f   == Head(stack)
           s   == f.scope
           t   == IF f.intent.own THEN s ELSE f.anchor.target
           p   == f.intent.problem
           key == EmitKey(f.rule, p, t, s)
       IN \/ /\ CoolingDown(key)
             /\ stack' = Tail(stack)
             /\ UNCHANGED <<problems, emitted>>
          \/ /\ ~CoolingDown(key)
             /\ emitted' = {e \in emitted : e.key # key} \cup {[key |-> key, wm |-> wm]}
             /\ problems' = PushProblem(Problem(s, p, t, f.rule))
             /\ stack' = RuleCalls(RulesFor("problem", p, s),
                                   ProblemAnchor(Len(problems) + 1, t, wm), s) \o Tail(stack)
    /\ UNCHANGED <<deployment, wm, swept, node, ambig, prov, budget, audit, refused, overCap, fires>>

Supersede ==
    /\ Resolved("supersede")
    /\ LET f == Head(stack)
       IN problems' = [i \in DOMAIN problems |->
                         IF /\ problems[i].scope = f.scope
                            /\ problems[i].kind = f.intent.problem
                            /\ problems[i].target = f.anchor.target
                         THEN [problems[i] EXCEPT !.superseded = TRUE] ELSE problems[i]]
    /\ stack' = Tail(stack)
    /\ UNCHANGED <<deployment, wm, swept, node, ambig, prov, emitted, budget, audit, refused, overCap, fires>>

EmitAction ==
    /\ stack # <<>> /\ Head(stack).op = "action"
    /\ audit' = Append(audit, [kind |-> Head(stack).intent.kind,
                               target |-> Head(stack).anchor.target, wm |-> wm])
    /\ stack' = Tail(stack)
    /\ UNCHANGED <<deployment, wm, swept, node, problems, ambig, prov, emitted, budget, refused, overCap, fires>>

-----------------------------------------------------------------------------
(* The stream: batches of evidence rules, watermark advances and sweeps. *)

\* match_anchors or one resume: the closed rules of an event's anchor, one budget.
\* The event's target field may name any scope, or a key the interner lacks.
Fire ==
    /\ stack = <<>> /\ fires < MaxFires
    /\ \E s \in Scopes, e \in EventTypes, t \in Times, tgt \in Targets :
       \E M \in SUBSET RulesFor("event", e, s) :
         /\ M # {} /\ t <= wm
         /\ stack' = RuleCalls(M, EventAnchor(t, tgt), s)
    /\ budget' = MaxFirings
    /\ fires' = fires + 1
    /\ UNCHANGED <<deployment, wm, swept, graph>>

Advance ==
    /\ stack = <<>> /\ swept /\ fires < MaxFires
    /\ \E t \in Times : t > wm /\ wm' = t
    /\ swept' = FALSE
    /\ UNCHANGED <<deployment, graph, stack, budget, fires>>

PruneEmitted_Early(E) == {e \in E : e.wm > wm - Cooldown}

\* SubGraph::prune_emitted
PruneEmitted(E) == {e \in E : e.wm >= wm - Cooldown}

\* gc_sweep, after the resumes of an advance
Sweep ==
    /\ stack = <<>> /\ ~swept
    /\ swept' = TRUE
    /\ prov' = {k \in prov : k.win >= WindowId(wm - MaxLookback)}
    /\ emitted' = PruneEmitted(emitted)
    /\ UNCHANGED <<deployment, wm, node, problems, ambig, audit, refused, overCap, stack, budget, fires>>

\* A stream that hands over nothing more.
Idle == stack = <<>> /\ fires = MaxFires /\ swept /\ UNCHANGED vars

Init ==
    /\ deployment \in Deployments
    /\ wm \in {t \in Times : \A u \in Times : t <= u} /\ swept = TRUE
    /\ node = [s \in Scopes |-> [k \in CauseKinds |-> [t \in Scopes |-> NoNode]]]
    /\ ambig = [s \in Scopes |-> [p \in SUBSET CauseKinds |-> [t \in Scopes |-> "none"]]]
    /\ problems = <<>> /\ prov = {} /\ emitted = {} /\ stack = <<>> /\ budget = 0
    /\ audit = <<>> /\ refused = {} /\ overCap = {} /\ fires = 0

Next == \/ RunRule \/ Unresolved \/ Infer \/ Rollup \/ SynthesizeAmbiguity \/ MarkAmbiguous
        \/ EmitProblem \/ Supersede \/ EmitAction \/ Fire \/ Advance \/ Sweep \/ Idle

Spec == Init /\ [][Next]_vars

-----------------------------------------------------------------------------
(* Properties *)

Quiescent == stack = <<>>

\* The rules of the image that decide on one cause alone, and what they emit.
PlainVerdicts == {i \in DOMAIN Rules : /\ Rules[i].src = "cause" /\ Rules[i].corr = <<>>
                                       /\ Rules[i].lo > 0
                                       /\ \E j \in DOMAIN Rules[i].body : Rules[i].body[j].op = "emit"}

\* No confirmed cause stays silent (on_confidence_mutation, 09 section 3.3): whenever
\* the engine is between batches, a cause whose confidence satisfies a decision rule
\* of its partition, however it got there (a direct infer or a roll-up), has had that
\* rule's problem emitted, or the run was refused by the firing budget.
ConfirmedCausesReported ==
    Quiescent =>
        \A i \in PlainVerdicts, s \in Scopes, t \in Scopes :
            LET n == node[s][Rules[i].on][t]
            IN (TypeOf[s] = Rules[i].scope /\ n.in /\ Rules[i].lo <= n.conf /\ n.conf <= Rules[i].hi)
               => \/ \E j \in DOMAIN problems : /\ problems[j].rule = i /\ problems[j].scope = s
                                               /\ problems[j].target \in {s, t}
                  \/ [rule |-> i, target |-> t, scope |-> s] \in refused

\* Two emissions of one (rule, problem, target) in a partition are more than the
\* cooldown apart (F3; try_mark_emitted and prune_emitted together).
CooldownRespected ==
    \A i, j \in DOMAIN problems :
        (/\ i < j /\ problems[i].rule # 0
         /\ \A x \in {"scope", "kind", "target", "rule"} : problems[i][x] = problems[j][x])
        => problems[j].time - problems[i].time > Cooldown

\* Ambiguity synthesis never works on a stale snapshot: a confidence captured by
\* exec_infer is still the node's when the nested decisions have run
\* (on_confidence_mutation passes the snapshot by value).
SnapshotsFresh ==
    \A i \in DOMAIN stack :
        stack[i].op = "rivals" =>
            node[stack[i].scope][stack[i].anchor.id][stack[i].anchor.target].conf
              = stack[i].anchor.conf

\* An ambiguity that is still active is undecided: its causes are neither confirmed
\* nor 15 apart, whichever of them moved last (synthesize_ambiguity). One a rule
\* has marked stays as it was marked until a cause moves.
MarkedByRules ==
    UNION {{b[j].pair : j \in {l \in DOMAIN b : b[l].op = "mark"}} :
             b \in UNION {{Rules[i].body, Rules[i].else, Rules[i].unk} : i \in DOMAIN Rules}}
ActiveIsUndecided ==
    Quiescent =>
        \A s, t \in Scopes : \A j \in DOMAIN Exclusive :
            ambig[s][Exclusive[j]][t] = "active" /\ Exclusive[j] \notin MarkedByRules =>
                \A k, o \in Exclusive[j] :
                    /\ ~IsConfirmed(node[s][k][t].conf)
                    /\ Abs(node[s][k][t].conf - node[s][o][t].conf) < 15

\* Over its whole life an ambiguity has at most one synthesized AmbiguousDiagnosis
\* problem, and it is never opened behind the sink's back.
ToldOnce ==
    \A s, t \in Scopes :
        LET open == {p \in SUBSET CauseKinds : ambig[s][p][t] # "none"}
        IN  /\ Cardinality({j \in DOMAIN problems : /\ problems[j].kind = "AmbiguousDiagnosis"
                                                    /\ problems[j].rule = 0
                                                    /\ problems[j].scope = s /\ problems[j].target = t})
                 <= Cardinality(open)
            /\ open # {} => \E i \in DOMAIN audit :
                              audit[i].kind = "mark_ambiguous" /\ audit[i].target = t

\* The life of an ambiguity, opened by synthesis or by a rule, resolved and
\* approached again: open only while undecided, and told once.
AmbiguityLife == ActiveIsUndecided /\ ToldOnce

\* Roll-up is MAX (09 section 3.2): between batches the confidence of a cause that
\* only roll-up has written in the parent is the largest of its children's, also
\* after a child's confidence has dropped.
RollupIsMax ==
    Quiescent =>
        \A k \in CauseKinds, t \in Scopes :
            node[t][k][t].in /\ node[t][k][t].from = <<>> /\ Children(k, t) # {} =>
                /\ \E c \in Children(k, t) : node[c][k][t].conf = node[t][k][t].conf
                /\ \A c \in Children(k, t) : node[c][k][t].conf <= node[t][k][t].conf

\* Every confidence the engine keeps or acts on is current.
ConfidencesCurrent == RollupIsMax /\ SnapshotsFresh
=============================================================================
