------------------------------ MODULE AdglVerify ------------------------------
(* The ADGL verifier (airpulse_dsl-verify): twelve phases over a ruleset, each *)
(* a set of error codes, then the lowering to the image the engine runs. A     *)
(* ruleset is accepted when neither reports an error. The passes over a single *)
(* expression are parameters; AdglPredicate has their definitions.             *)
EXTENDS AdglEnv, AdglLoops

CONSTANTS
    TypeOf(_, _),    \* infer_expr_type: of an expression in an environment, [ty, errs]
    Compiled(_, _),  \* compile_predicate: the program of an expression, with its errs
    OffsetOf(_, _),  \* as_anchor_offset: of a window's bound from an anchor's time, a set
    Occurs(_, _),    \* Mentions: whether an expression has a part of one of some kinds
    DepthOf(_)       \* expr_depth

CONSTANTS
    MaxLookback, DedupWindow, \* VerifyConfig
    MAX_CORRELATES_PER_RULE, MAX_INTENTS_PER_RULE, MAX_EXCLUSIVITY_GROUP, MaxMinMatch

ErrIf(cond, code) == IF cond THEN {code} ELSE {}
Elems(s) == {s[i] : i \in DOMAIN s}
\* The first set of a sequence that is not empty, or the empty set.
FirstFound(s) ==
    LET at == {i \in DOMAIN s : s[i] # {}}
    IN  IF at = {} THEN {} ELSE s[CHOOSE i \in at : \A j \in at : i <= j]

(* ---- Walks over a rule ---- *)
HasBranch(rule) == rule.if_else # None
ElseOf(rule) == IF rule.if_else.else = << >> THEN << >> ELSE rule.if_else.else[1]
gather_rule_statements_Bug(rule) ==
    rule.body \o (IF HasBranch(rule) THEN rule.if_else.then ELSE << >>)
gather_rule_statements(rule) ==
    rule.body \o (IF HasBranch(rule) THEN rule.if_else.then \o ElseOf(rule) ELSE << >>)
FieldsOf(stmt, f) == Picked(stmt.fields, {i \in DOMAIN stmt.fields : stmt.fields[i].f = f})
TargetsOf(stmt) == FieldsOf(stmt, "target")

\* The expressions of pure positions: predicate, window bounds, condition.
PureExprs(rule) ==
    ({rule.anchor.pred} \ {None}) \cup
    (IF HasBranch(rule) THEN {rule.if_else.cond} ELSE {}) \cup
    UNION {{c.time.start, c.time.end} : c \in Elems(rule.corr)}
\* collect_stmt_exprs and the correlates' probes: every other typed position.
StmtExprs(rule) ==
    UNION {{t.e : t \in Elems(TargetsOf(s))} : s \in Elems(gather_rule_statements(rule))}
Probes(rule) == {c.time.probe : c \in Elems(rule.corr)}
TopoArgs(rule) == UNION {Elems(c.topo.args) : c \in Elems(rule.corr)}

(* ---- Phase 1: catalog resolution ---- *)
UnknownKind(src, kind) ==
    ErrIf(~Resolves(src, kind), [event |-> "ADGL0201", cause |-> "ADGL0202",
                                 problem |-> "ADGL0203"][src])

ActionArgErrs(a, env) ==
    IF a.kind \notin DOMAIN ActionTable THEN {"ADGL0206"}
    ELSE CASE ActionTable[a.kind].arg = "observation" ->
                 ErrIf(a.arg \notin OBSERVATION_KINDS, "ADGL0207")
           [] ActionTable[a.kind].arg = "check" -> ErrIf(a.arg \notin CHECK_KINDS, "ADGL0208")
           [] ActionTable[a.kind].arg = "problem" ->
                 ErrIf(a.arg \notin DOMAIN env \/ (a.arg \in DOMAIN env /\ env[a.arg].src # "problem"),
                       "ADGL0209")
           [] ActionTable[a.kind].arg = "none" -> ErrIf(a.arg # "none", "ADGL0206")

validate_stmt_catalog(stmt, env) ==
    IF stmt.op = "action" THEN ActionArgErrs(stmt, env)
    ELSE UnknownKind(IF stmt.op = "infer" THEN "cause" ELSE "problem", stmt.kind) \cup
         ErrIf(\E f \in Elems(FieldsOf(stmt, "evidence")) : ~(Elems(f.ids) \subseteq DOMAIN env),
               "ADGL0209")

phase01_catalog_resolution(rs) ==
    UNION {UnknownKind(r.anchor.src, r.anchor.kind)
             \cup (UNION {UnknownKind(c.src, c.kind) : c \in Elems(r.corr)})
             \cup (UNION {validate_stmt_catalog(s, RuleEnv(r)) : s \in Elems(gather_rule_statements(r))})
           : r \in Elems(rs.rules)}

(* ---- Phase 2: names and types ---- *)
validate_action_target_types(a, env) ==
    IF a.kind \notin DOMAIN ActionTable THEN {}
    ELSE IF TargetsOf(a) = << >>
         THEN ErrIf(ActionTable[a.kind].targets # {} /\ a.kind # "suppress_symptom", "ADGL0210")
         ELSE ErrIf(\E ty \in TypeOf(TargetsOf(a)[1].e, env).ty :
                      ty.t \notin ActionTable[a.kind].targets, "ADGL0210")

StmtTypeErrs(stmt, env) ==
    CASE stmt.op = "infer" ->
            ErrIf(TargetsOf(stmt) = << >>, "ADGL0210") \cup
            ErrIf(\E f \in Elems(FieldsOf(stmt, "weight")) : f.v \notin -100..100, "ADGL0205")
      [] stmt.op = "action" -> validate_action_target_types(stmt, env)
      [] stmt.op = "emit" -> {}

phase02_name_and_typecheck(rs) ==
    UNION {(UNION {TypeOf(e, RuleEnv(r)).errs :
                     e \in PureExprs(r) \cup Probes(r) \cup TopoArgs(r) \cup StmtExprs(r)})
             \cup (UNION {StmtTypeErrs(s, RuleEnv(r)) : s \in Elems(gather_rule_statements(r))})
           : r \in Elems(rs.rules)}

(* ---- Phases 3 and 4: no calls in pure positions; capabilities ---- *)
phase03_effect_in_pure(rs) ==
    ErrIf(\E r \in Elems(rs.rules) : \E e \in PureExprs(r) : Occurs(e, {"call"}), "ADGL0501")

DeclsOf(rs, d) == Picked(rs.decls, {i \in DOMAIN rs.decls : rs.decls[i].d = d})
phase04_capability(rs) ==
    ErrIf(\E d \in Elems(DeclsOf(rs, "requires")) : ~(Elems(d.caps) \subseteq Capabilities),
          "ADGL0430")

(* ---- Phase 5: scope and target ---- *)

\* The scope type of a path, if it has exactly one.
infer_target_scope_expr(e, env) ==
    IF e.k # "field" \/ e.base.k # "ident" \/ e.base.n \notin DOMAIN env THEN {}
    ELSE LET b == env[e.base.n] IN
         IF b.src = "event" THEN {s.ty.s : s \in {s \in PathSchema(e, env) : s.ty.t = "ScopeId"}}
         ELSE IF e.f = "target" /\ Resolves(b.src, b.kind) /\ Len(valid_scopes(b.src, b.kind)) = 1
              THEN {valid_scopes(b.src, b.kind)[1]} ELSE {}

\* The statement's target scope; the rule's own when no target says otherwise.
TargetScope(stmt, rule) ==
    LET found == FirstFound([i \in DOMAIN TargetsOf(stmt) |->
                                infer_target_scope_expr(TargetsOf(stmt)[i].e, RuleEnv(rule))])
    IN  IF found = {} THEN rule.scope ELSE CHOOSE s \in found : TRUE

ScopeErrs(stmt, rule, src, code) ==
    ErrIf(~is_subsumed_by(rule.scope, TargetScope(stmt, rule)), "ADGL0210") \cup
    ErrIf(/\ Resolves(src, stmt.kind)
          /\ TargetScope(stmt, rule) \notin Elems(valid_scopes(src, stmt.kind)), code)
phase05_scope_target(rs) ==
    UNION {UNION {CASE s.op = "infer" -> ScopeErrs(s, r, "cause", "ADGL0211")
                    [] s.op = "emit"  -> ScopeErrs(s, r, "problem", "ADGL0212")
                    [] OTHER -> {} : s \in Elems(gather_rule_statements(r))}
           : r \in Elems(rs.rules)}

(* ---- Phase 6: temporal bounds ---- *)

calculable_window(anchor, time) ==
    {<< -b, f >> : b \in {b \in OffsetOf(anchor, time.start) : b <= 0},
                   f \in {f \in OffsetOf(anchor, time.end) : f >= 0}}
WindowsOf(rule) == UNION {calculable_window(rule.anchor.bind, c.time) : c \in Elems(rule.corr)}
ruleset_max_forward_window_ms(rs) ==
    MaxOf({0} \cup UNION {{w[2] : w \in WindowsOf(r)} : r \in Elems(rs.rules)})

WindowErrs(rule, c, allowed) ==
    ErrIf(c.time.probe # Path(c.bind, "time"), "ADGL0413") \cup
    ErrIf(calculable_window(rule.anchor.bind, c.time) = {}, "ADGL0411") \cup
    ErrIf(\E w \in calculable_window(rule.anchor.bind, c.time) : w[1] > allowed \/ w[2] > allowed,
          "ADGL0412")
phase06_temporal_Bug(rs) ==
    UNION {UNION {WindowErrs(r, c, MaxLookback) : c \in Elems(r.corr)} : r \in Elems(rs.rules)}
phase06_temporal(rs) ==
    LET allowed == MaxLookback - ruleset_max_forward_window_ms(rs)
    IN  UNION {UNION {WindowErrs(r, c, allowed) : c \in Elems(r.corr)} : r \in Elems(rs.rules)}

(* ---- Phase 7: topology signatures ---- *)
TopoErrs_Bug(c, env) == IF c.topo.fn \notin DOMAIN TOPO_FUNCTIONS THEN {} ELSE ErrIf(Len(c.topo.args) # TopoArity, "ADGL0421")
TopoErrs(c, env) ==
    IF c.topo.fn \notin DOMAIN TOPO_FUNCTIONS THEN {"ADGL0420"}
    ELSE LET scopes == [i \in DOMAIN c.topo.args |-> infer_target_scope_expr(c.topo.args[i], env)]
         IN  ErrIf(\/ Len(c.topo.args) # TopoArity
                   \/ \E i \in DOMAIN scopes : scopes[i] = {}
                   \/ c.topo.fn = "upstream_of" /\ Len(scopes) = 2 /\ scopes[1] # scopes[2],
                   "ADGL0421")
phase07_topology_signatures(rs) ==
    UNION {UNION {TopoErrs(c, RuleEnv(r)) : c \in Elems(r.corr)} : r \in Elems(rs.rules)}

(* ---- Phase 8: no rule feeds itself ---- *)
Feeds(stmt, rule) ==
    /\ rule.kind = "decision" /\ stmt.kind = rule.anchor.kind
    /\ \/ stmt.op = "infer" /\ rule.anchor.src = "cause"
       \/ stmt.op = "emit" /\ rule.anchor.src = "problem"
Edges(rs) ==
    [i \in DOMAIN rs.rules |->
        {j \in DOMAIN rs.rules :
            \E s \in Elems(gather_rule_statements(rs.rules[i])) : Feeds(s, rs.rules[j])}]

\* Depth-first over the rules: the state of each, 0 not seen, 1 on the path, 2
\* done, and whether a cycle was met. Each descent finds one rule less not seen,
\* so that none is left to descend from when their number comes down to 0.
Marks(edges) == [met : BOOLEAN, state : [DOMAIN edges -> 0..2]]
DfsNext(next, m, deeper) ==
    CASE m.met \/ m.state[next] = 2 -> m
      [] ~m.met /\ m.state[next] = 1 -> [m EXCEPT !.met = TRUE]
      [] ~m.met /\ m.state[next] = 0 -> deeper[<< next, m >>]
DfsNode(edges, node, m, deeper) ==
    LET step  == [p \in (DOMAIN edges) \X Marks(edges) |-> DfsNext(p[1], p[2], deeper)]
        after == InOrder(edges[node], [m EXCEPT !.state[node] = 1], step)
    IN  IF after.met THEN after ELSE [after EXCEPT !.state[node] = 2]
dfs_cycle(edges) ==
    LET unseen[k \in 0..Len(edges)] ==
            [p \in (DOMAIN edges) \X Marks(edges) |->
                IF k = 0 THEN p[2] ELSE DfsNode(edges, p[1], p[2], unseen[k - 1])]
    IN  unseen[Len(edges)]
has_cycle(edges) ==
    LET visit == [p \in (DOMAIN edges) \X Marks(edges) |->
                    IF p[2].met \/ p[2].state[p[1]] # 0 THEN p[2] ELSE dfs_cycle(edges)[p]]
    IN  InOrder(DOMAIN edges, [met |-> FALSE, state |-> [i \in DOMAIN edges |-> 0]], visit).met
phase08_acyclicity(rs) == ErrIf(has_cycle(Edges(rs)), "ADGL0410")

(* ---- Phases 9 to 11: exclusivity, bipartite isolation, limits ---- *)

\* The unordered pairs the groups declare, in order, as << group, i, j >>.
DeclaredPairs(groups) ==
    {p \in (DOMAIN groups) \X (1..MAX_EXCLUSIVITY_GROUP + 1) \X (1..MAX_EXCLUSIVITY_GROUP + 1) :
        p[2] < p[3] /\ p[3] <= Len(groups[p[1]].names)}
PairOf(groups, p) == {groups[p[1]].names[p[2]], groups[p[1]].names[p[3]]}
phase09_exclusivity(rs) ==
    LET groups == DeclsOf(rs, "mutually_exclusive")
        pairs  == DeclaredPairs(groups)
    IN  ErrIf(\E g \in Elems(groups) : Len(g.names) > MAX_EXCLUSIVITY_GROUP, "ADGL0441") \cup
        ErrIf(\E g \in Elems(groups) : ~(Elems(g.names) \subseteq DOMAIN Causes), "ADGL0202") \cup
        ErrIf(\E p, q \in pairs : p # q /\ PairOf(groups, p) = PairOf(groups, q), "ADGL0440")

phase10_bipartite(rs) ==
    ErrIf(\E r \in Elems(rs.rules) : \E s \in Elems(gather_rule_statements(r)) :
            s.op = (IF r.kind = "evidence" THEN "emit" ELSE "infer"), "ADGL0450")

SumLen(decls) == LET f[i \in 0..Len(decls)] == IF i = 0 THEN 0 ELSE f[i - 1] + Len(decls[i].caps)
                 IN  f[Len(decls)]
max_expr_depth_rule(rule) ==
    MaxOf({0} \cup {DepthOf(e) : e \in PureExprs(rule) \cup Probes(rule) \cup StmtExprs(rule)})
phase11_dos_limits(rs) ==
    ErrIf(DedupWindow < 1, "ADGL0503") \cup
    ErrIf(SumLen(DeclsOf(rs, "requires")) > MAX_REQUIRES, "ADGL0105") \cup
    UNION {ErrIf(Len(r.corr) > MAX_CORRELATES_PER_RULE, "ADGL0204") \cup
           ErrIf(Len(gather_rule_statements(r)) > MAX_INTENTS_PER_RULE, "ADGL0205") \cup
           ErrIf(max_expr_depth_rule(r) > MAX_NESTING, "ADGL0103") : r \in Elems(rs.rules)}

\* Phase 12: the private fields of every event binding, by binding name only.
phase12_privacy_annotations_Bug(rs) ==
    UNION {{<< r.anchor.bind, s.name >> : s \in {s \in Elems(Fields("event", r.anchor.kind)) : s.pii}}
           : r \in {r \in Elems(rs.rules) : r.anchor.src = "event"}}
phase12_privacy_annotations(rs) ==
    UNION {UNION {{<< n, s.name >> : s \in {s \in Elems(Fields("event", RuleEnv(r)[n].kind)) : s.pii}}
                  : n \in {n \in DOMAIN RuleEnv(r) : RuleEnv(r)[n].src = "event"}}
           : r \in Elems(rs.rules)}

PhaseErrs(rs) ==
    phase01_catalog_resolution(rs) \cup phase02_name_and_typecheck(rs) \cup
    phase03_effect_in_pure(rs) \cup phase04_capability(rs) \cup phase05_scope_target(rs) \cup
    phase06_temporal(rs) \cup phase07_topology_signatures(rs) \cup phase08_acyclicity(rs) \cup
    phase09_exclusivity(rs) \cup phase10_bipartite(rs) \cup phase11_dos_limits(rs)

(* ---- Lowering: [val: a set, empty when the part is dropped; errs] ---- *)
Lowered(v)     == [val |-> {v}, errs |-> {}]
Dropped(errs)  == [val |-> {}, errs |-> errs]
All(s)         == \A i \in DOMAIN s : s[i].val # {}
Only(S)        == CHOOSE x \in S : TRUE
AllErrs(s)     == UNION {s[i].errs : i \in DOMAIN s}

\* metric_path_from_expr: a path or a bare binding.
metric_path_from_expr(e) ==
    CASE e.k = "field" /\ e.base.k = "ident" -> {<< e.base.n, e.f >>}
      [] e.k = "ident" -> {<< e.n >>}
      [] OTHER -> {}
TargetPath(stmt) ==
    FirstFound([i \in DOMAIN TargetsOf(stmt) |-> metric_path_from_expr(TargetsOf(stmt)[i].e)])
FirstOr(fields, f(_), default) == IF fields = << >> THEN default ELSE f(fields[1])
EvidenceOf(stmt) == FirstOr(FieldsOf(stmt, "evidence"), LAMBDA x : x.ids, << >>)
PiiOf(stmt, pii) == {p \in pii : p[1] \in Elems(EvidenceOf(stmt))}

lower_infer(stmt, pii) ==
    LET w == FirstOr(FieldsOf(stmt, "weight"), LAMBDA x : x.v, 0)
    IN  IF TargetPath(stmt) = {} THEN Dropped({"ADGL0210"})
        ELSE IF w \notin -100..100 THEN Dropped({"ADGL0205"})
        ELSE Lowered(<< [i |-> "infer_cause", kind |-> stmt.kind, target |-> TargetPath(stmt),
                         weight |-> w, evidence |-> EvidenceOf(stmt), pii |-> PiiOf(stmt, pii)] >>)
lower_emit(stmt, pii) ==
    LET schema == IF Resolves("problem", stmt.kind) THEN Problems[stmt.kind]
                  ELSE [severity |-> "Medium", sarif |-> "unknown"]
    IN  Lowered(<< [i |-> "emit_problem", kind |-> stmt.kind, target |-> TargetPath(stmt),
                    severity |-> FirstOr(FieldsOf(stmt, "severity"), LAMBDA x : x.sev, schema.severity),
                    sarif |-> FirstOr(FieldsOf(stmt, "sarif_id"), LAMBDA x : x.s, schema.sarif),
                    evidence |-> EvidenceOf(stmt), pii |-> PiiOf(stmt, pii)] >>)
EmitActionI(kind, arg, target) == [i |-> "emit_action", kind |-> kind, arg |-> arg, target |-> target]
lower_action(stmt, env) ==
    IF stmt.kind \notin DOMAIN ActionTable THEN Dropped({})
    ELSE IF stmt.kind # "suppress_symptom"
    THEN Lowered(<< EmitActionI(stmt.kind, stmt.arg, TargetPath(stmt)) >>)
    ELSE IF stmt.arg \in DOMAIN env /\ env[stmt.arg].src = "problem"
    THEN Lowered(<< [i |-> "supersede", kind |-> env[stmt.arg].kind, target |-> {<< stmt.arg, "target" >>}],
                    EmitActionI(stmt.kind, stmt.arg, {<< stmt.arg, "target" >>}) >>)
    ELSE Dropped({"ADGL0209"})
lower_stmt(stmt, env, pii) ==
    CASE stmt.op = "infer" -> lower_infer(stmt, pii)
      [] stmt.op = "emit" -> lower_emit(stmt, pii)
      [] stmt.op = "action" -> lower_action(stmt, env)

\* The intents of a body; a statement that is dropped leaves no trace in it.
Intents(ls) == Concat([i \in DOMAIN ls |-> IF ls[i].val = {} THEN << >> ELSE Only(ls[i].val)])
LowerBody(stmts, env, pii) == [i \in DOMAIN stmts |-> lower_stmt(stmts[i], env, pii)]

lower_correlate(c, rule) ==
    LET paths  == [i \in DOMAIN c.topo.args |-> metric_path_from_expr(c.topo.args[i])]
    IN  IF c.topo.fn \notin DOMAIN TOPO_FUNCTIONS THEN Dropped({})
        ELSE IF \E i \in DOMAIN paths : paths[i] = {} THEN Dropped({"ADGL0421"})
        ELSE IF 0 \in c.min THEN Dropped({"ADGL0504"})
        ELSE IF \E n \in c.min : n > MaxMinMatch THEN Dropped({"ADGL0505"})
        ELSE Lowered([bind |-> c.bind, src |-> c.src, kind |-> c.kind,
                      topo |-> << TOPO_FUNCTIONS[c.topo.fn], paths >>, min |-> IF c.min = {} THEN 1 ELSE Only(c.min),
                      window |-> calculable_window(rule.anchor.bind, c.time)])

MaxWindow(corr, side) == MaxOf({0} \cup UNION {{w[side] : w \in c.window} : c \in Elems(corr)})

lower_rule(rule, pii) ==
    LET env  == RuleEnv(rule)
        corr == [i \in DOMAIN rule.corr |-> lower_correlate(rule.corr[i], rule)]
        pred == IF rule.anchor.pred = None THEN always_true ELSE Compiled(rule.anchor.pred, env)
        body == LowerBody(rule.body, env, pii)
        cond == IF HasBranch(rule) THEN Compiled(rule.if_else.cond, env) ELSE always_true
        then == IF HasBranch(rule) THEN LowerBody(rule.if_else.then, env, pii) ELSE << >>
        else == IF HasBranch(rule) THEN LowerBody(ElseOf(rule), env, pii) ELSE << >>
        kept == [i \in DOMAIN corr |-> Only(corr[i].val)]
    IN  IF ~All(corr) THEN Dropped(AllErrs(corr) \cup pred.errs)
        ELSE [val  |-> {[name |-> rule.name, kind |-> rule.kind, scope |-> rule.scope,
                         src |-> rule.anchor.src, on |-> rule.anchor.kind, bind |-> rule.anchor.bind,
                         pred |-> pred, corr |-> kept,
                         maxBack |-> MaxWindow(kept, 1), maxForward |-> MaxWindow(kept, 2),
                         branch |-> HasBranch(rule), cond |-> cond, body |-> Intents(body),
                         then |-> Intents(then), else |-> Intents(else),
                         unknown |-> IF HasBranch(rule) /\ Occurs(rule.if_else.cond, {"present", "absent"})
                                     THEN << EmitActionI("request_topology", "none", {}) >> ELSE << >>]},
              errs |-> pred.errs \cup AllErrs(body) \cup cond.errs \cup AllErrs(then) \cup AllErrs(else)]

Kept(ls) == Concat([i \in DOMAIN ls |-> IF ls[i].val = {} THEN << >> ELSE << Only(ls[i].val) >>])
lower_to_image(rs) ==
    LET pii == phase12_privacy_annotations(rs)
    IN  [i \in DOMAIN rs.rules |-> lower_rule(rs.rules[i], pii)]

\* verify_with_config: lowering is reached only when the phases found nothing.
Verified(errs, lowered) ==
    [errs |-> errs \cup AllErrs(lowered),
     image |-> IF errs \cup AllErrs(lowered) = {} THEN Kept(lowered) ELSE << >>]
AfterPhases(rs, errs) == Verified(errs, IF errs = {} THEN lower_to_image(rs) ELSE << >>)
verify_with_config(rs) == AfterPhases(rs, PhaseErrs(rs))
=============================================================================
