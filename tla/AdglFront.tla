------------------------------ MODULE AdglFront ------------------------------
(* The ADGL front end, stage by stage, as the command line tools and the       *)
(* engine's loader drive it: an author writes a ruleset and may mistype it,    *)
(* the parser reads it, the formatter prints it, the parser reads it again,    *)
(* the verifier lowers it, and the engine evaluates the predicates of the      *)
(* image over what its bindings hold, and asks the topology oracle about the   *)
(* candidates of its correlates.                                               *)
EXTENDS AdglVerify, AdglTopology

\* The passes over texts and values; AdglSyntax, AdglFormat and AdglPredicate have
\* their definitions.
CONSTANTS
    Tokens(_),         \* tokenize: of a text, with the lexemes nested too deep
    Parse(_),          \* parse_ruleset: of a text, [ast, errs]
    MembersOf(_, _),   \* MemberTexts: the members of a ruleset, as one hand writes them
    TextOf(_, _),      \* emit_ruleset: a ruleset around its members
    Evaluated(_, _),   \* eval_predicate: of a program over bindings
    ValueOf(_, _, _),  \* Verdict: what an expression means over bindings
    Spared(_, _, _)    \* Overruled: whether an operand that short circuit spares overrules it

CONSTANTS
    Mistyped,      \* the stray lexeme a mistyped one becomes
    Delimiters,    \* the lexemes that are never mistyped
    Rulesets,      \* the rulesets an author means to write
    Fragile,       \* those of them that may be mistyped
    MaxFaults,     \* lexemes mistyped in one text
    Nodes,         \* source -> the nodes a binding may hold
    Networks,      \* the networks the oracle may know
    Networked      \* the rulesets whose correlates are evaluated over them

(* ---- What the theorems rest on ---- *)

\* Statements and rules have the shape the parser gives them: an evidence rule is
\* anchored on an event, and a match clause has one count.
Listed(s) == s \in Seq(Elems(s))
BodyShape(stmts) ==
    /\ Listed(stmts)
    /\ \A s \in Elems(stmts) : s.op \in {"infer", "emit", "action"} /\ Listed(s.fields)
RuleShape(rule) ==
    /\ rule.anchor.src \in {"event", "cause", "problem"}
    /\ rule.anchor.src = "event" \/ rule.kind = "decision"
    /\ Listed(rule.corr) /\ BodyShape(rule.body)
    /\ HasBranch(rule) => BodyShape(rule.if_else.then) /\ BodyShape(ElseOf(rule))
    /\ \A c \in Elems(rule.corr) :
          /\ c.src \in {"event", "cause", "problem"} /\ Listed(c.topo.args)
          /\ c.min \subseteq Nat /\ \A m, n \in c.min : m = n
ASSUME RulesetAssumption ==
    \A rs \in Rulesets : Listed(rs.rules) /\ \A r \in Elems(rs.rules) : RuleShape(r)

\* A bound of a window is at most one offset from its anchor's time.
ASSUME OffsetAssumption ==
    /\ MaxLookback \in Nat
    /\ \A rs \in Rulesets : \A r \in Elems(rs.rules) : \A c \in Elems(r.corr) :
          \A e \in {c.time.start, c.time.end} :
             LET offsets == OffsetOf(r.anchor.bind, e)
             IN  offsets \subseteq Int /\ \A a, b \in offsets : a = b

\* The type check of a target reports a name that is not bound and a path that is
\* not in the catalog.
ASSUME TypingAssumption ==
    \A rs \in Rulesets : \A r \in Elems(rs.rules) : \A e \in StmtExprs(r) :
        /\ e.k = "ident" /\ e.n \notin DOMAIN RuleEnv(r) => TypeOf(e, RuleEnv(r)).errs # {}
        /\ e.k = "field" /\ e.base.k = "ident" /\ PathSchema(e, RuleEnv(r)) = {}
              => TypeOf(e, RuleEnv(r)).errs # {}

\* The catalog's fields are in an order.
ASSUME CatalogAssumption == \A kind \in DOMAIN Events : Listed(Events[kind])

\* A network holds its relations and edges over the finitely many scopes it knows,
\* which are numbered, and a search may take a hop; a node is one of its source, at hand.
NetworkShape(net) ==
    /\ IsFiniteSet(net.known) /\ net.known \subseteq Int
    /\ net.upstream \subseteq net.known \X net.known
    /\ \A rel \in SameRelations : \A pair \in net.relations[rel] : pair \subseteq net.known
    /\ net.max_hops \in Nat \ {0}
ASSUME NetworkAssumption ==
    /\ \A net \in Networks : NetworkShape(net)
    /\ \A src \in {"event", "cause", "problem"} : \A n \in Nodes[src] : n.st = "bound" /\ n.src = src

VARIABLES
    meant,     \* the ruleset the author means
    faults,    \* the lexemes mistyped, as << member, index >>
    stage,     \* how far the text has come
    text,      \* the lexemes on disk
    ast,       \* what the parser made of them, None before and after an error
    errors,    \* the syntax errors reported
    diags,     \* the verifier's error codes
    image,     \* the lowered rules
    judged     \* the last predicate evaluated or candidate asked about

vars == << meant, faults, stage, text, ast, errors, diags, image, judged >>

NotJudged == [rule |-> 0]
Stages == {"writing", "parsed", "formatted", "reparsed", "accepted", "rejected", "failed", "lost"}

Init ==
    /\ meant \in Rulesets
    /\ faults = {} /\ stage = "writing"
    /\ text = TextOf(meant, MembersOf(meant, "author"))
    /\ ast = None /\ errors = << >> /\ diags = {} /\ image = << >> /\ judged = NotJudged

(* ---- The author's mistakes ---- *)

\* Where a member's text begins: the ruleset's opening is six lexemes long.
HeadLen == 6
StartOf(rs, m) ==
    LET ms == MembersOf(rs, "author")
        f[i \in 0..(m - 1)] == IF i = 0 THEN HeadLen ELSE f[i - 1] + Len(ms[i])
    IN  f[m - 1]

\* One lexeme of a member becomes a stray sign. The leading keyword, which says
\* what the member is, and the braces, which say where it ends, stay.
mistype(m, j) ==
    /\ stage = "writing" /\ meant \in Fragile /\ Cardinality(faults) < MaxFaults
    /\ \A f \in faults : f[1] < m
    /\ LET at == StartOf(meant, m) + j
       IN  /\ text[at] \notin Delimiters \cup {Mistyped}
           /\ text' = [text EXCEPT ![at] = Mistyped]
    /\ faults' = faults \cup {<< m, j >>}
    /\ UNCHANGED << meant, stage, ast, errors, diags, image, judged >>

(* ---- Parsing and formatting ---- *)

\* parse_ruleset, of the author's text and of the formatter's.
ReadAs(r, good, bad) ==
    /\ ast' = r.ast /\ errors' = r.errs
    /\ stage' = IF r.errs = << >> THEN good ELSE bad
parse ==
    /\ \/ stage = "writing" /\ ReadAs(Parse(text), "parsed", "failed")
       \/ stage = "formatted" /\ ReadAs(Parse(text), "reparsed", "lost")
    /\ UNCHANGED << meant, faults, text, diags, image, judged >>

\* format_adgl_source: what the parser read, printed over the source.
format ==
    /\ stage = "parsed"
    /\ text' = TextOf(ast, MembersOf(ast, "fmt")) /\ stage' = "formatted"
    /\ UNCHANGED << meant, faults, ast, errors, diags, image, judged >>

verify ==
    /\ stage = "reparsed"
    /\ LET v == verify_with_config(ast)
       IN  /\ diags' = v.errs /\ image' = v.image
           /\ stage' = IF v.errs = {} THEN "accepted" ELSE "rejected"
    /\ UNCHANGED << meant, faults, text, ast, errors, judged >>

(* ---- The engine's use of the image ---- *)

\* What resolve_bindings may find for a correlate, and the whole of a rule's bindings.
Outcomes(src) == Nodes[src] \cup {[st |-> "absent"], [st |-> "unknown"]}
BindingsOf(rule) ==
    {b \in [0..Len(rule.corr) -> UNION {Outcomes(s) : s \in DOMAIN Nodes}] :
        /\ b[0] \in Nodes[rule.src]
        /\ \A i \in DOMAIN rule.corr : b[i] \in Outcomes(rule.corr[i].src)}

Judgement(i, part, b, v, ran) ==
    [rule |-> i, part |-> part, bindings |-> b, value |-> v, ran |-> ran]

\* match_anchors: the predicate is evaluated over the anchor alone.
match_anchors(i) ==
    /\ stage = "accepted" /\ judged = NotJudged
    /\ \E n \in Nodes[image[i].src] :
         judged' = Judgement(i, "anchor", [k \in {0} |-> n],
                             Evaluated(image[i].pred, [k \in {0} |-> n]), << >>)
    /\ UNCHANGED << meant, faults, stage, text, ast, errors, diags, image >>

Fires(rule, n) == Evaluated(rule.pred, [k \in {0} |-> n]) = Truth("T")

\* run_rule, of a rule whose anchor matched: one with a branch runs the
\* body its condition selects, one without its own; an error runs nothing.
SelectedBody(rule, v) ==
    CASE v.s = "err" -> << >>
      [] v = Truth("T") -> rule.then [] v = Truth("F") -> rule.else [] OTHER -> rule.unknown
Ran(i, b, v) ==
    IF image[i].branch THEN Judgement(i, "branch", b, v, SelectedBody(image[i], v))
    ELSE Judgement(i, "body", b, v, image[i].body)
run_rule(i) ==
    /\ stage = "accepted" /\ judged = NotJudged
    /\ \E b \in BindingsOf(image[i]) :
         /\ Fires(image[i], b[0])
         /\ judged' = Ran(i, b, Evaluated(image[i].cond, b))
    /\ UNCHANGED << meant, faults, stage, text, ast, errors, diags, image >>

\* binding_index_of: the anchor, else the first correlate of that name, counted from 1.
binding_index_of(rule, name) ==
    IF rule.bind = name THEN {0}
    ELSE {i \in DOMAIN rule.corr : rule.corr[i].bind = name /\ \A j \in 1..(i - 1) : rule.corr[j].bind # name}

\* resolve_scope_path_from_bound: the scope a path names on a node, as a set; of
\* an event also a field that holds a scope, of a cause or problem its target only.
resolve_scope_path_from_bound(path, node, kind) ==
    IF Len(path) = 1 \/ path[2] = "target" THEN {node.target}
    ELSE IF node.src # "event" THEN {}
    ELSE {node.fields[s.idx] : s \in {s \in resolve_metric_path("event", kind, path[2]) : s.ty.t = "ScopeId"}}

\* eval_topo of correlate k: a path of its own name is the candidate's, another is
\* looked up in the bindings resolved before it; one that is not bound has no scope.
KindAt(rule, i) == IF i = 0 THEN rule.on ELSE rule.corr[i].kind
ResolveArg(rule, k, path, b, candidate) ==
    IF path[1] = rule.corr[k].bind THEN resolve_scope_path_from_bound(path, candidate, rule.corr[k].kind)
    ELSE UNION {resolve_scope_path_from_bound(path, b[i], KindAt(rule, i)) :
                  i \in {i \in binding_index_of(rule, path[1]) : i < k /\ b[i].st = "bound"}}
eval_topo(net, rule, k, b, candidate) ==
    LET topo == rule.corr[k].topo
        args == [i \in DOMAIN topo[2] |-> ResolveArg(rule, k, Only(topo[2][i]), b, candidate)]
    IN  IF from_idx(topo[1]) = {} \/ Len(args) # TopoArity THEN Reply("U", "none")
        ELSE IF \E i \in DOMAIN args : args[i] = {} THEN Reply("U", "none")
        ELSE call(Only(from_idx(topo[1])), net, Only(args[1]), Only(args[2]))

PartialBindings(rule, k) ==
    {b \in [0..(k - 1) -> UNION {Outcomes(s) : s \in DOMAIN Nodes}] :
        /\ b[0] \in Nodes[rule.src]
        /\ \A i \in 1..(k - 1) : b[i] \in Outcomes(rule.corr[i].src)}
correlate(i, k) ==
    /\ stage = "accepted" /\ judged = NotJudged /\ meant \in Networked
    /\ \E net \in Networks, b \in PartialBindings(image[i], k), c \in Nodes[image[i].corr[k].src] :
         judged' = [rule |-> i, part |-> "topo", k |-> k, net |-> net, bindings |-> b,
                    candidate |-> c, reply |-> eval_topo(net, image[i], k, b, c)]
    /\ UNCHANGED << meant, faults, stage, text, ast, errors, diags, image >>

Next ==
    \/ \E m \in 1..(Len(meant.decls) + Len(meant.rules)) :
         \E j \in 2..Len(MembersOf(meant, "author")[m]) : mistype(m, j)
    \/ parse
    \/ format
    \/ verify
    \/ \E i \in DOMAIN image : match_anchors(i)
    \/ \E i \in DOMAIN image : run_rule(i)
    \/ \E i \in DOMAIN image : \E k \in DOMAIN image[i].corr : correlate(i, k)

Spec == Init /\ [][Next]_vars

(* ---- Properties ---- *)

\* The parser reads what the author means: precedence, associativity, optional
\* parts, dotted kinds and durations come out as they were written. Formatting
\* changes no ruleset: its output parses, to the same ruleset, so that every
\* parenthesis it leaves out was redundant.
TextKeepsMeaning ==
    /\ stage # "lost"
    /\ stage \in {"parsed", "reparsed", "accepted", "rejected"} => ast = meant

\* Members with a fault of the author's: a mistyped lexeme, or a statement the
\* parser refuses in the body of such a rule, or too long a requires list.
MemberCount == Len(meant.decls) + Len(meant.rules)
RefusedMember(m) ==
    IF m <= Len(meant.decls)
    THEN meant.decls[m].d = "requires" /\ Len(meant.decls[m].caps) > MAX_REQUIRES
    ELSE LET r == meant.rules[m - Len(meant.decls)]
         IN  \E i \in DOMAIN r.body : r.body[i].op = (IF r.kind = "evidence" THEN "emit" ELSE "infer")
Faulty == {m \in 1..MemberCount : RefusedMember(m) \/ \E f \in faults : f[1] = m}
SpanOf(m) == (StartOf(meant, m) + 1)..(StartOf(meant, m) + Len(MembersOf(meant, "author")[m]))

\* Recovery: one error for each faulty member, in that member and, for a mistyped
\* lexeme, at that lexeme: no fault hides a later one or makes a sound member fail.
OneErrorPerFault ==
    stage \in {"parsed", "failed"} /\ Tokens(text).deep = {} =>
        /\ Len(errors) = Cardinality(Faulty)
        /\ \A m \in Faulty : \E k \in DOMAIN errors : errors[k].at \in SpanOf(m)
        /\ \A f \in faults : RefusedMember(f[1]) \/
              \E k \in DOMAIN errors : errors[k].at = StartOf(meant, f[1]) + f[2]

\* What the statements of a body must become, in order.
Expects(s) ==
    CASE s.op = "infer" -> << << "infer_cause", s.kind >> >>
      [] s.op = "emit" -> << << "emit_problem", s.kind >> >>
      [] s.op = "action" /\ s.kind = "suppress_symptom" ->
            << << "supersede" >>, << "emit_action", s.kind >> >>
      [] OTHER -> << << "emit_action", s.kind >> >>
Expected(stmts) == Concat([i \in DOMAIN stmts |-> Expects(stmts[i])])
Brief(intents) ==
    [i \in DOMAIN intents |-> IF intents[i].i = "supersede" THEN << "supersede" >>
                              ELSE << intents[i].i, intents[i].kind >>]
IntentsOf(rule) == Elems(rule.body) \cup Elems(rule.then) \cup Elems(rule.else)

\* A name an intent uses is bound in the rule and, with a field, is in the catalog.
Bound(path, env) ==
    /\ path[1] \in DOMAIN env
    /\ Len(path) = 2 => resolve_metric_path(env[path[1]].src, env[path[1]].kind, path[2]) # {}
Grounded(intent, env) ==
    /\ \A p \in intent.target : Bound(p, env)
    /\ CASE intent.i = "infer_cause" -> Resolves("cause", intent.kind)
         [] intent.i \in {"emit_problem", "supersede"} -> Resolves("problem", intent.kind)
         [] intent.i = "emit_action" -> intent.kind \in DOMAIN ActionTable
    /\ intent.i \in {"infer_cause", "emit_problem"} => Elems(intent.evidence) \subseteq DOMAIN env

\* An accepted ruleset is lowered whole: every rule, correlate and statement is in
\* the image, in order, although lowering may drop parts, and every name resolves.
LoweringComplete ==
    stage = "accepted" =>
        /\ Len(image) = Len(meant.rules)
        /\ \A i \in DOMAIN image :
             LET src == meant.rules[i] IN
             /\ [k \in DOMAIN src.corr |-> src.corr[k].bind] =
                  [k \in DOMAIN image[i].corr |-> image[i].corr[k].bind]
             /\ Brief(image[i].body) = Expected(src.body)
             /\ HasBranch(src) => /\ Brief(image[i].then) = Expected(src.if_else.then)
                                 /\ Brief(image[i].else) = Expected(ElseOf(src))
             /\ \A x \in IntentsOf(image[i]) : Grounded(x, RuleEnv(src))
             /\ \A c \in Elems(image[i].corr) : \A k \in DOMAIN c.topo[2] :
                  \A p \in c.topo[2][k] : Bound(p, RuleEnv(src))

\* A window of an accepted ruleset fits in the look-back horizon even after the
\* evaluation was held back by the longest forward window of any rule.
WindowsSurviveSlack ==
    stage = "accepted" =>
        LET slack == MaxOf({0} \cup {image[i].maxForward : i \in DOMAIN image})
        IN  \A i \in DOMAIN image :
              /\ image[i].maxBack + slack <= MaxLookback
              /\ \A c \in Elems(image[i].corr) : c.window # {}

\* Whether lowered rule i can trigger rule j.
Triggers(i, j) ==
    \E x \in IntentsOf(image[i]) :
        /\ x.i = [cause |-> "infer_cause", problem |-> "emit_problem", event |-> ""][image[j].src]
        /\ x.kind = image[j].on
\* A cascade of decisions ends: in an accepted image no rules keep each other
\* going, each triggering another of them (or itself).
CascadesTerminate ==
    stage = "accepted" =>
        \A rules \in (SUBSET DOMAIN image) \ {{}} :
            \E i \in rules : \A j \in rules : ~Triggers(i, j)

\* The condition or predicate that was judged, as a set.
Judged(src) ==
    CASE judged.part = "body" -> {}
      [] judged.part = "branch" -> {src.if_else.cond}
      [] OTHER -> {e \in {src.anchor.pred} : e # None}

\* Where the engine departs from docs/idea/spec/03-semantics.md, section 3.7: the operand
\* that short circuit spares is evaluated all the same, and shows; and an Unknown
\* condition without present or absent requests no topology.
EvaluatesSpared(src, env) == \E e \in Judged(src) : Spared(e, env, judged.bindings)
AsksNothing(src) == ~Occurs(src.if_else.cond, {"present", "absent"})

\* The body a condition of this value selects.
Selects(src, v) ==
    CASE v.s = "err" -> << >>
      [] v = Truth("T") -> Expected(src.if_else.then)
      [] v = Truth("F") -> Expected(ElseOf(src))
      [] OTHER -> << << "emit_action", "request_topology" >> >>

\* The engine does what the source says: a lowered predicate has the value that its
\* expression has by the document's short circuit, errors and unknowns included, over
\* whatever the bindings hold, and the intents that run are those of the body its value
\* selects, the request of an Unknown included.
RuleMeansSource ==
    judged # NotJudged /\ judged.part # "topo" =>
        LET src == meant.rules[judged.rule]
            env == RuleEnv(src)
        IN  /\ EvaluatesSpared(src, env)
                 \/ \A e \in Judged(src) : judged.value = ValueOf(e, env, judged.bindings)
            /\ Judged(src) = {} => judged.value = Truth("T")
            /\ Brief(judged.ran) =
                 CASE judged.part = "anchor" -> << >>
                   [] judged.part = "body" -> Expected(src.body)
                   [] judged.value = Truth("U") /\ AsksNothing(src) -> << >>
                   [] OTHER -> Selects(src, judged.value)

\* The network an oracle's answer is about: what is upstream of a scope, and the
\* cycles above it.
UpFrom(net, down) ==
    LET layer[n \in 0..Cardinality(net.known)] ==
            IF n = 0 THEN {down} ELSE UNION {DirectlyUp(net, s) : s \in layer[n - 1]}
    IN  layer
Above(net, down) == UNION {UpFrom(net, down)[n] : n \in 1..Cardinality(net.known)}
CycleAbove(net, down) == \E s \in {down} \cup Above(net, down) : s \in Above(net, s)

\* The ways up that come to no scope twice, by their hops: where each ends and what
\* lies on it. Where one is longer than max_hops, the search is cut off.
FurtherUp(net, w) == {<< s, w[2] \cup {w[1]} >> : s \in DirectlyUp(net, w[1]) \ (w[2] \cup {w[1]})}
WaysUp(net, down) ==
    LET ways[n \in 0..(net.max_hops + 1)] ==
            IF n = 0 THEN {<< down, {} >>} ELSE UNION {FurtherUp(net, w) : w \in ways[n - 1]}
    IN  ways
CutOff(net, down) == WaysUp(net, down)[net.max_hops + 1] # {}

\* The documented answer (10-catalog-abi.md, section 6): a cycle anywhere above is False
\* with its diagnostic, otherwise the answer is whether up is above.
UpstreamAnswer(net, up, down) ==
    IF up = down THEN Reply("F", "none")
    ELSE IF CycleAbove(net, down) THEN Reply("F", "UpstreamCycle")
    ELSE Reply(IF up \in Above(net, down) THEN "T" ELSE "F", "none")

\* Of a search that may be cut off: no wrong True, no wrong cycle, and no False of what
\* is above without a diagnostic.
Honest(net, up, down, r) ==
    /\ r.t3 = "T" => up \in Above(net, down)
    /\ r.diag = "UpstreamCycle" => CycleAbove(net, down)
    /\ r = Reply("F", "none") => up \notin Above(net, down)
    /\ r.t3 \in {"T", "F"}
UpstreamAnswered(net, up, down, r) ==
    IF up # down /\ CutOff(net, down) THEN Honest(net, up, down, r)
    ELSE r = UpstreamAnswer(net, up, down)
SameAnswer(net, fn, a, b, r) ==
    r = Reply(IF a = b \/ {a, b} \in net.relations[fn] THEN "T" ELSE "F", "none")

\* The scope a path of the source stands for when correlate k is evaluated.
NodeMeant(rule, k, name) ==
    IF name = rule.corr[k].bind THEN << judged.candidate, rule.corr[k].kind >>
    ELSE IF name = rule.anchor.bind THEN << judged.bindings[0], rule.anchor.kind >>
    ELSE LET i == CHOOSE i \in DOMAIN rule.corr : rule.corr[i].bind = name
         IN  << IF i < k THEN judged.bindings[i] ELSE [st |-> "unknown"], rule.corr[i].kind >>
ScopeMeant(rule, k, e) ==
    LET n == NodeMeant(rule, k, e.base.n)
    IN  CASE n[1].st # "bound" -> {}
          [] n[1].st = "bound" /\ e.f = "target" -> {n[1].target}
          [] OTHER -> {n[1].fields[s.idx] : s \in resolve_metric_path("event", n[2], e.f)}

\* The oracle is asked what the source says and its answer is right: Unknown only of
\* a scope it does not know or a name not yet bound, never False in its place; and the
\* documented answer, with its diagnostic, about every network that no way up leaves
\* the hop bound on. Where one does, no True is wrong and no False is silently wrong.
OracleExact ==
    judged # NotJudged /\ judged.part = "topo" =>
        LET rule == meant.rules[judged.rule]
            topo == rule.corr[judged.k].topo
            said == [n \in 1..TopoArity |-> ScopeMeant(rule, judged.k, topo.args[n])]
        IN  IF \E n \in 1..TopoArity : said[n] = {} THEN judged.reply = Reply("U", "none")
            ELSE LET a == Only(said[1])
                     b == Only(said[2])
                 IN  IF a # b /\ ~({a, b} \subseteq judged.net.known) THEN judged.reply = Reply("U", "none")
                     ELSE IF topo.fn = "upstream_of"
                     THEN UpstreamAnswered(judged.net, a, b, judged.reply)
                     ELSE SameAnswer(judged.net, topo.fn, a, b, judged.reply)

\* No private field escapes the mask: an intent that cites an event as evidence
\* lists every private field of that event.
PrivateFieldsMasked ==
    stage = "accepted" =>
        \A i \in DOMAIN image : \A x \in IntentsOf(image[i]) :
            x.i \in {"infer_cause", "emit_problem"} =>
                \A n \in Elems(x.evidence) :
                    LET b == RuleEnv(meant.rules[i])[n] IN
                    b.src = "event" =>
                        \A f \in Elems(Events[b.kind]) : f.pii => << n, f.name >> \in x.pii
=============================================================================
