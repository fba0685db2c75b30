----------------------------- MODULE MCAdglFront -----------------------------
(* Families of small rulesets for the front end, each around one concern, and  *)
(* a catalog with the shapes of the code's own.                                *)
EXTENDS AdglFront, AdglPredicate, AdglFormat, TLC

MCEvents ==
    [ retry |-> << FieldSchema("target", ScopeTy("ClientMac"), TRUE, 0), FieldSchema("time", Ty("Int"), FALSE, 1),
                   FieldSchema("count", Ty("Int"), FALSE, 2), FieldSchema("user", Ty("String"), TRUE, 3),
                   FieldSchema("hist", Ty("IntList"), FALSE, 4), FieldSchema("path", Ty("ScopeIdList"), FALSE, 5) >>,
      wifi_action |-> << FieldSchema("target", ScopeTy("ClientMac"), FALSE, 0), FieldSchema("time", Ty("Int"), FALSE, 1),
                         FieldSchema("count", Ty("Int"), TRUE, 2), FieldSchema("port", ScopeTy("Port"), FALSE, 3) >> ]
MCDotted  == ("wifi_action" :> << "wifi", "mgmt", "action" >>) @@ ("icmp.visibility" :> << "icmp", "visibility" >>)
MCCauses  == [ Down |-> << "ClientMac" >>, Slow |-> << "ClientMac", "Vlan" >> ]
MCProblems ==
    [ Outage |-> [scopes |-> << "ClientMac" >>, severity |-> "High", sarif |-> "AP-1"],
      Impact |-> [scopes |-> << "ClientMac" >>, severity |-> "Medium", sarif |-> "AP-2"],
      Site   |-> [scopes |-> << "Vlan" >>, severity |-> "Low", sarif |-> "AP-3"] ]
MCCapabilities == {"lldp", "radius"}
MCMinI64 == -70000
MCStringKey == [x \in {"alice"} |-> 7]

EventNode(count, port) ==
    [st |-> "bound", src |-> "event", time |-> 5, target |-> 3,
     fields |-> (0 :> 3) @@ (2 :> count) @@ (3 :> port)]
MCNodes ==
    [ event   |-> {EventNode(0, 7), EventNode(2, 8)},
      cause   |-> {[st |-> "bound", src |-> "cause", time |-> 5, target |-> 3, confidence |-> 60]},
      problem |-> {[st |-> "bound", src |-> "problem", time |-> 6, target |-> 3]} ]

(* ---- What an author mistypes ---- *)
MCMistyped   == Sym("=")
MCDelimiters == {Sym("{"), Sym("}")}

(* ---- Pieces ---- *)
Count    == Path("a", "count")
ToA      == TargetField(Path("a", "target"))
AnchorA(pred) == Anchor("event", "retry", "a", pred)
Back(ms) == IF ms = 0 THEN Path("a", "time") ELSE Binary("-", Path("a", "time"), DurationLit(ms))
Fwd(ms)  == IF ms = 0 THEN Path("a", "time") ELSE Binary("+", Path("a", "time"), DurationLit(ms))
Window(b, lo, hi) == TimeWindow(Path(b, "time"), Back(lo), Fwd(hi))
SameClient(b) == Topo("same_client", << Path("a", "target"), Path(b, "target") >>)
CorrB(lo, hi) == Correlate("b", "event", "wifi_action", SameClient("b"), Window("b", lo, hi), {})
InferDown == Infer("Down", << ToA, WeightField(20), EvidenceField(<< "a" >>) >>)
InferSlow == Infer("Slow", << ToA, WeightField(-5) >>)
Branch(cond, then, else) == IfElse(cond, then, else)

Evid(name, anchor, corr, branch, body) == Rule(name, "evidence", "ClientMac", anchor, corr, branch, body)
Dec(name, anchor, corr, branch, body)  == Rule(name, "decision", "ClientMac", anchor, corr, branch, body)
Single(rule) == Ruleset("rs", "1", << >>, << rule >>)

(* ---- Expressions: every operator under every other, on both sides ---- *)
Ops    == {"or", "and", "==", "<", "+", "-", "*", "/"}
Leaves == {Count, IntLit(3), BoolLit(TRUE), Path("a", "time")}
Pairs  == {Binary(op, l, r) : op \in Ops, l \in Leaves, r \in {Count, IntLit(0)}}
Inner  == {Binary(op, Count, IntLit(2)) : op \in Ops} \cup {Not(Count), Not(Not(Count))}
Nested == {Binary(op, e, IntLit(1)) : op \in Ops, e \in Inner}
            \cup {Binary(op, IntLit(1), e) : op \in Ops, e \in Inner} \cup {Not(e) : e \in Inner}
Odd    == {Path("a", "hist"), Path("a", "user"), Path("z", "count"), Path("a", "nosuch"), Ident("a"),
           Binary("==", Path("a", "user"), StringLit("alice")), Binary("<", Path("a", "user"), Count),
           Binary("in", Path("a", "target"), Path("a", "path")), Binary("in", Count, IntLit(1)),
           Call(Ident("now"), << Count, IntLit(1) >>), Field(Call(Ident("now"), << >>), "x"),
           Index(Path("a", "path"), IntLit(0)), Not(Call(Count, << >>)), Present("a"), Present("zz"),
           Binary("+", IntLit(MaxI64), Count)}
\* A balanced tree of n additions' depth, to run out of slots, and nots to the limit.
Deep[n \in Nat] == IF n = 0 THEN Count ELSE Binary("+", Deep[n - 1], Deep[n - 1])
Chain[n \in Nat] == IF n = 0 THEN Count ELSE Not(Chain[n - 1])
Steps[n \in Nat] == IF n = 0 THEN Ident("a") ELSE Field(Steps[n - 1], "count")
RightChain[n \in Nat] == IF n = 0 THEN Count ELSE Binary("+", IntLit(1), RightChain[n - 1])
ExprFamily ==
    {Single(Evid("r", AnchorA(e), << >>, None, << InferDown >>)) :
        e \in Pairs \cup Nested \cup Odd \cup {Deep[2], Deep[3], Chain[3], Chain[6], RightChain[5], RightChain[6], Steps[8]}}

(* ---- Conditions over a correlate that is there, absent or not known ---- *)
SpeedB   == Path("b", "count")
CondAtoms == {Present("b"), Absent("b"), Binary(">", SpeedB, IntLit(1)), Binary("/", IntLit(4), SpeedB), Count}
Conds == CondAtoms \cup {Not(e) : e \in CondAtoms}
           \cup {Binary(op, l, r) : op \in {"and", "or"}, l \in CondAtoms, r \in CondAtoms}
BranchFamily ==
    {Single(Evid("r", AnchorA(None), << CorrB(2000, 1000) >>, Branch(c, << InferDown >>, e), << >>)) :
        c \in Conds, e \in {<< >>, << << InferSlow >> >>}}

(* ---- Windows, in two rules so that one's forward window eats the other's slack ---- *)
Spans == {<< 0, 0 >>, << 3000, 0 >>, << 4000, 0 >>, << 0, 1000 >>, << 2000, 2000 >>, << 60000, 0 >>, << 999, 1000 >>}
WindowRule(n, w) == Evid(n, AnchorA(None), << CorrB(w[1], w[2]) >>, None, << InferDown >>)
OddWindows ==
    {TimeWindow(Path("a", "time"), Back(0), Fwd(0)), TimeWindow(Path("b", "time"), Fwd(1000), Fwd(2000)),
     TimeWindow(Path("b", "time"), Back(2000), Back(1000)), TimeWindow(Path("b", "time"), Count, Fwd(0)),
     TimeWindow(Path("b", "time"), Binary("-", Back(1000), DurationLit(1000)), Fwd(0)),
     TimeWindow(Path("b", "time"), Binary("-", DurationLit(1000), Path("a", "time")), Fwd(0))}
WindowFamily ==
    {Ruleset("rs", "1", << >>, << WindowRule("r", v), WindowRule("s", w) >>) : v \in Spans, w \in Spans}
      \cup {Single(Evid("r", AnchorA(None), << [CorrB(0, 0) EXCEPT !.time = t] >>, None, << InferDown >>)) :
              t \in OddWindows}

(* ---- Cascades of decisions, the statement in the body or in a branch ---- *)
OnCause(k)   == Anchor("cause", k, "a", Binary(">=", Path("a", "confidence"), IntLit(50)))
OnProblem(k) == Anchor("problem", k, "a", None)
EmitOf(k) == Emit(k, << ToA, SeverityField("Critical"), EvidenceField(<< "a" >>) >>)
Heads == {OnCause("Down"), OnProblem("Outage"), OnProblem("Impact")}
DecBody(n, anchor, k)   == Dec(n, anchor, << >>, None, << EmitOf(k) >>)
DecElse(n, anchor, k)   == Dec(n, anchor, << >>, Branch(BoolLit(TRUE), << >>, << << EmitOf(k) >> >>), << >>)
Emitted == {"Outage", "Impact"}
CascadeFamily ==
    {Ruleset("rs", "1", << >>, << DecBody("d", h, k), DecElse("e", g, j), DecBody("f", OnCause("Slow"), "Outage") >>) :
        h \in Heads, g \in Heads, k \in Emitted, j \in Emitted}
      \cup {Ruleset("rs", "1", << >>, << DecElse("d", OnProblem("Outage"), "Impact"), DecBody("e", OnProblem("Impact"), k),
                                         Evid("v", AnchorA(None), << >>, None, << InferDown >>) >>) : k \in Emitted}

(* ---- Statements, targets, correlates ---- *)
Stmts ==
    {Infer("Down", << ToA >>), Infer("Down", << >>), Infer("Nosuch", << ToA >>), Infer("Down", << ToA, WeightField(101) >>),
     Infer("Down", << ToA, EvidenceField(<< "b", "a" >>), WeightField(-100) >>), Infer("Down", << EvidenceField(<< "q" >>), ToA >>),
     Infer("Down", << TargetField(Path("b", "port")) >>), Infer("Slow", << TargetField(Ident("a")) >>),
     Action("request_observation", "icmp.visibility", << ToA >>), Action("request_observation", "retry", << ToA >>),
     Action("run_check", "lldp_poll", << ToA, ReasonField("why") >>), Action("run_check", "none", << >>),
     Action("mark_ambiguous", "none", << ToA >>), Action("request_topology", "none", << TargetField(Count) >>),
     Action("reboot", "none", << >>), Action("suppress_symptom", "b", << >>), Action("suppress_symptom", "p", << >>)}
CorrP == Correlate("p", "problem", "Outage", SameClient("p"), Window("p", 1000, 0), {2})
StmtFamily ==
    {Single(Evid("r", AnchorA(None), << CorrB(1000, 0), CorrP >>, None, << s, t >>)) : s \in Stmts, t \in {InferDown, EmitOf("Outage")}}
      \cup {Single(Evid("r", AnchorA(Count), << CorrB(1000, 0) >>, Branch(Count, << s >>, << << InferDown, s >> >>), << InferSlow >>)) :
              s \in {InferDown, EmitOf("Outage"), Action("mark_ambiguous", "none", << ToA >>)}}
      \cup {Single(Dec("d", OnProblem("Outage"), << >>, None, << s >>)) :
              s \in {Emit("Impact", << ToA, SarifField("alice"), EvidenceField(<< "a" >>) >>), Emit("Impact", << >>),
                     Emit("Site", << ToA >>), Emit("Nosuch", << ToA >>), Action("suppress_symptom", "a", << >>), InferDown}}

Corrs ==
    {[CorrB(0, 0) EXCEPT !.topo = Topo(fn, args)] :
        fn \in {"same_client", "upstream_of", "near"},
        args \in {<< Path("a", "target"), Path("b", "port") >>, << Path("a", "target") >>, << Count, Path("b", "target") >>}}
      \cup {[CorrB(0, 0) EXCEPT !.min = {n}] : n \in {0, 3, MaxMinMatch + 1}}
      \cup {[CorrB(0, 0) EXCEPT !.bind = "a"], [CorrB(0, 0) EXCEPT !.kind = "nosuch"]}
CorrFamily ==
    {Single(Evid("r", AnchorA(p), << c >>, None, << Infer("Down", << ToA, EvidenceField(<< "a" >>) >>) >>)) :
        c \in Corrs, p \in {None, Path("b", "count")}}
      \cup {Single(Evid("r", AnchorA(None), << CorrB(0, 0), CorrP, [CorrB(0, 0) EXCEPT !.bind = "d"],
                                               [CorrB(0, 0) EXCEPT !.bind = "e"] >>, None, << InferDown >>))}

(* ---- Correlates asked of the oracle: scopes 7 and 8 are ports, 3 the client ---- *)
CorrOn(n, fn, p, q) ==
    Correlate(n, "event", "wifi_action", Topo(fn, << p, q >>), Window(n, 0, 0), {})
TargetA == Path("a", "target")
PortOf(n) == Path(n, "port")
MCNetworked ==
    {Single(Evid("r", AnchorA(None), << CorrOn("b", fn, TargetA, PortOf("b")) >>, None, << InferDown >>)) :
        fn \in SameRelations}
      \cup {Single(Evid("r", AnchorA(None), << CorrB(0, 0), CorrOn("c", "upstream_of", p[1], p[2]) >>, None, << InferDown >>)) :
               p \in {<< PortOf("b"), PortOf("c") >>, << PortOf("c"), PortOf("b") >>, << TargetA, Path("b", "target") >>}}
      \cup {Single(Evid("r", AnchorA(None), << CorrOn("b", "upstream_of", PortOf("b"), PortOf("c")), CorrB(0, 0) >>,
                         None, << InferDown >>)),
            Single(Evid("r", AnchorA(None), << CorrOn("b", "same_port", PortOf("b"), Path("p", "target")), CorrP >>,
                        None, << InferDown >>))}
RECURSIVE Wired(_, _)
Wired(t, edges) ==
    IF edges = {} THEN t
    ELSE LET e == CHOOSE e \in edges : TRUE IN Wired(upstream_edge(t, e[1], e[2]), edges \ {e})
\* Two ways up from port 7, a diamond, and a chain on to port 8 that may lead back.
\* And a node first met the long way round, on which the hops run out.
LongWay == {<< 1, 7 >>, << 4, 1 >>, << 2, 4 >>, << 2, 7 >>, << 9, 2 >>, << 8, 9 >>}
Uplinks == {<< 1, 7 >>, << 2, 7 >>, << 2, 1 >>, << 9, 2 >>, << 8, 9 >>, << 7, 9 >>}
MCNetworks ==
    {Wired(NewTopology(h), edges) : h \in {0, 2, 3}, edges \in SUBSET Uplinks}
      \cup {Wired(NewTopology(3), LongWay)}
      \cup {declare(relate(NewTopology(1), rel, 3, 7), 8) : rel \in SameRelations}
      \cup {relate(declare(NewTopology(1), 3), "same_port", 8, 7)}

(* ---- Headers ---- *)
Decls ==
    {Requires(<< >>), Requires(<< "lldp", "radius" >>), Requires(<< "lldp", "lldp", "lldp", "lldp" >>), Requires(<< "nosuch" >>),
     MutuallyExclusive(<< "Down", "Slow" >>), MutuallyExclusive(<< "Slow", "Down" >>), MutuallyExclusive(<< "Down", "Nosuch" >>),
     MutuallyExclusive(<< "Down", "Slow", "Down", "Slow" >>)}
HeaderFamily ==
    {Ruleset("rs", "1", << d, e >>, << Evid("r", AnchorA(None), << >>, None, << InferDown >>) >>) : d \in Decls, e \in Decls}

(* ---- Rulesets to be mistyped: a large rule alone, and several small members ---- *)
MCFragile ==
    {Single(Evid("r", AnchorA(Binary("<", Count, IntLit(3))), << CorrP >>,
                 Branch(Present("p"), << InferDown >>, << << Action("mark_ambiguous", "none", << ToA >>) >> >>), << >>)),
     Single(Dec("d", OnCause("Down"), << CorrB(1000, 0) >>, None, << EmitOf("Impact"), InferDown >>)),
     Ruleset("rs", "1", << Requires(<< "lldp", "radius" >>), MutuallyExclusive(<< "Down", "Slow" >>) >>,
             << Evid("s", AnchorA(None), << >>, None, << InferSlow >>),
                Evid("t", AnchorA(None), << >>, None, << EmitOf("Outage") >>) >>)}

MCRulesets ==
    ExprFamily \cup BranchFamily \cup WindowFamily \cup CascadeFamily \cup StmtFamily
      \cup CorrFamily \cup MCNetworked \cup HeaderFamily \cup MCFragile
=============================================================================
