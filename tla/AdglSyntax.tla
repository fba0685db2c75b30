------------------------------ MODULE AdglSyntax ------------------------------
(* The surface syntax of ADGL: the tokenizer and the recursive-descent parser  *)
(* of airpulse_dsl-syntax/src/parser.rs, with its recovery. A text is a        *)
(* sequence of lexemes; white space, the spelling of literals and comments are *)
(* left out. The parser reads one token ahead, so a parse function is a        *)
(* production, a sequence of items, and one interpreter runs them all.         *)
EXTENDS AdglAst

CONSTANTS
    Dotted         \* kind name -> its segments, for the kinds of more than one

(* ---- Lexemes and tokens ---- *)
Word(w)         == [x |-> "word", w |-> w, n |-> 0]
Sym(w)          == [x |-> "sym", w |-> w, n |-> 0]
Str(s)          == [x |-> "string", w |-> s, n |-> 0]
Number(n, unit) == [x |-> "number", w |-> unit, n |-> n]

KEYWORDS ==
    {"ruleset", "version", "requires", "mutually_exclusive", "evidence", "decision", "scope",
     "anchor", "correlate", "having", "infer", "emit", "action", "if", "else", "present",
     "absent", "and", "or", "not", "Cause", "Problem", "event", "in", "true", "false"}

Token(t, w, n) == [t |-> t, w |-> w, n |-> n]
Eof == Token("eof", "", 0)

lex_ident_or_kw(w) == Token(IF w \in KEYWORDS THEN "kw" ELSE "ident", w, 0)
\* A number with a unit is a duration in milliseconds, saturating.
UnitMs(unit) == CASE unit = "ms" -> 1 [] unit = "s" -> 1000 [] unit = "min" -> 60000
lex_number_or_duration(n, unit) ==
    IF unit = "" THEN Token("int", "", n)
    ELSE Token("duration", "", IF n > MaxI64 \div UnitMs(unit) THEN MaxI64 ELSE n * UnitMs(unit))
next_token(l) ==
    CASE l.x = "word"   -> lex_ident_or_kw(l.w)
      [] l.x = "number" -> lex_number_or_duration(l.n, l.w)
      [] l.x = "string" -> Token("string", l.w, 0)
      [] l.x = "sym"    -> Token("punct", l.w, 0)

\* The depth before each token and at the end, counting the brackets of the set
\* open against those of close and never below zero.
StepDepth(w, open, close, d) ==
    IF w \in open THEN d + 1 ELSE IF w \in close /\ d > 0 THEN d - 1 ELSE d
RECURSIVE Depths(_, _, _, _)
Depths(text, open, close, ds) ==
    IF Len(ds) > Len(text) THEN ds
    ELSE Depths(text, open, close,
                Append(ds, StepDepth(text[Len(ds)].w, open, close, ds[Len(ds)])))
TooDeep(ds) == {i \in DOMAIN ds : ds[i] > MAX_NESTING}
tokenize(text) ==
    [deep |-> TooDeep(Depths(text, {"{", "(", "["}, {"}", ")", "]"}, << 0 >>)),
     tokens |-> Append([i \in DOMAIN text |-> next_token(text[i])], Eof)]

(* ---- Results: the values read and the cursor, or an error and the cursor ---- *)
Ok(i, v)      == [ok |-> TRUE, i |-> i, v |-> v, at |-> 0, code |-> ""]
Bad(i)        == [ok |-> FALSE, i |-> i, v |-> << >>, at |-> i, code |-> "ADGL0100"]
BadAt(i, at, code) == [Bad(i) EXCEPT !.at = at, !.code = code]

Is(tok, w) == tok.t \in {"kw", "ident", "punct"} /\ tok.w = w

(* ---- Items of a production ---- *)
T(w)              == [g |-> "terminal", w |-> w]
Class(name)       == [g |-> "class", n |-> name]
OneOf(words)      == [g |-> "enum", words |-> words]
N(p)              == [g |-> "production", n |-> p]
Opt(w, items)     == [g |-> "opt", w |-> w, items |-> items] \* taken when w is next
Unless(w, item)   == [g |-> "unless", w |-> w, item |-> item]
Many(w, item)     == [g |-> "many", w |-> w, item |-> item] \* while w is next
Until(item)       == [g |-> "until", item |-> item]       \* up to a closing brace or the end
Sep(item, w)      == [g |-> "sep", w |-> w, item |-> item] \* commas between; empty before w
AtMost(n, item)   == [g |-> "atmost", n |-> n, item |-> item]
Switch(cases)     == [g |-> "switch", cases |-> cases]    \* by the next word, w -> items
KeySwitch(cases)  == [g |-> "key", cases |-> cases]       \* a word, ":" and the items for it

(* ---- The productions, one for each parse function ---- *)
parse_requires_decl ==
    << T("requires"), T("="), T("["), AtMost(MAX_REQUIRES, Sep(Class("string"), "]")), T("]") >>
parse_mutually_exclusive_decl ==
    << T("mutually_exclusive"), T("("), Class("ident_any"), Many(",", N("comma_ident")), T(")") >>
parse_comma_ident == << T(","), Class("ident_any") >>

ScopeTypes == {"Session", "Port", "ClientMac", "Vlan", "AccessPoint", "Global"}
Severities == {"Critical", "High", "Medium", "Low", "Recommended", "Optional"}
parse_scope_type == << OneOf(ScopeTypes) >>
parse_severity   == << OneOf(Severities) >>

RuleTail(stmt) ==
    << Many("correlate", N("correlate_block")), Opt("if", << N("if_else_block") >>),
       Until(N(stmt)), T("}") >>
parse_evidence_rule ==
    << T("evidence"), Class("ident_non_kw"), T("{"), T("scope"), T(":"), N("scope_type"),
       N("anchor_block") >> \o RuleTail("stmt_in_evidence")
parse_decision_rule ==
    << T("decision"), Class("ident_non_kw"), T("{"), T("scope"), T(":"), N("scope_type"),
       N("decision_anchor") >> \o RuleTail("stmt_in_decision")

OptPredicate == Opt("{", << T("{"), Unless("}", N("expr")), T("}") >>)
parse_anchor_block ==
    << T("anchor"), Class("ident_non_kw"), T(":"), T("event"), T("("), N("kind_ident"), T(")"),
       OptPredicate >>
parse_decision_anchor == << T("anchor"), Class("ident_non_kw"), T(":"), N("anchor_source") >>
parse_anchor_source ==
    << Switch([Cause   |-> << T("Cause"), T("("), Class("ident_non_kw"), T(")"),
                              T("{"), N("expr"), T("}") >>,
               Problem |-> << T("Problem"), T("("), Class("ident_non_kw"), T(")"),
                              OptPredicate >>]) >>

parse_correlate_block ==
    << T("correlate"), Class("ident_non_kw"), T(":"), N("correlate_source"), T("{"),
       T("topo"), T(":"), N("topo_predicate"), T("time"), T(":"), N("time_window"),
       Opt("having", << T("having"), T(":"), T("count"), T(">="), Class("int") >>), T("}") >>
parse_correlate_source ==
    << Switch([event   |-> << T("event"), T("("), N("kind_ident"), T(")") >>,
               Problem |-> << T("Problem"), T("("), Class("ident_non_kw"), T(")") >>,
               Cause   |-> << T("Cause"), T("("), Class("ident_non_kw"), T(")") >>]) >>
parse_topo_predicate == << Class("ident_non_kw"), N("paren_expr_list") >>
parse_time_window ==
    << N("additive"), T("in"), T("["), N("expr"), T(","), N("expr"), T("]") >>
parse_if_else_block ==
    << T("if"), N("expr"), T("{"), Until(N("stmt_any")), T("}"),
       Opt("else", << T("else"), T("{"), Until(N("stmt_any")), T("}") >>) >>

parse_stmt_any ==
    << Switch([infer  |-> << N("infer_stmt") >>, emit |-> << N("emit_stmt") >>,
               action |-> << N("action_stmt") >>]) >>
parse_infer_stmt ==
    << T("infer"), T("Cause"), T("("), Class("ident_non_kw"), T(")"), T("{"),
       Sep(N("infer_field"), "}"), T("}") >>
parse_emit_stmt ==
    << T("emit"), T("Problem"), T("("), Class("ident_non_kw"), T(")"), T("{"),
       Sep(N("emit_field"), "}"), T("}") >>
parse_action_stmt ==
    << T("action"), Class("ident_any"), Opt("(", << T("("), N("kind_ident"), T(")") >>), T("{"),
       Sep(N("action_field"), "}"), T("}") >>
parse_infer_field ==
    << KeySwitch([target |-> << N("expr") >>, weight |-> << Class("signed") >>,
                  evidence |-> << N("ref_list") >>]) >>
parse_emit_field ==
    << KeySwitch([target |-> << N("expr") >>, severity |-> << N("severity") >>,
                  evidence |-> << N("ref_list") >>, sarif_id |-> << Class("string") >>]) >>
parse_action_field ==
    << KeySwitch([target |-> << N("expr") >>, reason |-> << Class("string") >>,
                  evidence |-> << N("ref_list") >>]) >>
parse_ref_list == << T("["), Sep(Class("ident_any"), "]"), T("]") >>
parse_kind_ident == << Class("word_any"), Many(".", N("dot_word")) >>
parse_dot_word   == << T("."), Class("word_any") >>
parse_paren_expr_list == << T("("), Sep(N("expr"), ")"), T(")") >>
parse_ruleset_open == << T("ruleset"), Class("string"), T("{"), T("version"), T("="), Class("string") >>

Production(p) ==
    CASE p = "requires_decl" -> parse_requires_decl
      [] p = "mutually_exclusive_decl" -> parse_mutually_exclusive_decl
      [] p = "comma_ident" -> parse_comma_ident
      [] p = "evidence_rule" -> parse_evidence_rule
      [] p = "decision_rule" -> parse_decision_rule
      [] p = "scope_type" -> parse_scope_type
      [] p = "severity" -> parse_severity
      [] p = "anchor_block" -> parse_anchor_block
      [] p = "decision_anchor" -> parse_decision_anchor
      [] p = "anchor_source" -> parse_anchor_source
      [] p = "correlate_block" -> parse_correlate_block
      [] p = "correlate_source" -> parse_correlate_source
      [] p = "topo_predicate" -> parse_topo_predicate
      [] p = "time_window" -> parse_time_window
      [] p = "if_else_block" -> parse_if_else_block
      [] p \in {"stmt_any", "stmt_in_evidence", "stmt_in_decision"} -> parse_stmt_any
      [] p = "infer_stmt" -> parse_infer_stmt
      [] p = "emit_stmt" -> parse_emit_stmt
      [] p = "action_stmt" -> parse_action_stmt
      [] p = "infer_field" -> parse_infer_field
      [] p = "emit_field" -> parse_emit_field
      [] p = "action_field" -> parse_action_field
      [] p = "ref_list" -> parse_ref_list
      [] p = "kind_ident" -> parse_kind_ident
      [] p = "dot_word" -> parse_dot_word
      [] p = "paren_expr_list" -> parse_paren_expr_list
      [] p = "ruleset_open" -> parse_ruleset_open

(* ---- The nodes the productions build from the values they read ---- *)
Segments(kind) == IF kind \in DOMAIN Dotted THEN Dotted[kind] ELSE << kind >>
Joined(segs) ==
    IF Len(segs) = 1 THEN segs[1]
    ELSE IF \E k \in DOMAIN Dotted : Dotted[k] = segs
    THEN CHOOSE k \in DOMAIN Dotted : Dotted[k] = segs ELSE "unknown"
PredicateIn(opt) == IF opt = << >> \/ opt = << << >> >> THEN None ELSE opt[1][1]
EnumField(key, v) ==
    CASE key = "target" -> TargetField(v) [] key = "weight" -> WeightField(v)
      [] key = "evidence" -> EvidenceField(v) [] key = "severity" -> SeverityField(v)
      [] key = "sarif_id" -> SarifField(v) [] key = "reason" -> ReasonField(v)

Node(p, v) ==
    CASE p = "requires_decl" -> Requires(v[1])
      [] p = "mutually_exclusive_decl" -> MutuallyExclusive(<< v[1] >> \o v[2])
      [] p = "evidence_rule" ->
            Rule(v[1], "evidence", v[2], v[3], v[4], IF v[5] = << >> THEN None ELSE v[5][1], v[6])
      [] p = "decision_rule" ->
            Rule(v[1], "decision", v[2], v[3], v[4], IF v[5] = << >> THEN None ELSE v[5][1], v[6])
      [] p = "anchor_block" -> Anchor("event", v[2], v[1], PredicateIn(v[3]))
      [] p = "decision_anchor" -> [v[2] EXCEPT !.bind = v[1]]
      [] p = "anchor_source" ->
            IF v[1] = "Cause" THEN Anchor("cause", v[2], "", v[3])
            ELSE Anchor("problem", v[2], "", PredicateIn(v[3]))
      [] p = "correlate_block" ->
            Correlate(v[1], v[2].src, v[2].kind, v[3], v[4], {v[5][i] : i \in DOMAIN v[5]})
      [] p = "correlate_source" ->
            [src |-> [event |-> "event", Cause |-> "cause", Problem |-> "problem"][v[1]],
             kind |-> v[2]]
      [] p = "topo_predicate" -> Topo(v[1], v[2])
      [] p = "time_window" -> TimeWindow(v[1], v[2], v[3])
      [] p = "if_else_block" -> IfElse(v[1], v[2], v[3])
      [] p \in {"stmt_any", "stmt_in_evidence", "stmt_in_decision"} -> v[2]
      [] p = "infer_stmt" -> Infer(v[1], v[2])
      [] p = "emit_stmt" -> Emit(v[1], v[2])
      [] p = "action_stmt" -> Action(v[1], IF v[2] = << >> THEN "none" ELSE v[2][1], v[3])
      [] p \in {"infer_field", "emit_field", "action_field"} -> EnumField(v[1], v[2])
      [] p = "kind_ident" -> Joined(<< v[1] >> \o v[2])
      [] p = "ruleset_open" -> v
      [] OTHER -> v[1]

(* ---- The interpreter ---- *)
SignedValue(sign, n) == IF sign = "-" THEN -n ELSE n
parse_class(c, toks, i) ==
    LET tok == toks[i] IN
    CASE c = "ident_non_kw" -> IF tok.t = "ident" THEN Ok(i + 1, << tok.w >>) ELSE Bad(i)
      [] c = "ident_any" ->
            IF tok.t \notin {"ident", "kw"} THEN Bad(i)
            ELSE IF tok.t = "kw" /\ tok.w \notin {"event", "Cause", "Problem"}
            THEN BadAt(i + 1, i, "ADGL0100") ELSE Ok(i + 1, << tok.w >>)
      [] c = "word_any" -> IF tok.t \in {"ident", "kw"} THEN Ok(i + 1, << tok.w >>) ELSE Bad(i)
      [] c = "string"   -> IF tok.t = "string" THEN Ok(i + 1, << tok.w >>) ELSE Bad(i)
      [] c = "int"      -> IF tok.t = "int" THEN Ok(i + 1, << tok.n >>) ELSE Bad(i)
      [] c = "signed"   ->
            IF ~(Is(tok, "+") \/ Is(tok, "-")) THEN Bad(i)
            ELSE IF toks[i + 1].t # "int" THEN Bad(i + 1)
            ELSE Ok(i + 2, << SignedValue(tok.w, toks[i + 1].n) >>)

Limited(n, r) == IF r.ok /\ Len(r.v[1]) > n THEN BadAt(r.i, r.i, "ADGL0105") ELSE r

\* A reserved word or a wrong name is consumed before it is refused.
OneOfWords(words, i, r) ==
    IF ~r.ok \/ r.v[1] \in words THEN r ELSE BadAt(r.i, i, "ADGL0100")

\* parse_stmt_in_rule: the statement is read whole, then refused.
stmt_in_rule(p, i, r) ==
    IF r.ok /\ \/ p = "stmt_in_evidence" /\ r.v[1].op = "emit"
               \/ p = "stmt_in_decision" /\ r.v[1].op = "infer"
    THEN BadAt(r.i, i, "ADGL0450") ELSE r

Build(p, r) == IF r.ok THEN Ok(r.i, << Node(p, r.v) >>) ELSE r
Tagged(tag, r) == IF r.ok THEN Ok(r.i, << tag >> \o r.v) ELSE r
Grouped(r) == IF r.ok THEN Ok(r.i, << r.v >>) ELSE r

\* The levels of the expression ladder, loosest first, and a word's operator.
Ladder == << {"or", "||"}, {"and", "&&"}, CmpOps \cup {"in"}, AddOps, MulOps >>
BinaryOp(w) == CASE w = "||" -> "or" [] w = "&&" -> "and" [] OTHER -> w

RECURSIVE Run(_, _, _, _), Then(_, _, _, _), One(_, _, _), Repeat(_, _, _), Commas(_, _, _),
          parse_binary(_, _, _), BinaryLoop(_, _, _), BinaryRight(_, _, _, _),
          parse_unary(_, _), parse_postfix(_, _), PostfixOf(_, _, _, _), parse_primary(_, _)

Then(rest, toks, vals, r) == IF r.ok THEN Run(rest, toks, r.i, vals \o r.v) ELSE r
Run(items, toks, i, vals) ==
    IF items = << >> THEN Ok(i, vals)
    ELSE Then(Tail(items), toks, vals, One(Head(items), toks, i))

One(item, toks, i) ==
    CASE item.g = "terminal" -> IF Is(toks[i], item.w) THEN Ok(i + 1, << >>) ELSE Bad(i)
      [] item.g = "class" -> parse_class(item.n, toks, i)
      [] item.g = "enum" -> OneOfWords(item.words, i, parse_class("ident_any", toks, i))
      [] item.g = "opt" ->
            IF Is(toks[i], item.w) THEN Grouped(Run(item.items, toks, i, << >>))
            ELSE Ok(i, << << >> >>)
      [] item.g = "unless" ->
            IF Is(toks[i], item.w) THEN Ok(i, << << >> >>)
            ELSE Grouped(One(item.item, toks, i))
      [] item.g \in {"many", "until"} -> Grouped(Repeat(item, toks, Ok(i, << >>)))
      [] item.g = "sep" ->
            IF Is(toks[i], item.w) THEN Ok(i, << << >> >>)
            ELSE Grouped(Commas(item, toks, One(item.item, toks, i)))
      [] item.g = "atmost" -> Limited(item.n, One(item.item, toks, i))
      [] item.g = "switch" ->
            IF \E w \in DOMAIN item.cases : Is(toks[i], w)
            THEN Tagged(toks[i].w, Run(item.cases[toks[i].w], toks, i, << >>)) ELSE Bad(i)
      [] item.g = "key" ->
            IF toks[i].t \notin {"ident", "kw"} THEN Bad(i)
            ELSE IF ~Is(toks[i + 1], ":") THEN Bad(i + 1)
            ELSE IF toks[i].w \notin DOMAIN item.cases THEN BadAt(i + 2, i, "ADGL0100")
            ELSE Tagged(toks[i].w, Run(item.cases[toks[i].w], toks, i + 2, << >>))
      [] item.g = "production" ->
            CASE item.n = "expr" -> parse_binary(1, toks, i)
              [] item.n = "additive" -> parse_binary(4, toks, i)
              [] OTHER -> stmt_in_rule(item.n, i, Build(item.n, Run(Production(item.n), toks, i, << >>)))

Repeat(item, toks, r) ==
    IF r.ok /\ (IF item.g = "many" THEN Is(toks[r.i], item.w)
                ELSE ~Is(toks[r.i], "}") /\ toks[r.i].t # "eof")
    THEN Repeat(item, toks, Then(<< >>, toks, r.v, One(item.item, toks, r.i))) ELSE r
Commas(item, toks, r) ==
    IF r.ok /\ Is(toks[r.i], ",")
    THEN Commas(item, toks, Then(<< >>, toks, r.v, One(item.item, toks, r.i + 1))) ELSE r

\* A level of the ladder: operands of the next level, folded to the left.
BinaryRight(op, l, left, r) == IF r.ok THEN Ok(r.i, << Binary(op, left, r.v[1]) >>) ELSE r
BinaryLoop(l, toks, r) ==
    IF r.ok /\ toks[r.i].t \in {"kw", "punct"} /\ toks[r.i].w \in Ladder[l]
    THEN BinaryLoop(l, toks, BinaryRight(BinaryOp(toks[r.i].w), l, r.v[1],
                                         parse_binary(l + 1, toks, r.i + 1)))
    ELSE r
parse_binary(l, toks, i) ==
    IF l > Len(Ladder) THEN parse_unary(toks, i)
    ELSE BinaryLoop(l, toks, parse_binary(l + 1, toks, i))

parse_unary(toks, i) ==
    IF Is(toks[i], "!") \/ Is(toks[i], "not")
    THEN LET r == parse_unary(toks, i + 1) IN IF r.ok THEN Ok(r.i, << Not(r.v[1]) >>) ELSE r
    ELSE parse_postfix(toks, parse_primary(toks, i))

PostfixOf(mk, toks, e, r) ==
    parse_postfix(toks, IF ~r.ok THEN r
                        ELSE Ok(r.i, << CASE mk = "." -> Field(e, r.v[1])
                                          [] mk = "(" -> Call(e, r.v[1])
                                          [] mk = "[" -> Index(e, r.v[1]) >>))
parse_postfix(toks, r) ==
    IF ~r.ok THEN r
    ELSE CASE Is(toks[r.i], ".") ->
                 PostfixOf(".", toks, r.v[1], Run(<< T("."), Class("ident_any") >>, toks, r.i, << >>))
           [] Is(toks[r.i], "(") ->
                 PostfixOf("(", toks, r.v[1], One(N("paren_expr_list"), toks, r.i))
           [] Is(toks[r.i], "[") ->
                 PostfixOf("[", toks, r.v[1], Run(<< T("["), N("expr"), T("]") >>, toks, r.i, << >>))
           [] OTHER -> r

PresenceOf(w, r) ==
    IF r.ok THEN Ok(r.i, << IF w = "present" THEN Present(r.v[1]) ELSE Absent(r.v[1]) >>) ELSE r
parse_primary(toks, i) ==
    LET tok == toks[i] IN
    CASE tok.t = "int" -> Ok(i + 1, << IntLit(tok.n) >>)
      [] tok.t = "duration" -> Ok(i + 1, << DurationLit(tok.n) >>)
      [] tok.t = "string" -> Ok(i + 1, << StringLit(tok.w) >>)
      [] tok.t = "ident" \/ (tok.t = "kw" /\ tok.w \in {"event", "Cause", "Problem"}) ->
            Ok(i + 1, << Ident(tok.w) >>)
      [] tok.t = "kw" /\ tok.w \in {"true", "false"} -> Ok(i + 1, << BoolLit(tok.w = "true") >>)
      [] tok.t = "kw" /\ tok.w \in {"present", "absent"} ->
            PresenceOf(tok.w, Run(<< T("("), Class("ident_any"), T(")") >>, toks, i + 1, << >>))
      [] Is(tok, "(") -> Run(<< N("expr"), T(")") >>, toks, i + 1, << >>)
      [] OTHER -> Bad(i)

(* ---- parse_ruleset, with recovery at declarations and rules ---- *)
is_sync_keyword(w) ==
    w \in {"evidence", "decision", "mutually_exclusive", "version", "requires"}

\* The next member of the ruleset or its closing brace; the closing brace of the
\* member that failed is skipped. depth[i] is the brace depth before token i.
RECURSIVE resync_decl_or_rule(_, _, _)
resync_decl_or_rule(toks, depth, i) ==
    IF \/ toks[i].t = "eof"
       \/ toks[i].t = "kw" /\ depth[i] = 1 /\ is_sync_keyword(toks[i].w)
       \/ Is(toks[i], "}") /\ depth[i] = 1
    THEN i
    ELSE IF Is(toks[i], "}") /\ depth[i] = 2 THEN i + 1
    ELSE resync_decl_or_rule(toks, depth, i + 1)

Error(r) == [at |-> r.at, code |-> r.code]
\* recover_item: keep the member, or record the error and resynchronise.
recover_item(st, toks, depth, r) ==
    IF r.ok THEN [st EXCEPT !.i = r.i, !.got = @ \o r.v]
    ELSE [st EXCEPT !.i = resync_decl_or_rule(toks, depth, r.i), !.errs = Append(@, Error(r))]

\* The members a section of the ruleset may hold, by their leading keyword.
Declarations == [requires |-> "requires_decl", mutually_exclusive |-> "mutually_exclusive_decl"]
RuleDecls    == [evidence |-> "evidence_rule", decision |-> "decision_rule"]
RECURSIVE Members(_, _, _, _)
Members(section, toks, depth, st) ==
    IF toks[st.i].t = "kw" /\ toks[st.i].w \in DOMAIN section
    THEN Members(section, toks, depth,
                 recover_item(st, toks, depth, One(N(section[toks[st.i].w]), toks, st.i)))
    ELSE st

Failed(errs) == [ast |-> None, errs |-> errs]
\* The end of the ruleset: a closing brace and nothing after it.
RulesetEnd(toks, st) ==
    IF ~Is(toks[st.i], "}") THEN Append(st.errs, Error(Bad(st.i)))
    ELSE IF toks[st.i + 1].t # "eof" THEN Append(st.errs, Error(Bad(st.i + 1)))
    ELSE st.errs
Closed(open, decls, rules, errs) ==
    IF errs # << >> THEN Failed(errs)
    ELSE [ast |-> Ruleset(open[1], open[2], decls, rules), errs |-> errs]
AfterRules(open, decls, toks, st) == Closed(open, decls, st.got, RulesetEnd(toks, st))
AfterDecls(open, toks, depth, st) ==
    AfterRules(open, st.got, toks, Members(RuleDecls, toks, depth, [st EXCEPT !.got = << >>]))
AfterOpen(toks, depth, r) ==
    IF ~r.ok THEN Failed(<< Error(r) >>)
    ELSE AfterDecls(r.v[1], toks, depth,
                    Members(Declarations, toks, depth, [i |-> r.i, got |-> << >>, errs |-> << >>]))

BraceDepth_Bug(toks) == Depths(toks, {"{", "(", "["}, {"}", ")", "]"}, << 0 >>)
BraceDepth(toks) == Depths(toks, {"{"}, {"}"}, << 0 >>)
ParseTokens(lexed) ==
    IF lexed.deep # {}
    THEN Failed(<< [at |-> CHOOSE i \in lexed.deep : \A j \in lexed.deep : i <= j,
                    code |-> "ADGL0103"] >>)
    ELSE AfterOpen(lexed.tokens, BraceDepth(lexed.tokens), One(N("ruleset_open"), lexed.tokens, 1))
parse_ruleset(text) == ParseTokens(tokenize(text))
=============================================================================
