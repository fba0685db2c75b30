------------------------------ MODULE AdglFormat ------------------------------
(* The ADGL formatter (ndsl-fmt/src/adgl.rs): the text of a ruleset, as the    *)
(* sequence of lexemes it prints. Comments, which it moves to the head of the  *)
(* file, and layout are left out.                                              *)
EXTENDS AdglSyntax

LOCAL INSTANCE SequencesExt

Flat(seqs) == FlattenSeq(seqs)
CommaSep(seqs) ==
    Flat([i \in DOMAIN seqs |-> IF i = 1 THEN seqs[i] ELSE << Sym(",") >> \o seqs[i]])
Parens(text) == << Sym("(") >> \o text \o << Sym(")") >>
Braces(text) == << Sym("{") >> \o text \o << Sym("}") >>
Squares(text) == << Sym("[") >> \o text \o << Sym("]") >>
Words(s) == [i \in DOMAIN s |-> << Word(s[i]) >>]

emit_duration(ms) ==
    << CASE ms # 0 /\ ms % 60000 = 0 -> Number(ms \div 60000, "min")
         [] ms # 0 /\ ms % 1000 = 0 /\ ms % 60000 # 0 -> Number(ms \div 1000, "s")
         [] OTHER -> Number(ms, "ms") >>
binop_prec_Bug(op) ==
    CASE op = "or" -> 3 [] op = "and" -> 4 [] op \in CmpOps \cup {"in"} -> 8
      [] op \in ArithOps -> 12
binop_prec(op) ==
    CASE op = "or" -> 3 [] op = "and" -> 4 [] op \in CmpOps \cup {"in"} -> 8
      [] op \in AddOps -> 11 [] op \in MulOps -> 12
expr_prec(e) ==
    CASE e.k = "binary" -> binop_prec(e.op) [] e.k = "not" -> 12 [] OTHER -> 13
OpText(op) == IF op \in {"or", "and", "in"} THEN Word(op) ELSE Sym(op)
\* An expression without parts, and one applied to texts of its parts.
Leaf(e) ==
    CASE e.k = "int" -> << Number(e.v, "") >>
      [] e.k = "duration" -> emit_duration(e.ms)
      [] e.k = "string" -> << Str(e.s) >>
      [] e.k = "ident" -> << Word(e.n) >>
      [] e.k = "bool" -> << Word(IF e.b THEN "true" ELSE "false") >>
      [] e.k \in {"present", "absent"} -> << Word(e.k) >> \o Parens(<< Word(e.n) >>)
Wrap(cond, text) == IF cond THEN Parens(text) ELSE text

RECURSIVE emit_expr(_, _)
emit_expr(e, parent_prec) ==
    Wrap(expr_prec(e) < parent_prec,
         CASE e.k = "not" -> << Sym("!") >> \o emit_expr(e.e, 13)
           [] e.k = "binary" ->
                emit_expr(e.l, binop_prec(e.op)) \o << OpText(e.op) >>
                \o emit_expr(e.r, binop_prec(e.op) + 1)
           [] e.k = "field" -> emit_expr(e.base, 13) \o << Sym("."), Word(e.f) >>
           [] e.k = "call" ->
                emit_expr(e.callee, 13)
                \o Parens(CommaSep([i \in DOMAIN e.args |-> emit_expr(e.args[i], 0)]))
           [] e.k = "index" -> emit_expr(e.base, 13) \o Squares(emit_expr(e.i, 0))
           [] OTHER -> Leaf(e))

\* How an author writes an expression: every operator in parentheses, other
\* spellings of the operators, durations in milliseconds.
AuthorOp(op) == CASE op = "or" -> Sym("||") [] op = "and" -> Sym("&&") [] OTHER -> OpText(op)
RECURSIVE Written(_)
Written(e) ==
    CASE e.k = "not" -> << Word("not") >> \o Written(e.e)
      [] e.k = "binary" -> Parens(Written(e.l) \o << AuthorOp(e.op) >> \o Written(e.r))
      [] e.k = "field" -> Written(e.base) \o << Sym("."), Word(e.f) >>
      [] e.k = "call" -> Written(e.callee)
            \o Parens(CommaSep([i \in DOMAIN e.args |-> Written(e.args[i])]))
      [] e.k = "index" -> Written(e.base) \o Squares(Written(e.i))
      [] e.k = "duration" -> << Number(e.ms, "ms") >>
      [] OTHER -> Leaf(e)

\* By whose hand: the formatter's ("fmt") or the author's.
ExprText(e, hand) == IF hand = "fmt" THEN emit_expr(e, 0) ELSE Written(e)
ExprTexts(es, hand) == CommaSep([i \in DOMAIN es |-> ExprText(es[i], hand)])

emit_kind_ident(kind) ==
    LET segs == Segments(kind)
    IN  Flat([i \in DOMAIN segs |-> IF i = 1 THEN << Word(segs[i]) >>
                                    ELSE << Sym("."), Word(segs[i]) >>])
emit_ref_list(ids) == Squares(CommaSep(Words(ids)))
emit_field_text(f, hand) ==
    << Word(f.f), Sym(":") >> \o
    CASE f.f = "target" -> ExprText(f.e, hand)
      [] f.f = "weight" -> << Sym(IF f.v >= 0 THEN "+" ELSE "-"), Number(IF f.v >= 0 THEN f.v ELSE -f.v, "") >>
      [] f.f = "evidence" -> emit_ref_list(f.ids)
      [] f.f = "severity" -> << Word(f.sev) >>
      [] f.f \in {"sarif_id", "reason"} -> << Str(f.s) >>
FieldsText(fields, hand) ==
    Braces(CommaSep([i \in DOMAIN fields |-> emit_field_text(fields[i], hand)]))
emit_infer(s, hand) ==
    << Word("infer"), Word("Cause") >> \o Parens(<< Word(s.kind) >>) \o FieldsText(s.fields, hand)
emit_emit(s, hand) ==
    << Word("emit"), Word("Problem") >> \o Parens(<< Word(s.kind) >>) \o FieldsText(s.fields, hand)
emit_action(s, hand) ==
    << Word("action"), Word(s.kind) >>
    \o (IF s.arg = "none" THEN << >> ELSE Parens(emit_kind_ident(s.arg)))
    \o FieldsText(s.fields, hand)
emit_stmt(s, hand) ==
    CASE s.op = "infer" -> emit_infer(s, hand) [] s.op = "emit" -> emit_emit(s, hand)
      [] s.op = "action" -> emit_action(s, hand)
StmtTexts(stmts, hand) == Flat([i \in DOMAIN stmts |-> emit_stmt(stmts[i], hand)])

SourceText(src, kind) ==
    CASE src = "event" -> << Word("event") >> \o Parens(emit_kind_ident(kind))
      [] src = "cause" -> << Word("Cause") >> \o Parens(<< Word(kind) >>)
      [] src = "problem" -> << Word("Problem") >> \o Parens(<< Word(kind) >>)
emit_anchor(a, hand) ==
    << Word("anchor"), Word(a.bind), Sym(":") >> \o SourceText(a.src, a.kind)
    \o (IF a.pred = None THEN << >> ELSE Braces(ExprText(a.pred, hand)))
emit_topo(t, hand) == << Word(t.fn) >> \o Parens(ExprTexts(t.args, hand))
emit_time_window(t, hand) ==
    ExprText(t.probe, hand) \o << Word("in") >> \o Squares(ExprTexts(<< t.start, t.end >>, hand))
emit_correlate(c, hand) ==
    << Word("correlate"), Word(c.bind), Sym(":") >> \o SourceText(c.src, c.kind)
    \o Braces(<< Word("topo"), Sym(":") >> \o emit_topo(c.topo, hand)
              \o << Word("time"), Sym(":") >> \o emit_time_window(c.time, hand)
              \o (IF c.min = {} THEN << >>
                  ELSE << Word("having"), Sym(":"), Word("count"), Sym(">="),
                          Number(CHOOSE n \in c.min : TRUE, "") >>))
emit_if_else(b, hand) ==
    << Word("if") >> \o ExprText(b.cond, hand) \o Braces(StmtTexts(b.then, hand))
    \o (IF b.else = << >> THEN << >> ELSE << Word("else") >> \o Braces(StmtTexts(b.else[1], hand)))
emit_rule(r, hand) ==
    << Word(r.kind), Word(r.name) >>
    \o Braces(<< Word("scope"), Sym(":"), Word(r.scope) >> \o emit_anchor(r.anchor, hand)
              \o Flat([i \in DOMAIN r.corr |-> emit_correlate(r.corr[i], hand)])
              \o (IF r.if_else = None THEN << >> ELSE emit_if_else(r.if_else, hand))
              \o StmtTexts(r.body, hand))
emit_requires(d) ==
    << Word("requires"), Sym("=") >> \o Squares(CommaSep([i \in DOMAIN d.caps |-> << Str(d.caps[i]) >>]))
emit_mutually_exclusive(d) == << Word("mutually_exclusive") >> \o Parens(CommaSep(Words(d.names)))

\* The members of a ruleset, declarations then rules, and the whole text.
MemberTexts(rs, hand) ==
    [i \in DOMAIN rs.decls |-> IF rs.decls[i].d = "requires" THEN emit_requires(rs.decls[i])
                               ELSE emit_mutually_exclusive(rs.decls[i])]
    \o [i \in DOMAIN rs.rules |-> emit_rule(rs.rules[i], hand)]
emit_ruleset(rs, members) ==
    << Word("ruleset"), Str(rs.name) >>
    \o Braces(<< Word("version"), Sym("="), Str(rs.version) >> \o Flat(members))
=============================================================================
