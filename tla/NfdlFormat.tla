------------------------------ MODULE NfdlFormat ------------------------------
(* The N-FDL formatter (ndsl-fmt/src/lib.rs): the text of a protocol, as the   *)
(* lexemes it prints. Comments, which it moves to the head of the file, and    *)
(* layout are left out. An author's hand spells the same declarations in the   *)
(* other ways the parser reads: all parentheses, settings outside a meta       *)
(* block, `->` behind a case, empty action blocks.                             *)
EXTENDS NfdlParser

LOCAL INSTANCE SequencesExt

Flat(seqs) == FlattenSeq(seqs)
CommaSep(seqs) ==
    Flat([i \in DOMAIN seqs |-> IF i = 1 THEN seqs[i] ELSE << Sym(",") >> \o seqs[i]])
Parens(text) == << Sym("(") >> \o text \o << Sym(")") >>
Braces(text) == << Sym("{") >> \o text \o << Sym("}") >>
End == << Sym(";") >>

(* ---- Expressions ---- *)
\* A string is printed with every backslash doubled.
emit_string_lit(s) ==
    << Chars(Flat([i \in DOMAIN s |-> IF s[i] = "\\" THEN << "\\", "\\" >> ELSE << s[i] >>])) >>

binop_prec_Bug(op) ==
    CASE op = "||" -> 3 [] op = "&&" -> 4 [] op = "|" -> 5 [] op = "^" -> 6 [] op = "&" -> 7
      [] op \in {"==", "!="} -> 8 [] op \in {"<", "<=", ">", ">="} -> 9
      [] op \in {"<<", ">>"} -> 10 [] OTHER -> 11
binop_prec(op) ==
    CASE op = "||" -> 3 [] op = "&&" -> 4 [] op = "|" -> 5 [] op = "^" -> 6 [] op = "&" -> 7
      [] op \in {"==", "!="} -> 8 [] op \in {"<", "<=", ">", ">="} -> 9
      [] op \in {"<<", ">>"} -> 10 [] op \in {"+", "-"} -> 11 [] op \in {"*", "/", "%"} -> 12
expr_prec(e) ==
    CASE e.k = "bin" -> binop_prec(e.op) [] e.k = "un" -> 12
      [] e.k = "coal" -> 2 [] e.k = "cond" -> 1 [] OTHER -> 13

Wrap(must, text) == IF must THEN Parens(text) ELSE text

RECURSIVE emit_expr(_, _)
emit_expr(e, parent_prec) ==
    Wrap(expr_prec(e) < parent_prec,
         CASE e.k = "id"   -> << Word(e.n) >>
           [] e.k = "int"  -> << Num(e.v) >>
           [] e.k = "str"  -> emit_string_lit(e.s)
           [] e.k = "un"   -> << Sym(e.op) >> \o emit_expr(e.e, 13)
           [] e.k = "bin"  -> emit_expr(e.l, binop_prec(e.op)) \o << Sym(e.op) >>
                                \o emit_expr(e.r, binop_prec(e.op) + 1)
           [] e.k = "cond" -> emit_expr(e.c, 2) \o << Sym("?") >> \o emit_expr(e.t, 1)
                                \o << Sym(":") >> \o emit_expr(e.f, 1)
           [] e.k = "coal" -> emit_expr(e.e, 3) \o << Sym("??") >> \o emit_expr(e.d, 2)
           [] e.k = "call" -> << Word(e.n) >>
                                \o Parens(CommaSep([i \in DOMAIN e.args |-> emit_expr(e.args[i], 0)]))
           [] e.k = "tuple" -> Parens(CommaSep([i \in DOMAIN e.es |-> emit_expr(e.es[i], 0)]))
           [] e.k = "dot"  -> emit_expr(e.e, 13) \o << Sym("."), Word(e.f) >>)

RECURSIVE Written(_)
Inside(e) == Wrap(expr_prec(e) < 13, Written(e))
Written(e) ==
    CASE e.k = "un"   -> << Sym(e.op) >> \o Inside(e.e)
      [] e.k = "str"  -> << Chars(e.s) >>
      [] e.k = "bin"  -> Inside(e.l) \o << Sym(e.op) >> \o Inside(e.r)
      [] e.k = "cond" -> Inside(e.c) \o << Sym("?") >> \o Inside(e.t) \o << Sym(":") >> \o Inside(e.f)
      [] e.k = "coal" -> Inside(e.e) \o << Sym("??") >> \o Inside(e.d)
      [] e.k = "call" -> << Word(e.n) >> \o Parens(CommaSep([i \in DOMAIN e.args |-> Written(e.args[i])]))
      [] e.k = "tuple" -> Parens(CommaSep([i \in DOMAIN e.es |-> Written(e.es[i])]))
      [] e.k = "dot"  -> Inside(e.e) \o << Sym("."), Word(e.f) >>
      [] OTHER        -> emit_expr(e, 0)

\* By whose hand: the formatter's ("fmt") or the author's ("author").
ExprText(e, hand)   == IF hand = "fmt" THEN emit_expr(e, 0) ELSE Written(e)
StringText(s, hand) == IF hand = "fmt" THEN emit_string_lit(s) ELSE << Chars(s) >>

(* ---- Statements ---- *)
emit_type(ty, hand) ==
    CASE ty.t = "bytes"    -> << Word("bytes"), Sym("[") >> \o ExprText(ty.len, hand) \o << Sym("]") >>
      [] ty.t = "rest"     -> << Word("bytes") >> \o IF hand = "fmt" THEN << Sym("["), Sym(".."), Sym("]") >> ELSE << >>
      [] ty.t = "eof"      -> << Word("bytes"), Sym("["), Word("EOF"), Sym("]") >>
      [] ty.t = "stream"   -> << Word("bytes"), Sym("["), Word("stream"), Sym("]") >>
      [] ty.t = "bitfield" -> << Word("bitfield") >> \o Braces(<< Num(ty.bits) >>)
      [] ty.t = "ref"      -> << Word(ty.n) >>
      [] OTHER             -> << Word(ty.t) >>

FieldHead(f, hand) == << Word(f.name), Sym(":") >> \o emit_type(f.ty, hand)
IfText(f, hand) == IF f.cond = NoExpr THEN << >> ELSE << Word("if") >> \o ExprText(f.cond, hand)

\* What an author may get wrong in a field. "wide" to "empty" leave no field behind;
\* without its `;`, or with a stray sign before it, the field can still be read.
Lossy == {"wide", "unsized", "bare", "rem", "empty"}
Faulty(kind, f) == [it |-> "faulty", kind |-> kind, field |-> f]
Slipped(k, f) ==
    << Word(f.name), Sym(":") >> \o
    CASE k = "wide"    -> << Word("bitfield") >> \o Braces(<< Num(65) >>) \o End
      [] k = "unsized" -> << Word("bitfield") >> \o Braces(<< >>) \o End
      [] k = "bare"    -> << Word("bitfield") >> \o End
      [] k = "rem"     -> emit_type(f.ty, "author") \o << Word("if"), Word("__rem"), Sym(">"), Num(0) >> \o End
      [] k = "empty"   -> emit_type(f.ty, "author") \o << Word("if") >> \o End
      [] k = "open"    -> emit_type(f.ty, "author")
      [] k = "stray"   -> emit_type(f.ty, "author") \o << Sym(")") >> \o End
\* Where a faulty statement starts and where it has ended.
Mark(w) == << [x |-> "mark", w |-> w, n |-> 0] >>
emit_field(f, hand) ==
    IF f.it = "faulty" THEN Mark("from") \o Slipped(f.kind, f.field) \o Mark("to")
    ELSE FieldHead(f, hand) \o IfText(f, hand) \o End

emit_let(l, hand) == << Word("let"), Word(l.name), Sym("=") >> \o ExprText(l.value, hand) \o End
emit_validate(v, hand) ==
    << Word("validate") >> \o ExprText(v.expr, hand)
    \o (IF hand = "author" /\ v.msg = Constraint THEN << >> ELSE << Sym("->") >> \o StringText(v.msg, hand))
    \o End
emit_carry(c, hand) ==
    << Word("carry"), Word(c.name), Sym(":") >> \o emit_type(c.ty, hand) \o << Sym("=") >>
    \o ExprText(c.init, hand) \o (IF hand = "fmt" THEN << >> ELSE End)
emit_next(n, hand) == << Word("next"), Word(n.name), Sym("=") >> \o ExprText(n.value, hand) \o End
emit_loop(lp, hand) ==
    << Word("loop"), Word(lp.name) >>
    \o Flat([i \in DOMAIN lp.carries |-> emit_carry(lp.carries[i], hand)])
    \o << Word("while") >> \o ExprText(lp.cond, hand)
    \o Braces(Flat([i \in DOMAIN lp.body |-> emit_field(lp.body[i], hand)])
              \o Flat([i \in DOMAIN lp.nexts |-> emit_next(lp.nexts[i], hand)]))

RECURSIVE emit_body(_, _)
emit_match_arm(arm, hand) ==
    (IF arm.case = NoCase THEN << Word("default") >> ELSE << Word("case"), Num(arm.case) >>)
    \o << Sym(IF hand = "fmt" THEN "=>" ELSE "->") >> \o Braces(emit_body(arm.body, hand))
emit_match(mt, hand) ==
    << Word("match") >> \o ExprText(mt.tag, hand)
    \o Braces(Flat([i \in DOMAIN mt.arms |-> emit_match_arm(mt.arms[i], hand)]))
EmitItem(x, hand) ==
    CASE x.it \in {"field", "faulty"} -> emit_field(x, hand)
      [] x.it = "let" -> emit_let(x, hand)
      [] x.it = "validate" -> emit_validate(x, hand)
      [] x.it = "loop" -> emit_loop(x, hand)
      [] x.it = "match" -> emit_match(x, hand)
emit_body(body, hand) == Flat([i \in DOMAIN body |-> EmitItem(body[i], hand)])

(* ---- Declarations ---- *)
emit_message(msg, hand) == << Word("message"), Word(msg.name) >> \o Braces(emit_body(msg.body, hand))
emit_bind(b, hand) ==
    << Word("bind"), Word(b.layer), Word(b.field), Word("to"), Word(b.source), Word("when") >>
    \o ExprText(b.when, hand) \o End
EmitAction(a, hand) ==
    IF a.a = "emit" THEN << Word("emit"), Word(a.event) >> \o End
    ELSE << Word("set"), Word(a.var), Sym("=") >> \o ExprText(a.value, hand) \o End
\* The formatter prints a transition without actions without a block.
emit_transition(t, hand) ==
    << Word("on"), Word(t.msg) >>
    \o (IF t.guard = NoExpr THEN << >> ELSE << Word("guard") >> \o Parens(ExprText(t.guard, hand)))
    \o << Sym("->"), Word(t.to) >>
    \o (IF hand = "fmt" /\ t.actions = << >> THEN End
        ELSE Braces(Flat([i \in DOMAIN t.actions |-> EmitAction(t.actions[i], hand)]))
             \o (IF hand = "fmt" THEN End ELSE << >>))
emit_state(s, hand) ==
    << Word("state"), Word(s.name) >>
    \o Braces(Flat([i \in DOMAIN s.transitions |-> emit_transition(s.transitions[i], hand)]))
emit_state_machine(sm, hand) ==
    << Word("state_machine"), Word(sm.name) >>
    \o Braces((IF sm.key = NoExpr THEN << >> ELSE << Word("key"), Sym("=") >> \o ExprText(sm.key, hand) \o End)
              \o Flat([i \in DOMAIN sm.states |-> emit_state(sm.states[i], hand)]))
Setting(w, v) == << Word(w), Sym("="), Word(v) >> \o End
emit_meta(proto, hand) ==
    LET settings == Setting("endian", proto.endian) \o Setting("mode", proto.mode)
        eof      == IF proto.eof = "" THEN << >> ELSE Setting("eof", proto.eof)
    IN  IF hand = "author" /\ eof = << >> THEN settings
        ELSE << Word("meta") >> \o Braces(settings \o eof)
emit_protocol(proto, hand) ==
    << Word("protocol"), Word(proto.name) >>
    \o Braces(emit_meta(proto, hand)
              \o Flat([i \in DOMAIN proto.messages |-> emit_message(proto.messages[i], hand)])
              \o Flat([i \in DOMAIN proto.binds |-> emit_bind(proto.binds[i], hand)])
              \o Flat([i \in DOMAIN proto.machines |-> emit_state_machine(proto.machines[i], hand)]))
FileText(protos, hand) == Flat([i \in DOMAIN protos |-> emit_protocol(protos[i], hand)])

(* ---- The whole file ---- *)
\* Token ranges of the protocols, by counting braces from each `protocol` on.
\* One whose braces do not close is in none of them.
RECURSIVE SpanLoop(_, _, _, _, _)
SpanLoop(toks, i, start, depth, spans) ==
    LET go(s, d, ss) == SpanLoop(toks, i + 1, s, d, ss) IN
    CASE toks[i].x = "eof" -> spans
      [] IsKw(toks[i], "protocol") /\ start = 0 -> go(i, 0, spans)
      [] IsSym(toks[i], "{") /\ start # 0 -> go(start, depth + 1, spans)
      [] IsSym(toks[i], "}") /\ start # 0 ->
            IF depth = 1 THEN go(0, 0, Append(spans, << start, i >>)) ELSE go(start, depth - 1, spans)
      [] OTHER -> go(start, depth, spans)
protocol_spans(toks) == SpanLoop(toks, 1, 0, 0, << >>)

ChunkOf(toks, span) == Append(SubSeq(toks, span[1], span[2]), Eof)
\* Each protocol parsed on its own, fail-fast.
ChunkParses(toks) ==
    LET spans == protocol_spans(toks)
    IN  [i \in DOMAIN spans |-> parse_protocol(ChunkOf(toks, spans[i]))]
\* A file without a whole protocol is only parsed, and printed as nothing.
Formatted(toks, parses) ==
    IF parses = << >> THEN [ok |-> parse_protocol(toks).ok, text |-> << >>]
    ELSE [ok |-> \A i \in DOMAIN parses : parses[i].ok,
          text |-> FileText([i \in DOMAIN parses |-> parses[i].proto], "fmt")]
format_nfdl_source(toks) == Formatted(toks, ChunkParses(toks))
=============================================================================
