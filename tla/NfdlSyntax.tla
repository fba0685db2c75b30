------------------------------ MODULE NfdlSyntax ------------------------------
(* The surface syntax of N-FDL: the tokens of lexer.rs and the tolerant        *)
(* recursive-descent parser of nfdl-syntax/src/parser.rs. The parser skips     *)
(* most punctuation it does not find and fills in defaults, so what it makes   *)
(* of a text is decided token by token. A text is a sequence of lexemes; white *)
(* space, comments and the digits of numbers are left out. A string is the     *)
(* sequence of its characters.                                                 *)
(*                                                                             *)
(* A body is the sequence of its items, which is what the code keeps as five   *)
(* vectors tagged with a running order. A field's own `validate` is left out:  *)
(* the lexer has a token of its own for the word, which the field's branch,    *)
(* looking for an identifier, never meets.                                     *)
EXTENDS Integers, Sequences, FiniteSets

LOCAL INSTANCE SequencesExt

(* ---- Syntax trees (ast.rs) ---- *)
NoExpr         == [k |-> "none"]
Int_(v)        == [k |-> "int", v |-> v]
Id(n)          == [k |-> "id", n |-> n]
Str_(s)        == [k |-> "str", s |-> s]
Bin(op, l, r)  == [k |-> "bin", op |-> op, l |-> l, r |-> r]
Un(op, e)      == [k |-> "un", op |-> op, e |-> e]
Cond(c, t, f)  == [k |-> "cond", c |-> c, t |-> t, f |-> f]
Coal(e, d)     == [k |-> "coal", e |-> e, d |-> d]
Call(n, args)  == [k |-> "call", n |-> n, args |-> args]
Tuple(es)      == [k |-> "tuple", es |-> es]
Dot(e, f)      == [k |-> "dot", e |-> e, f |-> f]

Ty(t)          == [t |-> t]
TBytes(len)    == [t |-> "bytes", len |-> len]
TBits(n)       == [t |-> "bitfield", bits |-> n]
TRef(n)        == [t |-> "ref", n |-> n]

Field(n, ty, cond)    == [it |-> "field", name |-> n, ty |-> ty, cond |-> cond]
Let(n, e)             == [it |-> "let", name |-> n, value |-> e]
Validate(e, msg)      == [it |-> "validate", expr |-> e, msg |-> msg]
Loop(n, cs, c, b, ns) == [it |-> "loop", name |-> n, carries |-> cs, cond |-> c, body |-> b, nexts |-> ns]
Match(tag, arms)      == [it |-> "match", tag |-> tag, arms |-> arms]
NoCase                == -1
Arm(case, body)       == [case |-> case, body |-> body]
Carry(n, ty, e)       == [name |-> n, ty |-> ty, init |-> e]
NextStmt(n, e)        == [it |-> "next", name |-> n, value |-> e]
Message(n, body)      == [name |-> n, body |-> body]
BindDecl(l, f, s, e)  == [layer |-> l, field |-> f, source |-> s, when |-> e]
SetAct(x, e)          == [a |-> "set", var |-> x, value |-> e]
EmitAct(ev)           == [a |-> "emit", event |-> ev]
Transition(m, g, to, acts) == [msg |-> m, guard |-> g, to |-> to, actions |-> acts]
State(n, ts)          == [name |-> n, transitions |-> ts]
StateMachine(n, key, init, ss) == [name |-> n, key |-> key, initial |-> init, states |-> ss]
Protocol(n, endian, mode, eof, ms, bs, sms) ==
    [name |-> n, endian |-> endian, mode |-> mode, eof |-> eof,
     messages |-> ms, binds |-> bs, machines |-> sms]
EmptyProtocol == Protocol("", "big", "datagram", "", << >>, << >>, << >>)

(* ---- Tokens (lexer.rs) ---- *)
Word(w) == [x |-> "word", w |-> w, n |-> 0]
Sym(w)  == [x |-> "sym", w |-> w, n |-> 0]
Num(n)  == [x |-> "int", w |-> "", n |-> n]
Chars(s) == [x |-> "string", w |-> "", n |-> 0, s |-> s]

Keywords == {"protocol", "message", "meta", "endian", "mode", "big", "datagram", "validate",
             "bind", "to", "when"}
\* Signs without a token of their own come apart.
SplitSign == [s \in {"==", "=>", ".."} |->
                CASE s = "==" -> << "=", "=" >> [] s = "=>" -> << "=", ">" >>
                  [] s = ".." -> << ".", "." >>]
next_token(l) ==
    CASE l.x = "word" -> << [l EXCEPT !.x = IF l.w \in Keywords THEN "kw" ELSE "ident"] >>
      [] l.x = "sym" /\ l.w \in DOMAIN SplitSign ->
            << Sym(SplitSign[l.w][1]), Sym(SplitSign[l.w][2]) >>
      [] OTHER -> << l >>
Eof == [x |-> "eof", w |-> "", n |-> 0]
Lexed(text) == Append(FlattenSeq([i \in DOMAIN text |-> next_token(text[i])]), Eof)

(* ---- Cursors: a result is the cursor, what was read and whether it is an error ---- *)
Ok(i, v) == [ok |-> TRUE, i |-> i, v |-> v]
Bad(i)   == [ok |-> FALSE, i |-> i, v |-> NoExpr]

IsSym(tok, w)  == tok.x = "sym" /\ tok.w = w
IsKw(tok, w)   == tok.x = "kw" /\ tok.w = w
IsWord(tok, w) == tok.x = "ident" /\ tok.w = w
\* A sign or keyword skipped when it is there.
Eat(toks, i, w) == IF IsSym(toks[i], w) \/ IsKw(toks[i], w) \/ IsWord(toks[i], w) THEN i + 1 ELSE i
\* An identifier, or a default that takes no token.
Name(toks, i, default) ==
    IF toks[i].x = "ident" THEN Ok(i + 1, toks[i].w) ELSE Ok(i, default)
\* An expression, or a default with the cursor where the expression failed.
OrElse(r, default) == IF r.ok THEN r ELSE Ok(r.i, default)
AtEnd(toks, i) == toks[i].x = "eof" \/ IsSym(toks[i], "}")
RECURSIVE SkipStmt(_, _)
SkipStmt(toks, i) == IF AtEnd(toks, i) \/ IsSym(toks[i], ";") THEN i ELSE SkipStmt(toks, i + 1)

(* ---- Expressions ---- *)
\* The levels below `??`, loosest first.
Ladder == << {"||"}, {"&&"}, {"=", "!="}, {"|"}, {"^"}, {"&"}, {"<", "<=", ">", ">="},
             {"<<", ">>"}, {"+", "-"}, {"*", "/", "%"} >>
OpName(w) == IF w = "=" THEN "==" ELSE w
\* Past the operator; an equality may be written with one sign or two.
PastOp(toks, i) == IF IsSym(toks[i], "=") THEN Eat(toks, i + 1, "=") ELSE i + 1

RECURSIVE parse_expr(_, _), TernaryOf(_, _), TernaryElse(_, _, _), CoalesceLoop(_, _),
          parse_level(_, _, _), LevelLoop(_, _, _), parse_unary(_, _), parse_primary(_, _),
          Args(_, _, _), Postfix(_, _)

Wrapped(r, e) == IF r.ok THEN Ok(r.i, e) ELSE r

TernaryElse(c, t, r) == Wrapped(r, Cond(c, t, r.v))
TernaryThen(toks, c, r) ==
    IF ~r.ok THEN r
    ELSE IF ~IsSym(toks[r.i], ":") THEN Bad(r.i)
    ELSE TernaryElse(c, r.v, parse_expr(toks, r.i + 1))
TernaryOf(toks, r) ==
    IF r.ok /\ IsSym(toks[r.i], "?") THEN TernaryThen(toks, r.v, parse_expr(toks, r.i + 1)) ELSE r
CoalesceRight(e, r) == Wrapped(r, Coal(e, r.v))
CoalesceLoop(toks, r) ==
    IF r.ok /\ IsSym(toks[r.i], "??")
    THEN CoalesceLoop(toks, CoalesceRight(r.v, parse_level(1, toks, r.i + 1))) ELSE r
parse_expr(toks, i) == TernaryOf(toks, CoalesceLoop(toks, parse_level(1, toks, i)))

BinaryRight(op, l, r) == Wrapped(r, Bin(op, l, r.v))
LevelLoop(n, toks, r) ==
    IF r.ok /\ toks[r.i].x = "sym" /\ toks[r.i].w \in Ladder[n]
    THEN LevelLoop(n, toks, BinaryRight(OpName(toks[r.i].w), r.v,
                                        parse_level(n + 1, toks, PastOp(toks, r.i))))
    ELSE r
parse_level(n, toks, i) ==
    IF n > Len(Ladder) THEN parse_unary(toks, i)
    ELSE LevelLoop(n, toks, parse_level(n + 1, toks, i))

Unary(op, r) == Wrapped(r, Un(op, r.v))
parse_unary(toks, i) ==
    IF toks[i].x = "sym" /\ toks[i].w \in {"!", "~", "-"}
    THEN Unary(toks[i].w, parse_unary(toks, i + 1))
    ELSE parse_primary(toks, i)

\* Expressions between commas; the closing parenthesis is optional.
MoreArgs(toks, got, r) ==
    IF ~r.ok THEN r
    ELSE IF IsSym(toks[r.i], ",") THEN Args(toks, r.i + 1, Append(got, r.v))
    ELSE Ok(Eat(toks, r.i, ")"), Append(got, r.v))
Args(toks, i, got) == MoreArgs(toks, got, parse_expr(toks, i))
CallOf(n, r)  == Wrapped(r, Call(n, r.v))
GroupOf(r)    == IF ~r.ok THEN r ELSE Ok(r.i, IF Len(r.v) = 1 THEN r.v[1] ELSE Tuple(r.v))

IdentAtom(toks, i, n) ==
    IF n \in {"true", "false"} THEN Ok(i, Int_(IF n = "true" THEN 1 ELSE 0))
    ELSE IF ~IsSym(toks[i], "(") THEN Ok(i, Id(n))
    ELSE IF IsSym(toks[i + 1], ")") THEN Ok(i + 2, Call(n, << >>))
    ELSE CallOf(n, Args(toks, i + 1, << >>))
Postfix(toks, r) ==
    IF ~r.ok \/ ~IsSym(toks[r.i], ".") THEN r
    ELSE IF toks[r.i + 1].x = "ident"
    THEN Postfix(toks, Ok(r.i + 2, Dot(r.v, toks[r.i + 1].w)))
    ELSE Ok(r.i + 1, r.v)
parse_primary(toks, i) ==
    Postfix(toks,
        CASE toks[i].x = "ident"  -> IdentAtom(toks, i + 1, toks[i].w)
          [] toks[i].x = "int"    -> Ok(i + 1, Int_(toks[i].n))
          [] toks[i].x = "string" -> Ok(i + 1, Str_(toks[i].s))
          [] IsSym(toks[i], "(")  -> GroupOf(Args(toks, i + 1, << >>))
          [] OTHER                -> Bad(i))

RECURSIVE contains_rem(_)
contains_rem(e) ==
    CASE e.k = "id"    -> e.n = "__rem"
      [] e.k = "bin"   -> contains_rem(e.l) \/ contains_rem(e.r)
      [] e.k = "un"    -> contains_rem(e.e)
      [] e.k = "cond"  -> contains_rem(e.c) \/ contains_rem(e.t) \/ contains_rem(e.f)
      [] e.k = "coal"  -> contains_rem(e.e) \/ contains_rem(e.d)
      [] e.k = "call"  -> \E i \in DOMAIN e.args : contains_rem(e.args[i])
      [] e.k = "tuple" -> \E i \in DOMAIN e.es : contains_rem(e.es[i])
      [] e.k = "dot"   -> contains_rem(e.e)
      [] OTHER         -> FALSE

(* ---- Types ---- *)
Scalars == {"u8", "u16", "u24", "u32"}
BytesClose(toks, r) == Ok(Eat(toks, r.i, "]"), r.v)
BytesLen(r) == Ok(r.i, TBytes(IF r.ok THEN r.v ELSE Int_(0)))
BytesOf(toks, i) ==
    BytesClose(toks,
        CASE IsWord(toks[i], "EOF")    -> Ok(i + 1, Ty("eof"))
          [] IsWord(toks[i], "stream") -> Ok(i + 1, Ty("stream"))
          [] IsSym(toks[i], ".")       -> Ok(Eat(toks, i + 1, "."), Ty("rest"))
          [] OTHER                     -> BytesLen(parse_expr(toks, i)))
\* A width out of range leaves the cursor behind the closing brace.
BitfieldOf(toks, i) ==
    IF ~IsSym(toks[i], "{") THEN Bad(i)
    ELSE IF toks[i + 1].x # "int" THEN Bad(Eat(toks, i + 1, "}"))
    ELSE IF toks[i + 1].n \notin 1..64 THEN Bad(Eat(toks, i + 2, "}"))
    ELSE IF ~IsSym(toks[i + 2], "}") THEN Bad(i + 2)
    ELSE Ok(i + 3, TBits(toks[i + 1].n))
\* What is no type at all counts as one byte and costs one token.
parse_type(toks, i) ==
    LET w == toks[i].w IN
    CASE toks[i].x # "ident" -> Ok(IF toks[i].x = "eof" THEN i ELSE i + 1, Ty("u8"))
      [] w \in Scalars -> Ok(i + 1, Ty(w))
      [] w = "bytes" -> IF IsSym(toks[i + 1], "[") THEN BytesOf(toks, i + 2) ELSE Ok(i + 1, Ty("rest"))
      [] w = "bitfield" -> BitfieldOf(toks, i + 1)
      [] OTHER -> Ok(i + 1, TRef(w))
=============================================================================
