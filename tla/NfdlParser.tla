------------------------------ MODULE NfdlParser ------------------------------
(* The statements and declarations of N-FDL: parser.rs from its error recovery *)
(* to parse_protocol. Fail-fast, the first statement in error ends the parse;  *)
(* recovering, it is recorded and the parser goes on at the next boundary.     *)
(*                                                                             *)
(* p is the parser: its tokens and its mode. st is a run of statements: the    *)
(* cursor, what was read, the tokens at which errors were recorded, and        *)
(* whether the parse still goes on.                                            *)
EXTENDS NfdlSyntax


Start(i, errs)    == [i |-> i, got |-> << >>, errs |-> errs, ok |-> TRUE]
MoveTo(st, i)     == [st EXCEPT !.i = i]
Push(st, i, item) == [st EXCEPT !.i = i, !.got = Append(@, item)]
\* Taking the errors, and the failure, of a nested run over.
Absorb(st, sub)   == [st EXCEPT !.i = sub.i, !.errs = sub.errs, !.ok = sub.ok]
\* One token on; the cursor stays at the end of the text.
Past(toks, i)     == IF toks[i].x = "eof" THEN i ELSE i + 1

(* ---- Recovery ---- *)
SyncKeywords == {"message", "meta", "bind", "protocol", "validate"}
SyncWords    == {"state_machine", "let", "loop", "match", "next", "carry"}

RECURSIVE resync_statement(_, _)
resync_statement(toks, i) ==
    CASE IsSym(toks[i], ";") -> i + 1
      [] \/ AtEnd(toks, i)
         \/ toks[i].x = "kw" /\ toks[i].w \in SyncKeywords
         \/ toks[i].x = "ident" /\ toks[i].w \in SyncWords -> i
      [] OTHER -> resync_statement(toks, i + 1)

Record(p, st, i) ==
    IF p.recover THEN [st EXCEPT !.i = i, !.errs = Append(@, i)] ELSE [st EXCEPT !.i = i, !.ok = FALSE]
recover_reject(p, st, i) ==
    IF p.recover THEN MoveTo(Record(p, st, i), resync_statement(p.toks, i)) ELSE Record(p, st, i)

(* ---- Fields ---- *)
\* The condition, over which __rem has no say.
IfClause(r) == IF r.ok /\ contains_rem(r.v) THEN Bad(r.i) ELSE r
Conditional(n, ty, r) == IF r.ok THEN Ok(r.i, Field(n, ty, r.v)) ELSE r
AfterType(toks, n, r) ==
    IF ~r.ok THEN r
    ELSE IF IsWord(toks[r.i], "if") THEN Conditional(n, r.v, IfClause(parse_expr(toks, r.i + 1)))
    ELSE Ok(r.i, Field(n, r.v, NoExpr))
FieldAt(toks, i) == AfterType(toks, toks[i].w, parse_type(toks, Eat(toks, i + 1, ":")))

\* A field of a body ends with `;`. A closing brace or a keyword stands for it,
\* an identifier starts the next statement, anything else is junk to skip.
SoftClose == {"message", "meta", "validate"}
EndField_Bug(p, st) ==
    LET tok == p.toks[st.i] IN
    CASE IsSym(tok, ";") -> MoveTo(st, st.i + 1)
      [] AtEnd(p.toks, st.i) \/ (tok.x = "kw" /\ tok.w \in SoftClose) -> st
      [] tok.x = "ident" -> recover_reject(p, st, st.i)
      [] OTHER -> recover_reject(p, st, st.i)
EndField(p, st) ==
    LET tok == p.toks[st.i] IN
    CASE IsSym(tok, ";") -> MoveTo(st, st.i + 1)
      [] AtEnd(p.toks, st.i) \/ (tok.x = "kw" /\ tok.w \in SoftClose) -> st
      [] tok.x = "ident" -> Record(p, st, st.i)
      [] OTHER -> recover_reject(p, st, st.i)
FieldEnd(toks, r) == IF r.v.cond = NoExpr THEN r.i ELSE SkipStmt(toks, r.i)
BodyField(p, st, r) ==
    IF r.ok THEN EndField(p, Push(st, FieldEnd(p.toks, r), r.v)) ELSE recover_reject(p, st, r.i)
\* A field of a loop ends wherever it ends.
LoopField(p, st, r) ==
    IF r.ok THEN Push(st, Eat(p.toks, r.i, ";"), r.v) ELSE recover_reject(p, st, r.i)

(* ---- Validate and let ---- *)
Constraint == << "constraint" >>
ArrowText(toks, i) ==
    IF ~IsSym(toks[i], "->") THEN Ok(i, Constraint)
    ELSE IF toks[i + 1].x = "string" THEN Ok(i + 2, toks[i + 1].s)
    ELSE Ok(i + 1, Constraint)
ValidateOf(toks, st, e, m) ==
    Push(st, Eat(toks, SkipStmt(toks, m.i), ";"), Validate(e.v, m.v))
ValidateFrom(toks, st, e) == ValidateOf(toks, st, e, ArrowText(toks, e.i))
ValidateStmt(toks, st) == ValidateFrom(toks, st, OrElse(parse_expr(toks, st.i + 1), Int_(1)))

\* A value that is no expression leaves no let and no error behind.
LetOf(toks, st, n, e) ==
    IF e.ok THEN Push(st, Eat(toks, e.i, ";"), Let(n, e.v)) ELSE MoveTo(st, Eat(toks, e.i, ";"))
LetStmt(toks, st) == LetOf(toks, st, toks[st.i + 1].w, parse_expr(toks, Eat(toks, st.i + 2, "=")))

(* ---- Loops ---- *)
CarryOf(toks, sub, n, ty, e) == Push(sub, Eat(toks, e.i, ";"), Carry(n, ty.v, e.v))
CarryTyped(p, sub, n, ty) ==
    IF ty.ok THEN CarryOf(p.toks, sub, n, ty, OrElse(parse_expr(p.toks, Eat(p.toks, ty.i, "=")), Int_(0)))
    ELSE recover_reject(p, sub, ty.i)
CarryNamed(p, sub, n) == CarryTyped(p, sub, n.v, parse_type(p.toks, Eat(p.toks, n.i, ":")))
RECURSIVE Carries(_, _)
Carries(p, sub) ==
    IF sub.ok /\ IsWord(p.toks[sub.i], "carry")
    THEN Carries(p, CarryNamed(p, sub, Name(p.toks, sub.i + 1, ""))) ELSE sub

NextOf(toks, sub, n, e) == Push(sub, Eat(toks, e.i, ";"), NextStmt(n.v, e.v))
NextNamed(toks, sub, n) == NextOf(toks, sub, n, OrElse(parse_expr(toks, Eat(toks, n.i, "=")), Int_(0)))
LoopItem(p, sub) ==
    IF IsWord(p.toks[sub.i], "next") THEN NextNamed(p.toks, sub, Name(p.toks, sub.i + 1, ""))
    ELSE IF p.toks[sub.i].x = "ident" THEN LoopField(p, sub, FieldAt(p.toks, sub.i))
    ELSE MoveTo(sub, Eat(p.toks, sub.i + 1, ";"))
RECURSIVE LoopItems(_, _)
LoopItems(p, sub) ==
    IF ~sub.ok \/ AtEnd(p.toks, sub.i) THEN sub ELSE LoopItems(p, LoopItem(p, sub))

WhileExpr(toks, i) ==
    IF IsSym(toks[i], "{") \/ IsSym(toks[i], ";") THEN Ok(i, Int_(1))
    ELSE OrElse(parse_expr(toks, i), Int_(1))
OfKind(items, it) == SelectSeq(items, LAMBDA x : x.it = it)
\* The condition is judged only after the whole loop has been read.
LoopJudged(p, st, n, carries, cond, items, i) ==
    IF ~items.ok THEN Absorb(st, items)
    ELSE IF contains_rem(cond) THEN recover_reject(p, Absorb(st, items), i)
    ELSE Push(Absorb(st, items), i,
              Loop(n, carries.got, cond, OfKind(items.got, "field"), OfKind(items.got, "next")))
LoopClosed(p, st, n, carries, cond, items) ==
    LoopJudged(p, st, n, carries, cond, items, Eat(p.toks, items.i, "}"))
LoopWhile(p, st, n, carries, cond) ==
    LoopClosed(p, st, n, carries, cond.v, LoopItems(p, Start(Eat(p.toks, cond.i, "{"), carries.errs)))
LoopCarried(p, st, n, carries) ==
    IF carries.ok THEN LoopWhile(p, st, n, carries, WhileExpr(p.toks, Eat(p.toks, carries.i, "while")))
    ELSE Absorb(st, carries)
LoopNamed(p, st, n) == LoopCarried(p, st, n.v, Carries(p, Start(n.i, st.errs)))
LoopStmt(p, st) == LoopNamed(p, st, Name(p.toks, st.i + 1, "loop"))

(* ---- Bodies and their matches ---- *)
RECURSIVE parse_body(_, _), Statements(_, _), Arms(_, _)

ArmCase(toks, i) ==
    IF ~IsWord(toks[i], "case") THEN Ok(i + 1, NoCase)
    ELSE IF toks[i + 1].x = "int" THEN Ok(i + 2, toks[i + 1].n)
    ELSE Ok(Past(toks, i + 1), 0)
ArmRead(p, sub, case, body) ==
    IF body.ok THEN Push(Absorb(sub, body), Eat(p.toks, body.i, ","), Arm(case.v, body.got))
    ELSE Absorb(sub, body)
ArmOf(p, sub, case) ==
    ArmRead(p, sub, case,
            parse_body(p, Start(Eat(p.toks, Eat(p.toks, case.i, "->"), "{"), sub.errs)))
Arms(p, sub) ==
    IF ~sub.ok \/ AtEnd(p.toks, sub.i) THEN sub
    ELSE Arms(p, ArmOf(p, sub, ArmCase(p.toks, sub.i)))
MatchClosed(p, st, tag, arms) ==
    IF arms.ok THEN Push(Absorb(st, arms), Eat(p.toks, arms.i, "}"), Match(tag, arms.got))
    ELSE Absorb(st, arms)
MatchOf(p, st, tag) == MatchClosed(p, st, tag.v, Arms(p, Start(Eat(p.toks, tag.i, "{"), st.errs)))
MatchStmt(p, st) == MatchOf(p, st, OrElse(parse_expr(p.toks, st.i + 1), Int_(0)))

Statement(p, st) ==
    LET tok == p.toks[st.i] IN
    IF IsKw(tok, "validate") THEN ValidateStmt(p.toks, st)
    ELSE IF IsWord(tok, "match") THEN MatchStmt(p, st)
    ELSE IF IsWord(tok, "let") /\ p.toks[st.i + 1].x = "ident" THEN LetStmt(p.toks, st)
    ELSE IF IsWord(tok, "loop") THEN LoopStmt(p, st)
    ELSE IF tok.x = "ident" THEN BodyField(p, st, FieldAt(p.toks, st.i))
    ELSE MoveTo(st, Eat(p.toks, st.i + 1, ";"))
Statements(p, st) ==
    IF ~st.ok \/ AtEnd(p.toks, st.i) THEN st ELSE Statements(p, Statement(p, st))
BodyClosed(toks, st) == IF st.ok THEN MoveTo(st, Eat(toks, st.i, "}")) ELSE st
parse_body(p, st) == BodyClosed(p.toks, Statements(p, st))

(* ---- State machines: an expression in error loses the machine, silently ---- *)
\* acc collects actions, transitions or states; ~ok once an expression failed.
SetAction(toks, acc, n, e) ==
    IF e.ok THEN Push(acc, Eat(toks, e.i, ";"), SetAct(n.v, e.v)) ELSE [acc EXCEPT !.i = e.i, !.ok = FALSE]
SetNamed(toks, acc, n) == SetAction(toks, acc, n, parse_expr(toks, Past(toks, n.i)))
EmitNamed(toks, acc, n) == Push(acc, Eat(toks, n.i, ";"), EmitAct(n.v))
RECURSIVE Actions(_, _)
Actions(toks, acc) ==
    IF ~acc.ok \/ AtEnd(toks, acc.i) THEN acc
    ELSE CASE IsWord(toks[acc.i], "set")  -> Actions(toks, SetNamed(toks, acc, Name(toks, acc.i + 1, "")))
           [] IsWord(toks[acc.i], "emit") -> Actions(toks, EmitNamed(toks, acc, Name(toks, acc.i + 1, "")))
           [] OTHER -> Actions(toks, MoveTo(acc, acc.i + 1))

GuardClosed(toks, r) == IF r.ok THEN Ok(Eat(toks, r.i, ")"), r.v) ELSE r
GuardAt(toks, i) ==
    IF IsWord(toks[i], "guard") THEN GuardClosed(toks, parse_expr(toks, Eat(toks, i + 1, "(")))
    ELSE Ok(i, NoExpr)
TransitionOf(toks, acc, n, g, to, acts) ==
    IF acts.ok THEN Push(acc, Eat(toks, acts.i, "}"), Transition(n.v, g.v, to.v, acts.got))
    ELSE [acc EXCEPT !.i = acts.i, !.ok = FALSE]
TransitionTo(toks, acc, n, g, to) ==
    TransitionOf(toks, acc, n, g, to, Actions(toks, Start(Eat(toks, to.i, "{"), << >>)))
TransitionGuarded(toks, acc, n, g) ==
    IF g.ok THEN TransitionTo(toks, acc, n, g, Name(toks, Eat(toks, g.i, "->"), "UNKNOWN"))
    ELSE [acc EXCEPT !.i = g.i, !.ok = FALSE]
TransitionNamed(toks, acc, n) == TransitionGuarded(toks, acc, n, GuardAt(toks, n.i))
RECURSIVE Transitions(_, _)
Transitions(toks, acc) ==
    IF ~acc.ok \/ AtEnd(toks, acc.i) THEN acc
    ELSE IF IsWord(toks[acc.i], "on") THEN Transitions(toks, TransitionNamed(toks, acc, Name(toks, acc.i + 1, "")))
    ELSE Transitions(toks, MoveTo(acc, acc.i + 1))

\* A state declared again keeps its place and gets the later transitions.
PutState(states, n, ts) ==
    IF \E k \in DOMAIN states : states[k].name = n
    THEN [k \in DOMAIN states |-> IF states[k].name = n THEN State(n, ts) ELSE states[k]]
    ELSE Append(states, State(n, ts))
StateRead(toks, acc, n, ts) ==
    IF ts.ok THEN [acc EXCEPT !.i = Eat(toks, ts.i, "}"), !.got = PutState(@, n.v, ts.got),
                              !.initial = IF @ = "IDLE" THEN n.v ELSE @]
    ELSE [acc EXCEPT !.i = ts.i, !.ok = FALSE]
StateNamed(toks, acc, n) ==
    StateRead(toks, acc, n, Transitions(toks, Start(Eat(toks, n.i, "{"), << >>)))
RECURSIVE States(_, _)
States(toks, acc) ==
    IF ~acc.ok \/ AtEnd(toks, acc.i) THEN acc
    ELSE IF IsWord(toks[acc.i], "state") THEN States(toks, StateNamed(toks, acc, Name(toks, acc.i + 1, "UNKNOWN")))
    ELSE States(toks, MoveTo(acc, acc.i + 1))

KeyClosed(toks, r) == IF r.ok THEN Ok(Eat(toks, r.i, ";"), r.v) ELSE r
KeyAt(toks, i) ==
    IF IsWord(toks[i], "key") THEN KeyClosed(toks, parse_expr(toks, Eat(toks, i + 1, "=")))
    ELSE Ok(i, NoExpr)
MachineRead(toks, n, key, ss) ==
    IF ss.ok THEN Ok(Eat(toks, ss.i, "}"), StateMachine(n.v, key.v, ss.initial, ss.got)) ELSE Bad(ss.i)
MachineKeyed(toks, n, key) ==
    IF key.ok
    THEN MachineRead(toks, n, key,
                     States(toks, [i |-> key.i, got |-> << >>, ok |-> TRUE, initial |-> "IDLE"]))
    ELSE key
MachineNamed(toks, n) == MachineKeyed(toks, n, KeyAt(toks, Eat(toks, n.i, "{")))
parse_state_machine(toks, i) == MachineNamed(toks, Name(toks, i + 1, "SM"))

(* ---- Protocols: ps is the cursor, the protocol so far and the errors ---- *)
\* `= value ;`, the value a keyword of its own or an identifier, or missing.
SettingAt(toks, i, kw, old) ==
    IF IsKw(toks[i], kw) \/ toks[i].x = "ident" THEN Ok(Eat(toks, i + 1, ";"), toks[i].w)
    ELSE Ok(Eat(toks, i, ";"), old)
EndianSet(ps, r) == [ps EXCEPT !.i = r.i, !.proto.endian = r.v]
ModeSet(ps, r)   == [ps EXCEPT !.i = r.i, !.proto.mode = r.v]
EndianDecl(toks, ps) ==
    EndianSet(ps, SettingAt(toks, Eat(toks, ps.i + 1, "="), "big", ps.proto.endian))
ModeDecl(toks, ps) ==
    ModeSet(ps, SettingAt(toks, Eat(toks, ps.i + 1, "="), "datagram", ps.proto.mode))
\* `by_plugin("...")`: the argument is read and forgotten.
PluginArg(toks, i) ==
    IF IsSym(toks[i], "(")
    THEN Eat(toks, IF toks[i + 1].x = "string" THEN i + 2 ELSE i + 1, ")") ELSE i
EofSet(toks, ps, n) == [ps EXCEPT !.i = Eat(toks, PluginArg(toks, n.i), ";"), !.proto.eof = n.v]
EofDecl(toks, ps) == EofSet(toks, ps, Name(toks, Eat(toks, ps.i + 1, "="), ps.proto.eof))

RECURSIVE MetaEntries(_, _)
MetaEntries(toks, ps) ==
    CASE AtEnd(toks, ps.i) -> MoveTo(ps, Eat(toks, ps.i, "}"))
      [] IsKw(toks[ps.i], "endian") -> MetaEntries(toks, EndianDecl(toks, ps))
      [] IsKw(toks[ps.i], "mode")   -> MetaEntries(toks, ModeDecl(toks, ps))
      [] IsWord(toks[ps.i], "eof")  -> MetaEntries(toks, EofDecl(toks, ps))
      [] OTHER -> MetaEntries(toks, MoveTo(ps, ps.i + 1))

ProtocolHead(toks, ps) ==
    [ps EXCEPT !.i = Eat(toks, Past(toks, ps.i + 1), "{"),
               !.proto.name = IF toks[ps.i + 1].x = "ident" THEN toks[ps.i + 1].w ELSE @]
MessageRead(ps, n, body) ==
    IF body.ok THEN [ps EXCEPT !.i = body.i, !.errs = body.errs, !.proto.messages = Append(@, Message(n.v, body.got))]
    ELSE [ps EXCEPT !.ok = FALSE]
MessageNamed(p, ps, n) == MessageRead(ps, n, parse_body(p, Start(Eat(p.toks, n.i, "{"), ps.errs)))
MessageDecl(p, ps) == MessageNamed(p, ps, Name(p.toks, ps.i + 1, "Msg"))

BindRead(toks, ps, layer, field, source, when) ==
    [ps EXCEPT !.i = Eat(toks, SkipStmt(toks, when.i), ";"),
               !.proto.binds = Append(@, BindDecl(layer.v, field.v, source.v, when.v))]
BindWhen(toks, ps, layer, field, source) ==
    BindRead(toks, ps, layer, field, source,
             IF IsKw(toks[source.i], "when") THEN OrElse(parse_expr(toks, source.i + 1), Int_(1))
             ELSE Ok(source.i, Int_(1)))
BindTo(toks, ps, layer, field) ==
    BindWhen(toks, ps, layer, field,
             IF IsKw(toks[field.i], "to") THEN Name(toks, field.i + 1, "") ELSE Ok(field.i, ""))
BindField(toks, ps, layer) == BindTo(toks, ps, layer, Name(toks, layer.i, ""))
BindDeclOf(toks, ps) == BindField(toks, ps, Name(toks, ps.i + 1, ""))

\* After a machine in error one token is skipped, and what is left of the
\* machine is read as declarations.
MachineDecl(toks, ps, r) ==
    IF r.ok THEN [ps EXCEPT !.i = r.i, !.proto.machines = Append(@, r.v)] ELSE MoveTo(ps, Past(toks, r.i))

Declaration(p, ps) ==
    LET tok == p.toks[ps.i] IN
    CASE IsKw(tok, "protocol") -> ProtocolHead(p.toks, ps)
      [] IsKw(tok, "meta")     -> MetaEntries(p.toks, MoveTo(ps, Eat(p.toks, ps.i + 1, "{")))
      [] IsKw(tok, "endian")   -> EndianDecl(p.toks, ps)
      [] IsKw(tok, "mode")     -> ModeDecl(p.toks, ps)
      [] IsKw(tok, "message")  -> MessageDecl(p, ps)
      [] IsKw(tok, "bind")     -> BindDeclOf(p.toks, ps)
      [] IsWord(tok, "state_machine") -> MachineDecl(p.toks, ps, parse_state_machine(p.toks, ps.i))
      [] OTHER -> MoveTo(ps, ps.i + 1)
RECURSIVE Declarations(_, _)
Declarations(p, ps) ==
    IF ~ps.ok \/ p.toks[ps.i].x = "eof" THEN ps ELSE Declarations(p, Declaration(p, ps))

Parsed(p) == Declarations(p, [i |-> 1, proto |-> EmptyProtocol, errs |-> << >>, ok |-> TRUE])
\* Fail-fast: the protocol, or nothing after an error.
parse_protocol(toks) == Parsed([toks |-> toks, recover |-> FALSE])
\* Recovering: always a protocol, with the tokens the errors are at.
parse_protocol_with_diagnostics(toks) == Parsed([toks |-> toks, recover |-> TRUE])
=============================================================================
