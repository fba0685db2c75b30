---------------------------- MODULE AdglPredicate ----------------------------
(* Predicates of ADGL rules: the type check and the compilation of an          *)
(* expression to a straight-line program over slots (airpulse_dsl-verify), the *)
(* interpreter of such programs (airpulse_dsl-evaluator/src/predicate.rs), and *)
(* what the expression means when it is read directly.                         *)
EXTENDS AdglEnv

CONSTANTS
    MaxSlots,        \* MAX_SLOTS, 16 in the code
    MinI64,          \* the least integer of the checked arithmetic
    StringKey,       \* string literal -> the i64 it is interned as
    ScopeKey         \* the i64 key of the partition a rule runs in

(* ---- Three-valued logic (t3.rs) ---- *)
T3 == {"T", "F", "U"}
T3And(a, b) == IF "F" \in {a, b} THEN "F" ELSE IF {a, b} = {"T"} THEN "T" ELSE "U"
T3Or(a, b)  == IF "T" \in {a, b} THEN "T" ELSE IF {a, b} = {"F"} THEN "F" ELSE "U"
T3Not(a)    == CASE a = "T" -> "F" [] a = "F" -> "T" [] OTHER -> "U"
T3Of(b)     == IF b THEN "T" ELSE "F"

(* ---- Walks over an expression ---- *)
\* Whether a subexpression of e is of one of the kinds ks.
RECURSIVE Mentions(_, _)
Mentions(e, ks) == e.k \in ks \/ \E i \in DOMAIN Kids(e) : Mentions(Kids(e)[i], ks)

RECURSIVE expr_depth(_)
expr_depth(e) ==
    LET ds == {0} \cup {expr_depth(Kids(e)[i]) : i \in DOMAIN Kids(e)}
    IN  1 + CHOOSE d \in ds : \A x \in ds : x <= d

\* anchor.time plus or minus literal durations, as an offset; {} when it is not.
RECURSIVE as_anchor_offset(_, _)
as_anchor_offset(anchor, e) ==
    IF e = Path(anchor, "time") THEN {0}
    ELSE IF e.k = "binary" /\ e.op \in AddOps /\ e.r.k = "duration"
    THEN {IF e.op = "+" THEN o + e.r.ms ELSE o - e.r.ms : o \in as_anchor_offset(anchor, e.l)}
    ELSE {}

(* ---- Type check (infer_expr_type): [ty: a set, empty for none; errs] ---- *)
Typed(ty)  == [ty |-> {ty}, errs |-> {}]
Ill(errs)  == [ty |-> {}, errs |-> errs]

is_numeric_type(ty) == ty.t \in {"Int", "Confidence"}
types_compatible_for_ordering(a, b) ==
    \/ is_numeric_type(a) /\ is_numeric_type(b)
    \/ a.t = b.t /\ a.t \in {"String", "Severity"}
types_compatible_for_equality(a, b) ==
    \/ types_compatible_for_ordering(a, b)
    \/ a.t = b.t /\ a.t \in {"ScopeId", "ScopeIdList", "NodeIdList", "SarifId"}

OperandErrs(op, a, b) ==
    (IF "IntList" \in {a.t, b.t} THEN {"ADGL0213"} ELSE {}) \cup
    (IF \/ op \in {"==", "!="} /\ ~types_compatible_for_equality(a, b)
        \/ op \in OrderOps /\ ~types_compatible_for_ordering(a, b)
        \/ op = "in" /\ b.t # "ScopeIdList"
        \/ op \in ArithOps /\ ~(is_numeric_type(a) /\ is_numeric_type(b))
     THEN {"ADGL0210"} ELSE {})

BinaryType(op, l, r) ==
    [ty |-> {Ty("Int")},
     errs |-> l.errs \cup r.errs \cup UNION {OperandErrs(op, a, b) : a \in l.ty, b \in r.ty}]

FieldType(e, env) ==
    IF e.base.k # "ident" \/ PathSchema(e, env) = {} THEN Ill({"ADGL0209"})
    ELSE IF \E s \in PathSchema(e, env) : s.ty.t = "IntList" THEN Ill({"ADGL0213"})
    ELSE [ty |-> {s.ty : s \in PathSchema(e, env)}, errs |-> {}]

IndexType(b, i) ==
    Ill(b.errs \cup i.errs \cup (IF Ty("IntList") \in b.ty THEN {"ADGL0213"} ELSE {}))

RECURSIVE infer_expr_type(_, _)
infer_expr_type(e, env) ==
    CASE e.k \in {"int", "duration", "bool"} -> Typed(Ty("Int"))
      [] e.k = "string" -> Typed(Ty("String"))
      [] e.k \in {"ident", "present", "absent"} ->
            IF e.n \notin DOMAIN env THEN Ill({"ADGL0209"})
            ELSE Typed(Ty(IF e.k = "ident" THEN "NodeIdList" ELSE "Int"))
      [] e.k = "not"    -> infer_expr_type(e.e, env)
      [] e.k = "binary" -> BinaryType(e.op, infer_expr_type(e.l, env), infer_expr_type(e.r, env))
      [] e.k = "field"  -> FieldType(e, env)
      [] e.k = "index"  -> IndexType(infer_expr_type(e.base, env), infer_expr_type(e.i, env))
      [] e.k = "call"   -> Ill({"ADGL0501"})

(* ---- Compilation (compile_expr): c = [ops, next, errs, dst] ---- *)
NoSlot == -1
Fail(c, errs) == [c EXCEPT !.dst = NoSlot, !.errs = @ \cup errs]

\* SlotAllocator::alloc: past the last slot an error is reported and slot 0 given.
Alloc_Bug(c) == [c EXCEPT !.dst = IF c.next >= MaxSlots THEN 0 ELSE c.next]
Alloc(c) ==
    LET full == c.next >= MaxSlots
    IN  [c EXCEPT !.dst  = IF full THEN 0 ELSE c.next,
                  !.next = IF @ < 255 THEN @ + 1 ELSE 255,
                  !.errs = @ \cup (IF full THEN {"ADGL0205"} ELSE {})]
PushOp(c, op) == [c EXCEPT !.ops = Append(@, [op EXCEPT !.dst = c.dst])]
Push(c, op)   == PushOp(Alloc(c), op)

Test(op, b)        == [op |-> op, binding |-> b, dst |-> 0]
LoadField(s, b, i) == [op |-> "load_field", src |-> s, binding |-> b, field |-> i, dst |-> 0]
Op1(op, a)         == [op |-> op, lhs |-> a, dst |-> 0]
Op2(op, a, b)      == [op |-> op, lhs |-> a, rhs |-> b, dst |-> 0]

CompileField(e, env, c) ==
    IF e.base.k # "ident" THEN Fail(c, {"ADGL0501"})
    ELSE IF e.base.n \notin DOMAIN env THEN Fail(c, {"ADGL0209"})
    ELSE IF PathSchema(e, env) = {} THEN Fail(c, {})
    ELSE LET s == CHOOSE s \in PathSchema(e, env) : TRUE
         IN  IF s.ty.t = "IntList" THEN Fail(c, {"ADGL0213"})
             ELSE Push(c, LoadField(env[e.base.n].src, env[e.base.n].idx, s.idx))

CompileNot(c) == IF c.dst = NoSlot THEN c ELSE Push(c, Op1("not", c.dst))

\* The operator, once both operands are in their slots.
CompileOp(op, lhs, c) ==
    IF c.dst = NoSlot THEN c
    ELSE IF op = "in" THEN Fail(Alloc(c), {"ADGL0213"})
    ELSE Push(c, Op2(op, lhs, c.dst))

RECURSIVE compile_expr(_, _, _), CompileRight(_, _, _)
CompileRight(e, env, c) ==
    IF c.dst = NoSlot THEN c ELSE CompileOp(e.op, c.dst, compile_expr(e.r, env, c))
compile_expr(e, env, c) ==
    CASE e.k = "int"      -> Push(c, Load("const", e.v))
      [] e.k = "duration" -> Push(c, Load("const", e.ms))
      [] e.k = "string"   -> Push(c, Load("const", StringKey[e.s]))
      [] e.k = "bool"     -> Push(c, Load("const", IF e.b THEN 1 ELSE 0))
      [] e.k = "ident"    -> IF e.n = "scope" THEN Push(c, Load("const", ScopeKey))
                             ELSE Fail(c, {"ADGL0501"})
      [] e.k \in {"present", "absent"} ->
            Push(c, Test(e.k, IF e.n \in DOMAIN env THEN env[e.n].idx ELSE 0))
      [] e.k = "field"    -> CompileField(e, env, c)
      [] e.k = "not"      -> CompileNot(compile_expr(e.e, env, c))
      [] e.k = "binary"   -> CompileRight(e, env, compile_expr(e.l, env, c))
      [] e.k \in {"call", "index"} -> Fail(c, {"ADGL0501"})

PredicateOf(c) ==
    [ops |-> c.ops, result |-> IF c.dst = NoSlot THEN 0 ELSE c.dst, errs |-> c.errs]
compile_predicate(e, env) ==
    PredicateOf(compile_expr(e, env, [ops |-> << >>, next |-> 0, errs |-> {}, dst |-> NoSlot]))

(* ---- The interpreter (eval_predicate) ---- *)
(* A binding is [st, src, fields, time, target, confidence]: st is "bound",    *)
(* "absent" or "unknown", fields the event's metric fields by index.           *)
EVENT_FIELD_TARGET == 65535
EVENT_FIELD_TIME   == 65534

Num(i)   == [s |-> "int", i |-> i]
Empty    == [s |-> "empty"]
Err(e)   == [s |-> "err", err |-> e]
Unknown  == Truth("U")

load_event_field(b, f) ==
    IF f = EVENT_FIELD_TIME THEN Num(b.time)
    ELSE IF f \in DOMAIN b.fields THEN Num(b.fields[f])
    ELSE IF f = EVENT_FIELD_TARGET THEN Num(b.target)
    ELSE Unknown
load_cause_field(b, f) ==
    CASE f = 0 -> Num(b.target) [] f = 1 -> Num(b.time) [] f = 2 -> Num(b.confidence)
      [] OTHER -> Unknown
load_problem_field(b, f) ==
    CASE f = 0 -> Num(b.target) [] f = 1 -> Num(b.time) [] OTHER -> Unknown

\* binding(): an index past the bindings at hand is an error.
At(bindings, i, v(_)) == IF i \in DOMAIN bindings THEN v(bindings[i]) ELSE Err("UnknownBinding")

LoadFrom(src, b, f) ==
    IF b.st # "bound" THEN Unknown
    ELSE IF b.src # src THEN Err("TypeMismatch")
    ELSE CASE src = "event"   -> load_event_field(b, f)
           [] src = "cause"   -> load_cause_field(b, f)
           [] src = "problem" -> load_problem_field(b, f)

\* Present and absent as three-valued answers.
Presence(b) == CASE b.st = "bound" -> "T" [] b.st = "absent" -> "F" [] OTHER -> "U"

Checked(v) == IF v \in MinI64..MaxI64 THEN Num(v) ELSE Err("ArithOverflow")

\* Division and remainder as the machine's: towards zero.
Abs(a) == IF a < 0 THEN -a ELSE a
Quot(a, b) == LET q == Abs(a) \div Abs(b) IN IF (a < 0) = (b < 0) THEN q ELSE -q
Rem(a, b) == IF Checked(Quot(a, b)).s = "err" THEN Err("ArithOverflow")
             ELSE Num(a - b * Quot(a, b))

Arith(op, a, b) ==
    CASE op = "+" -> Checked(a + b)
      [] op = "-" -> Checked(a - b)
      [] op = "*" -> Checked(a * b)
      [] op \in {"/", "%"} /\ b = 0 -> Err("DivisionByZero")
      [] op = "/" -> Checked(Quot(a, b))
      [] op = "%" -> Rem(a, b)

Compare(op, a, b) ==
    CASE op = "==" -> a = b [] op = "!=" -> a # b [] op = "<" -> a < b
      [] op = "<=" -> a <= b [] op = ">" -> a > b [] op = ">=" -> a >= b

\* as_num: an int, an unknown, or a definite type error; as_truth: ints are lifted.
as_num(x)   == IF x.s = "int" \/ x = Unknown THEN x ELSE Err("TypeMismatch")
as_truth(x) == CASE x.s = "truth" -> x
                 [] x.s = "int"   -> Truth(T3Of(x.i # 0))
                 [] OTHER         -> Err("TypeMismatch")

\* An operation over operands converted already: errors first, left before right,
\* and an unknown operand makes a numeric result unknown.
Numeric(op, x, y) ==
    IF x.s = "err" THEN x ELSE IF y.s = "err" THEN y
    ELSE IF Unknown \in {x, y} THEN Unknown
    ELSE IF op \in CmpOps THEN Truth(T3Of(Compare(op, x.i, y.i)))
    ELSE Arith(op, x.i, y.i)
Logical(op, x, y) ==
    IF x.s = "err" THEN x ELSE IF y.s = "err" THEN y
    ELSE Truth(IF op = "and" THEN T3And(x.t, y.t) ELSE T3Or(x.t, y.t))
Apply2(op, x, y) ==
    IF op \in {"and", "or"} THEN Logical(op, as_truth(x), as_truth(y))
    ELSE Numeric(op, as_num(x), as_num(y))
ApplyNot(x) == IF x.s = "err" THEN x ELSE Truth(T3Not(x.t))

Step(op, slots, bindings) ==
    CASE op.op = "const"      -> Num(op.imm)
      [] op.op = "load_field" -> At(bindings, op.binding, LAMBDA b : LoadFrom(op.src, b, op.field))
      [] op.op = "present"    -> At(bindings, op.binding, LAMBDA b : Truth(Presence(b)))
      [] op.op = "absent"     -> At(bindings, op.binding, LAMBDA b : Truth(T3Not(Presence(b))))
      [] op.op = "not"        -> ApplyNot(as_truth(slots[op.lhs]))
      [] OTHER                -> Apply2(op.op, slots[op.lhs], slots[op.rhs])

RECURSIVE RunOps(_, _, _, _), AfterOp(_, _, _, _, _)
AfterOp(pred, i, slots, bindings, v) ==
    IF v.s = "err" THEN v
    ELSE RunOps(pred, i + 1, [slots EXCEPT ![pred.ops[i].dst] = v], bindings)
RunOps(pred, i, slots, bindings) ==
    IF i > Len(pred.ops) THEN as_truth(slots[pred.result])
    ELSE AfterOp(pred, i, slots, bindings, Step(pred.ops[i], slots, bindings))
eval_predicate(pred, bindings) ==
    RunOps(pred, 1, [s \in 0..(MaxSlots - 1) |-> Empty], bindings)

(* ---- What an expression means ---- *)

\* Kleene's logic by the order F < U < T.
Rank(t) == CASE t = "F" -> 0 [] t = "U" -> 1 [] t = "T" -> 2
Kleene(op, a, b) == IF (op = "and") = (Rank(a) < Rank(b)) THEN a ELSE b

\* Short circuit (docs/idea/spec/03-semantics.md, section 3.7): the left operand decides,
\* and the right one is spared, when it is True for `or` and unless it is True for `and`.
Decides(op, x) ==
    /\ op \in {"and", "or"} /\ x.s # "err"
    /\ (op = "or") = (as_truth(x).t = "T")

\* The value of an expression over the bindings its names stand for. Operands are
\* evaluated left to right and an error ends the evaluation.
Combine(op, x, y) ==
    IF x.s = "err" THEN x ELSE IF Decides(op, x) THEN as_truth(x)
    ELSE IF y.s = "err" THEN y
    ELSE IF op \in {"and", "or"} THEN Truth(Kleene(op, as_truth(x).t, as_truth(y).t))
    ELSE Numeric(op, as_num(x), as_num(y))
Negate(x) ==
    IF x.s = "err" THEN x ELSE Truth(CHOOSE t \in T3 : Rank(t) = 2 - Rank(as_truth(x).t))
Stored(b, f) == IF b.st = "bound" THEN LoadFrom(b.src, b, f) ELSE Unknown

RECURSIVE Meaning(_, _, _)
Meaning(e, env, bindings) ==
    CASE e.k = "int"      -> Num(e.v)
      [] e.k = "duration" -> Num(e.ms)
      [] e.k = "string"   -> Num(StringKey[e.s])
      [] e.k = "bool"     -> Num(IF e.b THEN 1 ELSE 0)
      [] e.k = "present"  -> At(bindings, env[e.n].idx, LAMBDA b :
                                Truth([bound |-> "T", absent |-> "F", unknown |-> "U"][b.st]))
      [] e.k = "absent"   -> At(bindings, env[e.n].idx, LAMBDA b :
                                Truth([bound |-> "F", absent |-> "T", unknown |-> "U"][b.st]))
      [] e.k = "field"    -> At(bindings, env[e.base.n].idx, LAMBDA b :
                                Stored(b, (CHOOSE s \in PathSchema(e, env) : TRUE).idx))
      [] e.k = "not"      -> Negate(Meaning(e.e, env, bindings))
      [] e.k = "binary"   -> Combine(e.op, Meaning(e.l, env, bindings), Meaning(e.r, env, bindings))

\* Whether some operand that short circuit spares overrules what decides, if it is
\* evaluated all the same: with an error, or with a False after an Unknown.
Overrules(op, x, y) ==
    /\ Decides(op, x)
    /\ y.s = "err" \/ (op = "and" /\ as_truth(x).t = "U" /\ as_truth(y).t = "F")
RECURSIVE Overruled(_, _, _)
Overruled(e, env, bindings) ==
    \/ /\ e.k = "binary"
       /\ Overrules(e.op, Meaning(e.l, env, bindings), Meaning(e.r, env, bindings))
    \/ \E i \in DOMAIN Kids(e) : Overruled(Kids(e)[i], env, bindings)

Verdict(e, env, bindings) ==
    LET v == Meaning(e, env, bindings) IN IF v.s = "err" THEN v ELSE as_truth(v)
=============================================================================
