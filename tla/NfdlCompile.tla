------------------------------ MODULE NfdlCompile ------------------------------
(***************************************************************************)
(* From an N-FDL protocol to bytecode, and what its expressions mean:      *)
(* protocol_to_bytecode_with_map and eval_expr.                            *)
(*                                                                         *)
(* Source: crates/nfdl-runtime/src/integration.rs.                         *)
(*                                                                         *)
(* Abstractions.                                                           *)
(*  - A body is the sequence of its items in source order, which is what   *)
(*    emit_body_block sorts by `order` to recover.                         *)
(*  - A dotted name is the sequence of its parts.                          *)
(*  - Calls, tuples and strings, which compile to the constant 0, are one  *)
(*    kind of expression, "opaque".                                        *)
(***************************************************************************)
EXTENDS Integers, Sequences, SequencesExt, FiniteSets

CONSTANTS
    MaxRefDepth,                  \* how deep message references are inlined (8)
    BinValue(_, _, _), UnValue(_, _)   \* arithmetic on words

NoExpr == [k |-> "none"]
NoCase == -1

\* The slot of __current_offset.
OffsetSlot == 0
CurrentOffset == <<"__current_offset">>

Lookup(f, x, default) == IF x \in DOMAIN f THEN f[x] ELSE default
Bind(f, x, v) == [y \in DOMAIN f \cup {x} |-> IF y = x THEN v ELSE f[y]]

\* SequencesExt's FoldLeft by index.  Binding the accumulator to an element of a
\* singleton has TLC evaluate it before it is passed on.
Fold(Op(_, _), base, s) ==
    LET f[i \in 0..Len(s)] ==
            IF i = 0 THEN base
            ELSE CHOOSE c \in {Op(acc, s[i]) : acc \in {f[i - 1]}} : TRUE
    IN f[Len(s)]

-----------------------------------------------------------------------------
(* eval_expr: an expression over named values. *)

RECURSIVE EvalExpr(_, _)
EvalExpr(e, env) ==
    CASE e.k = "int"  -> e.v
      [] e.k = "id"   -> Lookup(env, <<e.n>>, 0)
      [] e.k = "bin"  -> BinValue(e.fn, EvalExpr(e.l, env), EvalExpr(e.r, env))
      [] e.k = "un"   -> UnValue(e.fn, EvalExpr(e.e, env))
      [] e.k = "cond" -> IF EvalExpr(e.c, env) # 0 THEN EvalExpr(e.t, env)
                         ELSE EvalExpr(e.f, env)
      [] e.k = "coal" -> IF EvalExpr(e.e, env) # 0 THEN EvalExpr(e.e, env)
                         ELSE EvalExpr(e.d, env)
      [] e.k \in {"field", "opaque"} -> 0

-----------------------------------------------------------------------------
(* Instructions *)

Const(v, s)        == [op |-> "const", v |-> v, slot |-> s]
Copy(src, s)       == [op |-> "copy", src |-> src, slot |-> s]
Bin(fn, l, r, s)   == [op |-> "bin", fn |-> fn, l |-> l, r |-> r, slot |-> s]
Un(fn, src, s)     == [op |-> "un", fn |-> fn, src |-> src, slot |-> s]
JumpTo(t)          == [op |-> "jump", to |-> t]
JumpZero(s, t)     == [op |-> "jz", slot |-> s, to |-> t]
ValidateI(s)       == [op |-> "validate", slot |-> s]
EmitI(n, s)        == [op |-> "emit", name |-> n, slot |-> s]
UpdateOffset       == [op |-> "offset", slot |-> OffsetSlot]
ReadI(n, le, s)    == [op |-> "read", n |-> n, le |-> le, slot |-> s]

(***************************************************************************)
(* A compilation in progress: the code, var_slots, field_map, the next     *)
(* free slot and `at`, the slot of the expression emitted last.            *)
(***************************************************************************)
Push(c, instrs) == [c EXCEPT !.code = @ \o instrs]

\* Emit an instruction that writes the next free slot, and take that slot.
Fill(c, instr) == [c EXCEPT !.code = Append(@, instr), !.at = c.slot, !.slot = @ + 1]
At(c, s)       == [c EXCEPT !.at = s]

\* The jump at index i (from 0) goes to the end of the code.
Patched(c, i) == [c EXCEPT !.code[i + 1].to = Len(c.code)]

-----------------------------------------------------------------------------
(* emit_expr_to_slot *)

RECURSIVE EmitExpr(_, _)

EmitRight(e, l) ==
    LET Into(r) == Fill(r, Bin(e.fn, l.at, r.at, r.slot)) IN Into(EmitExpr(e.r, l))

\* A choice ends by copying the second branch to dst; the first jumps here.
EndChoice(c, dst, jump) == At(Patched(Push(c, << Copy(c.at, dst) >>), jump), dst)

EmitElse(e, dst, test, t) ==
    EndChoice(EmitExpr(e.f, Patched(Push(t, << Copy(t.at, dst), JumpTo(0) >>), test)),
              dst, Len(t.code) + 1)

\* The result goes to the first free slot after the condition.
EmitThen(e, c) ==
    EmitElse(e, c.slot, Len(c.code), EmitExpr(e.t, Push(c, << JumpZero(c.at, 0) >>)))

EmitDefault(e, v) ==
    EndChoice(EmitExpr(e.d, Patched(Push(v, << JumpZero(v.at, 0), Copy(v.at, v.slot), JumpTo(0) >>),
                                    Len(v.code))),
              v.slot, Len(v.code) + 2)

\* The slot of the first of the names that is bound, or a slot that is set to 0.
EmitName(names, c) ==
    LET bound == SelectSeq(names, LAMBDA x : x \in DOMAIN c.vars)
    IN IF bound = <<>> THEN Fill(c, Const(0, c.slot)) ELSE At(c, c.vars[Head(bound)])

EmitExpr(e, c) ==
    CASE e.k = "int"    -> Fill(c, Const(e.v, c.slot))
      [] e.k = "id"     -> EmitName(<< <<e.n>> >>, c)
      [] e.k = "bin"    -> EmitRight(e, EmitExpr(e.l, c))
      [] e.k = "un"     -> LET Into(v) == Fill(v, Un(e.fn, v.at, v.slot)) IN Into(EmitExpr(e.e, c))
      [] e.k = "cond"   -> EmitThen(e, EmitExpr(e.c, c))
      [] e.k = "coal"   -> EmitDefault(e, EmitExpr(e.e, c))
      [] e.k = "field"  -> EmitName(<< <<e.base, e.n>>, <<e.n>>, <<e.base>> >>, c)
      [] e.k = "opaque" -> EmitName(<< >>, c)

-----------------------------------------------------------------------------
(* emit_field_bytecode *)

RECURSIVE EmitBody(_, _, _, _, _)

MessageNamed(P, n) == SelectSeq(P.messages, LAMBDA m : m.name = n)

Validated(e, c) ==
    LET Check(v) == Push(v, << ValidateI(v.at) >>)
    IN IF e = NoExpr THEN c ELSE Check(EmitExpr(e, c))

\* The name is bound before the field is read, to the slot it will be read into.
Registered(c, name, path) ==
    [c EXCEPT !.fmap = Bind(@, path, c.slot),
              !.vars = Bind(Bind(@, <<name>>, c.slot), path, c.slot)]

Read(c, instr) == [Push(c, << instr, UpdateOffset >>) EXCEPT !.slot = @ + 1]

\* The bindings of an inlined body stay local.
Scoped(c, vars) == [c EXCEPT !.vars = vars]

\* The read of a field into slot s, by type.
EmitRead(f, path, P, c, s, depth) ==
    LET Slice(l) == Read(l, [op |-> "slice", len |-> l.at, slot |-> s])
    IN CASE f.ty.t = "int"   -> Read(c, ReadI(f.ty.n, P.le, s))
         [] f.ty.t = "bits"  -> Read(c, [op |-> "bits", n |-> f.ty.n, slot |-> s])
         [] f.ty.t = "rest"  -> Read(c, [op |-> "rest", name |-> f.name, slot |-> s])
         [] f.ty.t = "bytes" -> Slice(EmitExpr(f.ty.len, c))
         [] f.ty.t = "ref"   ->
               IF MessageNamed(P, f.ty.n) = <<>> THEN Read(c, ReadI(1, P.le, s))
               ELSE Scoped(EmitBody(Head(MessageNamed(P, f.ty.n)).body, path, P, c, depth + 1), c.vars)

\* A leaf is recorded; a reference has recorded its own.
Recorded(f, s, c) == IF f.ty.t = "ref" THEN c ELSE Push(c, << EmitI(f.name, s) >>)

EmitPresent(f, path, P, c, depth) ==
    Recorded(f, c.slot,
             Validated(f.check, EmitRead(f, path, P, Registered(c, f.name, path), c.slot, depth)))

\* slip: the jump over a conditional field is left unpatched
SkipField_Unpatched(c, i) == c
\* The jump over a conditional field lands after its validation and emission.
SkipField(c, i) == Patched(c, i)

EmitOptional(f, path, P, c, depth) ==
    SkipField(EmitPresent(f, path, P, Push(c, << JumpZero(c.at, 0) >>), depth), Len(c.code))

EmitField(f, prefix, P, c, depth) ==
    IF depth > MaxRefDepth THEN Read(c, ReadI(1, P.le, c.slot))
    ELSE IF f.cond = NoExpr THEN EmitPresent(f, Append(prefix, f.name), P, c, depth)
    ELSE EmitOptional(f, Append(prefix, f.name), P, EmitExpr(f.cond, c), depth)

EmitFields(fs, prefix, P, c, depth) ==
    Fold(LAMBDA acc, f : EmitField(f, prefix, P, acc, depth), c, fs)

-----------------------------------------------------------------------------
(* emit_body_block *)

\* A let is copied to a slot of its own, so later changes of its source do not show.
BindLet(it, prefix, c) ==
    [Push(c, << Copy(c.at, c.slot) >>)
       EXCEPT !.slot = @ + 1, !.vars = Bind(@, <<it.name>>, c.slot),
              !.fmap = Bind(@, Append(prefix, it.name), c.slot)]

\* A carry lives in the slot its initial value was computed in.
EmitCarry(k, path, c) ==
    LET Bound(v) == [v EXCEPT !.vars = Bind(Bind(@, Append(path, k.name), v.at), <<k.name>>, v.at)]
    IN Bound(EmitExpr(k.init, c))

EmitNext(n, path, c) ==
    LET target  == Lookup(c.vars, Append(path, n.name), Lookup(c.vars, <<n.name>>, c.slot))
        Into(v) == Push(v, << Copy(v.at, target) >>)
    IN Into(EmitExpr(n.value, c))

EmitNexts(ns, path, c) == Fold(LAMBDA acc, n : EmitNext(n, path, acc), c, ns)

\* The final carries are known as <loop>.carries.<name>.
ExportCarry(c, path, name, s) ==
    [c EXCEPT !.fmap = Bind(@, path \o <<"carries", name>>, s),
              !.vars = Bind(@, path \o <<"carries", name>>, s)]

\* The body under the test in c.at; it jumps back to the test, which jumps past it.
EmitIteration(it, path, P, c, start, depth) ==
    Patched(Push(EmitNexts(it.nexts, path,
                           EmitFields(it.body, path, P, Push(c, << JumpZero(c.at, 0) >>), depth)),
                 << JumpTo(start) >>),
            Len(c.code))

EmitWhile(it, path, P, c, depth) ==
    Fold(LAMBDA acc, k : ExportCarry(acc, path, k.name, c.vars[Append(path, k.name)]),
         EmitIteration(it, path, P, EmitExpr(it.cond, c), Len(c.code), depth), it.carries)

EmitLoop(it, path, P, c, depth) ==
    EmitWhile(it, path, P, Fold(LAMBDA acc, k : EmitCarry(k, path, acc), c, it.carries), depth)

(* emit_match: compare, run the arm, jump to the common end; the default comes last. *)

Compared(c, tag, v) ==
    [Push(c, << Const(v, c.slot), Bin("Eq", tag, c.slot, c.slot + 1), JumpZero(c.slot + 1, 0) >>)
       EXCEPT !.slot = @ + 2]

\* m: the compilation and the jumps to the end emitted so far.
EndArm(m, c, test) ==
    [c |-> Patched(Push(c, << JumpTo(0) >>), test), ends |-> Append(m.ends, Len(c.code))]

EmitArm(a, prefix, P, m, tag, depth) ==
    EndArm(m, EmitBody(a.body, prefix, P, Compared(m.c, tag, a.case), depth), Len(m.c.code) + 2)

EmitOther(arms, prefix, P, m, depth) ==
    Fold(Patched, IF arms = <<>> THEN m.c ELSE EmitBody(Last(arms).body, prefix, P, m.c, depth),
         m.ends)

EmitMatch(it, prefix, P, c, depth) ==
    EmitOther(SelectSeq(it.arms, LAMBDA a : a.case = NoCase), prefix, P,
              Fold(LAMBDA m, a : EmitArm(a, prefix, P, m, c.at, depth),
                   [c |-> c, ends |-> <<>>], SelectSeq(it.arms, LAMBDA a : a.case # NoCase)),
              depth)

EmitItem(it, prefix, P, c, depth) ==
    CASE it.it = "field"    -> EmitField(it.f, prefix, P, c, depth)
      [] it.it = "let"      -> BindLet(it, prefix, EmitExpr(it.value, c))
      [] it.it = "validate" -> Validated(it.expr, c)
      [] it.it = "loop"     -> EmitLoop(it, Append(prefix, it.name), P, c, depth)
      [] it.it = "match"    -> EmitMatch(it, prefix, P, EmitExpr(it.tag, c), depth)

EmitBody(items, prefix, P, c, depth) ==
    Fold(LAMBDA acc, it : EmitItem(it, prefix, P, acc, depth), c, items)

-----------------------------------------------------------------------------
(* root_message_index: the first message no other refers to, or the first. *)

RECURSIVE Refs(_)
Refs(items) ==
    LET OfFields(fs) == {fs[i].ty.n : i \in {j \in DOMAIN fs : fs[j].ty.t = "ref"}}
    IN UNION {CASE items[i].it = "field" -> OfFields(<< items[i].f >>)
                [] items[i].it = "loop"  -> OfFields(items[i].body)
                [] items[i].it = "match" ->
                      UNION {Refs(items[i].arms[a].body) : a \in DOMAIN items[i].arms}
                [] items[i].it \in {"let", "validate"} -> {} : i \in DOMAIN items}

Root(P) ==
    LET referred == UNION {Refs(P.messages[i].body) : i \in DOMAIN P.messages}
        roots    == SelectSeq(P.messages, LAMBDA m : m.name \notin referred)
    IN Head(IF roots = <<>> THEN P.messages ELSE roots)

(* protocol_to_bytecode_with_map *)
Compile(P) ==
    LET start == [code |-> << Const(0, OffsetSlot) >>, slot |-> 1, at |-> 0,
                  fmap |-> [x \in {} |-> 0],
                  vars |-> Bind([x \in {} |-> 0], CurrentOffset, OffsetSlot)]
    IN Push(EmitBody(Root(P).body, <<>>, P, start, 0), << [op |-> "ret"] >>)
=============================================================================
