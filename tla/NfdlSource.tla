------------------------------ MODULE NfdlSource ------------------------------
(***************************************************************************)
(* What a message of an N-FDL protocol means: a direct reading of a byte   *)
(* sequence by its declaration, with no slots and no jumps.  The reference *)
(* that compiled programs are compared with.                               *)
(*                                                                         *)
(* It follows docs/spec/03-semantics.md, sections 3.1 to 3.5, also where   *)
(* the interpreter does not: a datagram read past the end, a loop pass     *)
(* that makes no progress and a pass too many end the reading.  One value  *)
(* is the runtime's: an absent field counts as 0 (integration.rs, the      *)
(* comment on conditional fields).                                         *)
(*                                                                         *)
(* A reading is a record: env (the names in scope), q (the cursor, in      *)
(* bits), out (the fields recorded), ctx (values by dotted name), refs     *)
(* (the names of message references read) and how it ended.                *)
(***************************************************************************)
EXTENDS NfdlCompile

CONSTANTS ByteBits, WordBits,
          MaxLoopIterations      \* passes a loop may make (section 3.5)

\* What is read: the bytes, whether more may come, and the protocol.
Source(bytes, stream, P) == [bytes |-> bytes, stream |-> stream, proto |-> P]

Size(S) == Len(S.bytes) * ByteBits

\* The number in n bits from bit q on.
Number(S, q, n) ==
    LET bit(i) == (S.bytes[i \div ByteBits + 1] \div 2^(ByteBits - 1 - (i % ByteBits))) % 2
        f[i \in 0..n] == IF i = 0 THEN 0 ELSE 2 * f[i - 1] + bit(q + i - 1)
    IN f[n] % 2^WordBits

Swapped(S, q, n) ==
    LET f[i \in 0..n] == IF i = 0 THEN 0
                         ELSE f[i - 1] + Number(S, q + (i - 1) * ByteBits, ByteBits)
                                         * 2^((i - 1) * ByteBits)
    IN f[n] % 2^WordBits

ByteBoundary(q) == ((q + ByteBits - 1) \div ByteBits) * ByteBits

Env(r) == Bind(r.env, CurrentOffset, r.q \div ByteBits)

\* A dotted name is the field of the message read under that name.
Value(e, r) ==
    IF e.k = "field" THEN Lookup(r.env, <<e.base, e.n>>, 0) ELSE EvalExpr(e, Env(r))

Going(r) == r.end = "run"

\* How many bits a field of a plain type wants, of the `left` ones.
Wanted(ty, r, left) ==
    CASE ty.t = "int"   -> ty.n * ByteBits
      [] ty.t = "bits"  -> ty.n
      [] ty.t = "bytes" -> Value(ty.len, r) * ByteBits
      [] ty.t = "rest"  -> left

Least(a, b) == IF a < b THEN a ELSE b

\* The value of a field of a plain type in the n bits from bit q on.
Decoded(ty, q, n, S) ==
    CASE ty.t = "int"   -> IF S.proto.le THEN Swapped(S, q, ty.n) ELSE Number(S, q, n)
      [] ty.t = "bits"  -> Number(S, q, n)
      [] ty.t = "bytes" -> Number(S, q, Least(WordBits, n))
      [] ty.t = "rest"  -> n \div ByteBits

Named(r, x, path, v) == [r EXCEPT !.env = Bind(Bind(@, x, v), path, v)]

Checked(e, r) ==
    IF Going(r) /\ e # NoExpr /\ Value(e, r) = 0 THEN [r EXCEPT !.end = "constraint"] ELSE r

RECURSIVE ReadBody(_, _, _, _, _)

Recording(f, v, r) == IF Going(r) THEN [r EXCEPT !.out = Append(@, <<f.name, v>>)] ELSE r

\* A plain field is named, checked and recorded.
Take(f, path, v, q, r) ==
    Recording(f, v, Checked(f.check, Named([r EXCEPT !.q = q, !.ctx = Bind(@, path, v)],
                                           <<f.name>>, path, v)))

\* A field needs all its bytes: a stream waits for them, a datagram has none to come.
ReadSized(f, path, q, n, r, S) ==
    IF q + n > Size(S) THEN [r EXCEPT !.end = IF S.stream THEN "need" ELSE "oob"]
    ELSE Take(f, path, Decoded(f.ty, q, n, S), q + n, r)

ReadPlain(f, path, r, S) ==
    LET From(q) == ReadSized(f, path, q, Wanted(f.ty, r, Size(S) - q), r, S)
    IN From(IF f.ty.t = "bits" THEN r.q ELSE ByteBoundary(r.q))

\* A reference reads the message; afterwards its names are known under the field's.
Outside(f, inner, env) ==
    LET own == {x \in DOMAIN inner.env : Len(x) = 1}
    IN [y \in DOMAIN env \cup {<<f.name>> \o x : x \in own} |->
           IF Len(y) = 2 /\ y[1] = f.name /\ <<y[2]>> \in own THEN inner.env[<<y[2]>>] ELSE env[y]]

LeaveRef(f, path, inner, env) ==
    Checked(f.check, [inner EXCEPT !.env = Outside(f, inner, env), !.refs = @ \cup {path}])

ReadRef(f, path, r, S, depth) ==
    IF depth >= MaxRefDepth THEN [r EXCEPT !.end = "deep"]
    ELSE LeaveRef(f, path, ReadBody(Head(MessageNamed(S.proto, f.ty.n)).body, path, r, S, depth + 1),
                  r.env)

ReadOne(f, path, r, S, depth) ==
    IF ~Going(r) THEN r
    ELSE IF f.cond # NoExpr /\ Value(f.cond, r) = 0 THEN Named(r, <<f.name>>, path, 0)
    ELSE IF f.ty.t = "ref" THEN ReadRef(f, path, r, S, depth)
    ELSE ReadPlain(f, path, r, S)

ReadFields(fs, prefix, r, S, depth) ==
    Fold(LAMBDA acc, f : ReadOne(f, Append(prefix, f.name), acc, S, depth), r, fs)

\* All the new carries at once, from the values at the end of the body.
NextCarries(it, path, b) ==
    IF ~Going(b) THEN b
    ELSE Fold(LAMBDA acc, x : Named(acc, <<x.name>>, Append(path, x.name), Value(x.value, b)),
              b, it.nexts)

\* A pass b after r moves the cursor by a byte; one that changes a carry need not.
Progressed(it, r, b) ==
    \/ b.q - r.q >= ByteBits
    \/ \E i \in DOMAIN it.carries :
          b.env[<<it.carries[i].name>>] # r.env[<<it.carries[i].name>>]

Pass(it, r, b) ==
    IF Going(b) /\ ~Progressed(it, r, b) THEN [b EXCEPT !.end = "stuck"] ELSE b

RECURSIVE Iterate(_, _, _, _, _, _)
Iterate(it, path, r, S, depth, n) ==
    IF ~Going(r) \/ Value(it.cond, r) = 0 THEN r
    ELSE IF n = 0 THEN [r EXCEPT !.end = "looplimit"]
    ELSE Iterate(it, path,
                 Pass(it, r, NextCarries(it, path, ReadFields(it.body, path, r, S, depth))),
                 S, depth, n - 1)

FirstCarries(it, path, r) ==
    Fold(LAMBDA acc, k : Named(acc, <<k.name>>, Append(path, k.name), Value(k.init, acc)),
         r, it.carries)

LastCarries(it, path, r) ==
    Fold(LAMBDA acc, k : [acc EXCEPT !.ctx = Bind(@, path \o <<"carries", k.name>>,
                                                  acc.env[<<k.name>>])],
         r, it.carries)

ReadLoop(it, path, r, S, depth) ==
    LastCarries(it, path, Iterate(it, path, FirstCarries(it, path, r), S, depth,
                             MaxLoopIterations))

\* The first matching case, or the default; none at all is malformed.
ReadArm(arms, prefix, r, S, depth) ==
    IF arms = <<>> THEN [r EXCEPT !.end = "constraint"]
    ELSE ReadBody(Head(arms).body, prefix, r, S, depth)

ReadMatch(it, tag, prefix, r, S, depth) ==
    ReadArm(SelectSeq(it.arms, LAMBDA a : a.case = tag)
              \o SelectSeq(it.arms, LAMBDA a : a.case = NoCase), prefix, r, S, depth)

ReadLet(it, v, prefix, r) ==
    [r EXCEPT !.env = Bind(@, <<it.name>>, v), !.ctx = Bind(@, Append(prefix, it.name), v)]

ReadItem(it, prefix, r, S, depth) ==
    IF ~Going(r) THEN r
    ELSE CASE it.it = "field"    -> ReadOne(it.f, Append(prefix, it.f.name), r, S, depth)
           [] it.it = "let"      -> ReadLet(it, Value(it.value, r), prefix, r)
           [] it.it = "validate" -> Checked(it.expr, r)
           [] it.it = "loop"     -> ReadLoop(it, Append(prefix, it.name), r, S, depth)
           [] it.it = "match"    -> ReadMatch(it, Value(it.tag, r), prefix, r, S, depth)

ReadBody(items, prefix, r, S, depth) ==
    Fold(LAMBDA acc, it : ReadItem(it, prefix, acc, S, depth), r, items)

Nothing == [x \in {} |-> 0]

Start == [env |-> Nothing, q |-> 0, out |-> <<>>, ctx |-> Nothing, refs |-> {}, end |-> "run"]

Done(r) == IF Going(r) THEN [r EXCEPT !.end = "done"] ELSE r

Reading(bytes, stream, P) ==
    Done(ReadBody(Root(P).body, <<>>, Start, Source(bytes, stream, P), 0))
=============================================================================
