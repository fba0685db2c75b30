---------------------------- MODULE MCStreamResume ----------------------------
(***************************************************************************)
(* Small protocols, in the shapes of docs/examples, compiled and run over  *)
(* short flows.  A byte has two bits and a word four bytes.                *)
(***************************************************************************)
EXTENDS StreamResume, SequencesExt

CONSTANTS Parsed, Streamed, HandMade, MaxRefDepth

N == INSTANCE NfdlSource WITH BinValue <- BinVal, UnValue <- UnVal

-----------------------------------------------------------------------------
(* Abstract syntax *)

Lit(v)        == [k |-> "int", v |-> v]
Id(n)         == [k |-> "id", n |-> n]
B(fn, l, r)   == [k |-> "bin", fn |-> fn, l |-> l, r |-> r]
U(fn, e)      == [k |-> "un", fn |-> fn, e |-> e]
Cond(c, t, f) == [k |-> "cond", c |-> c, t |-> t, f |-> f]
Coal(e, d)    == [k |-> "coal", e |-> e, d |-> d]
Dot(b, n)     == [k |-> "field", base |-> b, n |-> n]
Offset        == Id("__current_offset")

TInt(n)   == [t |-> "int", n |-> n]
TBits(n)  == [t |-> "bits", n |-> n]
TBytes(e) == [t |-> "bytes", len |-> e]
TRef(n)   == [t |-> "ref", n |-> n]
TRest     == [t |-> "rest"]

Fld(n, ty, c, v) == [name |-> n, ty |-> ty, cond |-> c, check |-> v]
Plain(n, ty)     == Fld(n, ty, N!NoExpr, N!NoExpr)
F(f)             == [it |-> "field", f |-> f]
Let(n, e)        == [it |-> "let", name |-> n, value |-> e]
Val(e)           == [it |-> "validate", expr |-> e]
Loop(n, ks, c, fs, ns) ==
    [it |-> "loop", name |-> n, carries |-> ks, cond |-> c, body |-> fs, nexts |-> ns]
Match(e, arms)   == [it |-> "match", tag |-> e, arms |-> arms]
Case(v, items)   == [case |-> v, body |-> items]
Default(items)   == Case(N!NoCase, items)
Msg(n, items)    == [name |-> n, body |-> items]

-----------------------------------------------------------------------------
(* Protocols *)

\* radius.nfdl: attributes within a window of consumed bytes.
Radius == [le |-> FALSE, messages |-> <<
    Msg("attribute", << F(Plain("type", TInt(1))), F(Plain("length", TInt(1))),
                        Val(B("Ge", Id("length"), Lit(2))),
                        F(Plain("value", TBytes(B("Sub", Id("length"), Lit(2))))) >>),
    Msg("access", << F(Fld("length", TInt(2), N!NoExpr, B("Ge", Id("length"), Lit(1)))),
                     Let("attrs_len", B("Sub", Id("length"), Lit(1))),
                     Let("start", Offset),
                     Loop("attrs", << >>,
                          B("Lt", B("Sub", Offset, Id("start")), Id("attrs_len")),
                          << Plain("attr", TRef("attribute")) >>, << >>) >>) >>]

\* gtpu.nfdl without its extensions: flags in bits, optional fields, a coalesced default.
Flags == [le |-> TRUE, messages |-> <<
    Msg("tunnel", << F(Plain("flags", TBits(3))), F(Plain("kind", TBits(2))),
                     Let("opt", B("Ne", B("BitAnd", Id("flags"), Lit(1)), Lit(0))),
                     F(Fld("seq", TInt(2), Id("opt"), N!NoExpr)),
                     Let("len", Coal(Id("seq"), Lit(1))),
                     Let("pad", B("Mod", B("Sub", Lit(4), B("Mod", Id("len"), Lit(4))), Lit(4))),
                     F(Plain("padding", TBytes(Id("pad")))),
                     F(Plain("tail", TBits(1))) >>) >>]

\* diameter.nfdl: a recursive message with a match, and a ternary length.
Diameter == [le |-> FALSE, messages |-> <<
    Msg("avp", << F(Plain("code", TInt(1))), F(Plain("len", TInt(1))),
                  Let("body", Cond(B("Gt", Id("len"), Lit(1)), B("Sub", Id("len"), Lit(1)), Lit(0))),
                  Match(Id("code"), <<
                     Case(2, << Let("g", Offset),
                                Loop("grouped", << >>, B("Lt", B("Sub", Offset, Id("g")), Id("body")),
                                     << Plain("inner", TRef("avp")) >>, << >>) >>),
                     Default(<< F(Plain("data", TBytes(Id("body")))) >>) >>),
                  F(Plain("padding", TBytes(B("Mod", Id("body"), Lit(2))))) >>),
    Msg("message", << F(Plain("a", TRef("avp"))) >>) >>]

\* A chain of headers through a carry, as gtpu.nfdl's, with plain names.
Chain == [le |-> FALSE, messages |-> <<
    Msg("chain", << F(Plain("first", TInt(1))),
                    Loop("exts", << [name |-> "curr", init |-> B("Add", Id("first"), Lit(0))] >>,
                         B("Ne", Id("curr"), Lit(0)),
                         << Plain("len", TInt(1)), Plain("body", TBytes(Id("len"))),
                            Plain("more", TInt(1)) >>,
                         << [name |-> "curr", value |-> Id("more")] >>),
                    F(Plain("last", TInt(1))) >>) >>]

\* gtpu.nfdl's chain as it is written: the carry follows ext.next_ext_type.
GtpuChain == [le |-> FALSE, messages |-> <<
    Msg("ext_header", << F(Plain("length", TInt(1))), Val(B("Gt", Id("length"), Lit(0))),
                         F(Plain("content", TBytes(B("Sub", Id("length"), Lit(1))))),
                         F(Plain("next_ext_type", TInt(1))) >>),
    Msg("tunnel", << F(Plain("has_opt", TInt(1))),
                     F(Fld("next_ext_type", TInt(1), Id("has_opt"), N!NoExpr)),
                     Loop("extensions",
                          << [name |-> "curr_type",
                              init |-> Cond(B("Eq", Id("has_opt"), Lit(1)),
                                            Id("next_ext_type"), Lit(0))] >>,
                          B("Ne", Id("curr_type"), Lit(0)),
                          << Plain("ext", TRef("ext_header")) >>,
                          << [name |-> "curr_type", value |-> Dot("ext", "next_ext_type")] >>),
                     F(Plain("payload", TRest)) >>) >>]

\* A loop counted by a carry: its passes may read nothing, and with a step of 0 change nothing.
Pads == [le |-> FALSE, messages |-> <<
    Msg("padded", << F(Plain("step", TInt(1))),
                     Loop("pads", << [name |-> "left", init |-> Lit(2)] >>,
                          B("Ne", Id("left"), Lit(0)),
                          << Plain("pad", TBytes(B("Div", Id("step"), Lit(2)))) >>,
                          << [name |-> "left", value |-> B("Sub", Id("left"), Id("step"))] >>),
                     F(Plain("last", TInt(1))) >>) >>]

Protocol == [radius |-> Radius, flags |-> Flags, diameter |-> Diameter, chain |-> Chain,
             pads |-> Pads, gtpu |-> GtpuChain]

\* Programs for what the protocols above do not reach: a conditional jump backwards, an
\* endless loop, a slice of unknown length before a rest, and a length of -1.
Hand == [
    counted |-> << [op |-> "const", v |-> 0, slot |-> 1], [op |-> "read", n |-> 1, le |-> FALSE, slot |-> 2],
                   [op |-> "un", fn |-> "Not", src |-> 2, slot |-> 3],
                   [op |-> "jz", slot |-> 1, to |-> 1] >>,
    endless |-> << [op |-> "read", n |-> 1, le |-> FALSE, slot |-> 1], [op |-> "jump", to |-> 1] >>,
    open    |-> << [op |-> "bits", n |-> 1, slot |-> 1], [op |-> "slice", len |-> OpenLen, slot |-> 2],
                   [op |-> "rest", name |-> "payload", slot |-> 3],
                   [op |-> "un", fn |-> "BitNot", src |-> 2, slot |-> 4],
                   [op |-> "bin", fn |-> "Add", l |-> 4, r |-> 4, slot |-> 4],
                   [op |-> "emit", name |-> "payload", slot |-> 4] >>,
    past    |-> << [op |-> "const", v |-> 1, slot |-> 1], [op |-> "un", fn |-> "Neg", src |-> 1, slot |-> 2],
                   [op |-> "slice", len |-> 2, slot |-> 3],
                   [op |-> "slice", len |-> OpenLen, slot |-> 4],
                   [op |-> "read", n |-> 2, le |-> FALSE, slot |-> 4] >>]

\* Larger than any program below uses.
MCSlots == 0..60

Compiled == [p \in Parsed |-> N!Compile(Protocol[p])]

FieldMap == [p \in Parsed |-> Compiled[p].fmap]

CodeOf == [p \in Parsed \cup HandMade |-> IF p \in Parsed THEN Compiled[p].code ELSE Hand[p]]

Job(p, stream, checks) == [prog |-> p, code |-> CodeOf[p], stream |-> stream, checks |-> checks]

\* Overflow checks matter to the hand-made programs only.
MCJobs == {Job(p, FALSE, FALSE) : p \in Parsed \cup HandMade}
          \cup {Job(p, TRUE, FALSE) : p \in Streamed} \cup {Job(p, FALSE, TRUE) : p \in HandMade}

CONSTANT MaxLen     \* every flow up to this length is tried, and prefixes of longer ones

LongFlows == [
    radius   |-> {<<1, 2, 0, 3, 1, 1, 2>>, <<1, 1, 0, 2, 1, 3, 2>>, <<1, 1, 0, 1, 2, 0, 0>>},
    flags    |-> {<<0, 2, 1, 1, 2, 3, 2, 0, 2>>, <<3, 3, 1, 0, 0, 1, 2, 3, 1>>, <<1, 0, 3, 1, 2, 3, 3>>},
    diameter |-> {<<2, 3, 1, 2, 1, 0, 3>>, <<2, 2, 0, 1, 1, 3>>, <<2, 2, 2, 2, 1, 0, 1>>},
    chain    |-> {<<2, 0, 3, 1, 2, 0, 1>>, <<1, 2, 3, 3, 1, 0, 0>>, <<1, 0, 2, 0, 1, 0, 0, 3>>},
    pads     |-> {},
    gtpu     |-> {<<1, 2, 1, 0, 0, 3>>}]

SeqsOf(n) == UNION {[1..k -> Bytes] : k \in 0..n}
MCFlows == [p \in Parsed \cup HandMade |->
               IF p \in HandMade THEN SeqsOf(2)
               ELSE SeqsOf(MaxLen) \cup UNION {Prefixes(d) : d \in LongFlows[p]}]

Names == {"type", "length", "value", "flags", "kind", "seq", "padding", "tail", "code", "len",
          "data", "first", "body", "more", "last", "has_opt", "next_ext_type", "content",
          "payload", "step", "pad"}

-----------------------------------------------------------------------------
(* A compiled protocol does what its source means: when a run of its bytecode ends or
   suspends, it has recorded the fields, moved the cursor and filled the context (the
   touched slots of the field map, as finalize reads them) as the declaration says; it
   rejects and suspends where the declaration does, and no limit stops it.  Where the
   declaration is given up and the bytecode has no check that would, the fields recorded
   until then are still the declaration's, and the program goes on: past the end of a
   datagram with a field that is zero-filled, in a loop without progress until the
   instruction budget is spent. *)
Ends == {"done", "constraint", "need"} \cup (IF retries = 0 THEN {"limit"} ELSE {})

\* Given up in docs/spec/03-semantics.md (ConstraintError(OOB), NonProgressLoop, LoopLimit),
\* or a reference nested deeper than the compiler inlines.
GivenUp(r) == r.end \in {"oob", "stuck", "looplimit", "deep"}

GoesOn(r) ==
    /\ IsPrefix(r.out, emitted)
    /\ r.end = "oob" => status = "constraint" \/ Len(emitted) > Len(r.out)
    /\ r.end = "stuck" => status = "limit"

SameAs(r, fmap, ctx) ==
    /\ r.end = status /\ r.out = emitted
    /\ status = "done" =>
          /\ r.q = pos * ByteBits + bit
          /\ DOMAIN r.ctx \subseteq ctx /\ ctx \subseteq DOMAIN r.ctx \cup r.refs
          /\ \A n \in DOMAIN r.ctx : slots[fmap[n]] = r.ctx[n]

Means(r, fmap, ctx) == IF GivenUp(r) THEN GoesOn(r) ELSE SameAs(r, fmap, ctx)

CompiledMeansSource ==
    job.prog \in Parsed /\ status \in Ends =>
        Means(N!Reading(input, job.stream, Protocol[job.prog]), FieldMap[job.prog],
              {n \in DOMAIN FieldMap[job.prog] : FieldMap[job.prog][n] \in touched})
=============================================================================
