----------------------------- MODULE MCNfdlFront -----------------------------
(* Families of small N-FDL files, each around one concern of the grammar.      *)
EXTENDS NfdlFront

Proto(ms, bs, sms) == Protocol("P", "big", "datagram", "", ms, bs, sms)
OfBody(body) == << Proto(<< Message("M", body) >>, << >>, << >>) >>
X == Id("x")
Y == Id("y")

(* ---- Expressions: every operator under every other, on both sides ---- *)
BinOps   == {"||", "&&", "==", "!=", "|", "^", "&", "<", ">=", "<<", "+", "-", "*", "%"}
BitOps   == {"|", "^", "&"}
Equality == {"==", "!="}
Inner == {Bin(op, X, Y) : op \in BinOps} \cup {Un("!", X), Un("-", X), Cond(X, Y, Int_(1)), Coal(X, Y),
          Call("f", << X, Y >>), Call("g", << >>), Tuple(<< X, Y >>), Dot(X, "len"), Str_(<< "a", "b" >>)}
IsOp(e, ops) == e.k = "bin" /\ e.op \in ops
\* A comparison for equality inside a bit operation loses its parentheses when
\* it is printed, and so does a default inside a default.
MaskOf(op, e) == op \in BitOps /\ IsOp(e, Equality)
Nested ==
    {Bin(op, e, Int_(2)) : op \in BinOps, e \in Inner} \cup {Bin(op, Int_(2), e) : op \in BinOps, e \in Inner}
      \cup {Un(op, e) : op \in {"!", "~", "-"}, e \in Inner} \cup {Dot(e, "len") : e \in Inner}
      \cup {Cond(e, X, Y) : e \in Inner} \cup {Cond(X, e, Y) : e \in Inner} \cup {Cond(X, Y, e) : e \in Inner}
      \cup {Coal(e, Y) : e \in Inner} \cup {Coal(Y, e) : e \in Inner} \cup {Tuple(<< e, X >>) : e \in Inner}
      \cup {Call("f", << e >>) : e \in Inner}
Misprinted(e) ==
    \/ e.k = "bin" /\ (MaskOf(e.op, e.l) \/ MaskOf(e.op, e.r))
    \/ e.k = "coal" /\ e.d.k = "coal"
LetFile(e) == OfBody(<< Let("v", e) >>)
ExprFamily == {LetFile(e) : e \in {f \in Inner \cup Nested : ~Misprinted(f)}}
MaskFamily == {LetFile(e) : e \in {f \in Nested : Misprinted(f)}}

(* ---- Statements, one behind another ---- *)
Types == {Ty("u8"), Ty("u24"), TBytes(Bin("-", X, Int_(2))), Ty("rest"), Ty("eof"), Ty("stream"), TBits(1), TBits(64), TRef("T")}
Item(n) ==
    << Field("a", Ty("u16"), NoExpr), Field("b", TBits(3), Bin("==", X, Int_(1))), Let("v", Bin("+", X, Y)),
       Validate(Bin("<", X, Int_(9)), << "s", "m", "a", "l", "l" >>), Validate(X, Constraint),
       Loop("opts", << >>, Bin("<", X, Y), << Field("o", Ty("u8"), NoExpr) >>, << >>),
       Loop("tlv", << Carry("n", Ty("u8"), X), Carry("k", Ty("u16"), Int_(0)) >>, Y,
            << Field("t", Ty("u8"), NoExpr), Field("l", TBytes(Id("t")), Id("t")) >>, << NextStmt("n", Bin("-", X, Int_(1))) >>),
       Match(X, << Arm(1, << Field("c", Ty("u8"), NoExpr) >>), Arm(NoCase, << Let("w", Y), Field("d", Ty("rest"), NoExpr) >>) >>),
       Match(Bin("&", X, Int_(3)), << Arm(2, << Match(Y, << Arm(0, << >>) >>), Field("e", Ty("u8"), NoExpr) >>) >>) >>[n]
Items == {Item(n) : n \in 1..9}
BodyFamily == {OfBody(<< s, t >>) : s \in Items, t \in Items}
                \cup {OfBody(<< Field("f", ty, c), Field("g", Ty("u8"), NoExpr) >>) : ty \in Types, c \in {NoExpr, X}}
                \cup {OfBody(<< >>)}

(* ---- Settings, binds, machines, several declarations and protocols ---- *)
HeadFamily ==
    {<< Protocol("P", en, mo, eo, << Message("M", << Item(1) >>), Message("N", << Item(2), Item(8) >>) >>, bs, << >>) >> :
        en \in {"big", "little"}, mo \in {"datagram", "stream"}, eo \in {"", "on_fin"},
        bs \in {<< >>, << BindDecl("ip", "payload", "M", Bin("==", X, Int_(6))), BindDecl("udp", "payload", "N", Int_(1)) >>}}
Acts == {<< EmitAct("done") >>, << SetAct("n", Bin("+", Id("n"), Int_(1))), EmitAct("more") >>}
Machine(key, g, acts) ==
    StateMachine("S", key, "CLOSED",
        << State("CLOSED", << Transition("M", g, "OPEN", acts), Transition("N", NoExpr, "CLOSED", << EmitAct("odd") >>) >>),
           State("OPEN", << Transition("M", g, "IDLE", acts) >>), State("IDLE", << >>) >>)
MachineFamily ==
    {<< Proto(<< Message("M", << Item(1) >>) >>, << >>, << Machine(k, g, a), Machine(NoExpr, g, << EmitAct("x") >>) >>) >> :
        k \in {NoExpr, Tuple(<< X, Y >>)}, g \in {NoExpr, X, Bin("&&", Bin("==", X, Int_(1)), Un("!", Y))}, a \in Acts}
FileFamily ==
    {<< Proto(<< Message("M", << s >>) >>, << >>, << >>),
        Protocol("Q", "little", "stream", "on_close", << Message("N", << t >>) >>, << >>, << Machine(X, X, << EmitAct("x") >>) >>) >> :
        s \in {Item(1), Item(7), Item(8)}, t \in {Item(4), Item(9)}}

(* ---- Files with slips ---- *)
MCFragile ==
    {OfBody(<< Item(1), Item(2), Item(3), Field("z", Ty("u8"), NoExpr) >>),
     OfBody(<< Item(1), Item(7), Field("y", Ty("rest"), NoExpr), Item(4) >>),
     OfBody(<< Item(8), Field("y", TRef("T"), NoExpr), Item(6) >>),
     << Proto(<< Message("M", << Item(9), Item(1) >>), Message("N", << Item(1), Item(5) >>) >>,
              << BindDecl("ip", "payload", "M", Int_(1)) >>, << Machine(X, NoExpr, << EmitAct("x") >>) >>) >>}
      \cup FileFamily

MCFiles == ExprFamily \cup BodyFamily \cup HeadFamily \cup MachineFamily \cup MCFragile
=============================================================================
