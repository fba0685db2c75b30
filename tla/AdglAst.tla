------------------------------- MODULE AdglAst -------------------------------
(* The abstract syntax of ADGL (airpulse_dsl-syntax/src/ast.rs): records the   *)
(* parser builds, the formatter prints and the verifier lowers. Spans and doc  *)
(* comments are left out; None stands for an Option that is not there.         *)
EXTENDS Integers, Sequences

\* Limits several stages of the front end share.
CONSTANTS
    MaxI64,        \* the largest integer of the code
    MAX_NESTING,   \* bracket depth of a text and depth of an expression, 64 in the code
    MAX_REQUIRES   \* entries of a requires list, 32 in the code

None == [k |-> "none"]

\* Expressions.
IntLit(v)          == [k |-> "int", v |-> v]
DurationLit(ms)    == [k |-> "duration", ms |-> ms]
StringLit(s)       == [k |-> "string", s |-> s]
BoolLit(b)         == [k |-> "bool", b |-> b]
Ident(n)           == [k |-> "ident", n |-> n]
Present(n)         == [k |-> "present", n |-> n]
Absent(n)          == [k |-> "absent", n |-> n]
Not(e)             == [k |-> "not", e |-> e]
Binary(op, l, r)   == [k |-> "binary", op |-> op, l |-> l, r |-> r]
Field(base, f)     == [k |-> "field", base |-> base, f |-> f]
Call(callee, args) == [k |-> "call", callee |-> callee, args |-> args]
Index(base, i)     == [k |-> "index", base |-> base, i |-> i]

\* <binding>.<field>, the only shape of path that names data.
Path(b, f) == Field(Ident(b), f)

OrderOps == {"<", "<=", ">", ">="}
CmpOps   == {"==", "!="} \cup OrderOps
AddOps   == {"+", "-"}
MulOps   == {"*", "/", "%"}
ArithOps == AddOps \cup MulOps

\* The direct subexpressions of an expression, left to right.
Kids(e) ==
    CASE e.k = "not"    -> << e.e >>
      [] e.k = "binary" -> << e.l, e.r >>
      [] e.k = "field"  -> << e.base >>
      [] e.k = "call"   -> << e.callee >> \o e.args
      [] e.k = "index"  -> << e.base, e.i >>
      [] OTHER          -> << >>

\* Statements. A statement's fields are kept as written, in order.
Infer(cause, fields)       == [op |-> "infer", kind |-> cause, fields |-> fields]
Emit(problem, fields)      == [op |-> "emit", kind |-> problem, fields |-> fields]
Action(name, arg, fields)  == [op |-> "action", kind |-> name, arg |-> arg, fields |-> fields]
TargetField(e)             == [f |-> "target", e |-> e]
WeightField(v)             == [f |-> "weight", v |-> v]
EvidenceField(ids)         == [f |-> "evidence", ids |-> ids]
SeverityField(s)           == [f |-> "severity", sev |-> s]
SarifField(s)              == [f |-> "sarif_id", s |-> s]
ReasonField(s)             == [f |-> "reason", s |-> s]

\* Rules: the anchor and the correlates bind names; min is the set of a match
\* clause's count, empty without one; if_else is None or a branch, whose else is
\* << body >>, or empty when there is none.
Anchor(src, kind, bind, pred) ==
    [src |-> src, kind |-> kind, bind |-> bind, pred |-> pred]
TimeWindow(probe, start, end) == [probe |-> probe, start |-> start, end |-> end]
Topo(fn, args) == [fn |-> fn, args |-> args]
Correlate(bind, src, kind, topo, time, min) ==
    [bind |-> bind, src |-> src, kind |-> kind, topo |-> topo, time |-> time, min |-> min]
IfElse(cond, then, else) == [k |-> "if", cond |-> cond, then |-> then, else |-> else]
Rule(name, kind, scope, anchor, corr, if_else, body) ==
    [name |-> name, kind |-> kind, scope |-> scope, anchor |-> anchor, corr |-> corr,
     if_else |-> if_else, body |-> body]
Ruleset(name, version, decls, rules) ==
    [name |-> name, version |-> version, decls |-> decls, rules |-> rules]
Requires(caps)           == [d |-> "requires", caps |-> caps]
MutuallyExclusive(names) == [d |-> "mutually_exclusive", names |-> names]
=============================================================================
