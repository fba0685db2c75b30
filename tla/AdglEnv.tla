-------------------------------- MODULE AdglEnv --------------------------------
(* What the verifier, the compiler of predicates and the engine share about a  *)
(* rule: the environment of its bindings, and the programs and truth values a  *)
(* predicate is lowered to and has.                                            *)
EXTENDS AdglAst, AdglCatalog

(* ---- The environment of a rule (RuleEnv::for_rule) ---- *)

\* binding name -> [src, kind, idx]; the anchor is binding 0, the correlates
\* follow, and a later binding of the same name takes its place.
RuleEnv(rule) ==
    LET Binder(i) == IF i = 0 THEN rule.anchor ELSE rule.corr[i]
        Last(n)   == CHOOSE i \in 0..Len(rule.corr) :
                        /\ Binder(i).bind = n
                        /\ \A j \in (i + 1)..Len(rule.corr) : Binder(j).bind # n
    IN  [n \in {Binder(i).bind : i \in 0..Len(rule.corr)} |->
            [src |-> Binder(Last(n)).src, kind |-> Binder(Last(n)).kind, idx |-> Last(n)]]

\* The schema an expression <binding>.<field> resolves to, if it does.
PathSchema(e, env) ==
    IF e.k = "field" /\ e.base.k = "ident" /\ e.base.n \in DOMAIN env
    THEN resolve_metric_path(env[e.base.n].src, env[e.base.n].kind, e.f)
    ELSE {}

(* ---- Programs and truth values ---- *)
Load(op, imm) == [op |-> op, imm |-> imm, dst |-> 0]
always_true   == [ops |-> << Load("const", 1) >>, result |-> 0, errs |-> {}]
Truth(t)      == [s |-> "truth", t |-> t]
=============================================================================
