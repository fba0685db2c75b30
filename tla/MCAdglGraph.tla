----------------------------- MODULE MCAdglGraph -----------------------------
(* Instances of AdglGraph for TLC: two clients in one VLAN, two causes. *)
EXTENDS AdglGraph

MCTypeOf == [s \in Scopes |-> IF s = "vlan" THEN "Vlan" ELSE "ClientMac"]

\* c1 is upstream of c2; nothing is known about the VLAN itself.
MCTopo == [a \in Scopes |-> [b \in Scopes |->
             IF a = "c2" /\ b = "c1" THEN "T" ELSE IF "vlan" \in {a, b} THEN "U" ELSE "F"]]

AB == << {"A", "B"} >>

InferI(k, w)  == [op |-> "infer", cause |-> k, weight |-> w]
EmitI(p, own) == [op |-> "emit", problem |-> p, own |-> own]
ActionI(kind) == [op |-> "action", kind |-> kind]

Rule(src, on, scope, lo, corr, body, else, unk) ==
    [src |-> src, on |-> on, scope |-> scope, lo |-> lo, hi |-> 100, corr |-> corr,
     body |-> body, else |-> else, unk |-> unk]

Evidence(e, scope, body) == Rule("event", e, scope, 0, <<>>, body, <<>>, <<>>)
Verdict80(k, scope, body) == Rule("cause", k, scope, 80, <<>>, body, <<>>, <<>>)

\* Exclusive causes that approach, separate and overtake each other in two
\* clients, and a verdict on one of them in each kind of partition.
CauseRules ==
    << Evidence("up", "ClientMac", << InferI("A", 45), InferI("B", 50) >>),
       Evidence("up", "ClientMac", << InferI("A", 40) >>),
       Evidence("down", "ClientMac", << InferI("A", -30) >>),
       Evidence("down", "ClientMac", << InferI("B", -12), InferI("A", 5) >>),
       Verdict80("A", "Vlan", << EmitI("P", FALSE), EmitI("Q", TRUE) >>),
       Verdict80("A", "ClientMac", << EmitI("P", FALSE), ActionI("run_check") >>) >>

\* Example 7: an unreachable device below another one is a symptom.
UpstreamCorr(back, fwd) ==
    << [src |-> "problem", kind |-> "P", back |-> back, fwd |-> fwd, min |-> 1] >>

\* Verdicts are emitted in the clients' shared partition "vlan" about the clients.
SuppressRules ==
    << Evidence("up", "Vlan", << InferI("A", 90) >>),
       Evidence("up", "Vlan", << InferI("B", 85) >>),
       Verdict80("A", "Vlan", << EmitI("P", FALSE) >>),
       Verdict80("B", "Vlan", << EmitI("P", FALSE), ActionI("run_check") >>),
       Rule("problem", "P", "Vlan", 0, UpstreamCorr(2, 0),
            << [op |-> "supersede", problem |-> "P"], ActionI("suppress_symptom"),
               [op |-> "mark", pair |-> {"A", "B"}] >>,
            << >>, << ActionI("request_topology") >>) >>

\* Inference, roll-up, verdicts and ambiguity about the VLAN, with a budget that
\* the widest batch exceeds; and emission, cooldown and suppression about clients.
MCDeployments ==
    { [rules |-> CauseRules, firings |-> 4, times |-> {0, 1}, targets |-> {"vlan"}],
      [rules |-> SuppressRules, firings |-> 3, times |-> {0, 1, 2},
       targets |-> {"c1", "c2", NoScope}] }
=============================================================================
