----------------------------- MODULE MCAdglStream -----------------------------
(* Instances of AdglStream for TLC. *)
EXTENDS AdglStream

MCMinTime  == -10
MCMaxTime  == 20
LowMaxTime == 4

\* Every topology answer is one payload away from the anchor's.
MCTopo == [d \in Data |->
             [x \in Data |->
                IF x = "hit" THEN "T" ELSE IF x = "miss" THEN "F" ELSE "U"]]

Corr(ty, back, fwd, min) ==
    [type |-> ty, back |-> back, fwd |-> fwd, min |-> min, calc |-> TRUE]

Rule(anchor, cond, else, corr) ==
    [anchor |-> anchor, scopes |-> Scopes, accepts |-> Data \cap {"hit", "dark"},
     cond |-> cond, elseInfers |-> else, corr |-> corr]

\* rtx waits one tick for a ptb and looks two back; ptb looks two ticks back for an rtx.
TwoRules ==
    << Rule("rtx", "absent", TRUE, << Corr("ptb", 2, 1, 1) >>),
       Rule("ptb", "present", FALSE, << Corr("rtx", 2, 0, 1) >>) >>

\* And an rtx that also contributes by itself: two rules on one anchor.
ThreeRules == << Rule("rtx", "body", FALSE, << >>) >> \o TwoRules

=============================================================================
