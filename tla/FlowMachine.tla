---------------------------- MODULE FlowMachine ----------------------------
(***************************************************************************)
(* What the session engine promises of one state machine: every flow runs  *)
(* the machine on its own, starting in the first declared state, the first *)
(* declared transition that matches wins, a message without a match leaves *)
(* the flow as it is, and a flow is only ever forgotten as a whole         *)
(* (docs/spec/09-efsm-sessions.md, sections 3, 4 and 10).  SessionFsm.tla  *)
(* is shown to implement it.                                               *)
(***************************************************************************)
EXTENDS Naturals, Sequences

CONSTANTS
    Flows,      \* flow keys
    Machine,    \* [states |-> names in declaration order,
                \*  trans  |-> state :> sequence of transitions]
    Packets     \* what feed is called with: [msg, ctx]

VARIABLE flow   \* per flow: Fresh, or the named state and the set variables

Fresh == [state |-> Head(Machine.states), vars |-> <<>>]

\* A session variable hides the field of the same name.
Env(vars, ctx) ==
    [x \in DOMAIN vars \cup DOMAIN ctx |->
        IF x \in DOMAIN vars THEN vars[x] ELSE ctx[x]]

Lookup(env, x) == IF x \in DOMAIN env THEN env[x] ELSE 0

Matches(tr, msg, env) ==
    tr.msg = msg /\ \A x \in DOMAIN tr.guard : Lookup(env, x) = tr.guard[x]

\* The variables after the `set`s of a transition: a later one reads what an
\* earlier one has set (section 5).
Assigned(vars, sets, ctx) ==
    LET after[k \in 0..Len(sets)] ==
            IF k = 0 THEN vars
            ELSE LET before == after[k - 1]
                 IN  [x \in DOMAIN before \cup {sets[k].var} |->
                         IF x = sets[k].var
                         THEN Lookup(Env(before, ctx), sets[k].value)
                         ELSE before[x]]
    IN  after[Len(sets)]

\* The flow record after a message: the first matching transition in
\* declaration order, or the same record.
After(r, msg, ctx) ==
    LET env  == Env(r.vars, ctx)
        trs  == IF r.state \in DOMAIN Machine.trans
                THEN Machine.trans[r.state] ELSE <<>>
        hits == {i \in DOMAIN trs : Matches(trs[i], msg, env)}
    IN  IF hits = {} THEN r
        ELSE LET tr == trs[CHOOSE i \in hits : \A j \in hits : i <= j]
             IN  [state |-> tr.to, vars |-> Assigned(r.vars, tr.sets, ctx)]

Init == flow = [f \in Flows |-> Fresh]

\* A message of flow f; room for it may be made by forgetting other flows.
Receive(f, msg, ctx) ==
    \E gone \in SUBSET (Flows \ {f}) :
        flow' = [g \in Flows |-> IF g = f THEN After(flow[f], msg, ctx)
                                 ELSE IF g \in gone THEN Fresh ELSE flow[g]]

Forget(gone) ==
    flow' = [g \in Flows |-> IF g \in gone THEN Fresh ELSE flow[g]]

Next ==
    \/ \E f \in Flows, p \in Packets : Receive(f, p.msg, p.ctx)
    \/ \E gone \in SUBSET Flows : Forget(gone)

Spec == Init /\ [][Next]_flow
=============================================================================
