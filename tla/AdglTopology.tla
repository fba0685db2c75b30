----------------------------- MODULE AdglTopology -----------------------------
(* The topology oracle (airpulse_dsl-evaluator, topology.rs): an in-memory     *)
(* network built by its owner before the run, the six catalog functions on it, *)
(* and the bounded depth-first search behind upstream_of. Scopes are numbers,  *)
(* in the order of ScopeId.                                                    *)
EXTENDS AdglLoops

(* ---- StaticTopology and its builder ---- *)
SameRelations == {"same_session", "same_client", "same_port", "same_ap", "same_vlan"}

NewTopology(max_hops) ==
    [known |-> {}, relations |-> [r \in SameRelations |-> {}], upstream |-> {},
     max_hops |-> IF max_hops < 1 THEN 1 ELSE max_hops]
declare(t, s)            == [t EXCEPT !.known = @ \cup {s}]
relate(t, rel, a, b)     == [t EXCEPT !.known = @ \cup {a, b}, !.relations[rel] = @ \cup {{a, b}}]
upstream_edge(t, up, dn) == [t EXCEPT !.known = @ \cup {up, dn}, !.upstream = @ \cup {<< up, dn >>}]

(* ---- The five symmetric relations ---- *)
query(t, rel, a, b) ==
    IF a = b \/ {a, b} \in t.relations[rel] THEN "T"
    ELSE IF {a, b} \subseteq t.known THEN "F" ELSE "U"

(* ---- upstream_of: depth-first, neighbours in the order of their ids ---- *)
DirectlyUp(t, node) == {e[1] : e \in {e \in t.upstream : e[2] = node}}
Outcome == [found |-> FALSE, cycle |-> FALSE, hop_overrun |-> FALSE, done |-> {}]
Findings(t) ==
    [found : BOOLEAN, cycle : BOOLEAN, hop_overrun : BOOLEAN, done : SUBSET t.known]
\* A visit of dfs: the node, the nodes on the path down to the start, what is known so far.
Visit(node, path, o) == [node |-> node, path |-> path, o |-> o]
Visits(t) == [node : t.known, path : SUBSET t.known, o : Findings(t)]

\* One neighbour: the target is noticed before anything stops the descent, and a
\* node already explored is not descended into again, whatever hops are left.
VisitNext_Bug(next, target, hops_left, path, o, deeper) ==
    LET seen == [o EXCEPT !.found = @ \/ next = target]
    IN  IF next \in path THEN [seen EXCEPT !.cycle = TRUE]
        ELSE IF next \in o.done \/ hops_left = 0 THEN seen
        ELSE deeper[Visit(next, path, seen)]
VisitNext(next, target, hops_left, path, o, deeper) ==
    LET seen == [o EXCEPT !.found = @ \/ next = target]
    IN  IF next \in path THEN [seen EXCEPT !.cycle = TRUE]
        ELSE IF next \in o.done THEN seen
        ELSE IF hops_left = 0 THEN [seen EXCEPT !.hop_overrun = TRUE]
        ELSE deeper[Visit(next, path, seen)]

\* The body of dfs, given what a call with one hop less comes to.
Explore(t, target, hops_left, c, deeper) ==
    LET path  == c.path \cup {c.node}
        step  == [p \in t.known \X Findings(t) |->
                    VisitNext(p[1], target, hops_left, path, p[2], deeper)]
        after == InOrder(DirectlyUp(t, c.node), c.o, step)
    IN  [after EXCEPT !.done = @ \cup {c.node}]
dfs(t, target) ==
    LET with[hops_left \in 0..t.max_hops] ==
            [c \in Visits(t) |-> Explore(t, target, hops_left, c, with[hops_left - 1])]
    IN  with

\* The answer with the diagnostic it records, if any.
Reply(t3, diag) == [t3 |-> t3, diag |-> diag]
Judge(o) ==
    IF o.cycle THEN Reply("F", "UpstreamCycle")
    ELSE IF o.hop_overrun /\ ~o.found THEN Reply("F", "HopBoundExceeded")
    ELSE Reply(IF o.found THEN "T" ELSE "F", "none")
upstream_of(t, up, down) ==
    IF up = down THEN Reply("F", "none")
    ELSE IF ~({up, down} \subseteq t.known) THEN Reply("U", "none")
    ELSE Judge(dfs(t, up)[t.max_hops][Visit(down, {}, Outcome)])

(* ---- TopoFunc: the closed set of functions, addressed by index ---- *)
TopoFunc == << "same_session", "same_client", "same_port", "same_ap", "same_vlan", "upstream_of" >>
from_idx(idx) == IF idx + 1 \in DOMAIN TopoFunc THEN {TopoFunc[idx + 1]} ELSE {}
call(func, t, a, b) ==
    IF func = "upstream_of" THEN upstream_of(t, a, b) ELSE Reply(query(t, func, a, b), "none")
=============================================================================
