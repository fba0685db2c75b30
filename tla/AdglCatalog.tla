----------------------------- MODULE AdglCatalog -----------------------------
(* The catalog (airpulse_dsl-catalog) as the verifier and the engine look it   *)
(* up. Events, causes and problems are parameters, tables of the code's shape; *)
(* the fixed schemas of causes and problems, the actions and the topology      *)
(* functions are the code's own.                                               *)
EXTENDS Integers, Sequences, FiniteSets

CONSTANTS
    Events,        \* event type -> sequence of field schemas
    Causes,        \* cause kind -> sequence of valid target scopes
    Problems,      \* problem kind -> [scopes, severity, sarif]
    Capabilities   \* the capability names a ruleset may require

\* A field type; only a scope key carries its scope type.
Ty(t)      == [t |-> t, s |-> "-"]
ScopeTy(s) == [t |-> "ScopeId", s |-> s]
FieldSchema(name, ty, pii, idx) == [name |-> name, ty |-> ty, pii |-> pii, idx |-> idx]

CAUSE_FIELDS ==
    << FieldSchema("target", ScopeTy("Global"), FALSE, 0), FieldSchema("time", Ty("Int"), FALSE, 1),
       FieldSchema("confidence", Ty("Confidence"), FALSE, 2),
       FieldSchema("evidence", Ty("NodeIdList"), FALSE, 3) >>

PROBLEM_FIELDS ==
    << FieldSchema("target", ScopeTy("Global"), FALSE, 0), FieldSchema("time", Ty("Int"), FALSE, 1),
       FieldSchema("severity", Ty("Severity"), FALSE, 2),
       FieldSchema("evidence", Ty("NodeIdList"), FALSE, 3),
       FieldSchema("sarif_id", Ty("SarifId"), FALSE, 4) >>

\* Whether the catalog knows a kind, per source of a binding.
Resolves(src, kind) ==
    CASE src = "event" -> kind \in DOMAIN Events
      [] src = "cause" -> kind \in DOMAIN Causes
      [] src = "problem" -> kind \in DOMAIN Problems

Fields(src, kind) ==
    IF ~Resolves(src, kind) THEN << >>
    ELSE CASE src = "event"   -> Events[kind]
           [] src = "cause"   -> CAUSE_FIELDS
           [] src = "problem" -> PROBLEM_FIELDS

\* The schema of a field as a set: empty when the path resolves to nothing.
resolve_metric_path(src, kind, f) ==
    { Fields(src, kind)[i] : i \in
        { i \in DOMAIN Fields(src, kind) :
            /\ Fields(src, kind)[i].name = f
            /\ \A j \in 1..(i - 1) : Fields(src, kind)[j].name # f } }

valid_scopes(src, kind) == IF src = "cause" THEN Causes[kind] ELSE Problems[kind].scopes

OBSERVATION_KINDS == {"icmp.visibility", "aaa.telemetry", "wifi.rf_metrics"}
CHECK_KINDS       == {"cable_loopback", "lldp_poll", "stp_root_check"}

\* An action's argument and the types its target may have.
ActionTable ==
    [ request_observation |-> [arg |-> "observation", targets |-> {"ScopeId", "ScopeIdList"}],
      run_check           |-> [arg |-> "check", targets |-> {"ScopeId"}],
      suppress_symptom    |-> [arg |-> "problem", targets |-> {}],
      mark_ambiguous      |-> [arg |-> "none", targets |-> {"ScopeId"}],
      request_topology    |-> [arg |-> "none", targets |-> {"ScopeId"}] ]

\* A topology function's name -> the index the engine calls it by.
TOPO_FUNCTIONS ==
    [same_session |-> 0, same_client |-> 1, same_port |-> 2, same_ap |-> 3, same_vlan |-> 4,
     upstream_of |-> 5]
TopoArity == 2

\* ScopeType::parent and is_subsumed_by: a scope is below itself and its ancestors.
parent(s) == CASE s \in {"Session", "ClientMac"} -> "Vlan"
               [] s \in {"Vlan", "Port", "AccessPoint"} -> "Global"
               [] OTHER -> "none"
is_subsumed_by(s, t) == t \in {s, parent(s), parent(parent(s))} \ {"none"}
=============================================================================
