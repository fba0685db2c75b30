\* Two clients and their VLAN, under two rulesets.
CONSTANTS
  Scopes = {"c1", "c2", "vlan"}
  TypeOf <- MCTypeOf
  CauseKinds = {"A", "B"}
  ProblemKinds = {"P", "Q"}
  EventTypes = {"up", "down"}
  Deployments <- MCDeployments
  Exclusive <- AB
  Topo <- MCTopo
  MaxCauses = 2
  Cooldown = 1
  MaxLookback = 2
  DedupWindow = 1
  MaxFires = 3
SPECIFICATION Spec
INVARIANTS
  ConfidencesCurrent
  ConfirmedCausesReported
  AmbiguityLife
  CooldownRespected
