\* Offline replay in which an anchor arrives behind the horizon of the dedup index.
CONSTANTS
  Scopes = {"s1"}
  EventTypes = {"rtx", "ptb"}
  Data = {"hit"}
  Topo <- MCTopo
  Rules <- ThreeRules
  Mode = "Offline"
  MinTime <- MCMinTime
  MaxTime <- MCMaxTime
  RingCap = 9
  PendingCap = 9
  MaxFirings = 4
  MaxLookback = 3
  DedupWindow = 2
  MaxDisorder = 0
  AllowedLateness = 0
  IdleTimeout = 3
  EventTimes = {0, 1, 6}
  PunctTimes = {}
  WallTimes = {}
  MaxEvents = 3
  SourceDisorder = 99
  IngestAfterFinish = FALSE
SPECIFICATION Spec
INVARIANTS
  OncePerWindow
