\* Live, two sources within max_disorder, no lateness allowed; window bounds that
\* saturate, a driver that goes on after finish.
CONSTANTS
  Scopes = {"s1", "s2"}
  EventTypes = {"rtx", "ptb"}
  Data = {"hit"}
  Topo <- MCTopo
  Rules <- TwoRules
  Mode = "Live"
  MinTime <- MCMinTime
  MaxTime <- LowMaxTime
  RingCap = 9
  PendingCap = 9
  MaxFirings = 4
  MaxLookback = 3
  DedupWindow = 8
  MaxDisorder = 1
  AllowedLateness = 0
  IdleTimeout = 2
  EventTimes = {0, 1, 4}
  PunctTimes = {}
  WallTimes = {4}
  MaxEvents = 4
  SourceDisorder = 0
  IngestAfterFinish = TRUE
SPECIFICATION Spec
INVARIANTS
  TypeOK
  VerdictsFinal
  SteadySourcesHoldWatermark
PROPERTIES
  OnTimeNeverDropped
