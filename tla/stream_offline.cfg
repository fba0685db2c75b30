\* Offline replay, any disorder, a ring and a wait queue of two, one firing per
\* event, closed by finish.
CONSTANTS
  Scopes = {"s1"}
  EventTypes = {"rtx", "ptb"}
  Data = {"hit", "miss", "dark"}
  Topo <- MCTopo
  Rules <- ThreeRules
  Mode = "Offline"
  MinTime <- MCMinTime
  MaxTime <- MCMaxTime
  RingCap = 2
  PendingCap = 2
  MaxFirings = 1
  MaxLookback = 3
  DedupWindow = 2
  MaxDisorder = 0
  AllowedLateness = 0
  IdleTimeout = 3
  EventTimes = {0, 1, 3, 4}
  PunctTimes = {4, 5}
  WallTimes = {}
  MaxEvents = 3
  SourceDisorder = 99
  IngestAfterFinish = FALSE
SPECIFICATION FairSpec
INVARIANTS
  WaitingEvidenceRetained
  OneRunPerMatch
  MissingAnchorsWereSpilled
  EveryMatchAccountedFor
PROPERTIES
  ResumedVerdictsExact
  LateEvidenceAudited
  SpillDropsLeastUrgent
  RepeatsOnlyBehindHorizon
  FinishClosesWindows
  EverythingSettles
