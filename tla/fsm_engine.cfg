\* Three flows in a table for two, with a timer each.
CONSTANTS
  Flows = {f1, f2, f3}
  TimerNames = {"idle"}
  TimerMsg <- MCTimerMsg
  Program <- Connection
  Packets <- Segments
  MaxSessions = 2
  MaxTick = 3
  Delays = {1, 2}
  Advances = {1}
  IdleTimeouts = {2, 4}
  MaxFeeds = 4
  MaxArms = 2
  f1 = f1
  f2 = f2
  f3 = f3
SPECIFICATION Spec
INVARIANTS
  FlowStateTracked
PROPERTIES
  EvictionIsLru
  ExpiryMatchesActivity
  AllDueFired
  TimersDisturbNoFlow
  FollowsMachine
