\* The dialog of radius.nfdl.
CONSTANTS
  Flows = {f1}
  TimerNames = {"idle"}
  TimerMsg <- MCTimerMsg
  Program <- Radius
  Packets <- Access
  MaxSessions = 2
  MaxTick = 3
  Delays = {1, 2}
  Advances = {1}
  IdleTimeouts = {2, 4}
  MaxFeeds = 3
  MaxArms = 0
  f1 = f1
SPECIFICATION Spec
PROPERTIES
  FollowsMachine
