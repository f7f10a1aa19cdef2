SPECIFICATION FairSpec
CONSTANTS
  None = None
  Managers = {m1, m2}
  Frail = {m2}
  Due = {0, 1}
  Jobs <- AutopilotJob
  RunTimeout = 1
  StaleTimeout = 2
  HeartbeatInterval = 1
  CatchUpWindow = 3
  MaxPlansPerTick = 2
  MaxLateness = 1
  MaxTickAge = 0
  MaxTime = 4
PROPERTY CrashedIsReentered
