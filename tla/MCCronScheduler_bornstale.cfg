SPECIFICATION Spec
CONSTANTS
  None = None
  Managers = {m1, m2}
  Frail = {}
  Due = {0}
  Jobs <- AutopilotJob
  RunTimeout = 1
  StaleTimeout = 2
  HeartbeatInterval = 1
  CatchUpWindow = 3
  MaxPlansPerTick = 2
  MaxLateness = 1
  MaxTickAge = 3
  MaxTime = 5
INVARIANT LeaseKept
