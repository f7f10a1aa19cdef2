SPECIFICATION DispatchSpec
CONSTANTS
  Workers = {w1}
  Sources = {"schedule", "webhook"}
  Modes = {"run_only", "create_issue"}
  Faults = {"crash", "slow", "dberror", "offline", "pause", "unheard"}
  MaxTroubles = 2
  MaxAttempts = 2
  Ceiling = 3
INVARIANTS HonestDispatch DeliveryOnce EndReachesRun
 
CHECK_DEADLOCK FALSE
