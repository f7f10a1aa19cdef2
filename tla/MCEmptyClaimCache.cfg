CONSTANTS
  r1 = r1
  None = None
  Tasks = {t1, t2}
  Runtimes = {r1}
  Requests = {c1, c2}
  RtOf <- OneRuntime
  RedisFails = TRUE
  Crashes = TRUE
  MaxRequeues = 1
SPECIFICATION FairSpec
INVARIANTS TypeOK NoHiddenTask
PROPERTY QueuedIsClaimed
