SPECIFICATION ServerSpec
CONSTANTS
  None = None
  Managers = {m1, m2}
  Frail = {m2}
  Due = {0, 1, 2}
  Jobs <- LeaseJobs
  RunTimeout = 1
  StaleTimeout = 3
  HeartbeatInterval = 1
  CatchUpWindow = 3
  MaxPlansPerTick = 2
  MaxLateness = 1
  MaxTickAge = 1
  MaxTime = 5
  p1 = p1  p2 = p2
  Prompts = {p1, p2}
  Clients = {c1}
  NoPrompt = NoPrompt
  Own = Own
INVARIANTS TypeOK HonestSuccess LeaseKept PromptIsKept AppliedOnce TakenBackIsUnanswered
PROPERTIES ClosedUntilClaimed OldestFirst RetryNotOvertaken
CHECK_DEADLOCK FALSE
