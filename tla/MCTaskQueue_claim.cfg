SPECIFICATION Spec
CONSTANTS
  None = None
  a1 = a1  a2 = a2  r1 = r1  r2 = r2
  k1 = k1  k2 = k2  kc = kc  kp = kp  c1 = c1  c2 = c2  s1 = s1  s2 = s2
  Agents = {a1,a2}
  Runtimes = {r1,r2}
  Keys = {k1,k2,kc,kp}
  AgentOf <- ClaimAgentOf
  KindOf <- ClaimKind
  PriOf <- ClaimPri
  CommentKeys = {k1,k2}
  FallbackOf <- ClaimFallback
  MaxConcurrent <- ClaimMax
  HomeOf <- ClaimHome
  Requests = {c1, c2}
  Slots = {s1, s2}
  SlotRt <- TwoSlots
  MaxAttempts = 1
  NetMax = 3
  Reasons = {"agent_error"}
  Faults = {"lost", "finalize", "slow", "move"}
  MaxRoots = 2
SYMMETRY Symmetry
INVARIANTS TypeOK SerializedPerKey CapacityRespected ExclusiveExecution
CHECK_DEADLOCK FALSE
