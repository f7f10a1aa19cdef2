SPECIFICATION Spec
CONSTANTS
  None = None
  a1 = a1  a2 = a2  r1 = r1  r2 = r2
  k1 = k1  k2 = k2  kc = kc  kp = kp  c1 = c1  c2 = c2  s1 = s1  s2 = s2
  Agents = {a1}
  Runtimes = {r1}
  Keys = {kc}
  AgentOf <- ChatAgentOf
  KindOf <- ChatKind
  PriOf <- ChatPri
  CommentKeys = {}
  FallbackOf <- ChatFallback
  MaxConcurrent <- OneAtATime
  HomeOf <- OneAgentHome
  Requests = {c1}
  Slots = {s1}
  SlotRt <- OneSlot
  MaxAttempts = 2
  NetMax = 3
  Reasons = {"network"}
  Faults = {}
  MaxRoots = 2
PROPERTY ChatTurnsInOrder
CHECK_DEADLOCK FALSE
