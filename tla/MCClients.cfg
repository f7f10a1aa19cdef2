SPECIFICATION ClientsSpec
CONSTANTS
  None = None
  a1 = a1  a2 = a2  r1 = r1  r2 = r2
  k1 = k1  k2 = k2  kc = kc  kp = kp  c1 = c1  c2 = c2  s1 = s1  s2 = s2
  Agents = {a1, a2}
  Runtimes = {r1, r2}
  Keys = {k1, k2}
  AgentOf <- RoutedAgentOf
  KindOf <- RoutedKind
  PriOf <- RoutedPri
  CommentKeys = {k1, k2}
  FallbackOf <- RoutedFallback
  MaxConcurrent <- TwoAgentsMax
  HomeOf <- TwoAgentsHome
  Requests = {c1}
  Slots = {s1, s2}
  SlotRt <- TwoRuntimes
  MaxAttempts = 1
  NetMax = 3
  Reasons = {"agent_error"}
  Faults = {"move"}
  MaxRoots = 3
  Issues = {1, 2, 3}
  PaginatedStatuses = {1, 2}
  Window = 1
  Mutations = {m1}
  MaxWrites = 2
  MaxMutations = 1
  Opened = {3}
  Starts <- SomeStarts
  Gone = Gone
  Nothing = Nothing
  Values = {1, 2, 3}
  NoValue = NoValue
  Workers = {w1, w2}
  ResolveAttempts = 2
  MaxHandOffs = 2
  MaxComments = 2
  MaxTasks = 3
  MaxHead = 2
  MaxTrouble = 1
SYMMETRY WorkersAlike
INVARIANTS OnePendingPerIssueAgent 
  BoardIsRight ShowsCommitted NewestAskedLands RestIsSaved
  PromiseKept NoOldHeadRun
CHECK_DEADLOCK FALSE
