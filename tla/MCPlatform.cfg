\* One instance of each scene of MCPlatform.
SPECIFICATION Spec
CONSTANTS
  Agents = {a1}
  Levels = {1, 2, 3}
  Writers = {w1, w2}
  MaxFaults = 1
  MaxClock = 5
  Free = Free
  HCMaxCalls = 3
  RowLists <- MCRowLists
  Parallel = 2
  Procs = {w1, w2}
  Fields = {"mode", "backend"}
  CLIMaxCommands = 3
  CLIMaxFaults = 1
  Chains <- MCChains
  Inbound <- MCInbound
  Services = {"register", "info", "upgrade", "check", "ban", "revoke"}
  Slots = {w1, w2}
  MCPAgents = {u1}
  MCPTools = {"register", "ban", "missing"}
  AuthKeys = {"", "secret"}
  BodyLen = 3
  MCPMaxRequests = 2
INVARIANTS AuditTrailExplains AnswersAreTrue BatchIsAccounted ConfigIsSafe GatewayIsHonest
           SessionInOrder
PROPERTY LocalFollowsLifecycle
SYMMETRY Symmetry
\* Clients may stop calling.
CHECK_DEADLOCK FALSE
