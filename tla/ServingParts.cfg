SPECIFICATION PartsSpec
CONSTANTS
  Explored = {"ledger", "shutdown", "backend", "frontdoor", "statement", "extended", "batch", "limiter"}
  Sockets = {k1, k2, k3}
  Cancels = {cx1, cx2}
  NoCancel = NoCancel
  Budgets = {1, 2, 3, 4}
  StartBudget = 3
  MaxBudgets = 3
  Sess = {s1}
  Wire = {w1}
  Remote = {r1}
  Deciders = {d1, i1}
  IdleDeciders = {i1}
  NoDecider = NoDecider
  MaxSeq = 3
  Backends = {b1}
  MaxTx = 2
  NoBackend = NoBackend
  Kinds = {"wire", "token"}
  Conns = {x1, x2}
  Hosts = {h1}
  MaxConns = 2
  PreAuthMax = 1
  PerSource = 2
  LaneUnits = 2
  AuthWorkers = 1
  FailureLimit = 1
  Pids = {1}
  NoConn = NoConn
  Debug = FALSE
  Paths = {"pooled", "token", "wire"}
  CanHostRO = {TRUE, FALSE}
  MaxMoved = 1
  Texts <- TextsByName
  PortalNames = {"q"}
  SegmentCap = 3
  NamedCap = 1
  PendingCloseCap = 1
  RetainedBudget = 2
  BatchLen = 3
  Queries = 2
  StoreFaults = 1
  Denials = {m1, m2}
  BlockAfter = 2
  FaultBudget = 2
  CrashBudget = 1
  SignIns = 1
INVARIANTS
  PermitsExact
  StopIsQuiet
  BackendStands
  ListenerStands
  UnitWithinAuthority
  SegmentHonest
  BatchHonest
  DenialsCount
PROPERTIES
  DrainIsMonotone
  ServingSteps
SYMMETRY PartsSymmetry
CHECK_DEADLOCK FALSE
