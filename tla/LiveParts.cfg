SPECIFICATION PartsFairSpec
CONSTANTS
  Explored = {"ledger", "shutdown", "backend", "frontdoor", "web", "boot", "limiter", "copy"}
  Sockets = {k1, k2, k3}
  Cancels = {cx1, cx2}
  NoCancel = NoCancel
  Budgets = {1, 2}
  StartBudget = 2
  MaxBudgets = 2
  Sess = {s1}
  Wire = {w1}
  Remote = {r1}
  Deciders = {d1, i1}
  IdleDeciders = {i1}
  NoDecider = NoDecider
  MaxSeq = 2
  Backends = {b1}
  MaxTx = 1
  NoBackend = NoBackend
  Kinds = {"wire"}
  Conns = {x1}
  Hosts = {h1}
  MaxConns = 1
  PreAuthMax = 1
  PerSource = 1
  LaneUnits = 2
  AuthWorkers = 1
  FailureLimit = 1
  Pids = {1}
  NoConn = NoConn
  Debug = FALSE
  Tabs = {"t1", "t2"}
  Subjects = {"u1"}
  LogoutFaults = 1
  Addrs = {"A"}
  Metas = {"S"}
  Daemons = {"d1", "d2"}
  First = "d1"
  Inodes = {1, 2, 3, 4}
  LaunchBudget = 2
  Mishaps = 1
  ClientTries = 1
  Tools = {}
  Frontends = {"absent"}
  LeaseKinds = {"pg"}
  Releases = {1}
  Denials = {m1}
  BlockAfter = 1
  FaultBudget = 1
  CrashBudget = 1
  SignIns = 0
  MaxMonth = 4
  LookAhead = 1
  PrepartitionCap = 1
  MaxId = 2
  CopyTries = 0
  SourceEdits = 0
  RollFaults = 1
PROPERTIES
  EveryoneIsAnswered
  EndsAreReleased
  HarmIsHealed
CHECK_DEADLOCK FALSE
