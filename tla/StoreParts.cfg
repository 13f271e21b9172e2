SPECIFICATION PartsSpec
CONSTANTS
  Explored = {"boot", "policy", "accounts", "keyslot", "scripts", "copy"}
  Addrs = {"A", "B"}
  Metas = {"S", "T"}
  Daemons = {"d1", "d2"}
  First = "d1"
  Inodes = {1, 2, 3, 4}
  LaunchBudget = 2
  Mishaps = 1
  ClientTries = 1
  Tools = {"init", "schema", "migrate"}
  Frontends = {"idle", "absent"}
  LeaseKinds = {"file", "pg"}
  Releases = {1}
  c1 = c1
  c2 = c2
  a = a
  b = b
  Ops = {o1, o2}
  Viewer = viewer
  Specs = {a, b}
  Configs = {c1, c2}
  Accepts <- AcceptsByConfig
  FileSpec = a
  Nobody = Nobody
  NoRow = NoRow
  MaxGen = 3
  Actors = {m1, m2}
  Accts = {"root", "ann", "bob"}
  MaxAcctSess = 2
  MaxPAT = 2
  PATCap = 1
  PATGlobal = 1
  RowCap = 1
  MaxPass = 1
  AcctOps = {"login", "bootstrap", "change", "reset", "role", "disable", "enable", "remove", "create", "revoke", "mint", "addip", "check"}
  OpBudget = 3
  SlotCalls = {m1, m2}
  MaxKeyfile = 3
  SlotCrashes = 2
  Openers = {"o1", "o2"}
  ScriptReleases = {0, 2, 3}
  StoreKinds = {"file", "pg"}
  Baseline = 2
  BackupsKept = 3
  OpenBudget = 3
  OpenCrashes = 1
  MaxMonth = 4
  LookAhead = 1
  PrepartitionCap = 1
  MaxId = 2
  CopyTries = 2
  SourceEdits = 1
  RollFaults = 1
INVARIANTS
  StoreHasOneDaemon
  PolicyIsOne
  AccountsStand
  SlotStands
  SchemaIsTold
  HistoryIsFound
PROPERTIES
  PolicyNeverReverts
  StoreSteps
SYMMETRY PartsSymmetry
CHECK_DEADLOCK FALSE
