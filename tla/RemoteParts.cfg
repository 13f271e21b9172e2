SPECIFICATION PartsSpec
CONSTANTS
  Explored = {"remote", "takeover", "client", "web", "lane"}
  FirstPeers = {m1, m2}
  Peers = {m1, m2, m3}
  RCalls = {n1, n2}
  Pubs = {"pa"}
  MaxDevice = 2
  MaxSession = 2
  MaxListener = 2
  Events = 1
  RVerbs = {"attest", "login", "resume", "conn.list"}
  Dialers = {d1}
  Actions = {n1, n2}
  Verbs = {"login", "logout", "role", "mint"}
  MaxTurn = 3
  MaxConn = 3
  MaxToken = 2
  MaxIdEpoch = 3
  DialBudget = 1
  ActBudget = 2
  ServerEvents = 1
  Tabs = {"t1", "t2", "t3"}
  Subjects = {"u1", "u2"}
  LogoutFaults = 1
  LaneSessions = {n1, n2}
  Watermark = 2
  LaneLimit = 5
  FrameSizes = {1, 3}
  OutputBound = 4
INVARIANTS
  RemoteStands
  ClientStands
  PoolStands
  LaneStands
PROPERTIES
  RemoteSteps
SYMMETRY PartsSymmetry
CHECK_DEADLOCK FALSE
