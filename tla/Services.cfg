SPECIFICATION SvcSpec
CONSTANTS
  Kinds = {"logcenter", "monitor", "agent"}
  MaxConnections = 1
  KindCap = 1
  Samplers = {1, 2}
  SThreads = {m1, m2}
  Watchers = {a}
  NoSampler = NoSampler
  MaxPoints = 2
  StopAfter = 2
  MaxTime = 3
  Uploads = {u1, u2}
  MaxActive = 2
  MaxReserved = 3
  Sizes = {1, 2}
  Room = 4
  Sessions = {s1, s2}
  Chats = {c1}
  Streams = {t1}
  None = None
  MaxSessions = 1
  MaxMessages = 3
  Budget = 3
  MaxToolIter = 1
  MaxCalls = 2
  Permits = 1
  StreamCap = 1
INVARIANTS
  SamplesInOrder
  SpoolAccounted
  AgentConsistent
  HistoryWellFormed
PROPERTIES
  SamplersEnd
  LeasesReturn
  TurnsEnd
CHECK_DEADLOCK FALSE
