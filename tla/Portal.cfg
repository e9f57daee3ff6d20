SPECIFICATION PortalSpec
CONSTANTS
  Kinds = {"logcenter", "monitor", "agent"}
  MaxConnections = 1
  KindCap = 1
  Followers = {f1, f2}
  Pollers = {f1}
  Readers = {a}
  Nobody = Nobody
  BufLines = 2
  BufBytes = 3
  MaxNew = 1
  Backlog = 1
  MaxWritten = 2
  MaxFailures = 1
  Groups = {g}
  Boards = {d1, d2}
  Editors = {p, q}
  Absent = Absent
  Torn = Torn
  Nil = Nil
  MaxInodes = 3
  MaxEdits = 3
  Keys = {k1, k2}
  KBoards = {d1}
  Clerks = {p, q}
  NoKey = NoKey
  MaxJobs = 5
  Requests = {r1, r2, r3, r4}
  NoRequest = NoRequest
  Workers = {w1, w2}
INVARIANTS
  LogsFaithful
  GroupsSaved
  KeysUsable
  ServerConsistent
PROPERTIES
  FollowersStop
  AdmittedIsHandled
CHECK_DEADLOCK FALSE
