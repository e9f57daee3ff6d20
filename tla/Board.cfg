SPECIFICATION BoardSpec
CONSTANTS
  Calls = {c1, c2}
  Devices = {d1, d2}
  Users = {u1, u2}
  NoLease = NoLease
  GlobalLimit = 1
  DeviceLimit = 1
  BackgroundDeviceLimit = 1
  Limit = 5
  MaxBytes = 8
  MaxChunk = 6
  Text = TRUE
  Runs = {r1, r2}
  NoRun = NoRun
  Stages <- OneFile
  Probers = {p1, p2}
  TTL = 2
  MaxProbe = 1
  Testers = {t1, t2, t3}
  StreamPermits = 2
  Pinners = {n1, n2, n3}
  Hosts = {h1, h2}
  KeyData = {x, y}
  KeyTypes = {rsa, ed}
  NoFile = NoFile
  MaxLines = 1
INVARIANTS
  LeaseCoversChild
  BufferFaithful
  RunsConsistent
  ProbesFresh
  StreamsAccounted
  PinsKept
PROPERTIES
  KilledGivesBack
  FlaggedEnds
CHECK_DEADLOCK FALSE
