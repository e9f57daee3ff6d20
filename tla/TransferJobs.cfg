SPECIFICATION FairSpec
CONSTANTS
  Jobs = {u1, u2, d1}
  Downloads = {d1}
  MaxRunning = 2
  MaxKeep = 2
INVARIANTS
  JobsConsistent
  CancelHonoured
PROPERTY UploadsEndAfterClose
CHECK_DEADLOCK FALSE
