SPECIFICATION FairSpec
CONSTANTS
  Jobs = {j1, j2, j3}
  Stores = {s1}
  NoStore = NoStore
  MaxConcurrent = 2
  MaxJobs = 2
INVARIANTS
  StoreConsistent
PROPERTY CommandEnds
CHECK_DEADLOCK FALSE
