SPECIFICATION BackSpec
CONSTANTS
  Events = {1, 2, 3}
  None = None
  Dead = Dead
  QueueSize = 1
  MaxRing = 2
  MaxFailures = 2
  MaxCrashes = 1
  MaxDays = 2
  MayTear = FALSE
  Addresses = {h1}
  Neighbours = {h1}
  Callers = {p, q}
  Loop = Loop
  MaxRules = 1
  MaxFaults = 1
  MaxByHand = 1
INVARIANTS
  CleanClose
  
  
PROPERTIES
  
  QueuedReachesDisk
  ResultCatchesUp
CHECK_DEADLOCK FALSE
