SPECIFICATION DiscSpec
CONSTANTS
  Addresses = {h1, h2}
  Neighbours = {h1}
  Callers = {p, q}
  Loop = Loop
  MaxRules = 1
  MaxFaults = 1
  MaxByHand = 1
INVARIANT SavedDevicesProbed
CHECK_DEADLOCK FALSE
