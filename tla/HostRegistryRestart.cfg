SPECIFICATION Spec
CONSTANTS
  Devices = {d1, d2}
  Requests = {r1, r2, r3}
  Nobody = Nobody
  Unknown = Unknown
  Changes <- Bodies
  OldFiles <- Files
  MaxRestarts = 1
INVARIANT ChangeSucceeds
CHECK_DEADLOCK FALSE
