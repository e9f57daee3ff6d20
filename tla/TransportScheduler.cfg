SPECIFICATION Spec
CONSTANTS
  Calls = {c1, c2, c3, c4}
  Devices = {d1, d2}
  Free = Free
  Other = Other
  NoRequest = NoRequest
  GlobalLimit = 2
  DeviceLimit = 2
  BackgroundDeviceLimit = 1
  GlobalWaitLimit = 3
  DeviceWaitLimit = 2
  ForegroundBurst = 2
SYMMETRY Symmetry
INVARIANTS
  StateExact
  NobodyForgotten
PROPERTY ImplementsAdmission
