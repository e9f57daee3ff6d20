SPECIFICATION FairSpec
CONSTANTS
  Calls = {c1, c2, c3}
  Devices = {d1, d2}
  Free = Free
  Other = Other
  NoRequest = NoRequest
  GlobalLimit = 1
  DeviceLimit = 1
  BackgroundDeviceLimit = 1
  GlobalWaitLimit = 3
  DeviceWaitLimit = 2
  ForegroundBurst = 1
PROPERTY NoStarvation
