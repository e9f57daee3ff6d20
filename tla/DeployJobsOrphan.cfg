SPECIFICATION DeploySpec
CONSTANTS
  Runs = {r1}
  NoRun = NoRun
  Stages <- OneFile
INVARIANT CancelStopsUpload
CHECK_DEADLOCK FALSE
