SPECIFICATION FairSpec
CONSTANTS
  Modes <- AsyncOnly
  Callbacks <- Unmanaged
  JobControls <- NoJobControl
  Outcomes <- AlwaysFire
  ProcLimit = 3
  Overlap = 3
  Delays = {1}
  Horizon = 1
  Lives = 1
PROPERTIES ZombiesAreReaped
CHECK_DEADLOCK FALSE
