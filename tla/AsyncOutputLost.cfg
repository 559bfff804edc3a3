SPECIFICATION Spec
CONSTANTS
  Modes <- AsyncOnly
  Callbacks <- Managed
  JobControls <- NoJobControl
  Outcomes <- AlwaysFire
  ProcLimit = 3
  Overlap = 3
  Delays = {1}
  Horizon = 1
  Lives = 1
INVARIANTS OutputIsLogged
CHECK_DEADLOCK FALSE
