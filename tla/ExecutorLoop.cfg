SPECIFICATION FairSpec
CONSTANTS
  Modes <- Both
  Callbacks <- Both
  JobControls <- Both
  Outcomes <- Both
  ProcLimit = 5
  Overlap = 5
  Delays = {1, 2}
  Horizon = 2
  Lives = 2
INVARIANTS TypeOK OneOutstandingWait SyncOutputIsLogged CommandsAreSpaced OverlapIsOnePerLife
PROPERTIES ImplementsTask TicksKeepComing StopEndsRun ReapingKeepsUp
CHECK_DEADLOCK FALSE
