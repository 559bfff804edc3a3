SPECIFICATION Spec
CONSTANTS
  Names = {n1, n2}
  Pids = {p1, p2}
  NoPid = NoPid
  NoFile = NoFile
  NoName = NoName
  Clients = {c1, c2}
  Ops = {"install", "start", "remove"}
  Faults = {"slowboot"}
SYMMETRY Symmetry
INVARIANTS StateRowsHaveServices StoppedRowsHoldNoPid SignalsOwnDaemon PidsBelong
