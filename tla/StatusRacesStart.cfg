SPECIFICATION InstalledSpec
CONSTANTS
  Names = {n1}
  Pids = {p1, p2}
  NoPid = NoPid
  NoFile = NoFile
  NoName = NoName
  Clients = {c1, c2}
  Ops = {"start", "status"}
  Faults = {"crash"}
SYMMETRY Symmetry
INVARIANTS StoppedMeansNoDaemon
