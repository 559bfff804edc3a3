SPECIFICATION FairSpec
CONSTANTS
  Names = {n1}
  Pids = {p1, p2}
  NoPid = NoPid
  NoFile = NoFile
  NoName = NoName
  Clients = {c1}
  Ops = {"install", "start", "status"}
  Faults = {"bootfail"}
PROPERTIES DeadServicesAreCorrected
