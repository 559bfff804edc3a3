SPECIFICATION BootedFairSpec
CONSTANTS
  Names = {n1}
  Pids = {p1, p2}
  NoPid = NoPid
  NoFile = NoFile
  NoName = NoName
  Clients = {c1}
  Ops = {"install", "status"}
  Faults = {"reboot"}
  Platforms = {"rcd"}
PROPERTIES DaemonsBecomeKnown
