SPECIFICATION BootedSpec
CONSTANTS
  Names = {n1}
  Pids = {p1, p2}
  NoPid = NoPid
  NoFile = NoFile
  NoName = NoName
  Clients = {c1}
  Ops <- AllOps
  Faults = {"crash", "bootfail", "slowboot", "slowstop", "busy", "clicrash", "unitfail", "askfail", "reboot"}
  Platforms <- AllPlatforms
SYMMETRY NamesAndPids
INVARIANTS BootedTypeOK UnitsHaveRecords NothingDangles SupervisedHaveUnits
PROPERTIES RegistryUnlessManaged
