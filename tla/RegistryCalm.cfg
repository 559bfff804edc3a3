SPECIFICATION FairSpec
CONSTANTS
  Names = {n1, n2}
  Pids = {p1, p2}
  NoPid = NoPid
  NoFile = NoFile
  NoName = NoName
  Clients = {c1}
  Ops <- AllOps
  Faults = {"crash", "bootfail", "unitfail"}
INVARIANTS TypeOK AtMostOneDaemon LiveDaemonsAreTracked PidFileNamesDaemon RemoveCleansUp StopsLeaveNoDaemon
PROPERTIES ImplementsLifecycle CommandsTerminate StaleRowsAreCorrected StopStops
