----------------------- MODULE ServiceRegistryProofs -----------------------
(***************************************************************************)
(* Theorems about ServiceRegistry, for any number of services, processes   *)
(* and concurrent commands.                                                *)
(***************************************************************************)
EXTENDS ServiceRegistry, TLAPS

-----------------------------------------------------------------------------
(* The statements of the database keep its types. *)
LEMMA DbOperationsType ==
  ASSUME DbTypeOK, NEW n \in Names, NEW st \in Statuses,
         NEW p \in Pids \cup {NoPid},
         \/ UNCHANGED dbVars \/ InsertServiceRow(n) \/ InsertStateRow(n)
         \/ DeleteServiceRow(n) \/ UpdateState(n, st, p)
  PROVE  DbTypeOK'
  BY DEF DbTypeOK, dbVars, InsertServiceRow, InsertStateRow, DeleteServiceRow,
         UpdateState, Statuses

(* The operations on processes and files keep theirs. *)
LEMMA ProcOperationsType ==
  ASSUME ProcTypeOK, NEW n \in Names, NEW p \in Pids,
         \/ UNCHANGED <<procVars, fileVars>> \/ Unlink(n) \/ Spawn(n, p)
         \/ SendTerm(p) \/ DaemonStep(p)
  PROVE  ProcTypeOK'
<1> USE DEF ProcTypeOK, Phases, Booting
<1>1. CASE UNCHANGED <<procVars, fileVars>>
  BY <1>1 DEF procVars, fileVars
<1>2. CASE Unlink(n)
  BY <1>2 DEF Unlink
<1>3. CASE Spawn(n, p)
  BY <1>3 DEF Spawn
<1>4. CASE SendTerm(p)
  BY <1>4 DEF SendTerm
<1>5. CASE DaemonStep(p)
  <2>1. CASE OpenPidFile(p)
    BY <2>1 DEF OpenPidFile
  <2>2. CASE FlushPidFile(p)
    BY <2>2 DEF FlushPidFile
  <2>3. CASE FlushDetached(p) \/ BootFail(p) \/ WriteLog(p)
    BY <2>3 DEF FlushDetached, BootFail, WriteLog
  <2>4. CASE Die(p) \/ Crash(p) \/ Outsider(p)
    BY <2>4 DEF Die, Crash, Outsider
  <2>5. QED
    BY <1>5, <2>1, <2>2, <2>3, <2>4 DEF DaemonStep
<1>6. QED
  BY <1>1, <1>2, <1>3, <1>4, <1>5

(* A client that moves to a label l, holding what l needs, keeps its types. *)
LEMMA GoType ==
  ASSUME ClientTypeOK, NEW c \in Clients, NEW l \in Labels,
         NEW p \in Pids \cup {NoPid},
         l \in Named => svc[c] \in Names,
         l \in Holding => p \in Pids,
         Go(c, l, p)
  PROVE  ClientTypeOK'
  BY DEF ClientTypeOK, Go

LEMMA DoneType ==
  ASSUME ClientTypeOK, NEW c \in Clients, Done(c)
  PROVE  ClientTypeOK'
  BY DEF ClientTypeOK, Done, Labels, Named, Holding

LEMMA ReturnFromStopType ==
  ASSUME ClientTypeOK, NEW c \in Clients, svc[c] \in Names, ReturnFromStop(c)
  PROVE  ClientTypeOK'
  BY GoType, DoneType DEF ReturnFromStop, Labels, Named, Holding

LEMMA VerdictType ==
  ASSUME ClientTypeOK, NEW c \in Clients, svc[c] \in Names,
         NEW r, Verdict(c, r)
  PROVE  ClientTypeOK'
<1>1. \/ Done(c)
      \/ \E l \in {"launch", "stop_get_service", "uninstall", "report_running",
                   "list_next"} : Go(c, l, NoPid)
  BY DEF Verdict
<1>2. QED
  BY <1>1, GoType, DoneType DEF Labels, Named, Holding

-----------------------------------------------------------------------------
(* What one step of a client does to the database: nothing, or one         *)
(* statement about the service it works on.                                *)
LEMMA ClientStepDb ==
  ASSUME TypeOK, NEW c \in Clients, ClientStep(c)
  PROVE  \/ UNCHANGED dbVars
         \/ /\ svc[c] \in Names
            /\ \/ InsertServiceRow(svc[c])
               \/ InsertStateRow(svc[c])
               \/ DeleteServiceRow(svc[c])
               \/ UpdateState(svc[c], "stopped", NoPid)
               \/ UpdateState(svc[c], "running", seen[c])
<1>1. pc[c] \in Named => svc[c] \in Names
  BY DEF TypeOK, ClientTypeOK
<1>2. CASE InsertService(c) \/ InsertState(c) \/ DeleteService(c)
  BY <1>1, <1>2 DEF InsertService, InsertState, DeleteService, Named, Labels
<1>3. CASE Correct(c) \/ StopMark(c) \/ StopRecord(c) \/ RecordStart(c)
  BY <1>1, <1>3
     DEF Correct, StopMark, StopRecord, RecordStart, TryUpdateState, Named,
         Labels
<1>4. CASE \/ GetService(c) \/ GetState(c) \/ Probe(c) \/ ReportRunning(c)
           \/ ListServices(c) \/ ListNext(c) \/ PlatformInstall(c)
  BY <1>4 DEF GetService, GetState, Probe, ReportRunning, ListServices,
              ListNext, PlatformInstall
<1>5. CASE \/ (\E p \in Pids : Launch(c, p)) \/ LaunchFails(c)
           \/ ReadPidFile(c) \/ StopGetService(c) \/ StopGetState(c)
           \/ StopReadPid(c) \/ StopProbe(c) \/ Kill(c) \/ WaitExit(c)
  BY <1>5 DEF Launch, LaunchFails, ReadPidFile, StopGetService, StopGetState,
              StopReadPid, StopProbe, Kill, WaitExit
<1>6. CASE \/ StopUnlink(c) \/ Uninstall(c) \/ RemovePidFile(c)
           \/ RemoveLogs(c)
  BY <1>6 DEF StopUnlink, Uninstall, RemovePidFile, RemoveLogs
<1>7. QED
  BY <1>2, <1>3, <1>4, <1>5, <1>6 DEF ClientStep, RegistryStep, PlatformStep

(* What it does to processes and files. *)
LEMMA ClientStepProc ==
  ASSUME TypeOK, NEW c \in Clients, ClientStep(c)
  PROVE  \/ UNCHANGED <<procVars, fileVars>>
         \/ /\ svc[c] \in Names
            /\ \/ Unlink(svc[c])
               \/ \E p \in Pids : Free(p) /\ Spawn(svc[c], p)
               \/ seen[c] \in Pids /\ SendTerm(seen[c])
               \/ logs' = logs \ {svc[c]} /\ UNCHANGED <<procVars, pidfile>>
<1>1. /\ pc[c] \in Named => svc[c] \in Names
      /\ pc[c] \in Holding => seen[c] \in Pids
  BY DEF TypeOK, ClientTypeOK
<1>2. CASE \E p \in Pids : Launch(c, p)
  BY <1>1, <1>2 DEF Launch, Named, Labels
<1>3. CASE Kill(c)
  BY <1>1, <1>3 DEF Kill, Named, Labels, Holding
<1>4. CASE StopUnlink(c) \/ RemovePidFile(c)
  BY <1>1, <1>4 DEF StopUnlink, RemovePidFile, Named, Labels
<1>5. CASE RemoveLogs(c)
  BY <1>1, <1>5 DEF RemoveLogs, Named, Labels
<1>6. CASE \/ GetService(c) \/ GetState(c) \/ Probe(c) \/ Correct(c)
           \/ ReportRunning(c) \/ ListServices(c) \/ ListNext(c)
           \/ InsertService(c) \/ InsertState(c) \/ PlatformInstall(c)
  BY <1>6 DEF GetService, GetState, Probe, Correct, ReportRunning,
              ListServices, ListNext, InsertService, InsertState,
              PlatformInstall
<1>7. CASE \/ LaunchFails(c) \/ ReadPidFile(c) \/ RecordStart(c)
           \/ StopGetService(c) \/ StopGetState(c) \/ StopReadPid(c)
           \/ StopProbe(c) \/ StopMark(c) \/ WaitExit(c) \/ StopRecord(c)
           \/ Uninstall(c) \/ DeleteService(c)
  BY <1>7 DEF LaunchFails, ReadPidFile, RecordStart, StopGetService,
              StopGetState, StopReadPid, StopProbe, StopMark, WaitExit,
              StopRecord, Uninstall, DeleteService
<1>8. QED
  BY <1>2, <1>3, <1>4, <1>5, <1>6, <1>7 DEF ClientStep, RegistryStep, PlatformStep

(* What it does to its own control. *)
LEMMA ClientStepControl ==
  ASSUME TypeOK, NEW c \in Clients, ClientStep(c)
  PROVE  ClientTypeOK'
<1>1. /\ ClientTypeOK
      /\ pc[c] \in Named => svc[c] \in Names
      /\ pc[c] \in Holding => seen[c] \in Pids
      /\ seen[c] \in Pids \cup {NoPid}
  BY DEF TypeOK, ClientTypeOK
<1>2. CASE GetService(c)
  BY <1>1, <1>2, GoType, DoneType DEF GetService, Labels, Named, Holding
<1>3. CASE GetState(c)
  <2>1. svc[c] \in Names
    BY <1>1, <1>3 DEF GetState, Named, Labels
  <2>2. pid[svc[c]] \in Pids \cup {NoPid}
    BY <2>1 DEF TypeOK, DbTypeOK
  <2>3. CASE Go(c, "probe", pid[svc[c]]) /\ pid[svc[c]] # NoPid
    BY <1>1, <2>1, <2>2, <2>3, GoType DEF Labels, Named, Holding
  <2>4. CASE \E r : Verdict(c, r)
    BY <1>1, <2>1, <2>4, VerdictType
  <2>5. QED
    BY <1>3, <2>3, <2>4 DEF GetState
<1>4. CASE Probe(c)
  <2>1. svc[c] \in Names /\ seen[c] \in Pids
    BY <1>1, <1>4 DEF Probe, Named, Labels, Holding
  <2>2. QED
    BY <1>1, <1>4, <2>1, GoType, VerdictType
       DEF Probe, Labels, Named, Holding
<1>5. CASE Correct(c)
  BY <1>1, <1>5, VerdictType DEF Correct, Labels, Named
<1>6. CASE ReportRunning(c)
  BY <1>1, <1>6, GoType, DoneType DEF ReportRunning, Labels, Named, Holding
<1>7. CASE ListServices(c)
  BY <1>1, <1>7
     DEF ListServices, TypeOK, DbTypeOK, ClientTypeOK, Labels, Named, Holding
<1>8. CASE ListNext(c)
  <2>1. CASE Done(c)
    BY <1>1, <2>1, DoneType
  <2>2. CASE ~Done(c)
    BY <1>1, <1>8, <2>2 DEF ListNext, ClientTypeOK, Labels, Named, Holding
  <2>3. QED
    BY <2>1, <2>2
<1>9. CASE InsertService(c) \/ InsertState(c) \/ PlatformInstall(c)
  BY <1>1, <1>9, GoType, DoneType
     DEF InsertService, InsertState, PlatformInstall, Labels, Named, Holding
<1>10. CASE (\E p \in Pids : Launch(c, p)) \/ LaunchFails(c) \/ RecordStart(c)
  BY <1>1, <1>10, GoType, DoneType
     DEF Launch, LaunchFails, RecordStart, Labels, Named, Holding
<1>11. CASE ReadPidFile(c)
  BY <1>1, <1>11, GoType DEF ReadPidFile, Labels, Named, Holding
<1>12. CASE StopGetService(c)
  BY <1>1, <1>12, GoType, ReturnFromStopType
     DEF StopGetService, Labels, Named, Holding
<1>13. CASE StopGetState(c)
  <2>1. svc[c] \in Names
    BY <1>1, <1>13 DEF StopGetState, Named, Labels
  <2>2. pid[svc[c]] \in Pids \cup {NoPid}
    BY <2>1 DEF TypeOK, DbTypeOK
  <2>3. QED
    BY <1>1, <1>13, <2>1, <2>2, GoType
       DEF StopGetState, Labels, Named, Holding
<1>14. CASE StopReadPid(c) \/ StopProbe(c) \/ Kill(c) \/ WaitExit(c)
  BY <1>1, <1>14, GoType
     DEF StopReadPid, StopProbe, Kill, WaitExit, Labels, Named, Holding
<1>15. CASE StopMark(c) \/ StopRecord(c) \/ StopUnlink(c)
  BY <1>1, <1>15, GoType, ReturnFromStopType
     DEF StopMark, StopRecord, StopUnlink, Labels, Named, Holding
<1>16. CASE \/ Uninstall(c) \/ DeleteService(c) \/ RemovePidFile(c)
            \/ RemoveLogs(c)
  BY <1>1, <1>16, GoType, DoneType
     DEF Uninstall, DeleteService, RemovePidFile, RemoveLogs, Labels, Named,
         Holding
<1>17. QED
  BY <1>2, <1>3, <1>4, <1>5, <1>6, <1>7, <1>8, <1>9, <1>10, <1>11, <1>12,
     <1>13, <1>14, <1>15, <1>16 DEF ClientStep, RegistryStep, PlatformStep

-----------------------------------------------------------------------------
(* The types hold before the first step. *)
LEMMA TypeInitially == Init => TypeOK
  BY PidAssumption, ProcessAssumption
     DEF Init, TypeOK, DbInit, DbTypeOK, ProcInit, ProcTypeOK, ClientTypeOK,
         Statuses, Phases, Booting, Labels, Named, Holding

LEMMA UnitsType ==
  ASSUME TypeOK, NEW c \in Clients, ClientStep(c)
  PROVE  \/ UNCHANGED units
         \/ svc[c] \in Names /\ units' = units \cup {svc[c]}
         \/ units' = units \ {svc[c]}
<1>1. pc[c] \in Named => svc[c] \in Names
  BY DEF TypeOK, ClientTypeOK
<1>2. CASE PlatformInstall(c) \/ Uninstall(c)
  BY <1>1, <1>2 DEF PlatformInstall, Uninstall, Named, Labels
<1>3. CASE \/ GetService(c) \/ GetState(c) \/ Probe(c) \/ Correct(c)
           \/ ReportRunning(c) \/ ListServices(c) \/ ListNext(c)
           \/ InsertService(c) \/ InsertState(c)
           \/ (\E p \in Pids : Launch(c, p)) \/ LaunchFails(c)
           \/ ReadPidFile(c) \/ RecordStart(c)
  BY <1>3 DEF GetService, GetState, Probe, Correct, ReportRunning,
              ListServices, ListNext, InsertService, InsertState, Launch,
              LaunchFails, ReadPidFile, RecordStart
<1>4. CASE \/ StopGetService(c) \/ StopGetState(c) \/ StopReadPid(c)
           \/ StopProbe(c) \/ StopMark(c) \/ Kill(c) \/ WaitExit(c)
           \/ StopRecord(c) \/ StopUnlink(c) \/ DeleteService(c)
           \/ RemovePidFile(c) \/ RemoveLogs(c)
  BY <1>4 DEF StopGetService, StopGetState, StopReadPid, StopProbe, StopMark,
              Kill, WaitExit, StopRecord, StopUnlink, DeleteService,
              RemovePidFile, RemoveLogs
<1>5. QED
  BY <1>2, <1>3, <1>4 DEF ClientStep, RegistryStep, PlatformStep

(* Every step keeps the types. *)
LEMMA TypePreserved == TypeOK /\ [Next]_vars => TypeOK'
<1> SUFFICES ASSUME TypeOK, [Next]_vars PROVE TypeOK'
  OBVIOUS
<1>0. DbTypeOK /\ ProcTypeOK /\ ClientTypeOK /\ units \subseteq Names
  BY DEF TypeOK
<1>1. ASSUME NEW c \in Clients, NEW o \in Ops, NEW n \in Names, Begin(c, o, n),
             UNCHANGED <<dbVars, procVars, fileVars, units>>
      PROVE  TypeOK'
  <2>1. /\ Entry(o) \in {"list_services", "stop_get_service", "get_service"}
        /\ o # "list" => Entry(o) # "list_services"
        /\ o = "list" => Entry(o) = "list_services"
        /\ o \in Commands
    BY ClientAssumption DEF Entry
  <2>2. ClientTypeOK'
    BY <1>0, <1>1, <2>1
       DEF Begin, ClientTypeOK, Labels, Named, Holding
  <2>3. UNCHANGED <<dbVars, procVars, fileVars, units>>
    BY <1>1
  <2>4. QED
    BY <1>0, <2>2, <2>3
       DEF TypeOK, DbTypeOK, ProcTypeOK, dbVars, procVars, fileVars
<1>2. ASSUME NEW c \in Clients, ClientStep(c)
      PROVE  TypeOK'
  <2>1. DbTypeOK'
    <3>1. seen[c] \in Pids \cup {NoPid}
      BY <1>0 DEF ClientTypeOK
    <3>2. CASE UNCHANGED dbVars
      BY <1>0, <3>2 DEF DbTypeOK, dbVars
    <3>3. CASE ~ UNCHANGED dbVars
      <4>1. /\ svc[c] \in Names
            /\ \/ InsertServiceRow(svc[c]) \/ InsertStateRow(svc[c])
               \/ DeleteServiceRow(svc[c])
               \/ UpdateState(svc[c], "stopped", NoPid)
               \/ UpdateState(svc[c], "running", seen[c])
        BY <1>2, <3>3, ClientStepDb
      <4>2. "stopped" \in Statuses /\ "running" \in Statuses
        BY DEF Statuses
      <4>3. QED
        BY <1>0, <3>1, <4>1, <4>2, DbOperationsType
    <3>4. QED
      BY <3>2, <3>3
  <2>2. ProcTypeOK'
    <3>1. CASE UNCHANGED <<procVars, fileVars>>
      BY <1>0, <3>1 DEF ProcTypeOK, procVars, fileVars
    <3>2. CASE svc[c] \in Names /\ Unlink(svc[c])
      BY <1>0, <3>2 DEF ProcTypeOK, Unlink, Phases, Booting
    <3>3. CASE /\ svc[c] \in Names
               /\ \E p \in Pids : Free(p) /\ Spawn(svc[c], p)
      BY <1>0, <3>3, ProcOperationsType
    <3>4. CASE seen[c] \in Pids /\ SendTerm(seen[c])
      BY <1>0, <3>4 DEF ProcTypeOK, SendTerm
    <3>5. CASE logs' = logs \ {svc[c]} /\ UNCHANGED <<procVars, pidfile>>
      BY <1>0, <3>5 DEF ProcTypeOK, procVars
    <3>6. QED
      BY <1>2, <3>1, <3>2, <3>3, <3>4, <3>5, ClientStepProc
  <2>3. ClientTypeOK'
    BY <1>2, ClientStepControl
  <2>4. (units \subseteq Names)'
    BY <1>0, <1>2, UnitsType
  <2>5. QED
    BY <2>1, <2>2, <2>3, <2>4 DEF TypeOK
<1>3. ASSUME NEW c \in Clients, ClientCrash(c),
             UNCHANGED <<dbVars, procVars, fileVars, units>>
      PROVE  TypeOK'
  <2>1. ClientTypeOK'
    BY <1>0, <1>3, DoneType DEF ClientCrash
  <2>2. UNCHANGED <<dbVars, procVars, fileVars, units>>
    BY <1>3
  <2>3. QED
    BY <1>0, <2>1, <2>2
       DEF TypeOK, DbTypeOK, ProcTypeOK, dbVars, procVars, fileVars
<1>4. ASSUME NEW p \in Pids, Environment(p)
      PROVE  TypeOK'
  <2>1. ProcTypeOK'
    <3>1. CASE Names = {}
      BY <1>0, <1>4, <3>1
         DEF Environment, DaemonStep, ProcTypeOK, OpenPidFile, FlushPidFile,
             FlushDetached, BootFail, WriteLog, Die, Crash, Outsider, Phases,
             Booting
    <3>2. CASE Names # {}
      BY <1>0, <1>4, <3>2, ProcOperationsType DEF Environment
    <3>3. QED
      BY <3>1, <3>2
  <2>2. UNCHANGED <<dbVars, clientVars, units>>
    BY <1>4 DEF Environment
  <2>3. QED
    BY <1>0, <2>1, <2>2
       DEF TypeOK, DbTypeOK, ClientTypeOK, dbVars, clientVars
<1>5. CASE UNCHANGED vars
  BY <1>0, <1>5
     DEF TypeOK, DbTypeOK, ProcTypeOK, ClientTypeOK, vars, dbVars, procVars,
         fileVars, clientVars
<1>6. QED
  BY <1>1, <1>2, <1>3, <1>4, <1>5 DEF Next, UserStep

(* The variables of the registry, the processes and the commands keep      *)
(* their types; a command that is about to use a pid holds one, and a      *)
(* command that works on a service has its name.                           *)
THEOREM TypeCorrect == Spec => []TypeOK
  BY TypeInitially, TypePreserved, PTL DEF Spec
-----------------------------------------------------------------------------
(* What may happen to the tables: nothing, or one statement about one      *)
(* service.                                                                *)
DbStatement ==
  \/ UNCHANGED dbVars
  \/ \E n \in Names :
       \/ InsertServiceRow(n) \/ InsertStateRow(n) \/ DeleteServiceRow(n)
       \/ UpdateState(n, "stopped", NoPid)
       \/ \E p \in Pids \cup {NoPid} : UpdateState(n, "running", p)

(* Only the commands write to the database. *)
LEMMA DbStep ==
  ASSUME TypeOK, [Next]_vars
  PROVE  DbStatement
<1>1. ASSUME NEW c \in Clients, ClientStep(c)
      PROVE  DbStatement
  <2>1. seen[c] \in Pids \cup {NoPid}
    BY DEF TypeOK, ClientTypeOK
  <2>2. QED
    BY <1>1, <2>1, ClientStepDb DEF DbStatement
<1>2. ASSUME NEW c \in Clients, UserStep(c) PROVE DbStatement
  BY <1>2 DEF UserStep, DbStatement
<1>3. ASSUME NEW p \in Pids, Environment(p) PROVE DbStatement
  BY <1>3 DEF Environment, DbStatement
<1>4. CASE UNCHANGED vars
  BY <1>4 DEF vars, DbStatement
<1>5. QED
  BY <1>1, <1>2, <1>3, <1>4 DEF Next

(* No statement leaves a state row without its service. *)
LEMMA StatementsKeepServices ==
  ASSUME StateRowsHaveServices, DbStatement
  PROVE  StateRowsHaveServices'
<1> USE DEF StateRowsHaveServices
<1>1. CASE UNCHANGED dbVars
  BY <1>1 DEF dbVars
<1>2. ASSUME NEW n \in Names,
             InsertServiceRow(n) \/ InsertStateRow(n) \/ DeleteServiceRow(n)
      PROVE  StateRowsHaveServices'
  BY <1>2 DEF InsertServiceRow, InsertStateRow, DeleteServiceRow, dbVars
<1>3. ASSUME NEW n \in Names, NEW st, NEW p, UpdateState(n, st, p)
      PROVE  StateRowsHaveServices'
  BY <1>3 DEF UpdateState, dbVars
<1>4. QED
  BY <1>1, <1>2, <1>3 DEF DbStatement

(* No statement writes a pid next to "stopped". *)
LEMMA StatementsKeepStopped ==
  ASSUME DbTypeOK, StoppedRowsHoldNoPid, DbStatement
  PROVE  StoppedRowsHoldNoPid'
<1> SUFFICES ASSUME NEW n \in Names, status'[n] = "stopped"
             PROVE  pid'[n] = NoPid
  BY DEF StoppedRowsHoldNoPid
<1>0. /\ status[n] = "stopped" => pid[n] = NoPid
      /\ status \in [Names -> Statuses]
      /\ pid \in [Names -> Pids \cup {NoPid}]
  BY DEF StoppedRowsHoldNoPid, DbTypeOK
<1>1. CASE UNCHANGED dbVars
  BY <1>0, <1>1 DEF dbVars
<1>2. ASSUME NEW m \in Names,
             InsertServiceRow(m) \/ InsertStateRow(m) \/ DeleteServiceRow(m)
      PROVE  pid'[n] = NoPid
  BY <1>0, <1>2 DEF InsertServiceRow, InsertStateRow, DeleteServiceRow, dbVars
<1>3. ASSUME NEW m \in Names, UpdateState(m, "stopped", NoPid)
      PROVE  pid'[n] = NoPid
  BY <1>0, <1>3 DEF UpdateState, dbVars
<1>4. ASSUME NEW m \in Names, NEW p \in Pids \cup {NoPid},
             UpdateState(m, "running", p)
      PROVE  pid'[n] = NoPid
  BY <1>0, <1>4 DEF UpdateState, dbVars
<1>5. QED
  BY <1>1, <1>2, <1>3, <1>4 DEF DbStatement

LEMMA RowsInitially == Init => StateRowsHaveServices /\ StoppedRowsHoldNoPid
  BY DEF Init, DbInit, StateRowsHaveServices, StoppedRowsHoldNoPid

(* No state row is ever left without its service, even when the service is *)
(* removed between the two INSERTs of its install (database.cc:78-125).    *)
THEOREM NoOrphanStateRows == Spec => []StateRowsHaveServices
<1>1. TypeOK /\ StateRowsHaveServices /\ [Next]_vars => StateRowsHaveServices'
  BY DbStep, StatementsKeepServices
<1>2. QED
  BY <1>1, RowsInitially, TypeCorrect, PTL DEF Spec

(* A row that says "stopped" never holds a pid, whichever commands race    *)
(* and whichever writes fail: no writer stores one without the other       *)
(* (service_registry.cc:89-92, 262-266, 301-304, 328-332).                 *)
THEOREM NoPidWhenStopped == Spec => []StoppedRowsHoldNoPid
<1>1. TypeOK /\ StoppedRowsHoldNoPid /\ [Next]_vars => StoppedRowsHoldNoPid'
  BY DbStep, StatementsKeepStopped DEF TypeOK
<1>2. QED
  BY <1>1, RowsInitially, TypeCorrect, PTL DEF Spec
-----------------------------------------------------------------------------
(* PidsBelong is not inductive as it stands: a command that begins takes a *)
(* new name and must not still hold the pid of an old one.                 *)
IdleHoldsNothing == \A c \in Clients : pc[c] = "idle" => seen[c] = NoPid

IInv == TypeOK /\ PidsBelong /\ IdleHoldsNothing

(* A step of a command leaves in its hands no pid, or one that was written *)
(* down for the service it works on, and nothing when the command ends.    *)
LEMMA ClientStepSeen ==
  ASSUME TypeOK, NEW c \in Clients, ClientStep(c)
  PROVE  /\ \A d \in Clients \ {c} : /\ pc'[d] = pc[d] /\ seen'[d] = seen[d]
                                     /\ svc'[d] = svc[d]
         /\ pc'[c] = "idle" => seen'[c] = NoPid
         /\ seen'[c] # NoPid =>
              /\ svc'[c] = svc[c]
              /\ \/ seen'[c] = seen[c]
                 \/ svc[c] \in Names /\ seen'[c] \in {pid[svc[c]], pidfile[svc[c]]}
<1>0. ClientTypeOK /\ (pc[c] \in Named => svc[c] \in Names)
  BY DEF TypeOK, ClientTypeOK
<1>1. \/ Done(c)
      \/ \E l \in Labels \ {"idle"} :
            \/ Go(c, l, NoPid) \/ Go(c, l, seen[c])
            \/ svc[c] \in Names /\ Go(c, l, pid[svc[c]])
            \/ svc[c] \in Names /\ Go(c, l, pidfile[svc[c]])
      \/ ListServices(c)
      \/ ListNext(c)
  <2>1. CASE \/ GetService(c) \/ ReportRunning(c) \/ InsertService(c)
             \/ InsertState(c) \/ PlatformInstall(c)
             \/ (\E p \in Pids : Launch(c, p)) \/ LaunchFails(c)
             \/ RecordStart(c)
    BY <2>1 DEF GetService, ReportRunning, InsertService, InsertState,
                PlatformInstall, Launch, LaunchFails, RecordStart, Labels
  <2>2. CASE GetState(c) \/ Probe(c) \/ Correct(c)
    BY <1>0, <2>2 DEF GetState, Probe, Correct, Verdict, Labels, Named
  <2>3. CASE ReadPidFile(c) \/ StopGetState(c) \/ StopReadPid(c)
    BY <1>0, <2>3 DEF ReadPidFile, StopGetState, StopReadPid, Labels, Named
  <2>4. CASE \/ StopGetService(c) \/ StopProbe(c) \/ StopMark(c) \/ Kill(c)
             \/ WaitExit(c) \/ StopRecord(c) \/ StopUnlink(c)
    BY <2>4 DEF StopGetService, StopProbe, StopMark, Kill, WaitExit,
                StopRecord, StopUnlink, ReturnFromStop, Labels
  <2>5. CASE \/ Uninstall(c) \/ DeleteService(c) \/ RemovePidFile(c)
             \/ RemoveLogs(c)
    BY <2>5 DEF Uninstall, DeleteService, RemovePidFile, RemoveLogs, Labels
  <2>6. CASE ListServices(c) \/ ListNext(c)
    BY <2>6
  <2>7. QED
    BY <2>1, <2>2, <2>3, <2>4, <2>5, <2>6 DEF ClientStep, RegistryStep, PlatformStep
<1>2. CASE Done(c)
  BY <1>0, <1>2 DEF Done, ClientTypeOK
<1>3. ASSUME NEW l \in Labels \ {"idle"},
             \/ Go(c, l, NoPid) \/ Go(c, l, seen[c])
             \/ svc[c] \in Names /\ Go(c, l, pid[svc[c]])
             \/ svc[c] \in Names /\ Go(c, l, pidfile[svc[c]])
      PROVE  /\ \A d \in Clients \ {c} : /\ pc'[d] = pc[d] /\ seen'[d] = seen[d]
                                         /\ svc'[d] = svc[d]
             /\ pc'[c] = "idle" => seen'[c] = NoPid
             /\ seen'[c] # NoPid =>
                  /\ svc'[c] = svc[c]
                  /\ \/ seen'[c] = seen[c]
                     \/ /\ svc[c] \in Names
                        /\ seen'[c] \in {pid[svc[c]], pidfile[svc[c]]}
  BY <1>0, <1>3 DEF Go, ClientTypeOK
<1>4. CASE ListServices(c)
  BY <1>0, <1>4 DEF ListServices, ClientTypeOK
<1>5. CASE ListNext(c)
  BY <1>0, <1>2, <1>5 DEF ListNext, ClientTypeOK
<1>6. QED
  BY <1>1, <1>2, <1>3, <1>4, <1>5
(* No pid comes back while it is written down, and no file mixes two.      *)
NoReuse == Faults \cap {"reuse", "garble"} = {}

(* A command gives a process a new owner only when nobody refers to it,    *)
(* and puts no pid into a PID file.                                        *)
LEMMA ClientStepOwner ==
  ASSUME NoReuse, TypeOK, NEW c \in Clients, ClientStep(c)
  PROVE  /\ \A q \in Pids : Referenced(q) => owner'[q] = owner[q]
         /\ \A n \in Names : pidfile'[n] \in Pids => pidfile'[n] = pidfile[n]
<1>0. ProcTypeOK
  BY DEF TypeOK
<1>1. CASE \/ UNCHANGED <<procVars, fileVars>>
           \/ seen[c] \in Pids /\ SendTerm(seen[c])
           \/ logs' = logs \ {svc[c]} /\ UNCHANGED <<procVars, pidfile>>
  BY <1>1 DEF procVars, fileVars, SendTerm
<1>2. CASE svc[c] \in Names /\ Unlink(svc[c])
  BY <1>0, <1>2, ProcessAssumption DEF Unlink, ProcTypeOK
<1>3. CASE \E p \in Pids : Free(p) /\ Spawn(svc[c], p)
  BY <1>0, <1>3 DEF Free, NoReuse, Spawn, ProcTypeOK
<1>4. QED
  BY <1>1, <1>2, <1>3, ClientStepProc

(* A pid that a command's step writes into a row was already written down  *)
(* for the same service.                                                   *)
LEMMA ClientStepRow ==
  ASSUME TypeOK, NEW c \in Clients, ClientStep(c), NEW n \in Names,
         pid'[n] \in Pids
  PROVE  pid'[n] = pid[n] \/ (svc[c] = n /\ pid'[n] = seen[c])
<1>0. pid \in [Names -> Pids \cup {NoPid}] /\ NoPid \notin Pids
  BY PidAssumption DEF TypeOK, DbTypeOK
<1>1. CASE UNCHANGED dbVars
  BY <1>1 DEF dbVars
<1>2. CASE \/ InsertServiceRow(svc[c]) \/ InsertStateRow(svc[c])
           \/ DeleteServiceRow(svc[c]) \/ UpdateState(svc[c], "stopped", NoPid)
  BY <1>0, <1>2
     DEF InsertServiceRow, InsertStateRow, DeleteServiceRow, UpdateState, dbVars
<1>3. CASE UpdateState(svc[c], "running", seen[c])
  BY <1>0, <1>3 DEF UpdateState, dbVars
<1>4. QED
  BY <1>1, <1>2, <1>3, ClientStepDb

LEMMA ClientStepBelongs ==
  ASSUME NoReuse, IInv, NEW c \in Clients, ClientStep(c)
  PROVE  PidsBelong' /\ IdleHoldsNothing'
<1>0. TypeOK /\ PidsBelong /\ IdleHoldsNothing /\ NoPid \notin Pids
  BY PidAssumption DEF IInv
<1>1. ASSUME NEW n \in Names, pid'[n] \in Pids
      PROVE  owner'[pid'[n]] = n
  <2>1. Referenced(pid'[n]) /\ owner[pid'[n]] = n
    BY <1>0, <1>1, ClientStepRow DEF Referenced, PidsBelong
  <2>2. QED
    BY <1>0, <1>1, <2>1, ClientStepOwner
<1>2. ASSUME NEW n \in Names, pidfile'[n] \in Pids
      PROVE  owner'[pidfile'[n]] = n
  BY <1>0, <1>2, ClientStepOwner DEF Referenced, PidsBelong
<1>3. ASSUME NEW d \in Clients, seen'[d] \in Pids
      PROVE  owner'[seen'[d]] = svc'[d]
  <2>1. Referenced(seen'[d]) /\ owner[seen'[d]] = svc'[d]
    <3>1. CASE d # c
      BY <1>0, <1>3, <3>1, ClientStepSeen DEF Referenced, PidsBelong
    <3>2. CASE d = c
      BY <1>0, <1>3, <3>2, ClientStepSeen DEF Referenced, PidsBelong
    <3>3. QED
      BY <3>1, <3>2
  <2>2. QED
    BY <1>0, <1>3, <2>1, ClientStepOwner
<1>4. IdleHoldsNothing'
  BY <1>0, ClientStepSeen DEF IdleHoldsNothing
<1>5. QED
  BY <1>1, <1>2, <1>3, <1>4 DEF PidsBelong

(* A daemon writes its own pid, into its own service's file. *)
LEMMA EnvironmentBelongs ==
  ASSUME NoReuse, IInv, NEW p \in Pids, Environment(p)
  PROVE  PidsBelong' /\ IdleHoldsNothing'
<1>0. /\ TypeOK /\ PidsBelong /\ IdleHoldsNothing /\ ProcTypeOK
      /\ NoPid \notin Pids /\ NoFile \notin Pids
  BY PidAssumption, ProcessAssumption DEF IInv, TypeOK
<1>1. UNCHANGED <<pid, seen, svc, pc>>
  BY DEF Environment, dbVars, clientVars
<1>2. UNCHANGED owner
  BY DEF Environment, DaemonStep, NoReuse, OpenPidFile, FlushPidFile,
         FlushDetached, BootFail, WriteLog, Die, Crash, Outsider
<1>3. ASSUME NEW n \in Names, pidfile'[n] \in Pids
      PROVE  owner[pidfile'[n]] = n
  <2>1. CASE UNCHANGED pidfile
    BY <1>0, <1>3, <2>1 DEF PidsBelong
  <2>2. CASE OpenPidFile(p)
    BY <1>0, <1>3, <2>2 DEF OpenPidFile, PidsBelong, ProcTypeOK
  <2>3. CASE FlushPidFile(p)
    BY <1>0, <1>3, <2>3 DEF FlushPidFile, PidsBelong, ProcTypeOK, NoReuse
  <2>4. QED
    BY <2>1, <2>2, <2>3
       DEF Environment, DaemonStep, FlushDetached, BootFail, WriteLog, Die,
           Crash, Outsider
<1>4. QED
  BY <1>0, <1>1, <1>2, <1>3 DEF PidsBelong, IdleHoldsNothing

(* A step in which some commands begin, end or are killed, and nothing is  *)
(* written down anywhere.                                                  *)
LEMMA QuietStepBelongs ==
  ASSUME IInv, UNCHANGED <<pid, pidfile, owner>>,
         \A c \in Clients :
           \/ pc'[c] = pc[c] /\ svc'[c] = svc[c] /\ seen'[c] = seen[c]
           \/ seen'[c] = NoPid
  PROVE  PidsBelong' /\ IdleHoldsNothing'
  BY PidAssumption DEF IInv, PidsBelong, IdleHoldsNothing

LEMMA IInvPreserved ==
  ASSUME NoReuse
  PROVE  IInv /\ [Next]_vars => IInv'
<1> SUFFICES ASSUME IInv, [Next]_vars PROVE IInv'
  OBVIOUS
<1>0. /\ TypeOK /\ IdleHoldsNothing /\ ClientTypeOK /\ TypeOK'
  BY TypePreserved DEF IInv, TypeOK
<1>1. ASSUME NEW c \in Clients, UserStep(c)
      PROVE  PidsBelong' /\ IdleHoldsNothing'
  <2>1. UNCHANGED <<pid, pidfile, owner>>
    BY <1>1 DEF UserStep, dbVars, procVars, fileVars
  <2>2. \A d \in Clients :
          \/ pc'[d] = pc[d] /\ svc'[d] = svc[d] /\ seen'[d] = seen[d]
          \/ seen'[d] = NoPid
    BY <1>0, <1>1
       DEF UserStep, Begin, ClientCrash, Done, ClientTypeOK, IdleHoldsNothing
  <2>3. QED
    BY <2>1, <2>2, QuietStepBelongs
<1>2. ASSUME UNCHANGED vars
      PROVE  PidsBelong' /\ IdleHoldsNothing'
  BY <1>2, QuietStepBelongs DEF vars, dbVars, procVars, fileVars, clientVars
<1>3. QED
  BY <1>0, <1>1, <1>2, ClientStepBelongs, EnvironmentBelongs DEF Next, IInv

LEMMA IInvInitially == Init => IInv
  BY TypeInitially, PidAssumption, ProcessAssumption
     DEF Init, DbInit, ProcInit, IInv, PidsBelong, IdleHoldsNothing

(* The pid that cmd_stop signals is one it holds. *)
LEMMA SignalledPidsBelong == IInv => SignalsOwnDaemon
  BY DEF IInv, TypeOK, ClientTypeOK, PidsBelong, SignalsOwnDaemon, Holding

(* Two services never mix: as long as pids are not reused while they are   *)
(* written down, every pid in a row, in a PID file or on a command's stack *)
(* was given to a process launched for that very service, however many     *)
(* commands run together and whichever of them crash                       *)
(* (service_registry.cc:255-266, 281-296, pid_file.cc:11-24).              *)
THEOREM PidsNeverMix ==
  ASSUME NoReuse
  PROVE  Spec => []PidsBelong
<1>1. IInv => PidsBelong
  BY DEF IInv
<1>2. QED
  BY <1>1, IInvInitially, IInvPreserved, PTL DEF Spec

(* stop sends SIGTERM only to a daemon that was launched for the service   *)
(* it was asked to stop (service_registry.cc:281-315).                     *)
THEOREM OnlyOwnDaemonsAreSignalled ==
  ASSUME NoReuse
  PROVE  Spec => []SignalsOwnDaemon
  BY SignalledPidsBelong, IInvInitially, IInvPreserved, PTL DEF Spec

-----------------------------------------------------------------------------
(* A command that goes on, or is done, comes to a later place.             *)
LEMMA GoAdvances ==
  ASSUME ClientTypeOK, NEW c \in Clients, NEW l, NEW p,
         pc[c] # "list_services", Before(pc[c], l), Go(c, l, p)
  PROVE  Advance(c)
  BY DEF ClientTypeOK, Go, Advance

LEMMA DoneAdvances ==
  ASSUME ClientTypeOK, NEW c \in Clients,
         pc[c] # "list_services", Before(pc[c], "idle"), Done(c)
  PROVE  Advance(c)
  BY DEF ClientTypeOK, Done, Advance

LEMMA EndIsLast ==
  ASSUME NEW l \in Labels, l # "idle"
  PROVE  Before(l, "idle")
  BY DEF Labels, Before, Course

LEMMA VerdictAdvances ==
  ASSUME ClientTypeOK, NEW c \in Clients, NEW r, Verdict(c, r),
         pc[c] \in {"get_state", "probe", "correct"}
  PROVE  Advance(c)
<1>1. \/ Done(c)
      \/ \E l \in {"launch", "stop_get_service", "uninstall", "report_running",
                   "list_next"} : Go(c, l, NoPid)
  BY DEF Verdict
<1>2. \A l \in {"launch", "stop_get_service", "uninstall", "report_running",
                "list_next"} : Before(pc[c], l)
  BY DEF Before, Course
<1>3. QED
  BY <1>1, <1>2, GoAdvances, DoneAdvances, EndIsLast DEF Labels

LEMMA ReturnFromStopAdvances ==
  ASSUME ClientTypeOK, NEW c \in Clients, ReturnFromStop(c),
         pc[c] \in {"stop_get_service", "stop_mark", "stop_unlink"}
  PROVE  Advance(c)
<1>1. Before(pc[c], "uninstall") /\ pc[c] # "list_services"
  BY DEF Before, Course
<1>2. QED
  BY <1>1, GoAdvances, DoneAdvances, EndIsLast DEF ReturnFromStop, Labels

(* A row that has been printed is not printed again.                       *)
LEMMA ListingAdvances ==
  ASSUME ClientTypeOK, NEW c \in Clients, ListServices(c) \/ ListNext(c)
  PROVE  Advance(c)
<1>1. CASE ListServices(c)
  BY <1>1 DEF ListServices, Advance, ClientTypeOK
<1>2. CASE ListNext(c)
  <2>1. CASE Done(c)
    BY <1>2, <2>1, DoneAdvances, EndIsLast DEF ListNext, Labels
  <2>2. CASE ~Done(c)
    <3>1. PICK n \in todo[c] : todo' = [todo EXCEPT ![c] = @ \ {n}]
      BY <1>2, <2>2 DEF ListNext
    <3>2. todo'[c] = todo[c] \ {n}
      BY <3>1 DEF ClientTypeOK
    <3>3. QED
      BY <1>2, <3>1, <3>2 DEF ListNext, Advance
  <2>3. QED
    BY <2>1, <2>2
<1>3. QED
  BY <1>1, <1>2

LEMMA ClientStepAdvances ==
  ASSUME TypeOK, NEW c \in Clients, ClientStep(c)
  PROVE  Advance(c)
<1>0. ClientTypeOK
  BY DEF TypeOK
<1>1. CASE GetService(c)
  <2>1. /\ Before("get_service", "insert_service")
        /\ Before("get_service", "get_state")
    BY DEF Before, Course
  <2>2. QED
    BY <1>0, <1>1, <2>1, GoAdvances, DoneAdvances, EndIsLast
       DEF GetService, Labels
<1>2. CASE GetState(c) \/ Probe(c) \/ Correct(c)
  <2>1. Before("get_state", "probe") /\ Before("probe", "correct")
    BY DEF Before, Course
  <2>2. QED
    BY <1>0, <1>2, <2>1, GoAdvances, VerdictAdvances
       DEF GetState, Probe, Correct
<1>3. CASE ReportRunning(c)
  <2>1. Before("report_running", "list_next")
    BY DEF Before, Course
  <2>2. QED
    BY <1>0, <1>3, <2>1, GoAdvances, DoneAdvances, EndIsLast
       DEF ReportRunning, Labels
<1>4. CASE ListServices(c) \/ ListNext(c)
  BY <1>0, <1>4, ListingAdvances
<1>5. CASE InsertService(c) \/ InsertState(c) \/ PlatformInstall(c)
  <2>1. /\ Before("insert_service", "insert_state")
        /\ Before("insert_state", "platform_install")
    BY DEF Before, Course
  <2>2. QED
    BY <1>0, <1>5, <2>1, GoAdvances, DoneAdvances, EndIsLast
       DEF InsertService, InsertState, PlatformInstall, Labels
<1>6. CASE \/ (\E p \in Pids : Launch(c, p)) \/ LaunchFails(c)
           \/ ReadPidFile(c) \/ RecordStart(c)
  <2>1. /\ Before("launch", "read_pid_file")
        /\ Before("read_pid_file", "record_start")
    BY DEF Before, Course
  <2>2. QED
    BY <1>0, <1>6, <2>1, GoAdvances, DoneAdvances, EndIsLast
       DEF Launch, LaunchFails, ReadPidFile, RecordStart, Labels
<1>7. CASE StopGetService(c) \/ StopGetState(c) \/ StopReadPid(c) \/ StopProbe(c)
  <2>1. /\ Before("stop_get_service", "stop_get_state")
        /\ Before("stop_get_state", "stop_read_pid")
        /\ Before("stop_get_state", "stop_probe")
        /\ Before("stop_read_pid", "stop_probe")
        /\ Before("stop_read_pid", "stop_mark")
        /\ Before("stop_probe", "stop_mark")
        /\ Before("stop_probe", "kill")
    BY DEF Before, Course
  <2>2. QED
    BY <1>0, <1>7, <2>1, GoAdvances, ReturnFromStopAdvances
       DEF StopGetService, StopGetState, StopReadPid, StopProbe
<1>8. CASE StopMark(c) \/ Kill(c) \/ WaitExit(c) \/ StopRecord(c) \/ StopUnlink(c)
  <2>1. /\ Before("kill", "wait_exit")
        /\ Before("wait_exit", "stop_record")
        /\ Before("stop_record", "stop_unlink")
    BY DEF Before, Course
  <2>2. QED
    BY <1>0, <1>8, <2>1, GoAdvances, ReturnFromStopAdvances
       DEF StopMark, Kill, WaitExit, StopRecord, StopUnlink
<1>9. CASE Uninstall(c) \/ DeleteService(c) \/ RemovePidFile(c) \/ RemoveLogs(c)
  <2>1. /\ Before("uninstall", "delete_service")
        /\ Before("delete_service", "remove_pid_file")
        /\ Before("remove_pid_file", "remove_logs")
    BY DEF Before, Course
  <2>2. QED
    BY <1>0, <1>9, <2>1, GoAdvances, DoneAdvances, EndIsLast
       DEF Uninstall, DeleteService, RemovePidFile, RemoveLogs, Labels
<1>10. QED
  BY <1>1, <1>2, <1>3, <1>4, <1>5, <1>6, <1>7, <1>8, <1>9
     DEF ClientStep, RegistryStep, PlatformStep

(* No command runs in circles: what the others do to the registry while it *)
(* runs cannot bring it back to where it has been with as much to do as    *)
(* before (service_registry.cc:67-98, 101-440).                             *)
THEOREM CommandsGoOn == Spec => CommandsAdvance
<1>1. TypeOK /\ [Next]_vars
        => [\A c \in Clients : ClientStep(c) => Advance(c)]_vars
  BY ClientStepAdvances
<1>2. QED
  BY <1>1, TypeCorrect, PTL DEF Spec, CommandsAdvance

=============================================================================
