-------------------- MODULE DefinitionRefinementProofs --------------------
(***************************************************************************)
(* BootedService in all its steps does to the registry what                *)
(* ServiceRegistry says, until a manager starts something: the theorem     *)
(* RegistryUntilManaged, for any number of commands of which no two work   *)
(* on one service, and daemons that may crash (rc.d ends one without a     *)
(* signal of the registry).                                                *)
(***************************************************************************)
EXTENDS BootedServiceProofs

(* A name that is being installed has no definition yet.                   *)
Fresh ==
  \A c \in Clients :
    pc[c] \in {"insert_state", "platform_install"} /\ stage[c] = "begin" =>
      svc[c] \notin units

-----------------------------------------------------------------------------
(* The actions that leave the definitions alone are the same in both.      *)

LEMMA SameRegistryStep ==
  ASSUME NEW c \in Clients, RegistryStep(c), UNCHANGED Settled
  PROVE  Registry!RegistryStep(c)
<1> USE DEF Go, Registry!Go, Done, Registry!Done, dbVars, Registry!dbVars,
            procVars, Registry!procVars, fileVars, Registry!fileVars
<1>1. CASE GetService(c) \/ ListServices(c) \/ ListNext(c) \/ ReportRunning(c)
  BY <1>1 DEF GetService, Registry!GetService, ListServices,
    Registry!ListServices, ListNext, Registry!ListNext, ReportRunning,
    Registry!ReportRunning, Registry!RegistryStep
<1>2. CASE GetState(c)
  BY <1>2 DEF GetState, Registry!GetState, Verdict, Registry!Verdict,
    Registry!RegistryStep
<1>3. CASE Probe(c)
  BY <1>3 DEF Probe, Registry!Probe, Verdict, Registry!Verdict,
    IsProcessRunning, Registry!IsProcessRunning, Registry!RegistryStep
<1>4. CASE Correct(c)
  BY <1>4 DEF Correct, Registry!Correct, Verdict, Registry!Verdict,
    TryUpdateState, Registry!TryUpdateState, UpdateState,
    Registry!UpdateState, Registry!RegistryStep
<1>5. CASE InsertService(c) \/ InsertState(c)
  BY <1>5 DEF InsertService, Registry!InsertService, InsertState,
    Registry!InsertState, InsertServiceRow, Registry!InsertServiceRow,
    InsertStateRow, Registry!InsertStateRow, Registry!RegistryStep
<1>6. CASE LaunchFails(c)
  BY <1>6 DEF LaunchFails, Registry!LaunchFails, Free, Registry!Free,
    Referenced, Registry!Referenced, Registry!RegistryStep
<1>7. CASE ReadPidFile(c) \/ RecordStart(c)
  BY <1>7 DEF ReadPidFile, Registry!ReadPidFile, RecordStart,
    Registry!RecordStart, BootPending, Registry!BootPending, Booting,
    Registry!Booting, TryUpdateState, Registry!TryUpdateState, UpdateState,
    Registry!UpdateState, Registry!RegistryStep
<1>8. CASE StopGetService(c) \/ StopGetState(c) \/ StopReadPid(c)
  BY <1>8 DEF StopGetService, Registry!StopGetService, StopGetState,
    Registry!StopGetState, StopReadPid, Registry!StopReadPid, ReturnFromStop,
    Registry!ReturnFromStop, Registry!RegistryStep
<1>9. CASE StopProbe(c) \/ WaitExit(c)
  BY <1>9 DEF StopProbe, Registry!StopProbe, WaitExit, Registry!WaitExit,
    IsProcessRunning, Registry!IsProcessRunning, Registry!RegistryStep
<1>10. CASE StopMark(c) \/ StopRecord(c)
  BY <1>10 DEF StopMark, Registry!StopMark, StopRecord, Registry!StopRecord,
    TryUpdateState, Registry!TryUpdateState, UpdateState,
    Registry!UpdateState, ReturnFromStop, Registry!ReturnFromStop,
    Registry!RegistryStep
<1>11. CASE Kill(c)
  BY <1>11 DEF Kill, Registry!Kill, SendTerm, Registry!SendTerm,
    Registry!RegistryStep
<1>12. CASE StopUnlink(c) \/ RemovePidFile(c)
  BY <1>12 DEF StopUnlink, Registry!StopUnlink, RemovePidFile,
    Registry!RemovePidFile, Unlink, Registry!Unlink, ReturnFromStop,
    Registry!ReturnFromStop, Registry!RegistryStep
<1>13. CASE DeleteService(c) \/ RemoveLogs(c)
  BY <1>13 DEF DeleteService, Registry!DeleteService, RemoveLogs,
    Registry!RemoveLogs, DeleteServiceRow, Registry!DeleteServiceRow,
    Registry!RegistryStep
<1>14. CASE \E p \in Pids : Launch(c, p)
  BY <1>14 DEF Launch, Registry!Launch, Free, Registry!Free, Referenced,
    Registry!Referenced, Spawn, Registry!Spawn, Registry!RegistryStep
<1>15. QED
  BY <1>1, <1>2, <1>3, <1>4, <1>5, <1>6, <1>7, <1>8, <1>9, <1>10, <1>11,
    <1>12, <1>13, <1>14 DEF RegistryStep

LEMMA SameEnvironment ==
  ASSUME NEW p \in Pids, DaemonStep(p), UNCHANGED <<dbVars, clientVars, Settled>>
  PROVE  Registry!Environment(p)
  BY DEF DaemonStep, Registry!DaemonStep, Registry!Environment,
    OpenPidFile, Registry!OpenPidFile, FlushPidFile, Registry!FlushPidFile,
    FlushDetached, Registry!FlushDetached, BootFail, Registry!BootFail,
    WriteLog, Registry!WriteLog, Die, Registry!Die, Crash, Registry!Crash,
    Outsider, Registry!Outsider, dbVars, Registry!dbVars, clientVars,
    Registry!clientVars

-----------------------------------------------------------------------------
(* Settled and Fresh.                                                      *)

(* What the other commands have written and not enabled.                   *)
Enabling(c) == {svc[d] : d \in {e \in Clients \ {c} : stage[e] = "enable"}}

LEMMA SettledIs ==
  ASSUME NEW c \in Clients
  PROVE  Settled = (IF stage[c] = "enable" THEN units \ {svc[c]} ELSE units)
                     \ Enabling(c)
  BY DEF Settled, Enabling

(* ... and of the next state.                                              *)
LEMMA SettledBecomes ==
  ASSUME NEW c \in Clients,
         \A d \in Clients \ {c} : svc'[d] = svc[d] /\ stage'[d] = stage[d]
  PROVE  Settled' = (IF stage'[c] = "enable" THEN units' \ {svc'[c]} ELSE units')
                      \ Enabling(c)
  BY DEF Settled, Enabling

(* No other command is at the service of one that is inside PlatformService. *)
LEMMA NotEnabling ==
  ASSUME DefInv, NEW c \in Clients, pc[c] \in Named
  PROVE  svc[c] \in Names /\ svc[c] \notin Enabling(c)
  BY DEF DefInv, ManInv, BootedTypeOK, TypeOK, ClientTypeOK, Apart, Enabling

LEMMA FreshPreserved == DefInv /\ Fresh /\ [BootedNext]_bootVars => Fresh'
<1> SUFFICES ASSUME DefInv, Fresh, [BootedNext]_bootVars, NEW c \in Clients,
                    pc'[c] \in {"insert_state", "platform_install"},
                    stage'[c] = "begin"
             PROVE  svc'[c] \notin units'
  BY DEF Fresh
<1>0. /\ TypeOK /\ ClientTypeOK /\ stage \in [Clients -> Stages]
      /\ Inside(c) /\ Between(c) /\ UnitsHaveRecords /\ Apart
  BY DEF DefInv, ManInv, BootedTypeOK, TypeOK
<1>1. CASE RegistryStep(c) /\ UNCHANGED platformVars
  <2>1. UNCHANGED <<units, stage>>
    BY <1>0, <1>1, RegistryStepControl DEF platformVars
  <2>2. CASE pc'[c] = "insert_state"
    BY <1>0, <1>1, <2>1, <2>2, RegistryStepControl
       DEF InsertServiceRow, UnitsHaveRecords
  <2>3. CASE pc'[c] = "platform_install"
    BY <1>0, <1>1, <2>1, <2>3, RegistryStepControl DEF Fresh
  <2>4. QED
    BY <2>2, <2>3
<1>2. CASE DefinitionStep(c)
  <2>1. pc'[c] \notin {"insert_state", "platform_install"} \/ stage'[c] # "begin"
    BY <1>0, <1>2, PlatformAssumption
       DEF DefinitionStep, WriteDefinition, EnableDefinition, StopDefinition,
           DisableDefinition, DeleteDefinition, Uninstall, Done, Go, ClientTypeOK,
           clientVars, vars
  <2>2. QED
    BY <2>1
<1>3. ASSUME NEW d \in Clients \ {c},
             \/ RegistryStep(d) /\ UNCHANGED platformVars
             \/ DefinitionStep(d)
             \/ BootedUser(d)
      PROVE  svc'[c] \notin units'
  <2>1. /\ pc'[c] = pc[c] /\ svc'[c] = svc[c] /\ stage'[c] = stage[c]
        /\ \A n \in Names \ {svc[d]} : n \in units' <=> n \in units
    <3>1. CASE RegistryStep(d) /\ UNCHANGED platformVars
      BY <1>0, <3>1, RegistryStepControl DEF platformVars
    <3>2. CASE DefinitionStep(d)
      BY <3>2, DefinitionStepIsLocal DEF DefInv, ManInv
    <3>3. CASE BootedUser(d)
      BY <1>0, <3>3
         DEF BootedUser, UserStep, Begin, ClientCrash, Done, ClientTypeOK
    <3>4. QED
      BY <1>3, <3>1, <3>2, <3>3
  <2>2. svc[c] \in Names \ {svc[d]}
    BY <1>0, <1>3, <2>1 DEF Apart, ClientTypeOK, Named, Labels
  <2>3. QED
    BY <2>1, <2>2 DEF Fresh
<1>4. CASE Reboot \/ BootedUser(c)
  <2>1. pc'[c] \notin {"insert_state", "platform_install"}
    BY <1>0, <1>4
       DEF Reboot, BootedUser, UserStep, Begin, Entry, ClientCrash, Done,
           ClientTypeOK
  <2>2. QED
    BY <2>1
<1>5. CASE \/ \E p \in Pids : ProcessFails(p) \/ ProcessRuns(p)
           \/ \E n \in Names : UserEnables(n) \/ UserStarts(n)
           \/ \E n \in Names, p \in Pids : ManagerStarts(n, p)
           \/ UNCHANGED bootVars
  <2>1. UNCHANGED <<pc, svc, units, stage>>
    BY <1>5 DEF ProcessFails, ProcessRuns, UserEnables, UserStarts,
       ManagerStarts, bootVars, platformVars, vars, clientVars
  <2>2. QED
    BY <2>1 DEF Fresh
<1>6. QED
  BY <1>1, <1>2, <1>3, <1>4, <1>5 DEF BootedNext, BootedClient

-----------------------------------------------------------------------------
(* Every step, as long as no manager has anything to do.                   *)

LEMMA DefinitionFollows ==
  ASSUME "crash" \in Faults, DefInv, Fresh, due \cup managed = {},
         NEW c \in Clients, DefinitionStep(c)
  PROVE  Registry!Next \/ UNCHANGED Registry!vars
<1>0. /\ ClientTypeOK /\ ProcTypeOK /\ stage \in [Clients -> Stages]
      /\ Inside(c) /\ Between(c)
      /\ platform \in {"systemd", "systemd_user", "launchd", "rcd"}
  BY PlatformAssumption DEF DefInv, ManInv, BootedTypeOK, TypeOK
<1> DEFINE unitsNow == (IF stage[c] = "enable" THEN units \ {svc[c]} ELSE units)
                         \ Enabling(c)
           unitsThen == (IF stage'[c] = "enable" THEN units' \ {svc'[c]} ELSE units')
                          \ Enabling(c)
<1>s. Settled = unitsNow /\ Settled' = unitsThen
  BY SettledIs, SettledBecomes, DefinitionStepIsLocal DEF DefInv, ManInv
<1>n. pc[c] = "platform_install" => svc[c] \notin Enabling(c)
  BY NotEnabling DEF Named, Labels
<1>a. /\ Registry!PlatformStep(c) => Registry!Next
      /\ \A p \in Pids : Registry!Environment(p) => Registry!Next
  BY DEF Registry!Next, Registry!ClientStep
<1>1. CASE WriteDefinition(c)
  <2>1. CASE Done(c) /\ stage' = stage
    <3>1. /\ pc[c] = "platform_install" /\ UNCHANGED <<dbVars, procVars, fileVars>>
          /\ \/ unitsThen = unitsNow \cup {svc[c]}
             \/ "unitfail" \in Faults /\ unitsThen = unitsNow
      BY <1>1, <1>n, <2>1 DEF WriteDefinition
    <3>2. Registry!PlatformInstall(c)
      BY <1>s, <2>1, <3>1
         DEF Registry!PlatformInstall, Done, Registry!Done, dbVars,
             Registry!dbVars, procVars, Registry!procVars, fileVars,
             Registry!fileVars
    <3>3. QED
      BY <1>a, <3>2 DEF Registry!PlatformStep
  <2>2. CASE /\ platform = "rcd" /\ UNCHANGED clientVars
             /\ stage' = [stage EXCEPT ![c] = "enable"]
             /\ units' = units \cup {svc[c]}
    <3>1. svc[c] \notin units /\ svc'[c] = svc[c] /\ stage'[c] = "enable"
      BY <1>0, <1>1, <2>2 DEF Fresh, WriteDefinition, clientVars
    <3>2. unitsThen = unitsNow
      BY <1>1, <2>2, <3>1 DEF WriteDefinition
    <3>3. QED
      BY <1>1, <1>s, <2>2, <3>2
         DEF WriteDefinition, Registry!vars, dbVars, Registry!dbVars, procVars,
             Registry!procVars, fileVars, Registry!fileVars, clientVars,
             Registry!clientVars
  <2>3. QED
    BY <1>1, <2>1, <2>2 DEF WriteDefinition
<1>2. CASE EnableDefinition(c)
  <2>1. /\ svc[c] \in units /\ stage[c] = "enable" /\ stage'[c] = "begin"
        /\ units' = units
    BY <1>0, <1>2 DEF EnableDefinition, Between
  <2>2. unitsThen = unitsNow \cup {svc[c]}
    BY <1>2, <1>n, <2>1 DEF EnableDefinition
  <2>3. Registry!PlatformInstall(c)
    BY <1>2, <1>s, <2>2
       DEF EnableDefinition, Registry!PlatformInstall, Done, Registry!Done,
           dbVars, Registry!dbVars, procVars, Registry!procVars, fileVars,
           Registry!fileVars
  <2>4. QED
    BY <1>a, <2>3 DEF Registry!PlatformStep
<1>3. CASE StopDefinition(c)
  <2>1. /\ UNCHANGED <<dbVars, owner, fileVars, clientVars, units>>
        /\ stage[c] = "begin" /\ stage'[c] \in {"delete", "disable"}
    BY <1>0, <1>3 DEF StopDefinition
  <2>2. UNCHANGED Settled
    BY <1>s, <2>1
  <2>3. Stopped(svc[c]) \in {{}, {p \in LiveDaemons(svc[c]) : p = pidfile[svc[c]]}}
    BY <1>0 DEF Stopped
  <2>4. CASE UNCHANGED <<phase, termed>> \/ EndProcesses({})
    <3>1. UNCHANGED <<phase, termed>>
      BY <1>0, <2>4 DEF EndProcesses, ProcTypeOK
    <3>2. QED
      BY <2>1, <2>2, <3>1
         DEF Registry!vars, dbVars, Registry!dbVars, Registry!procVars, fileVars,
             Registry!fileVars, clientVars, Registry!clientVars
  <2>5. CASE EndProcesses(Stopped(svc[c])) /\ Stopped(svc[c]) # {}
    <3>1. PICK p \in Pids : Stopped(svc[c]) = {p} /\ phase[p] # "dead"
      BY <2>3, <2>5 DEF LiveDaemons
    <3>2. /\ phase' = [phase EXCEPT ![p] = "dead"]
          /\ termed' = termed \ {p}
      BY <1>0, <2>5, <3>1 DEF EndProcesses, ProcTypeOK
    <3>3. Crash(p)
      BY <2>1, <3>1, <3>2 DEF Crash, fileVars
    <3>4. QED
      BY <1>a, <2>1, <2>2, <3>3, SameEnvironment DEF DaemonStep
  <2>6. QED
    BY <1>3, <2>4, <2>5 DEF StopDefinition
<1>4. CASE DisableDefinition(c)
  <2>1. stage[c] = "disable" /\ stage'[c] = "delete" /\ UNCHANGED vars
    BY <1>0, <1>4 DEF DisableDefinition
  <2>2. UNCHANGED Settled
    BY <1>s, <2>1 DEF vars
  <2>3. QED
    BY <2>1, <2>2
       DEF vars, Registry!vars, dbVars, Registry!dbVars, procVars,
           Registry!procVars, fileVars, Registry!fileVars, clientVars,
           Registry!clientVars
<1>5. CASE DeleteDefinition(c)
  <2>1. stage[c] = "delete" /\ stage'[c] = "begin" /\ Uninstall(c)
    BY <1>0, <1>5 DEF DeleteDefinition
  <2>2. unitsNow = units \ Enabling(c) /\ unitsThen = units' \ Enabling(c)
    BY <2>1
  <2>3. Registry!Uninstall(c)
    BY <1>s, <2>1, <2>2
       DEF Uninstall, Registry!Uninstall, Go, Registry!Go, dbVars,
           Registry!dbVars, procVars, Registry!procVars, fileVars,
           Registry!fileVars
  <2>4. QED
    BY <1>a, <2>3 DEF Registry!PlatformStep
<1>6. QED
  BY <1>1, <1>2, <1>3, <1>4, <1>5 DEF DefinitionStep

LEMMA StepFollows ==
  ASSUME "crash" \in Faults, DefInv, Fresh, [BootedNext]_bootVars,
         due \cup managed = {}
  PROVE  Registry!Next \/ Reboot \/ UNCHANGED Registry!vars
<1> USE DEF dbVars, Registry!dbVars, procVars, Registry!procVars, fileVars,
            Registry!fileVars, clientVars, Registry!clientVars
<1>0. /\ TypeOK /\ ClientTypeOK /\ stage \in [Clients -> Stages]
      /\ \A c \in Clients : Inside(c) /\ Between(c)
  BY DEF DefInv, ManInv, BootedTypeOK, TypeOK
<1>1. ASSUME NEW c \in Clients, RegistryStep(c), UNCHANGED platformVars
      PROVE  Registry!Next
  <2>1. UNCHANGED <<units, stage>> /\ stage[c] = "begin"
    BY <1>0, <1>1, RegistryStepControl DEF platformVars, Inside, Stages
  <2>2. UNCHANGED Settled
    BY <1>0, <1>1, <2>1, SettledIs, SettledBecomes, RegistryStepControl
  <2>3. QED
    BY <1>1, <2>2, SameRegistryStep DEF Registry!Next, Registry!ClientStep
<1>2. ASSUME NEW c \in Clients, BootedUser(c)
      PROVE  Registry!Next
  <2>1. /\ stage'[c] = "begin" /\ UNCHANGED <<dbVars, procVars, fileVars, units>>
        /\ \A d \in Clients \ {c} : svc'[d] = svc[d] /\ stage'[d] = stage[d]
    BY <1>0, <1>2
       DEF BootedUser, UserStep, Begin, ClientCrash, Done, ClientTypeOK
  <2>2. Settled' = units \ Enabling(c)
    BY <2>1, SettledBecomes
  <2>3. CASE stage[c] = "enable"
    <3>1. /\ pc[c] = "platform_install" /\ svc[c] \in units
          /\ Settled' = Settled \cup {svc[c]}
      BY <1>0, <2>2, <2>3, SettledIs, NotEnabling DEF Inside, Between, Named, Labels
    <3>2. Done(c)
      BY <1>2, <3>1 DEF BootedUser, UserStep, Begin, ClientCrash
    <3>3. Registry!PlatformInstall(c)
      BY <2>1, <2>2, <3>1, <3>2 DEF Registry!PlatformInstall, Done, Registry!Done
    <3>4. QED
      BY <3>3 DEF Registry!Next, Registry!ClientStep, Registry!PlatformStep
  <2>4. CASE stage[c] # "enable"
    <3>1. UNCHANGED Settled
      BY <2>2, <2>4, SettledIs
    <3>2. Registry!UserStep(c)
      BY <1>2, <3>1
         DEF BootedUser, UserStep, Registry!UserStep, Begin, Registry!Begin,
             Entry, Registry!Entry, ClientCrash, Registry!ClientCrash, Done,
             Registry!Done
    <3>3. QED
      BY <3>2 DEF Registry!Next
  <2>5. QED
    BY <2>3, <2>4
<1>3. ASSUME UNCHANGED <<stage, svc, units>> PROVE UNCHANGED Settled
  BY <1>3 DEF Settled
<1>4. ASSUME NEW p \in Pids, ProcessFails(p) \/ ProcessRuns(p)
      PROVE  Registry!Next
  <2>1. DaemonStep(p) /\ UNCHANGED <<dbVars, clientVars, units, stage>>
    BY <1>4 DEF ProcessFails, ProcessRuns, DaemonStep
  <2>2. UNCHANGED Settled
    BY <1>3, <2>1
  <2>3. QED
    BY <2>1, <2>2, SameEnvironment DEF Registry!Next
<1>5. CASE \/ \E n \in Names : UserEnables(n) \/ UserStarts(n)
           \/ UNCHANGED bootVars
  <2>1. UNCHANGED vars /\ UNCHANGED stage
    BY <1>5 DEF UserEnables, UserStarts, bootVars, platformVars
  <2>2. UNCHANGED Settled
    BY <1>3, <2>1 DEF vars
  <2>3. QED
    BY <2>1, <2>2 DEF vars, Registry!vars
<1>6. ASSUME NEW n \in Names, NEW p \in Pids PROVE ~ManagerStarts(n, p)
  BY DEF ManagerStarts
<1>7. QED
  BY <1>1, <1>2, <1>4, <1>5, <1>6, DefinitionFollows DEF BootedNext, BootedClient

(* As long as no manager has anything to start or running, the definitions *)
(* in all their steps do to the registry what ServiceRegistry says install *)
(* and uninstall do, a kill between rc.d's script and its line included,   *)
(* so that what is proved of ServiceRegistry holds until then              *)
(* (service_registry.cc:124-126, 157-159; platform_service.cc:52-456).     *)
THEOREM RegistryUntilManaged ==
  ASSUME "crash" \in Faults
  PROVE  BootedSpec /\ []Apart => RegistryUnlessManaged
<1>1. BootedInit /\ Apart => DefInv /\ Fresh
  BY DefInvInitially DEF BootedInit, Init, Fresh
<1>2. DefInv /\ Fresh /\ Apart' /\ [BootedNext]_bootVars => (DefInv /\ Fresh)'
  BY DefInvPreserved, FreshPreserved
<1>3. DefInv /\ Fresh /\ [BootedNext]_bootVars =>
        [due \cup managed = {} => Registry!Next \/ Reboot]_(Registry!vars)
  BY StepFollows
<1>4. QED
  BY <1>1, <1>2, <1>3, PTL DEF BootedSpec, RegistryUnlessManaged

=============================================================================
