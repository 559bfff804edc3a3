------------------------ MODULE BootedServiceProofs ------------------------
(***************************************************************************)
(* Theorems about BootedService, for any number of services, processes and *)
(* commands, on every platform and with every fault.                       *)
(*                                                                         *)
(* What a manager runs and may start has a definition, unless it has       *)
(* ignored a call, whatever commands do to each other, on systemd and      *)
(* launchd (ManInv).  As long as nobody runs two commands on one service   *)
(* at once, that holds for rc.d too, and no kill and no reboot leaves a    *)
(* definition without its record (DefInv).                                 *)
(***************************************************************************)
EXTENDS BootedService, ServiceRegistryProofs

(* Where a command is inside PlatformService.                              *)
(*   "enable"   rc.d's script is written, its line in rc.conf is not       *)
(*   "disable"  what systemd or rc.d ran has been stopped                  *)
(*   "delete"   nothing will start the definition any more                 *)
Inside(c) ==
  LET n == svc[c]
  IN  /\ stage[c] # "begin" =>
           pc[c] = IF stage[c] = "enable" THEN "platform_install" ELSE "uninstall"
      /\ stage[c] = "enable" => platform = "rcd"
      /\ platform = "launchd" => stage[c] # "disable"
      /\ Systemd /\ n \notin undone =>
           /\ stage[c] \in {"disable", "delete"} =>
                n \notin due /\ \A p \in managed : owner[p] # n
           /\ stage[c] = "delete" => n \notin enabled
      /\ platform = "launchd" /\ stage[c] = "delete" /\ n \notin undone =>
           n \notin due

(* What the managers rely on, whatever commands do to each other.  launchd *)
(* enables nothing, and what systemd runs it has a unit of.                *)
ManInv ==
  /\ BootedTypeOK
  /\ SupervisedHaveUnits
  /\ due \subseteq units \cup undone
  /\ Systemd => enabled \subseteq units \cup undone
  /\ platform = "launchd" => enabled = {}
  /\ \A c \in Clients : Inside(c)

(* Where a command is that writes or deletes a definition, if no other     *)
(* command works on the same service.                                      *)
Between(c) ==
  /\ stage[c] = "enable" => svc[c] \in units
  /\ stage[c] = "delete" => svc[c] \notin enabled \/ svc[c] \in undone
  /\ pc[c] \in {"insert_state", "platform_install"} => svc[c] \in services
  /\ pc[c] = "delete_service" => svc[c] \notin units

DefInv ==
  /\ ManInv /\ Apart
  /\ UnitsHaveRecords
  /\ NothingDangles
  /\ \A c \in Clients : Between(c)

-----------------------------------------------------------------------------
(* Types. *)

(* Ending processes keeps the types. *)
LEMMA EndProcessesType ==
  ASSUME ProcTypeOK, NEW ps, EndProcesses(ps), UNCHANGED <<owner, fileVars>>,
         managed \subseteq {p \in Pids : IsProcessRunning(p)}
  PROVE  ProcTypeOK' /\ managed' \subseteq {p \in Pids : IsProcessRunning(p)'}
  BY DEF ProcTypeOK, EndProcesses, fileVars, IsProcessRunning, Phases, Booting

(* A command's step ends no process. *)
LEMMA RegistryEndsNothing ==
  ASSUME TypeOK, NEW c \in Clients, ClientStep(c), NEW p \in Pids,
         phase[p] # "dead"
  PROVE  phase'[p] # "dead" /\ owner'[p] = owner[p]
<1>0. ProcTypeOK
  BY DEF TypeOK
<1>1. CASE \/ UNCHANGED <<procVars, fileVars>>
           \/ seen[c] \in Pids /\ SendTerm(seen[c])
           \/ logs' = logs \ {svc[c]} /\ UNCHANGED <<procVars, pidfile>>
  BY <1>1 DEF procVars, SendTerm
<1>2. CASE Unlink(svc[c])
  BY <1>0, <1>2 DEF Unlink, ProcTypeOK
<1>3. CASE \E q \in Pids : Free(q) /\ Spawn(svc[c], q)
  BY <1>0, <1>3 DEF Spawn, ProcTypeOK
<1>4. QED
  BY <1>1, <1>2, <1>3, ClientStepProc

(* A step of install or uninstall keeps the types. *)
LEMMA DefinitionStepType ==
  ASSUME BootedTypeOK, NEW c \in Clients, DefinitionStep(c)
  PROVE  BootedTypeOK'
<1>0. /\ DbTypeOK /\ ProcTypeOK /\ ClientTypeOK /\ units \subseteq Names
      /\ pc[c] \in Named => svc[c] \in Names
  BY DEF BootedTypeOK, TypeOK, ClientTypeOK
<1>1. CASE WriteDefinition(c) \/ EnableDefinition(c)
  <2>1. svc[c] \in Names /\ UNCHANGED <<dbVars, procVars, fileVars>>
    BY <1>0, <1>1 DEF WriteDefinition, EnableDefinition, Named, Labels
  <2>2. ClientTypeOK'
    BY <1>0, <1>1, DoneType
       DEF WriteDefinition, EnableDefinition, ClientTypeOK, clientVars
  <2>3. DbTypeOK' /\ ProcTypeOK'
    BY <1>0, <2>1 DEF DbTypeOK, ProcTypeOK, dbVars, procVars, fileVars
  <2>4. /\ (units \subseteq Names)' /\ (enabled \subseteq Names)'
        /\ (stage \in [Clients -> Stages])' /\ (undone \subseteq Names)'
        /\ UNCHANGED <<platform, due, managed, phase>>
    BY <1>0, <1>1, <2>1
       DEF WriteDefinition, EnableDefinition, BootedTypeOK, Stages, procVars
  <2>5. QED
    BY <2>2, <2>3, <2>4 DEF BootedTypeOK, TypeOK, IsProcessRunning
<1>2. CASE StopDefinition(c)
  <2>1. \/ \E ps : EndProcesses(ps)
        \/ UNCHANGED <<phase, termed, managed>>
    BY <1>2 DEF StopDefinition
  <2>2. UNCHANGED <<dbVars, owner, fileVars, clientVars, units, platform, enabled>>
    BY <1>2 DEF StopDefinition
  <2>3. ProcTypeOK' /\ managed' \subseteq {p \in Pids : IsProcessRunning(p)'}
    <3>1. CASE \E ps : EndProcesses(ps)
      BY <1>0, <2>2, <3>1, EndProcessesType DEF BootedTypeOK
    <3>2. CASE UNCHANGED <<phase, termed, managed>>
      BY <1>0, <2>2, <3>2
         DEF BootedTypeOK, ProcTypeOK, fileVars, IsProcessRunning
    <3>3. QED
      BY <2>1, <3>1, <3>2
  <2>4. DbTypeOK' /\ ClientTypeOK'
    BY <1>0, <2>2 DEF DbTypeOK, ClientTypeOK, dbVars, clientVars
  <2>5. (due \subseteq Names)' /\ (stage \in [Clients -> Stages])'
          /\ (undone \subseteq Names)'
    BY <1>0, <1>2
       DEF StopDefinition, Heeds, Ignores, BootedTypeOK, Stages, Named, Labels
  <2>6. QED
    BY <2>2, <2>3, <2>4, <2>5 DEF BootedTypeOK, TypeOK, IsProcessRunning
<1>3. CASE DisableDefinition(c)
  <2>1. /\ UNCHANGED <<vars, platform, due, managed>>
        /\ (enabled \subseteq Names)' /\ (stage \in [Clients -> Stages])'
        /\ (undone \subseteq Names)'
    BY <1>0, <1>3
       DEF DisableDefinition, Heeds, Ignores, BootedTypeOK, Stages, Named, Labels
  <2>2. TypeOK'
    BY <1>0, <2>1, TypePreserved DEF BootedTypeOK
  <2>3. QED
    BY <2>1, <2>2 DEF BootedTypeOK, IsProcessRunning, vars, procVars
<1>4. CASE DeleteDefinition(c)
  <2>1. ClientStep(c)
    BY <1>4 DEF DeleteDefinition, ClientStep, PlatformStep
  <2>2. TypeOK'
    BY <2>1, TypePreserved DEF BootedTypeOK, Next
  <2>3. UNCHANGED <<phase, platform, enabled, managed>>
    BY <1>4 DEF DeleteDefinition, Uninstall, procVars
  <2>4. (due \subseteq Names)' /\ (stage \in [Clients -> Stages])'
          /\ (undone \subseteq Names)'
    BY <1>0, <1>4
       DEF DeleteDefinition, Uninstall, Heeds, Ignores, BootedTypeOK, Stages,
           Named, Labels
  <2>5. QED
    BY <2>2, <2>3, <2>4 DEF BootedTypeOK, IsProcessRunning
<1>5. QED
  BY <1>1, <1>2, <1>3, <1>4 DEF DefinitionStep

(* A daemon's step, as its manager sees it, is one of ServiceRegistry. *)
LEMMA ProcessStepIsEnvironment ==
  ASSUME NEW p \in Pids, ProcessFails(p) \/ ProcessRuns(p)
  PROVE  Environment(p)
  BY DEF ProcessFails, ProcessRuns, Environment, DaemonStep

LEMMA BootedTypePreserved ==
  BootedTypeOK /\ SupervisedHaveUnits /\ [BootedNext]_bootVars => BootedTypeOK'
<1> SUFFICES ASSUME BootedTypeOK, SupervisedHaveUnits, [BootedNext]_bootVars
             PROVE  BootedTypeOK'
  OBVIOUS
<1>0. /\ TypeOK /\ DbTypeOK /\ ProcTypeOK /\ ClientTypeOK /\ units \subseteq Names
      /\ managed \subseteq {p \in Pids : phase[p] # "dead"}
  BY DEF BootedTypeOK, TypeOK, IsProcessRunning
<1>1. ASSUME NEW c \in Clients, BootedUser(c) PROVE BootedTypeOK'
  <2>1. TypeOK'
    BY <1>0, <1>1, TypePreserved DEF BootedUser, Next
  <2>2. QED
    BY <1>1, <2>1
       DEF BootedUser, UserStep, BootedTypeOK, Stages, IsProcessRunning, procVars
<1>2. ASSUME NEW c \in Clients, RegistryStep(c), UNCHANGED platformVars
      PROVE  BootedTypeOK'
  <2>1. ClientStep(c)
    BY <1>2 DEF ClientStep
  <2>2. TypeOK'
    BY <1>0, <2>1, TypePreserved DEF Next
  <2>3. \A p \in managed : phase'[p] # "dead"
    BY <1>0, <2>1, RegistryEndsNothing
  <2>4. QED
    BY <1>0, <1>2, <2>2, <2>3 DEF BootedTypeOK, platformVars, IsProcessRunning
<1>3. ASSUME NEW p \in Pids, ProcessFails(p) PROVE BootedTypeOK'
  <2>1. TypeOK'
    BY <1>0, <1>3, ProcessStepIsEnvironment, TypePreserved DEF Next
  <2>2. /\ \A q \in Pids \ {p} : phase'[q] = phase[q]
        /\ managed' = managed \ {p}
        /\ UNCHANGED <<platform, stage, enabled, undone>>
    BY <1>0, <1>3 DEF ProcessFails, Crash, BootFail, ProcTypeOK
  <2>3. due' \subseteq Names
    BY <1>0, <1>3 DEF ProcessFails, BootedTypeOK, SupervisedHaveUnits
  <2>4. QED
    BY <1>0, <2>1, <2>2, <2>3 DEF BootedTypeOK, IsProcessRunning
<1>4. ASSUME NEW p \in Pids, ProcessRuns(p) PROVE BootedTypeOK'
  <2>1. TypeOK'
    BY <1>0, <1>4, ProcessStepIsEnvironment, TypePreserved DEF Next
  <2>2. QED
    BY <1>0, <1>4, <2>1 DEF ProcessRuns, BootedTypeOK, IsProcessRunning
<1>5. ASSUME NEW n \in Names, UserEnables(n) \/ UserStarts(n) PROVE BootedTypeOK'
  <2>1. /\ UNCHANGED <<vars, platform, stage, managed>>
        /\ enabled' \subseteq Names /\ due' \subseteq Names
        /\ undone' \subseteq Names
    BY <1>0, <1>5 DEF UserEnables, UserStarts, UserAsks, BootedTypeOK
  <2>2. TypeOK'
    BY <1>0, <2>1, TypePreserved
  <2>3. QED
    BY <2>1, <2>2
       DEF BootedTypeOK, vars, procVars, IsProcessRunning
<1>6. ASSUME NEW n \in Names, NEW p \in Pids, ManagerStarts(n, p)
      PROVE  BootedTypeOK'
  <2>1. /\ Spawn(n, p) /\ managed' = managed \cup {p}
        /\ UNCHANGED <<dbVars, clientVars, units, platform, stage, enabled, undone>>
        /\ due' \subseteq due
    BY <1>6 DEF ManagerStarts
  <2>2. ProcTypeOK' /\ DbTypeOK' /\ ClientTypeOK'
    BY <1>0, <2>1, ProcOperationsType
       DEF DbTypeOK, ClientTypeOK, dbVars, clientVars
  <2>3. /\ \A q \in Pids \ {p} : phase'[q] = phase[q]
        /\ phase'[p] # "dead"
    BY <1>0, <2>1 DEF Spawn, ProcTypeOK
  <2>4. QED
    BY <1>0, <2>1, <2>2, <2>3 DEF BootedTypeOK, TypeOK, IsProcessRunning
<1>7. CASE Reboot
  <2>1. ProcTypeOK' /\ managed' \subseteq {p \in Pids : IsProcessRunning(p)'}
    BY <1>0, <1>7, EndProcessesType DEF Reboot, BootedTypeOK
  <2>2. ClientTypeOK' /\ DbTypeOK'
    BY <1>0, <1>7
       DEF Reboot, ClientTypeOK, DbTypeOK, dbVars, Labels, Named, Holding
  <2>3. QED
    BY <1>0, <1>7, <2>1, <2>2
       DEF Reboot, BootedTypeOK, TypeOK, AutoStarted, Stages, IsProcessRunning
<1>8. CASE UNCHANGED bootVars
  <2>1. TypeOK'
    BY <1>0, <1>8, TypePreserved DEF bootVars
  <2>2. QED
    BY <1>8, <2>1
       DEF bootVars, platformVars, vars, procVars, BootedTypeOK, IsProcessRunning
<1>9. QED
  BY <1>1, <1>2, <1>3, <1>4, <1>5, <1>6, <1>7, <1>8, DefinitionStepType
     DEF BootedNext, BootedClient

-----------------------------------------------------------------------------
(* The labels a command comes to; the other commands stay where they are.  *)
LEMMA RegistryStepControl ==
  ASSUME TypeOK, NEW c \in Clients, RegistryStep(c)
  PROVE  /\ pc[c] \notin {"platform_install", "uninstall"}
         /\ pc'[c] = "insert_state" =>
              InsertServiceRow(svc[c]) /\ svc'[c] = svc[c]
         /\ pc'[c] = "platform_install" =>
              /\ pc[c] = "insert_state" /\ services' = services
              /\ svc'[c] = svc[c]
         /\ pc'[c] # "delete_service"
         /\ UNCHANGED units
         /\ \/ services \subseteq services'
            \/ pc[c] = "delete_service" /\ services' = services \ {svc[c]}
         /\ \A d \in Clients \ {c} : pc'[d] = pc[d] /\ svc'[d] = svc[d]
<1>0. ClientTypeOK
  BY DEF TypeOK
<1>1. CASE GetService(c) \/ ListServices(c) \/ ListNext(c) \/ ReportRunning(c)
  BY <1>0, <1>1
     DEF GetService, ListServices, ListNext, ReportRunning, Go, Done,
         ClientTypeOK, dbVars
<1>2. CASE GetState(c) \/ Probe(c) \/ Correct(c)
  BY <1>0, <1>2
     DEF GetState, Probe, Correct, Verdict, Go, Done, ClientTypeOK, dbVars,
         TryUpdateState, UpdateState
<1>3. CASE InsertService(c) \/ InsertState(c)
  BY <1>0, <1>3
     DEF InsertService, InsertState, InsertServiceRow, InsertStateRow, Go, Done,
         ClientTypeOK, dbVars
<1>4. CASE \/ (\E p \in Pids : Launch(c, p)) \/ LaunchFails(c)
           \/ ReadPidFile(c) \/ RecordStart(c)
  BY <1>0, <1>4
     DEF Launch, LaunchFails, ReadPidFile, RecordStart, TryUpdateState,
         UpdateState, Go, Done, ClientTypeOK, dbVars
<1>5. CASE \/ StopGetService(c) \/ StopGetState(c) \/ StopReadPid(c)
           \/ StopProbe(c) \/ StopMark(c) \/ Kill(c) \/ WaitExit(c)
           \/ StopRecord(c) \/ StopUnlink(c)
  BY <1>0, <1>5
     DEF StopGetService, StopGetState, StopReadPid, StopProbe, StopMark, Kill,
         WaitExit, StopRecord, StopUnlink, ReturnFromStop, TryUpdateState,
         UpdateState, Go, Done, ClientTypeOK, dbVars
<1>6. CASE DeleteService(c) \/ RemovePidFile(c) \/ RemoveLogs(c)
  BY <1>0, <1>6
     DEF DeleteService, DeleteServiceRow, RemovePidFile, RemoveLogs, Go, Done,
         ClientTypeOK, dbVars
<1>7. QED
  BY <1>1, <1>2, <1>3, <1>4, <1>5, <1>6 DEF RegistryStep


-----------------------------------------------------------------------------
(* What the managers rely on. *)

(* The same without the types. *)
Supervision ==
  /\ SupervisedHaveUnits
  /\ due \subseteq units \cup undone
  /\ Systemd => enabled \subseteq units \cup undone
  /\ platform = "launchd" => enabled = {}
  /\ \A c \in Clients : Inside(c)

(* Only a command's own step changes where it is. *)
LEMMA OthersStayInside ==
  ASSUME ManInv, NEW c \in Clients,
         UNCHANGED platform, due' \subseteq due, managed' \subseteq managed,
         \A p \in managed : owner'[p] = owner[p],
         Systemd => enabled' \subseteq enabled,
         stage[c] \in {"disable", "delete"} /\ svc[c] \in undone =>
           svc[c] \in undone',
         pc'[c] = pc[c], svc'[c] = svc[c], stage'[c] = stage[c]
  PROVE  Inside(c)'
  BY DEF ManInv, Inside, Systemd

(* Steps of the commands outside PlatformService. *)
LEMMA RegistryStepSupervises ==
  ASSUME ManInv, NEW c \in Clients, RegistryStep(c), UNCHANGED platformVars
  PROVE  Supervision'
<1>0. /\ TypeOK /\ ClientStep(c) /\ Inside(c) /\ stage \in [Clients -> Stages]
      /\ SupervisedHaveUnits
      /\ managed \subseteq {p \in Pids : phase[p] # "dead"}
      /\ UNCHANGED <<platform, stage, enabled, due, managed, undone>>
  BY DEF ManInv, BootedTypeOK, ClientStep, IsProcessRunning, platformVars
<1>1. UNCHANGED units /\ stage[c] = "begin"
  BY <1>0, RegistryStepControl DEF Inside, Stages
<1>2. \A p \in managed : owner'[p] = owner[p]
  BY <1>0, RegistryEndsNothing
<1>3. SupervisedHaveUnits'
  BY <1>0, <1>1, <1>2 DEF SupervisedHaveUnits, Systemd
<1>4. Inside(c)'
  BY <1>0, <1>1 DEF Inside
<1>5. \A d \in Clients \ {c} : Inside(d)'
  <2>1. \A d \in Clients \ {c} : pc'[d] = pc[d] /\ svc'[d] = svc[d]
    BY <1>0, RegistryStepControl
  <2>2. QED
    BY <1>0, <1>2, <2>1, OthersStayInside
<1>6. QED
  BY <1>0, <1>1, <1>3, <1>4, <1>5 DEF Supervision, ManInv, Systemd

(* A step of install or uninstall is about the service it works on.        *)
LEMMA DefinitionStepIsLocal ==
  ASSUME BootedTypeOK, NEW c \in Clients, DefinitionStep(c)
  PROVE  /\ \A d \in Clients \ {c} :
              pc'[d] = pc[d] /\ svc'[d] = svc[d] /\ stage'[d] = stage[d]
         /\ \A n \in Names \ {svc[c]} :
              /\ n \in units' <=> n \in units
              /\ n \in enabled' => n \in enabled
              /\ n \in undone' <=> n \in undone
<1>0. ClientTypeOK /\ stage \in [Clients -> Stages]
  BY DEF BootedTypeOK, TypeOK
<1>1. \A d \in Clients \ {c} :
        pc'[d] = pc[d] /\ svc'[d] = svc[d] /\ stage'[d] = stage[d]
  BY <1>0
     DEF DefinitionStep, WriteDefinition, EnableDefinition, StopDefinition,
         DisableDefinition, DeleteDefinition, Uninstall, Done, Go, ClientTypeOK,
         clientVars, vars
<1>2. \A n \in Names \ {svc[c]} :
        /\ n \in units' <=> n \in units
        /\ n \in enabled' => n \in enabled
        /\ n \in undone' <=> n \in undone
  BY DEF DefinitionStep, WriteDefinition, EnableDefinition, StopDefinition,
         DisableDefinition, DeleteDefinition, Uninstall, Heeds, Ignores, vars
<1>3. QED
  BY <1>1, <1>2

(* ... and what is defined stays so, or its uninstall was ignored, until   *)
(* the file is deleted.                                                    *)
LEMMA DefinitionStepCovers ==
  ASSUME NEW c \in Clients, DefinitionStep(c)
  PROVE  /\ \A d \in Clients :
              stage[d] \in {"disable", "delete"} /\ svc[d] \in undone =>
                svc[d] \in undone'
         /\ ~DeleteDefinition(c) => units \cup undone \subseteq units' \cup undone'
         /\ DeleteDefinition(c) =>
              units \cup undone \subseteq units' \cup undone' \cup {svc[c]}
<1>1. CASE WriteDefinition(c)
  BY <1>1 DEF WriteDefinition, DeleteDefinition, Uninstall, Leaving
<1>2. CASE EnableDefinition(c) \/ StopDefinition(c) \/ DisableDefinition(c)
  BY <1>2 DEF EnableDefinition, StopDefinition, DisableDefinition, Heeds,
     Ignores, vars
<1>3. CASE DeleteDefinition(c)
  BY <1>3 DEF DeleteDefinition, Uninstall, Heeds, Ignores
<1>4. QED
  BY <1>1, <1>2, <1>3 DEF DefinitionStep

(* Steps of install and uninstall. *)
LEMMA DefinitionStepSupervises ==
  ASSUME ManInv, NEW c \in Clients, DefinitionStep(c)
  PROVE  Supervision'
<1>0. /\ ClientTypeOK /\ stage \in [Clients -> Stages] /\ Inside(c)
      /\ SupervisedHaveUnits /\ due \subseteq units \cup undone
      /\ Systemd => enabled \subseteq units \cup undone
      /\ platform = "launchd" => enabled = {}
      /\ platform \in {"systemd", "systemd_user", "launchd", "rcd"}
      /\ UNCHANGED <<platform, owner>>
  BY PlatformAssumption
     DEF ManInv, BootedTypeOK, TypeOK, DefinitionStep, WriteDefinition,
         EnableDefinition, StopDefinition, DisableDefinition, DeleteDefinition,
         Uninstall, procVars, vars
<1>1. /\ due' \subseteq due /\ managed' \subseteq managed
      /\ enabled' \subseteq enabled \/ platform = "rcd"
  BY <1>0
     DEF DefinitionStep, WriteDefinition, EnableDefinition, StopDefinition,
         DisableDefinition, DeleteDefinition, EndProcesses, Inside
<1>2. \A d \in Clients \ {c} :
        pc'[d] = pc[d] /\ svc'[d] = svc[d] /\ stage'[d] = stage[d]
  BY DefinitionStepIsLocal DEF ManInv
<1>3. \A d \in Clients \ {c} : Inside(d)'
  BY <1>0, <1>1, <1>2, OthersStayInside, DefinitionStepCovers DEF Systemd
<1>4. Inside(c)'
  <2>1. CASE WriteDefinition(c)
    BY <1>0, <2>1
       DEF WriteDefinition, Inside, Done, ClientTypeOK, clientVars, Systemd
  <2>2. CASE EnableDefinition(c)
    BY <1>0, <2>2 DEF EnableDefinition, Inside
  <2>3. CASE StopDefinition(c)
    <3>1. /\ pc[c] = "uninstall" /\ UNCHANGED <<pc, svc>>
          /\ stage'[c] = IF platform = "launchd" THEN "delete" ELSE "disable"
      BY <1>0, <2>3 DEF StopDefinition, clientVars
    <3>2. \/ svc[c] \in undone'
          \/ /\ EndProcesses(Stopped(svc[c])) /\ platform # "systemd_user"
             /\ due' = IF platform = "rcd" THEN due ELSE due \ {svc[c]}
      BY <2>3 DEF StopDefinition, Heeds, Ignores
    <3>3. CASE svc[c] \in undone'
      BY <1>0, <3>1, <3>3 DEF Inside
    <3>4. CASE /\ EndProcesses(Stopped(svc[c])) /\ platform # "systemd_user"
               /\ due' = IF platform = "rcd" THEN due ELSE due \ {svc[c]}
      BY <1>0, <3>1, <3>4 DEF EndProcesses, Stopped, Inside, Systemd
    <3>5. QED
      BY <3>2, <3>3, <3>4
  <2>4. CASE DisableDefinition(c)
    <3>1. /\ pc[c] = "uninstall" /\ stage[c] = "disable" /\ stage'[c] = "delete"
          /\ UNCHANGED <<pc, svc, platform, due, managed, owner>>
      BY <1>0, <2>4 DEF DisableDefinition, vars, clientVars, procVars
    <3>2. CASE svc[c] \in undone'
      BY <1>0, <3>1, <3>2 DEF Inside
    <3>3. CASE svc[c] \notin undone' /\ undone' = undone
      <4>1. svc[c] \notin enabled'
        BY <2>4, <3>3 DEF DisableDefinition, Ignores
      <4>2. QED
        BY <1>0, <3>1, <3>3, <4>1 DEF Inside, Systemd
    <3>4. QED
      BY <2>4, <3>2, <3>3 DEF DisableDefinition, Heeds, Ignores
  <2>5. CASE DeleteDefinition(c)
    BY <1>0, <2>5 DEF DeleteDefinition, Inside
  <2>6. QED
    BY <2>1, <2>2, <2>3, <2>4, <2>5 DEF DefinitionStep
<1>5. CASE ~DeleteDefinition(c)
  BY <1>0, <1>1, <1>3, <1>4, <1>5, DefinitionStepCovers
     DEF Supervision, SupervisedHaveUnits, Systemd
<1>6. CASE DeleteDefinition(c)
  <2>1. UNCHANGED <<enabled, managed>> /\ undone \subseteq undone'
    BY <1>6 DEF DeleteDefinition, Heeds, Ignores
  <2>2. svc[c] \notin due' \/ svc[c] \in undone'
    BY <1>0, <1>6, <2>1 DEF DeleteDefinition, Heeds, Ignores, Inside
  <2>3. Systemd /\ svc[c] \notin undone' =>
          svc[c] \notin enabled' /\ \A p \in managed' : owner'[p] # svc[c]
    BY <1>0, <1>6, <2>1 DEF DeleteDefinition, Inside
  <2>4. QED
    BY <1>0, <1>1, <1>3, <1>4, <1>6, <2>2, <2>3, DefinitionStepCovers
       DEF Supervision, SupervisedHaveUnits, Systemd
<1>7. QED
  BY <1>5, <1>6

(* Steps of the processes, their managers and the user, as far as they     *)
(* concern the definitions and the commands: what becomes due or enabled   *)
(* has a unit, and no command works on it unless systemd restarts what it  *)
(* runs.                                                                   *)
ManagerStep ==
  \/ \E p \in Pids : ProcessFails(p) \/ ProcessRuns(p)
  \/ \E n \in Names : UserEnables(n) \/ UserStarts(n)
  \/ \E n \in Names, p \in Pids : ManagerStarts(n, p)

LEMMA ManagerFacts ==
  ASSUME ManInv, ManagerStep
  PROVE  /\ UNCHANGED <<dbVars, clientVars, units, platform, stage>>
         /\ undone \subseteq undone'
         /\ due' \subseteq units \cup undone'
         /\ \A n \in due' \ due :
              /\ Systemd
              /\ \/ n \in undone' \/ ~Leaving(n)
                 \/ \E p \in managed : owner[p] = n
         /\ enabled' # enabled => Systemd
         /\ \A n \in enabled' \ enabled :
              Systemd /\ n \in units /\ (n \in undone' \/ ~Leaving(n))
         /\ \A p \in managed' :
              \/ p \in managed /\ owner'[p] = owner[p]
              \/ owner'[p] \in due
<1>0. /\ SupervisedHaveUnits /\ due \subseteq units \cup undone /\ ProcTypeOK
      /\ managed \subseteq {p \in Pids : phase[p] # "dead"}
  BY DEF ManInv, BootedTypeOK, TypeOK, IsProcessRunning
<1>1. CASE \E p \in Pids : ProcessFails(p) \/ ProcessRuns(p)
  <2>1. \A p \in managed : owner'[p] = owner[p]
    BY <1>0, <1>1
       DEF ProcessFails, ProcessRuns, Crash, BootFail, OpenPidFile,
           FlushPidFile, FlushDetached, Die, Outsider, WriteLog, procVars,
           ProcTypeOK
  <2>2. managed' \subseteq managed
    BY <1>1 DEF ProcessFails, ProcessRuns
  <2>3. QED
    BY <1>0, <1>1, <2>1, <2>2 DEF ProcessFails, ProcessRuns, SupervisedHaveUnits
<1>2. CASE \E n \in Names : UserEnables(n) \/ UserStarts(n)
  BY <1>0, <1>2 DEF UserEnables, UserStarts, UserAsks, vars, procVars
<1>3. CASE \E n \in Names, p \in Pids : ManagerStarts(n, p)
  <2>1. PICK n \in Names, p \in Pids : ManagerStarts(n, p)
    BY <1>3
  <2>2. phase[p] = "dead" /\ owner' = [owner EXCEPT ![p] = n]
    BY <2>1 DEF ManagerStarts, Free, Spawn
  <2>3. \A q \in managed' :
          (q \in managed /\ owner'[q] = owner[q]) \/ owner'[q] \in due
    BY <1>0, <2>1, <2>2 DEF ManagerStarts, ProcTypeOK
  <2>4. QED
    BY <1>0, <2>1, <2>3 DEF ManagerStarts
<1>4. QED
  BY <1>1, <1>2, <1>3 DEF ManagerStep

LEMMA ManagerStepSupervises ==
  ASSUME ManInv, ManagerStep
  PROVE  Supervision'
<1>0. /\ SupervisedHaveUnits /\ due \subseteq units \cup undone
      /\ Systemd => enabled \subseteq units \cup undone
      /\ platform = "launchd" => enabled = {}
      /\ \A c \in Clients : Inside(c)
  BY DEF ManInv
<1>1. UNCHANGED <<pc, svc, units, platform, stage>> /\ undone \subseteq undone'
  BY ManagerFacts DEF clientVars
<1>2. SupervisedHaveUnits'
  BY <1>0, <1>1, ManagerFacts DEF SupervisedHaveUnits, Systemd
<1>3. ASSUME NEW c \in Clients PROVE Inside(c)'
  <2>0. Inside(c)
    BY <1>0
  <2>1. CASE stage[c] \notin {"disable", "delete"} \/ svc[c] \in undone'
    BY <1>1, <2>0, <2>1 DEF Inside
  <2>2. CASE stage[c] \in {"disable", "delete"} /\ svc[c] \notin undone'
    <3>1. Leaving(svc[c]) /\ svc[c] \notin undone
      BY <1>1, <2>2 DEF Leaving
    <3>2. Systemd =>
            svc[c] \notin due' /\ \A p \in managed' : owner'[p] # svc[c]
      BY <2>0, <2>2, <3>1, ManagerFacts DEF Inside
    <3>3. ~Systemd => due' \subseteq due
      BY ManagerFacts
    <3>4. Systemd /\ stage[c] = "delete" => svc[c] \notin enabled'
      BY <2>0, <2>2, <3>1, ManagerFacts DEF Inside
    <3>5. QED
      BY <1>1, <2>0, <2>2, <3>1, <3>2, <3>3, <3>4 DEF Inside, Systemd
  <2>3. QED
    BY <2>1, <2>2
<1>4. enabled' \subseteq units' \cup undone' \/ ~Systemd
  BY <1>0, <1>1, ManagerFacts
<1>5. platform' = "launchd" => enabled' = {}
  BY <1>0, <1>1, ManagerFacts DEF Systemd, ManInv
<1>6. QED
  BY <1>1, <1>2, <1>3, <1>4, <1>5, ManagerFacts DEF Supervision, Systemd

(* A command is typed or killed, or the machine goes down. *)
LeavingStep == Reboot \/ \E c \in Clients : BootedUser(c)

LEMMA LeavingFacts ==
  ASSUME ManInv, LeavingStep
  PROVE  /\ UNCHANGED <<dbVars, owner, units, platform, enabled, undone>>
         /\ managed' \subseteq managed
         /\ due' \subseteq units \cup undone
         /\ \A c \in Clients :
              \/ /\ stage'[c] = "begin"
                 /\ pc'[c] \notin {"insert_state", "platform_install", "delete_service"}
              \/ /\ pc'[c] = pc[c] /\ svc'[c] = svc[c] /\ stage'[c] = stage[c]
                 /\ due' = due
<1>0. /\ ClientTypeOK /\ stage \in [Clients -> Stages]
      /\ due \subseteq units \cup undone
  BY DEF ManInv, BootedTypeOK, TypeOK
<1>1. CASE Reboot
  BY <1>0, <1>1 DEF Reboot, EndProcesses, AutoStarted, dbVars
<1>2. CASE \E c \in Clients : BootedUser(c)
  BY <1>0, <1>2
     DEF BootedUser, UserStep, Begin, Entry, ClientCrash, Done, ClientTypeOK,
         procVars
<1>3. QED
  BY <1>1, <1>2 DEF LeavingStep

LEMMA LeavingStepSupervises ==
  ASSUME ManInv, LeavingStep
  PROVE  Supervision'
<1>0. /\ SupervisedHaveUnits
      /\ Systemd => enabled \subseteq units \cup undone
      /\ platform = "launchd" => enabled = {}
      /\ \A c \in Clients : Inside(c)
  BY DEF ManInv
<1>1. SupervisedHaveUnits'
  BY <1>0, LeavingFacts DEF SupervisedHaveUnits, Systemd
<1>2. ASSUME NEW c \in Clients PROVE Inside(c)'
  BY <1>0, LeavingFacts DEF Inside, Systemd
<1>3. QED
  BY <1>0, <1>1, <1>2, LeavingFacts DEF Supervision, Systemd

LEMMA ManInvInitially == BootedInit => ManInv
  BY TypeInitially
     DEF BootedInit, Init, ManInv, BootedTypeOK, SupervisedHaveUnits, Inside,
         Stages, IsProcessRunning

LEMMA ManInvPreserved == ManInv /\ [BootedNext]_bootVars => ManInv'
<1> SUFFICES ASSUME ManInv, [BootedNext]_bootVars PROVE ManInv'
  OBVIOUS
<1>1. BootedTypeOK'
  BY BootedTypePreserved DEF ManInv
<1>2. CASE UNCHANGED bootVars
  <2>1. Supervision'
    BY <1>2
       DEF Supervision, ManInv, bootVars, platformVars, vars, procVars,
           clientVars, SupervisedHaveUnits, Inside, Systemd
  <2>2. QED
    BY <1>1, <2>1 DEF Supervision, ManInv
<1>3. CASE BootedNext
  <2>1. Supervision'
    BY <1>3, RegistryStepSupervises, DefinitionStepSupervises,
       ManagerStepSupervises, LeavingStepSupervises
       DEF BootedNext, BootedClient, ManagerStep, LeavingStep
  <2>2. QED
    BY <1>1, <2>1 DEF Supervision, ManInv
<1>4. QED
  BY <1>2, <1>3

-----------------------------------------------------------------------------
(* What holds as long as nobody runs two commands on one service at once.  *)

Orders ==
  /\ UnitsHaveRecords /\ NothingDangles
  /\ \A c \in Clients : Between(c)

(* A command that only others' services change for stays where it is. *)
LEMMA OthersStayBetween ==
  ASSUME DefInv, NEW d \in Clients,
         pc'[d] = pc[d], svc'[d] = svc[d], stage'[d] = stage[d],
         svc[d] \in Names =>
           /\ svc[d] \in services' <=> svc[d] \in services
           /\ svc[d] \in units' <=> svc[d] \in units
           /\ svc[d] \in enabled' => svc[d] \in enabled
           /\ svc[d] \in undone => svc[d] \in undone'
  PROVE  Between(d)'
<1>0. ClientTypeOK /\ stage \in [Clients -> Stages] /\ Inside(d) /\ Between(d)
  BY DEF DefInv, ManInv, BootedTypeOK, TypeOK
<1>1. CASE svc[d] \in Names
  BY <1>0, <1>1 DEF Between
<1>2. CASE svc[d] \notin Names
  <2>1. pc[d] \notin Named
    BY <1>0, <1>2 DEF ClientTypeOK
  <2>2. /\ pc[d] \notin {"insert_state", "platform_install", "uninstall",
                         "delete_service"}
        /\ stage[d] = "begin"
    BY <1>0, <2>1 DEF Named, Labels, Inside, Stages
  <2>3. QED
    BY <2>2 DEF Between
<1>3. QED
  BY <1>1, <1>2

(* Steps of the commands outside PlatformService. *)
LEMMA RegistryStepOrders ==
  ASSUME DefInv, NEW c \in Clients, RegistryStep(c), UNCHANGED platformVars
  PROVE  Orders'
<1>0. /\ TypeOK /\ ClientStep(c) /\ DbTypeOK /\ Inside(c) /\ Between(c) /\ Apart
      /\ UnitsHaveRecords /\ NothingDangles /\ stage \in [Clients -> Stages]
      /\ UNCHANGED <<platform, stage, enabled, due, managed, undone>>
  BY DEF DefInv, ManInv, BootedTypeOK, TypeOK, ClientStep, platformVars
<1>1. UNCHANGED units /\ stage[c] = "begin"
  BY <1>0, RegistryStepControl DEF Inside, Stages
<1>2. UnitsHaveRecords'
  <2>1. CASE services \subseteq services'
    BY <1>0, <1>1, <2>1 DEF UnitsHaveRecords
  <2>2. CASE pc[c] = "delete_service" /\ services' = services \ {svc[c]}
    BY <1>0, <1>1, <2>2 DEF UnitsHaveRecords, Between
  <2>3. QED
    BY <1>0, <2>1, <2>2, RegistryStepControl
<1>3. NothingDangles'
  BY <1>0, <1>1 DEF NothingDangles
<1>4. Between(c)'
  BY <1>0, <1>1, RegistryStepControl DEF Between, InsertServiceRow
<1>5. ASSUME NEW d \in Clients \ {c} PROVE Between(d)'
  <2>1. pc'[d] = pc[d] /\ svc'[d] = svc[d]
    BY <1>0, RegistryStepControl
  <2>2. svc[d] \in Names => (svc[d] \in services' <=> svc[d] \in services)
    BY <1>0, ClientStepDb
       DEF Apart, dbVars, InsertServiceRow, InsertStateRow, DeleteServiceRow,
           UpdateState
  <2>3. QED
    BY <1>0, <1>1, <2>1, <2>2, OthersStayBetween
<1>6. QED
  BY <1>2, <1>3, <1>4, <1>5 DEF Orders

(* Steps of install and uninstall. *)
LEMMA DefinitionStepOrders ==
  ASSUME DefInv, NEW c \in Clients, DefinitionStep(c)
  PROVE  Orders'
<1>0. /\ ClientTypeOK /\ stage \in [Clients -> Stages] /\ Inside(c) /\ Between(c)
      /\ UnitsHaveRecords /\ NothingDangles /\ Apart
      /\ platform = "launchd" => enabled = {}
      /\ platform = "launchd" => stage[c] # "disable"
      /\ platform \in {"systemd", "systemd_user", "launchd", "rcd"}
      /\ UNCHANGED dbVars
  BY PlatformAssumption
     DEF DefInv, ManInv, BootedTypeOK, TypeOK, DefinitionStep, WriteDefinition,
         EnableDefinition, StopDefinition, DisableDefinition, DeleteDefinition,
         Uninstall, Inside, vars
<1>1. services' = services
  BY <1>0 DEF dbVars
<1>2. ASSUME NEW d \in Clients \ {c} PROVE Between(d)'
  <2>1. svc[d] \in Names => svc[d] # svc[c]
    BY <1>0, <1>2 DEF Apart
  <2>2. QED
    BY <1>1, <2>1, DefinitionStepIsLocal, OthersStayBetween DEF DefInv, ManInv
<1>c. ~DeleteDefinition(c) => units \cup undone \subseteq units' \cup undone'
  BY DefinitionStepCovers
<1>d. ~(DeleteDefinition(c) /\ (WriteDefinition(c) \/ EnableDefinition(c)
           \/ StopDefinition(c) \/ DisableDefinition(c)))
  BY DEF DeleteDefinition, WriteDefinition, EnableDefinition, StopDefinition,
         DisableDefinition, Uninstall
<1>3. CASE WriteDefinition(c)
  <2>1. /\ svc[c] \in services /\ enabled' = enabled /\ units \subseteq units'
        /\ units' \subseteq units \cup {svc[c]} /\ due' = due
    BY <1>0, <1>3 DEF WriteDefinition, Between
  <2>2. Between(c)'
    <3>1. CASE Done(c) /\ stage' = stage
      BY <1>0, <1>3, <3>1 DEF WriteDefinition, Between, Done, ClientTypeOK
    <3>2. CASE /\ UNCHANGED clientVars /\ units' = units \cup {svc[c]}
               /\ stage' = [stage EXCEPT ![c] = "enable"]
      BY <1>0, <1>1, <2>1, <1>3, <3>2 DEF WriteDefinition, Between, clientVars
    <3>3. QED
      BY <1>3, <3>1, <3>2 DEF WriteDefinition
  <2>3. QED
    BY <1>0, <1>1, <1>2, <1>c, <1>d, <1>3, <2>1, <2>2
       DEF Orders, UnitsHaveRecords, NothingDangles
<1>4. CASE EnableDefinition(c)
  <2>1. /\ svc[c] \in units /\ UNCHANGED <<units, due>>
        /\ enabled' \subseteq enabled \cup {svc[c]}
        /\ pc'[c] = "idle" /\ stage'[c] = "begin"
    BY <1>0, <1>4 DEF EnableDefinition, Between, Done, ClientTypeOK
  <2>2. Between(c)'
    BY <2>1 DEF Between
  <2>3. QED
    BY <1>0, <1>1, <1>2, <1>c, <1>d, <1>4, <2>1, <2>2
       DEF Orders, UnitsHaveRecords, NothingDangles
<1>5. CASE StopDefinition(c) \/ DisableDefinition(c)
  <2>1. /\ UNCHANGED <<units, pc, svc>>
        /\ enabled' \subseteq enabled /\ due' \subseteq due
        /\ pc[c] = "uninstall" /\ stage'[c] \in {"disable", "delete"}
        /\ stage'[c] = "delete" => svc[c] \notin enabled' \/ svc[c] \in undone'
    <3>1. CASE StopDefinition(c)
      BY <1>0, <3>1 DEF StopDefinition, EndProcesses, clientVars
    <3>2. CASE DisableDefinition(c)
      BY <1>0, <3>2 DEF DisableDefinition, Heeds, Ignores, vars, clientVars
    <3>3. QED
      BY <1>5, <3>1, <3>2
  <2>2. Between(c)'
    BY <2>1 DEF Between
  <2>3. QED
    BY <1>0, <1>1, <1>2, <1>c, <1>d, <1>5, <2>1, <2>2
       DEF Orders, UnitsHaveRecords, NothingDangles
<1>6. CASE DeleteDefinition(c)
  <2>1. /\ units' = units \ {svc[c]} /\ enabled' = enabled
        /\ stage'[c] = "begin" /\ pc'[c] = "delete_service" /\ svc'[c] = svc[c]
    BY <1>0, <1>6 DEF DeleteDefinition, Uninstall, Go, ClientTypeOK
  <2>2. Between(c)'
    BY <2>1 DEF Between
  <2>3. svc[c] \notin enabled \/ svc[c] \in undone'
    BY <1>0, <1>6, DefinitionStepCovers DEF DeleteDefinition, Between
  <2>4. due' \subseteq units' \cup undone'
    BY ManInvPreserved DEF DefInv, BootedNext, BootedClient, ManInv
  <2>5. QED
    BY <1>0, <1>1, <1>2, <1>6, <2>1, <2>2, <2>3, <2>4, DefinitionStepCovers
       DEF Orders, UnitsHaveRecords, NothingDangles
<1>7. QED
  BY <1>3, <1>4, <1>5, <1>6 DEF DefinitionStep

(* Steps of the processes, their managers and the user: the commands stay  *)
(* where they are, and what becomes enabled has a definition, but not the  *)
(* one that a command is deleting.                                         *)
LEMMA ManagerStepOrders ==
  ASSUME DefInv, ManagerStep
  PROVE  Orders'
<1>0. /\ ManInv /\ UnitsHaveRecords /\ NothingDangles
      /\ \A c \in Clients : Between(c)
  BY DEF DefInv
<1>1. UNCHANGED <<services, pc, svc, units, stage>>
  BY <1>0, ManagerFacts DEF clientVars, dbVars
<1>2. UnitsHaveRecords' /\ NothingDangles'
  BY <1>0, <1>1, ManagerFacts DEF UnitsHaveRecords, NothingDangles
<1>3. ASSUME NEW c \in Clients PROVE Between(c)'
  <2>1. stage[c] = "delete" => svc[c] \notin enabled' \/ svc[c] \in undone'
    BY <1>0, ManagerFacts DEF Between, Leaving
  <2>2. QED
    BY <1>0, <1>1, <2>1 DEF Between
<1>4. QED
  BY <1>2, <1>3 DEF Orders

(* The commands that go leave nothing half done that matters. *)
LEMMA LeavingStepOrders ==
  ASSUME DefInv, LeavingStep
  PROVE  Orders'
<1>0. /\ ManInv /\ UnitsHaveRecords /\ NothingDangles
      /\ \A c \in Clients : Between(c)
  BY DEF DefInv
<1>1. UNCHANGED <<services, units, enabled, undone>>
  BY <1>0, LeavingFacts DEF dbVars
<1>2. UnitsHaveRecords' /\ NothingDangles'
  BY <1>0, <1>1, LeavingFacts DEF UnitsHaveRecords, NothingDangles
<1>3. ASSUME NEW c \in Clients PROVE Between(c)'
  BY <1>0, <1>1, LeavingFacts DEF Between
<1>4. QED
  BY <1>2, <1>3 DEF Orders

LEMMA DefInvInitially == BootedInit /\ Apart => DefInv
  BY ManInvInitially
     DEF BootedInit, Init, DbInit, DefInv, UnitsHaveRecords, NothingDangles,
         Between

LEMMA DefInvPreserved ==
  DefInv /\ Apart' /\ [BootedNext]_bootVars => DefInv'
<1> SUFFICES ASSUME DefInv, Apart', [BootedNext]_bootVars PROVE DefInv'
  OBVIOUS
<1>1. ManInv'
  BY ManInvPreserved DEF DefInv
<1>2. CASE UNCHANGED bootVars
  <2>1. Orders'
    BY <1>2
       DEF Orders, DefInv, bootVars, platformVars, vars, dbVars, clientVars,
           UnitsHaveRecords, NothingDangles, Between
  <2>2. QED
    BY <1>1, <2>1 DEF Orders, DefInv
<1>3. CASE BootedNext
  <2>1. Orders'
    BY <1>3, RegistryStepOrders, DefinitionStepOrders, ManagerStepOrders,
       LeavingStepOrders
       DEF BootedNext, BootedClient, ManagerStep, LeavingStep
  <2>2. QED
    BY <1>1, <2>1 DEF Orders, DefInv
<1>4. QED
  BY <1>2, <1>3

-----------------------------------------------------------------------------
(* The types: what a manager is to start and what it has enabled are names *)
(* of services, what it runs are live processes                            *)
(* (platform_service.cc:52-456).                                           *)
THEOREM BootedTypeCorrect == BootedSpec => []BootedTypeOK
<1>1. ManInv => BootedTypeOK
  BY DEF ManInv
<1>2. QED
  BY <1>1, ManInvInitially, ManInvPreserved, PTL DEF BootedSpec

(* What systemd runs it has a unit of, or it has ignored a call or been    *)
(* called meanwhile, however commands interleave, are killed or rebooted   *)
(* away: uninstall ends the unit's processes and its pending restart       *)
(* before the unit goes, and nothing else brings them back                 *)
(* (platform_service.cc:79-93).                                            *)
THEOREM SupervisedOnlyWhileDefined == BootedSpec => []SupervisedHaveUnits
<1>1. ManInv => SupervisedHaveUnits
  BY DEF ManInv
<1>2. QED
  BY <1>1, ManInvInitially, ManInvPreserved, PTL DEF BootedSpec

(* On systemd and launchd no interleaving of commands leaves the manager   *)
(* with something to start that has no definition, unless it has ignored a *)
(* call or been called meanwhile (platform_service.cc:79-93, 190-200).     *)
THEOREM NothingDanglesButOnRcd ==
  ASSUME "rcd" \notin Platforms
  PROVE  BootedSpec => []NothingDangles
<1>1. ManInv => NothingDangles
  BY PlatformAssumption DEF ManInv, BootedTypeOK, NothingDangles, Systemd
<1>2. QED
  BY <1>1, ManInvInitially, ManInvPreserved, PTL DEF BootedSpec

(* rc.d's install enables after it has written, its uninstall disables     *)
(* before it deletes: as long as no two commands work on one service at    *)
(* once nothing dangles, on any platform, but what the manager was not     *)
(* willing to undo (platform_service.cc:407-438).                          *)
THEOREM NothingIsDangling == BootedSpec /\ []Apart => []NothingDangles
<1>1. DefInv => NothingDangles
  BY DEF DefInv
<1>2. QED
  BY <1>1, DefInvInitially, DefInvPreserved, PTL DEF BootedSpec

(* A user calls systemctl while an uninstall is at work. *)
Meddling ==
  \E n \in Names : Leaving(n) /\ (UserEnables(n) \/ UserStarts(n))

LEMMA NothingIsUndone ==
  ASSUME "askfail" \notin Faults, "systemd_user" \notin Platforms
  PROVE  BootedSpec /\ [][~Meddling]_bootVars => [](undone = {})
<1>1. BootedInit => undone = {}
  BY DEF BootedInit
<1>2. BootedTypeOK /\ undone = {} /\ [BootedNext]_bootVars
        /\ [~Meddling]_bootVars => (undone = {})'
  <2> SUFFICES ASSUME BootedTypeOK, undone = {}, [BootedNext]_bootVars,
                      [~Meddling]_bootVars
               PROVE  undone' = {}
    OBVIOUS
  <2>0. \A n : ~Ignores(n)
    BY DEF Ignores, BootedTypeOK
  <2>1. CASE \E c \in Clients : BootedUser(c) \/ BootedClient(c)
    BY <2>0, <2>1
       DEF BootedUser, BootedClient, DefinitionStep, WriteDefinition,
           EnableDefinition, StopDefinition, DisableDefinition,
           DeleteDefinition, Heeds, platformVars
  <2>2. CASE \/ \E p \in Pids : ProcessFails(p) \/ ProcessRuns(p)
             \/ \E n \in Names, p \in Pids : ManagerStarts(n, p)
             \/ Reboot \/ UNCHANGED bootVars
    BY <2>2 DEF ProcessFails, ProcessRuns, ManagerStarts, Reboot, bootVars,
       platformVars
  <2>3. ASSUME NEW n \in Names, UserEnables(n) \/ UserStarts(n), ~Meddling
        PROVE  undone' = {}
    BY <2>3 DEF Meddling, UserEnables, UserStarts, UserAsks
  <2>4. QED
    BY <2>1, <2>2, <2>3 DEF BootedNext
<1>3. QED
  BY <1>1, <1>2, BootedTypeCorrect, PTL DEF BootedSpec

(* Where the managers do what they are asked, no unit is a user's and      *)
(* nobody meddles, nothing dangles and nothing is supervised without its   *)
(* definition (platform_service.cc:79-93, 190-200, 407-438).               *)
THEOREM UninstallsLeaveNothing ==
  ASSUME "askfail" \notin Faults, "systemd_user" \notin Platforms
  PROVE  BootedSpec /\ []Apart /\ [][~Meddling]_bootVars =>
           [](/\ enabled \cup due \subseteq units
              /\ Systemd => \A p \in managed : owner[p] \in units)
<1>1. NothingDangles /\ SupervisedHaveUnits /\ undone = {} =>
        /\ enabled \cup due \subseteq units
        /\ Systemd => \A p \in managed : owner[p] \in units
  BY DEF NothingDangles, SupervisedHaveUnits
<1>2. QED
  BY <1>1, NothingIsUndone, NothingIsDangling, SupervisedOnlyWhileDefined, PTL

(* Every definition belongs to a service of the registry, on every         *)
(* platform and through every failure, kill and reboot: install writes the *)
(* row first and remove deletes it last (service_registry.cc:111-126,      *)
(* 157-163).                                                               *)
THEOREM DefinitionsHaveRecords == BootedSpec /\ []Apart => []UnitsHaveRecords
<1>1. DefInv => UnitsHaveRecords
  BY DEF DefInv
<1>2. QED
  BY <1>1, DefInvInitially, DefInvPreserved, PTL DEF BootedSpec

-----------------------------------------------------------------------------
(* What ServiceRegistryProofs shows of concurrent commands, with managers  *)
(* that start daemons behind their backs and machines that go down.        *)

(* A step is one of ServiceRegistry, or a manager starts a daemon, or      *)
(* neither tables, files nor owners change and a command that does not     *)
(* stay where it is holds nothing.                                         *)
LEMMA BootedStep ==
  ASSUME BootedTypeOK, [BootedNext]_bootVars
  PROVE  \/ [Next]_vars
         \/ \E n \in Names, p \in Pids : ManagerStarts(n, p)
         \/ /\ UNCHANGED <<dbVars, owner, fileVars>>
            /\ \A c \in Clients :
                 \/ pc'[c] = pc[c] /\ svc'[c] = svc[c] /\ seen'[c] = seen[c]
                 \/ seen'[c] = NoPid
<1>0. ClientTypeOK
  BY DEF BootedTypeOK, TypeOK
<1>1. ASSUME NEW c \in Clients,
             WriteDefinition(c) \/ EnableDefinition(c) \/ StopDefinition(c)
      PROVE  /\ UNCHANGED <<dbVars, owner, fileVars>>
             /\ \A d \in Clients :
                  \/ pc'[d] = pc[d] /\ svc'[d] = svc[d] /\ seen'[d] = seen[d]
                  \/ seen'[d] = NoPid
  BY <1>0, <1>1
     DEF WriteDefinition, EnableDefinition, StopDefinition, Done, ClientTypeOK,
         clientVars, procVars
<1>2. ASSUME NEW c \in Clients, DisableDefinition(c) \/ DeleteDefinition(c)
      PROVE  [Next]_vars
  BY <1>2 DEF DisableDefinition, DeleteDefinition, Next, ClientStep, PlatformStep
<1>3. ASSUME NEW c \in Clients, BootedUser(c) \/ RegistryStep(c)
      PROVE  [Next]_vars
  BY <1>3 DEF BootedUser, Next, ClientStep
<1>4. ASSUME NEW p \in Pids, ProcessFails(p) \/ ProcessRuns(p)
      PROVE  [Next]_vars
  BY <1>4, ProcessStepIsEnvironment DEF Next
<1>5. CASE Reboot
  BY <1>5 DEF Reboot
<1>6. CASE \/ \E n \in Names : UserEnables(n) \/ UserStarts(n)
           \/ UNCHANGED bootVars
  BY <1>6 DEF UserEnables, UserStarts, bootVars
<1>7. QED
  BY <1>1, <1>2, <1>3, <1>4, <1>5, <1>6
     DEF BootedNext, BootedClient, DefinitionStep

(* Managers and reboots write no row. *)
LEMMA BootedDbStep ==
  ASSUME BootedTypeOK, [BootedNext]_bootVars
  PROVE  DbStatement
  BY BootedStep, DbStep DEF BootedTypeOK, ManagerStarts, DbStatement

(* A manager gives its process a pid that is written down nowhere. *)
LEMMA ManagerStartBelongs ==
  ASSUME NoReuse, IInv, NEW n \in Names, NEW p \in Pids, ManagerStarts(n, p)
  PROVE  PidsBelong' /\ IdleHoldsNothing'
<1>0. /\ PidsBelong /\ IdleHoldsNothing /\ owner \in [Pids -> Names \cup {NoName}]
      /\ NoPid \notin Pids
  BY PidAssumption DEF IInv, TypeOK, ProcTypeOK
<1>1. /\ UNCHANGED <<pid, pidfile, pc, svc, seen>>
      /\ owner' = [owner EXCEPT ![p] = n]
  BY DEF ManagerStarts, Spawn, dbVars, clientVars
<1>2. ~Referenced(p)
  BY DEF ManagerStarts, Free, NoReuse
<1>3. QED
  BY <1>0, <1>1, <1>2 DEF PidsBelong, IdleHoldsNothing, Referenced

LEMMA BootedIInvPreserved ==
  ASSUME NoReuse
  PROVE  BootedTypeOK /\ IInv /\ BootedTypeOK' /\ [BootedNext]_bootVars => IInv'
<1> SUFFICES ASSUME BootedTypeOK, IInv, BootedTypeOK', [BootedNext]_bootVars
             PROVE  IInv'
  OBVIOUS
<1>1. CASE [Next]_vars
  BY <1>1, IInvPreserved
<1>2. CASE \E n \in Names, p \in Pids : ManagerStarts(n, p)
  BY <1>2, ManagerStartBelongs DEF BootedTypeOK, IInv
<1>3. CASE /\ UNCHANGED <<dbVars, owner, fileVars>>
           /\ \A c \in Clients :
                \/ pc'[c] = pc[c] /\ svc'[c] = svc[c] /\ seen'[c] = seen[c]
                \/ seen'[c] = NoPid
  BY <1>3, QuietStepBelongs DEF BootedTypeOK, IInv, dbVars, fileVars
<1>4. QED
  BY <1>1, <1>2, <1>3, BootedStep

(* No state row without its service, whatever the managers do and at       *)
(* whichever statement the machine goes down (database.cc:78-125).         *)
THEOREM NoOrphanStateRowsAcrossBoots == BootedSpec => []StateRowsHaveServices
<1>1. BootedTypeOK /\ StateRowsHaveServices /\ [BootedNext]_bootVars
        => StateRowsHaveServices'
  BY BootedDbStep, StatementsKeepServices
<1>2. BootedInit => StateRowsHaveServices
  BY RowsInitially DEF BootedInit
<1>3. QED
  BY <1>1, <1>2, BootedTypeCorrect, PTL DEF BootedSpec

(* A stopped row holds no pid after a reboot either: none is there to be   *)
(* taken for a process of the new boot                                     *)
(* (service_registry.cc:89-92, 262-266, 301-304, 328-332).                 *)
THEOREM NoPidWhenStoppedAcrossBoots == BootedSpec => []StoppedRowsHoldNoPid
<1>1. BootedTypeOK /\ StoppedRowsHoldNoPid /\ [BootedNext]_bootVars
        => StoppedRowsHoldNoPid'
  BY BootedDbStep, StatementsKeepStopped DEF BootedTypeOK, TypeOK
<1>2. BootedInit => StoppedRowsHoldNoPid
  BY RowsInitially DEF BootedInit
<1>3. QED
  BY <1>1, <1>2, BootedTypeCorrect, PTL DEF BootedSpec

(* Between two boots: after one, pids are given out from the beginning     *)
(* while those of the last boot still stand in rows and files, so that no  *)
(* assumption against reuse is justified.                                  *)
WithinABoot == NoReuse /\ "reboot" \notin Faults

(* Within a boot two services never mix, although a manager launches       *)
(* daemons of its own that write into the same PID files, fail and come    *)
(* back with other pids, and the registry knows nothing of them            *)
(* (service_registry.cc:255-266, 281-296, pid_file.cc:11-24).              *)
THEOREM PidsNeverMixBesideManagers ==
  ASSUME WithinABoot
  PROVE  BootedSpec => []PidsBelong
<1>1. BootedInit => IInv
  BY IInvInitially DEF BootedInit
<1>2. BootedTypeOK /\ IInv /\ BootedTypeOK' /\ [BootedNext]_bootVars => IInv'
  BY BootedIInvPreserved DEF WithinABoot
<1>3. IInv => PidsBelong
  BY DEF IInv
<1>4. QED
  BY <1>1, <1>2, <1>3, BootedTypeCorrect, PTL DEF BootedSpec

(* ... and stop and remove signal only a daemon of the service they work   *)
(* on, also when it was its manager that launched it                       *)
(* (service_registry.cc:281-315, platform_service.cc:52-456).              *)
THEOREM OnlyOwnDaemonsAreSignalledBesideManagers ==
  ASSUME WithinABoot
  PROVE  BootedSpec => []SignalsOwnDaemon
<1>1. BootedInit => IInv
  BY IInvInitially DEF BootedInit
<1>2. BootedTypeOK /\ IInv /\ BootedTypeOK' /\ [BootedNext]_bootVars => IInv'
  BY BootedIInvPreserved DEF WithinABoot
<1>3. QED
  BY <1>1, <1>2, SignalledPidsBelong, BootedTypeCorrect, PTL DEF BootedSpec

-----------------------------------------------------------------------------
(* What a boot starts, on launchd and rc.d: every installed service, unless *)
(* an install or remove was cut short.  Commands may work on one service at *)
(* once: one that has taken a definition away deletes the record as well.  *)

Defining == {"insert_state", "platform_install", "uninstall", "delete_service"}

(* c is writing or deleting the definition of n, or about to. *)
Settling(c, n) == svc[c] = n /\ pc[c] \in Defining

StartsAtBoot(n) == n \in units /\ (platform = "rcd" => n \in enabled)

StartInv ==
  /\ \A n \in services :
       StartsAtBoot(n) \/ \E c \in Clients : Settling(c, n)
  /\ \A c \in Clients :
       stage[c] = "enable" /\ svc[c] \in services =>
         \/ svc[c] \in units
         \/ \E d \in Clients : Settling(d, svc[c]) /\ stage[d] # "enable"

Uncut == Reboot => \A c \in Clients : pc[c] \notin Defining

(* A row comes and goes with a command that is settling its definition. *)
LEMMA RecordsAreSettling ==
  ASSUME TypeOK, Faults \cap {"busy", "clicrash", "unitfail"} = {},
         NEW c \in Clients, RegistryStep(c)
  PROVE  /\ pc[c] = "insert_state" =>
              pc'[c] = "platform_install" /\ svc'[c] = svc[c]
         /\ pc[c] = "delete_service" => svc[c] \notin services'
         /\ \A n \in services' \ services : Settling(c, n)'
<1>0. ClientTypeOK
  BY DEF TypeOK
<1>1. CASE InsertService(c)
  <2>1. pc[c] = "insert_service"
    BY <1>1 DEF InsertService
  <2>2. CASE InsertServiceRow(svc[c]) /\ Go(c, "insert_state", NoPid)
    <3>1. services' = services \cup {svc[c]} /\ svc' = svc /\ pc'[c] = "insert_state"
      BY <1>0, <2>2 DEF InsertServiceRow, Go, ClientTypeOK
    <3>2. QED
      BY <2>1, <3>1 DEF Settling, Defining
  <2>3. CASE UNCHANGED dbVars
    BY <2>1, <2>3 DEF dbVars
  <2>4. QED
    BY <1>1, <2>2, <2>3 DEF InsertService
<1>2. CASE InsertState(c)
  <2>1. /\ pc[c] = "insert_state" /\ services' = services
        /\ Go(c, "platform_install", NoPid)
    BY <1>2 DEF InsertState, InsertStateRow, dbVars
  <2>2. QED
    BY <1>0, <2>1 DEF Go, ClientTypeOK, Settling
<1>3. CASE DeleteService(c)
  BY <1>3 DEF DeleteService, DeleteServiceRow, dbVars
<1>4. CASE ~(InsertService(c) \/ InsertState(c) \/ DeleteService(c))
  <2>1. services' = services
    BY <1>4
       DEF RegistryStep, GetService, GetState, Probe, Correct, ReportRunning,
           ListServices, ListNext, Launch, LaunchFails, ReadPidFile,
           RecordStart, StopGetService, StopGetState, StopReadPid, StopProbe,
           StopMark, Kill, WaitExit, StopRecord, StopUnlink, RemovePidFile,
           RemoveLogs, TryUpdateState, UpdateState, dbVars
  <2>2. pc[c] \notin {"insert_state", "delete_service"}
    BY <1>4
       DEF RegistryStep, GetService, GetState, Probe, Correct, ReportRunning,
           ListServices, ListNext, Launch, LaunchFails, ReadPidFile,
           RecordStart, StopGetService, StopGetState, StopReadPid, StopProbe,
           StopMark, Kill, WaitExit, StopRecord, StopUnlink, RemovePidFile,
           RemoveLogs
  <2>3. QED
    BY <2>1, <2>2
<1>5. QED
  BY <1>1, <1>2, <1>3, <1>4

LEMMA RegistryStepSettles ==
  ASSUME ManInv, StartInv, Faults \cap {"busy", "clicrash", "unitfail"} = {},
         NEW c \in Clients, RegistryStep(c), UNCHANGED platformVars
  PROVE  StartInv'
<1>0. /\ TypeOK /\ Inside(c) /\ stage \in [Clients -> Stages]
      /\ UNCHANGED <<platform, stage, enabled>>
  BY DEF ManInv, BootedTypeOK, platformVars
<1>1. /\ UNCHANGED units /\ stage[c] = "begin"
      /\ pc[c] \notin {"platform_install", "uninstall"}
      /\ \A d \in Clients \ {c} : pc'[d] = pc[d] /\ svc'[d] = svc[d]
  BY <1>0, RegistryStepControl DEF Inside, Stages
<1>2. ASSUME NEW n \in services', NEW d \in Clients, Settling(d, n), n \in services
      PROVE  Settling(d, n)'
  <2>1. CASE d # c
    BY <1>1, <1>2, <2>1 DEF Settling
  <2>2. CASE d = c
    BY <1>0, <1>1, <1>2, <2>2, RecordsAreSettling DEF Settling, Defining
  <2>3. QED
    BY <2>1, <2>2
<1>3. ASSUME NEW n \in services'
      PROVE  StartsAtBoot(n)' \/ \E d \in Clients : Settling(d, n)'
  BY <1>0, <1>1, <1>2, <1>3, RecordsAreSettling DEF StartInv, StartsAtBoot
<1>4. ASSUME NEW d \in Clients, stage'[d] = "enable", svc'[d] \in services'
      PROVE  \/ svc'[d] \in units'
             \/ \E e \in Clients : Settling(e, svc[d])' /\ stage'[e] # "enable"
  <2>0. d # c /\ svc'[d] = svc[d] /\ stage[d] = "enable"
    BY <1>0, <1>1, <1>4
  <2>1. CASE svc[d] \in services
    <3>1. CASE svc[d] \in units
      BY <1>1, <2>0, <3>1
    <3>2. CASE \E e \in Clients : Settling(e, svc[d]) /\ stage[e] # "enable"
      <4>1. PICK e \in Clients : Settling(e, svc[d]) /\ stage[e] # "enable"
        BY <3>2
      <4>2. PICK n \in services' : n = svc[d]
        BY <1>4, <2>0
      <4>3. Settling(e, n)'
        BY <1>2, <2>1, <4>1, <4>2
      <4>4. QED
        BY <1>0, <2>0, <4>1, <4>2, <4>3 DEF Settling
    <3>3. QED
      BY <2>0, <2>1, <3>1, <3>2 DEF StartInv
  <2>2. CASE svc[d] \notin services
    BY <1>0, <1>1, <1>4, <2>0, <2>2, RecordsAreSettling DEF Settling
  <2>3. QED
    BY <2>1, <2>2
<1>5. QED
  BY <1>3, <1>4 DEF StartInv

LEMMA DefinitionStepSettles ==
  ASSUME ManInv, StartInv, Faults \cap {"busy", "clicrash", "unitfail"} = {},
         NEW c \in Clients, DefinitionStep(c)
  PROVE  StartInv'
<1>0. /\ ClientTypeOK /\ stage \in [Clients -> Stages] /\ Inside(c)
      /\ platform \in {"systemd", "systemd_user", "launchd", "rcd"}
      /\ UNCHANGED <<dbVars, platform>>
  BY PlatformAssumption
     DEF ManInv, BootedTypeOK, TypeOK, DefinitionStep, WriteDefinition,
         EnableDefinition, StopDefinition, DisableDefinition, DeleteDefinition,
         Uninstall, vars
<1>1. /\ services' = services
      /\ \A d \in Clients \ {c} :
           pc'[d] = pc[d] /\ svc'[d] = svc[d] /\ stage'[d] = stage[d]
      /\ \A n \in Names \ {svc[c]} : n \in units' <=> n \in units
  BY <1>0, DefinitionStepIsLocal DEF ManInv, dbVars
<1>2. \A d \in Clients \ {c}, n \in services : Settling(d, n) => Settling(d, n)'
  BY <1>1 DEF Settling
<1>3. CASE StopDefinition(c) \/ DisableDefinition(c) \/ DeleteDefinition(c)
  <2>1. svc' = svc /\ stage[c] # "enable" /\ stage'[c] # "enable"
        /\ pc[c] = "uninstall" /\ pc'[c] \in {"uninstall", "delete_service"}
        /\ \A n \in Names \ {svc[c]} : n \in enabled => n \in enabled'
    BY <1>0, <1>3
       DEF StopDefinition, DisableDefinition, DeleteDefinition, Uninstall, Go,
           ClientTypeOK, vars, clientVars
  <2>2. Settling(c, svc[c]) /\ Settling(c, svc[c])'
    BY <2>1 DEF Settling, Defining
  <2>3. ASSUME NEW n \in services
        PROVE  StartsAtBoot(n)' \/ \E d \in Clients : Settling(d, n)'
    <3>1. CASE n = svc[c]
      BY <2>1, <2>2, <3>1 DEF Settling
    <3>2. CASE n # svc[c]
      <4>1. n \in Names
        BY DEF ManInv, BootedTypeOK, TypeOK, DbTypeOK
      <4>2. CASE StartsAtBoot(n)
        BY <1>0, <1>1, <2>1, <3>2, <4>1, <4>2 DEF StartsAtBoot
      <4>3. CASE \E d \in Clients : Settling(d, n)
        BY <1>2, <3>2, <4>3 DEF Settling
      <4>4. QED
        BY <4>2, <4>3 DEF StartInv
    <3>3. QED
      BY <3>1, <3>2
  <2>4. ASSUME NEW d \in Clients, stage'[d] = "enable", svc'[d] \in services
        PROVE  \/ svc'[d] \in units'
               \/ \E e \in Clients : Settling(e, svc[d])' /\ stage'[e] # "enable"
    <3>1. d # c /\ svc[d] \in services /\ stage[d] = "enable"
      BY <1>1, <2>1, <2>4
    <3>2. CASE svc[d] = svc[c]
      BY <2>1, <2>2, <3>2
    <3>3. CASE svc[d] # svc[c] /\ svc[d] \in units
      <4>1. svc[d] \in Names
        BY <3>1 DEF ManInv, BootedTypeOK, TypeOK, DbTypeOK
      <4>2. QED
        BY <1>1, <2>1, <3>3, <4>1
    <3>4. CASE /\ svc[d] # svc[c]
               /\ \E e \in Clients : Settling(e, svc[d]) /\ stage[e] # "enable"
      <4>1. PICK e \in Clients : Settling(e, svc[d]) /\ stage[e] # "enable"
        BY <3>4
      <4>2. e # c
        BY <3>4, <4>1 DEF Settling
      <4>3. PICK n \in services : n = svc[d]
        BY <3>1
      <4>4. Settling(e, n)' /\ stage'[e] # "enable"
        BY <1>1, <1>2, <4>1, <4>2, <4>3
      <4>5. QED
        BY <2>1, <4>3, <4>4 DEF Settling
    <3>5. QED
      BY <3>1, <3>2, <3>3, <3>4 DEF StartInv
  <2>5. QED
    BY <1>1, <2>1, <2>3, <2>4 DEF StartInv
<1>4. CASE WriteDefinition(c)
  <2>1. /\ pc[c] = "platform_install" /\ stage[c] = "begin"
        /\ units' = units \cup {svc[c]} /\ UNCHANGED enabled
    BY <1>4 DEF WriteDefinition
  <2>2. \/ platform # "rcd" /\ stage' = stage
        \/ /\ platform = "rcd" /\ stage'[c] = "enable"
           /\ pc'[c] = pc[c] /\ svc'[c] = svc[c]
    BY <1>0, <1>4 DEF WriteDefinition, clientVars
  <2>3. ASSUME NEW n \in services
        PROVE  StartsAtBoot(n)' \/ \E d \in Clients : Settling(d, n)'
    <3>1. StartsAtBoot(n) => StartsAtBoot(n)'
      BY <1>0, <2>1 DEF StartsAtBoot
    <3>2. Settling(c, n) => StartsAtBoot(n)' \/ Settling(c, n)'
      BY <1>0, <2>1, <2>2 DEF StartsAtBoot, Settling
    <3>3. QED
      BY <1>2, <3>1, <3>2 DEF StartInv
  <2>4. ASSUME NEW d \in Clients, stage'[d] = "enable", svc'[d] \in services
        PROVE  \/ svc'[d] \in units'
               \/ \E e \in Clients : Settling(e, svc[d])' /\ stage'[e] # "enable"
    <3>1. CASE d = c
      BY <2>1, <2>2, <2>4, <3>1
    <3>2. CASE d # c
      <4>1. PICK n \in services : n = svc[d] /\ n = svc'[d]
        BY <1>1, <2>4, <3>2
      <4>2. CASE n \in units
        BY <2>1, <4>1, <4>2
      <4>3. CASE \E e \in Clients : Settling(e, n) /\ stage[e] # "enable"
        <5>1. PICK e \in Clients : Settling(e, n) /\ stage[e] # "enable"
          BY <4>3
        <5>2. CASE e = c
          BY <2>1, <4>1, <5>1, <5>2 DEF Settling
        <5>3. CASE e # c
          <6>1. Settling(e, n)' /\ stage'[e] # "enable"
            BY <1>1, <1>2, <5>1, <5>3
          <6>2. QED
            BY <4>1, <6>1 DEF Settling
        <5>4. QED
          BY <5>2, <5>3
      <4>4. stage[d] = "enable"
        BY <1>1, <2>4, <3>2
      <4>5. QED
        BY <4>1, <4>2, <4>3, <4>4 DEF StartInv
    <3>3. QED
      BY <3>1, <3>2
  <2>5. QED
    BY <1>1, <2>3, <2>4 DEF StartInv
<1>5. CASE EnableDefinition(c)
  <2>1. /\ stage[c] = "enable" /\ units' = units /\ stage'[c] = "begin"
        /\ enabled' = enabled \cup {svc[c]}
    BY <1>0, <1>5 DEF EnableDefinition
  <2>2. \A d \in Clients :
          (d # c /\ stage'[d] = stage[d]) \/ stage'[d] # "enable"
    BY <1>1, <2>1
  <2>3. ASSUME NEW n \in services
        PROVE  StartsAtBoot(n)' \/ \E d \in Clients : Settling(d, n)'
    <3>1. StartsAtBoot(n) => StartsAtBoot(n)'
      BY <1>0, <2>1 DEF StartsAtBoot
    <3>2. CASE Settling(c, n)
      <4>1. n = svc[c]
        BY <3>2 DEF Settling
      <4>2. CASE n \in units
        BY <1>0, <2>1, <4>1, <4>2 DEF StartsAtBoot
      <4>3. CASE \E e \in Clients : Settling(e, n) /\ stage[e] # "enable"
        BY <1>2, <2>1, <4>3
      <4>4. QED
        BY <2>1, <4>1, <4>2, <4>3 DEF StartInv
    <3>3. QED
      BY <1>2, <3>1, <3>2 DEF StartInv
  <2>4. ASSUME NEW d \in Clients, stage'[d] = "enable", svc'[d] \in services
        PROVE  \/ svc'[d] \in units'
               \/ \E e \in Clients : Settling(e, svc[d])' /\ stage'[e] # "enable"
    <3>1. PICK n \in services : n = svc[d] /\ n = svc'[d] /\ stage[d] = "enable"
      BY <1>1, <2>2, <2>4
    <3>2. CASE n \in units
      BY <2>1, <3>1, <3>2
    <3>3. CASE \E e \in Clients : Settling(e, n) /\ stage[e] # "enable"
      <4>1. PICK e \in Clients : Settling(e, n) /\ stage[e] # "enable"
        BY <3>3
      <4>2. Settling(e, n)' /\ stage'[e] # "enable"
        BY <1>1, <1>2, <2>1, <4>1
      <4>3. QED
        BY <3>1, <4>2 DEF Settling
    <3>4. QED
      BY <3>1, <3>2, <3>3 DEF StartInv
  <2>5. QED
    BY <1>1, <2>3, <2>4 DEF StartInv
<1>6. QED
  BY <1>3, <1>4, <1>5 DEF DefinitionStep

(* Processes, managers and the user leave commands and definitions alone,  *)
(* commands come with nothing in hand, and a boot finds nothing half done. *)
LEMMA OtherStepsSettle ==
  ASSUME ManInv, StartInv, Faults \cap {"busy", "clicrash", "unitfail"} = {},
         Platforms \subseteq {"launchd", "rcd"}, Uncut, ManagerStep \/ LeavingStep
  PROVE  StartInv'
<1>s. platform \in {"launchd", "rcd"}
  BY DEF ManInv, BootedTypeOK
<1>0. /\ ClientTypeOK /\ stage \in [Clients -> Stages] /\ ~Systemd
      /\ \A c \in Clients : Inside(c)
  BY <1>s DEF ManInv, BootedTypeOK, TypeOK, Systemd
<1>1. CASE ManagerStep
  <2>1. UNCHANGED <<services, pc, svc, units, platform, stage, enabled>>
    BY <1>0, <1>1, ManagerFacts DEF dbVars, clientVars
  <2>2. QED
    BY <2>1 DEF StartInv, StartsAtBoot, Settling
<1>2. CASE Reboot
  <2>1. /\ UNCHANGED <<services, units, platform, enabled>>
        /\ \A c \in Clients : stage'[c] = "begin" /\ pc[c] \notin Defining
    BY <1>2 DEF Reboot, Uncut, dbVars
  <2>2. QED
    BY <2>1 DEF StartInv, StartsAtBoot, Settling
<1>3. ASSUME NEW c \in Clients, BootedUser(c) PROVE StartInv'
  <2>1. PICK o \in Ops, n \in Names : Begin(c, o, n)
    BY <1>3 DEF BootedUser, UserStep, ClientCrash
  <2>2. /\ UNCHANGED <<services, units, platform, enabled>>
        /\ pc[c] = "idle" /\ stage'[c] = "begin"
        /\ \A d \in Clients \ {c} :
             pc'[d] = pc[d] /\ svc'[d] = svc[d] /\ stage'[d] = stage[d]
    BY <1>0, <1>3, <2>1
       DEF BootedUser, UserStep, Begin, ClientTypeOK, dbVars
  <2>3. \A d \in Clients, m \in services : Settling(d, m) =>
          d # c /\ Settling(d, m)' /\ stage'[d] = stage[d]
    BY <2>2 DEF Settling, Defining
  <2>4. QED
    BY <2>2, <2>3 DEF StartInv, StartsAtBoot, Settling
<1>4. QED
  BY <1>1, <1>2, <1>3 DEF LeavingStep

LEMMA StartInvPreserved ==
  ASSUME Faults \cap {"busy", "clicrash", "unitfail"} = {},
         Platforms \subseteq {"launchd", "rcd"}
  PROVE  ManInv /\ StartInv /\ [BootedNext /\ Uncut]_bootVars => StartInv'
<1> SUFFICES ASSUME ManInv, StartInv, [BootedNext /\ Uncut]_bootVars
             PROVE  StartInv'
  OBVIOUS
<1>1. CASE UNCHANGED bootVars
  BY <1>1
     DEF StartInv, StartsAtBoot, Settling, bootVars, platformVars, vars, dbVars,
         clientVars
<1>2. CASE BootedNext /\ Uncut
  BY <1>2, RegistryStepSettles, DefinitionStepSettles, OtherStepsSettle
     DEF BootedNext, BootedClient, ManagerStep, LeavingStep
<1>3. QED
  BY <1>1, <1>2

(* "All platforms start services at boot when installed" is true of        *)
(* launchd and rc.d, for every service and however commands interleave, as *)
(* long as no write fails and no install or remove is cut short: what is   *)
(* installed is due after every boot (service_registry.cc:111-126,         *)
(* 157-163, platform_service.cc:177-200, 401-456; docs/releases/v0.3.0.md).*)
THEOREM LaunchdAndRcdStartAtBoot ==
  ASSUME Faults \cap {"busy", "clicrash", "unitfail"} = {},
         Platforms \subseteq {"launchd", "rcd"}
  PROVE  BootedSpec /\ [][Uncut]_bootVars => InstalledStartAtBoot
<1>1. BootedInit => StartInv
  BY DEF BootedInit, Init, DbInit, StartInv
<1>2. ManInv /\ StartInv /\ [Uncut]_bootVars /\ [BootedNext]_bootVars => StartInv'
  BY StartInvPreserved
<1>3. ManInv /\ StartInv /\ [Uncut]_bootVars
        => [Reboot => \A n \in services : ~Busy(n) => n \in due']_bootVars
  <2> SUFFICES ASSUME ManInv, StartInv, Uncut, Reboot, NEW n \in services
               PROVE  n \in due'
    BY DEF Uncut
  <2>1. \A c \in Clients : ~Settling(c, n)
    BY DEF Uncut, Settling
  <2>2. platform \in {"launchd", "rcd"} /\ StartsAtBoot(n)
    BY <2>1, PlatformAssumption DEF StartInv, ManInv, BootedTypeOK
  <2>3. QED
    BY <2>2 DEF Reboot, AutoStarted, StartsAtBoot
<1>4. QED
  BY <1>1, <1>2, <1>3, ManInvInitially, ManInvPreserved, PTL
     DEF BootedSpec, InstalledStartAtBoot

=============================================================================
