---------------------- MODULE UnmanagedRegistryProofs ----------------------
(***************************************************************************)
(* What CalmRegistryProofs proves of ServiceRegistry holds in              *)
(* BootedService too, where install and uninstall are the file operations  *)
(* and shell commands they are made of, as long as no manager has anything *)
(* to start.  On launchd and rc.d none ever has before a boot, and on      *)
(* systemd none has, booted or not, until somebody uses systemctl.         *)
(***************************************************************************)
EXTENDS BootedServiceProofs, CalmRegistryProofs

Unmanaged == due \cup managed = {}

(* Every step is one of ServiceRegistry, but for the first half of rc.d's  *)
(* install, whose script is there before its line.  uninstall ends no      *)
(* process: remove has stopped the daemon, and no manager runs another.    *)
LEMMA StepsOfTheRegistry ==
  ASSUME ~Reboot, DefInv, CalmInv, Unmanaged, [BootedNext]_bootVars
  PROVE  \/ [Next]_vars
         \/ \E c \in Clients :
              /\ pc[c] = "platform_install" /\ units' = units \cup {svc[c]}
              /\ UNCHANGED <<dbVars, procVars, fileVars, clientVars>>
<1>1. ASSUME NEW c \in Clients,
             BootedUser(c) \/ RegistryStep(c) \/ DeleteDefinition(c)
      PROVE  Next
  BY <1>1
     DEF BootedUser, DeleteDefinition, Next, ClientStep, PlatformStep
<1>2. ASSUME NEW c \in Clients, WriteDefinition(c), ~PlatformInstall(c)
      PROVE  /\ pc[c] = "platform_install" /\ units' = units \cup {svc[c]}
             /\ UNCHANGED <<dbVars, procVars, fileVars, clientVars>>
  BY <1>2 DEF WriteDefinition, PlatformInstall
<1>3. ASSUME NEW c \in Clients, EnableDefinition(c) PROVE PlatformInstall(c)
  <2>1. svc[c] \in units
    BY <1>3 DEF EnableDefinition, DefInv, Between
  <2>2. QED
    BY <1>3, <2>1 DEF EnableDefinition, PlatformInstall
<1>4. ASSUME NEW c \in Clients, StopDefinition(c) PROVE UNCHANGED vars
  <2>1. ProcTypeOK
    BY DEF DefInv, ManInv, BootedTypeOK, TypeOK
  <2>2. LiveDaemons(svc[c]) = {}
    BY <1>4 DEF StopDefinition, CalmInv, At, Alone, HasNone
  <2>3. EndProcesses({}) \/ UNCHANGED <<phase, termed>>
    <3>1. Stopped(svc[c]) = {}
      BY <2>2 DEF Stopped, Unmanaged
    <3>2. QED
      BY <1>4, <3>1 DEF StopDefinition
  <2>4. UNCHANGED <<phase, termed>>
    BY <2>1, <2>3 DEF EndProcesses, ProcTypeOK
  <2>5. QED
    BY <1>4, <2>4 DEF StopDefinition, vars, procVars
<1>5. ASSUME NEW c \in Clients, DisableDefinition(c) PROVE UNCHANGED vars
  BY <1>5 DEF DisableDefinition
<1>6. ASSUME NEW p \in Pids, ProcessFails(p) \/ ProcessRuns(p) PROVE Next
  BY <1>6, ProcessStepIsEnvironment DEF Next
<1>7. ASSUME NEW n \in Names, UserEnables(n) \/ UserStarts(n)
      PROVE  UNCHANGED vars
  BY <1>7 DEF UserEnables, UserStarts
<1>8. \A n \in Names, p \in Pids : ~ManagerStarts(n, p)
  BY DEF ManagerStarts, Unmanaged
<1>9. CASE UNCHANGED bootVars
  BY <1>9 DEF bootVars
<1>10. QED
  BY <1>1, <1>2, <1>3, <1>4, <1>5, <1>6, <1>7, <1>8, <1>9
     DEF BootedNext, BootedClient, DefinitionStep, Next, ClientStep, PlatformStep

(* A registered service may have its script before its line. *)
LEMMA ScriptKeeps ==
  ASSUME CalmInv, NEW c \in Clients,
         pc[c] = "platform_install", units' = units \cup {svc[c]},
         UNCHANGED <<dbVars, procVars, fileVars, clientVars>>
  PROVE  CalmInv'
<1>0. /\ TypeOK /\ Apart /\ svc[c] \in Names /\ At(pc[c], svc[c], seen[c])
      /\ UNCHANGED <<pc, op, svc, seen, todo, services>>
  BY DEF CalmInv, TypeOK, ClientTypeOK, Named, Labels, clientVars, dbVars
<1> PICK n \in Names : n = svc[c]
  BY <1>0
<1>1. \A m \in Names : m # n => Shrinks(m)
  BY DEF Shrinks, dbVars, procVars, fileVars
<1>2. Tracked(n)' /\ HasNone(n)'
  BY <1>0
     DEF At, Knowing, Alone, Tracked, HasNone, LiveDaemons, dbVars, procVars,
         fileVars
<1>3. TypeOK'
  BY <1>0
     DEF TypeOK, DbTypeOK, ProcTypeOK, ClientTypeOK, dbVars, procVars, fileVars,
         clientVars
<1>4. Apart'
  BY <1>0 DEF Apart
<1>5. \A m \in Names :
        AtRest(m)' \/ \E d \in Clients : svc'[d] = m /\ pc'[d] \in Midway
  BY <1>0, <1>1, <1>2, ShrinkingKeeps DEF CalmInv, AtRest
<1>6. At("platform_install", n, seen[c])'
  BY <1>2 DEF At, Knowing, Holding
<1>7. At(pc[c], svc[c], seen[c])' /\ Found(c)'
  <2>1. At(pc[c], svc[c], seen[c])'
    BY <1>0, <1>6
       DEF At, Tracked, HasNone, LiveDaemons, Clean, Launched, Read, Deleted
  <2>2. QED
    BY <1>0, <2>1 DEF CalmInv, Found
<1>8. \A d \in Clients \ {c} : At(pc[d], svc[d], seen[d])' /\ Found(d)'
  BY <1>0, <1>1, OtherCommandsStay DEF Apart
<1>9. QED
  BY <1>3, <1>4, <1>5, <1>7, <1>8 DEF CalmInv

(* The machine goes down when no command is running. *)
IdleReboot == Reboot => \A c \in Clients : pc[c] = "idle"

(* Every daemon goes and nothing else does: what was at rest stays so. *)
LEMMA RebootKeeps ==
  ASSUME ManInv, ManInv', CalmInv, Reboot, IdleReboot
  PROVE  CalmInv'
<1>1. \A n \in Names : AtRest(n)
  BY DEF IdleReboot, CalmInv, Midway
<1>2. \A n \in Names : Shrinks(n)
  BY DEF Reboot, EndProcesses, Shrinks, dbVars, fileVars
<1>3. \A n \in Names : AtRest(n)'
  BY <1>1, <1>2, ShrinkingKeeps
<1>4. \A c \in Clients : pc'[c] = "idle" /\ svc'[c] = NoName
  BY DEF Reboot
<1>5. Apart'
  BY <1>4, ProcessAssumption DEF Apart
<1>6. ASSUME NEW c \in Clients
      PROVE  At(pc[c], svc[c], seen[c])' /\ Found(c)'
  BY <1>4 DEF At, Knowing, Alone, Holding, Found, Fits
<1>7. QED
  BY <1>3, <1>5, <1>6 DEF ManInv, BootedTypeOK, CalmInv

LEMMA UnmanagedStepKeeps ==
  ASSUME Calm
  PROVE  DefInv /\ DefInv' /\ CalmInv /\ Unmanaged
           /\ [BootedNext]_bootVars /\ [IdleReboot]_bootVars => CalmInv'
<1> SUFFICES ASSUME DefInv, DefInv', CalmInv, Unmanaged,
                    [BootedNext]_bootVars, [IdleReboot]_bootVars
             PROVE  CalmInv'
  OBVIOUS
<1>1. CASE ~Reboot
  BY <1>1, StepsOfTheRegistry, ScriptKeeps, CalmPreserved DEF DefInv
<1>2. CASE Reboot /\ IdleReboot
  BY <1>2, RebootKeeps DEF DefInv
<1>3. CASE UNCHANGED bootVars
  <2>1. [Next]_vars
    BY <1>3 DEF bootVars
  <2>2. QED
    BY <2>1, CalmPreserved DEF DefInv
<1>4. QED
  BY <1>1, <1>2, <1>3

LEMMA UnmanagedAlways ==
  ASSUME Calm
  PROVE  BootedSpec /\ []Apart /\ []Unmanaged /\ [][IdleReboot]_bootVars
           => [](DefInv /\ CalmInv)
<1>1. BootedInit => CalmInv
  BY CalmInitially DEF BootedInit
<1>2. QED
  BY <1>1, UnmanagedStepKeeps, DefInvInitially, DefInvPreserved, PTL DEF BootedSpec

-----------------------------------------------------------------------------
(* What the registry promises it keeps, whatever install and uninstall do  *)
(* on the way and wherever they fail, and whenever the machine goes down   *)
(* between two commands, as long as no manager has anything to start       *)
(* (service_registry.cc:101-339, platform_service.cc:52-456).              *)
THEOREM RegistryKeepsItsPromises ==
  ASSUME Calm
  PROVE  BootedSpec /\ []Apart /\ []Unmanaged /\ [][IdleReboot]_bootVars =>
           [](/\ AtMostOneDaemon /\ LiveDaemonsAreTracked
              /\ PidFileNamesDaemon /\ RemoveCleansUp /\ StopsLeaveNoDaemon)
<1>1. CalmInv => AtMostOneDaemon /\ StopsLeaveNoDaemon
  BY CalmAtMostOne, StoppedIsAlone
<1>2. CalmInv => LiveDaemonsAreTracked /\ PidFileNamesDaemon /\ RemoveCleansUp
  BY IdleIsAtRest
     DEF LiveDaemonsAreTracked, PidFileNamesDaemon, RemoveCleansUp, AtRest,
         Clean, Tracked, HasNone
<1>3. QED
  BY <1>1, <1>2, UnmanagedAlways, PTL

(* ... and with it the life cycle that the documentation describes         *)
(* (docs/wiki/Service-Lifecycle.md).                                       *)
THEOREM LifecycleInEveryDetail ==
  ASSUME Calm, "reboot" \notin Faults
  PROVE  BootedSpec /\ []Apart /\ []Unmanaged => ImplementsLifecycle
<1>1. BootedInit => Lifecycle!Init
  BY LifecycleInitially DEF BootedInit
<1>0. ~Reboot
  BY DEF Reboot
<1>2. DefInv /\ CalmInv /\ CalmInv' /\ Unmanaged /\ [BootedNext]_bootVars
        => [Lifecycle!Next]_(Lifecycle!vars)
  <2> SUFFICES ASSUME DefInv, CalmInv, CalmInv', Unmanaged,
                      [BootedNext]_bootVars
               PROVE  [Lifecycle!Next]_(Lifecycle!vars)
    OBVIOUS
  <2>1. CASE [Next]_vars
    BY <2>1, LifecycleStep
  <2>2. CASE UNCHANGED <<dbVars, procVars>>
    <3>1. \A n \in Names : LiveDaemons(n)' = LiveDaemons(n)
      BY <2>2 DEF LiveDaemons, procVars
    <3>2. QED
      BY <2>2, <3>1, StutterStep
  <2>3. QED
    BY <1>0, <2>1, <2>2, StepsOfTheRegistry
<1>3. [IdleReboot]_bootVars
  BY <1>0 DEF IdleReboot
<1>4. QED
  BY <1>1, <1>2, <1>3, UnmanagedAlways, PTL
     DEF BootedSpec, ImplementsLifecycle, Lifecycle!Spec

(* launchd and rc.d start nothing before a boot: only systemd lets a user  *)
(* start a unit, and only it restarts what it runs                         *)
(* (platform_service.cc:105-175, 360-405).                                 *)
THEOREM NothingIsDueBeforeABoot ==
  ASSUME Platforms \subseteq {"launchd", "rcd"}, "reboot" \notin Faults
  PROVE  BootedSpec => []Unmanaged
<1>1. BootedInit => BootedTypeOK /\ Unmanaged
  BY ManInvInitially DEF ManInv, BootedInit, Unmanaged
<1>2. ManInv /\ Unmanaged /\ [BootedNext]_bootVars => Unmanaged'
  <2> SUFFICES ASSUME ManInv, Unmanaged, [BootedNext]_bootVars
               PROVE  Unmanaged'
    OBVIOUS
  <2>0. platform \in {"launchd", "rcd"} /\ due = {} /\ managed = {}
    BY DEF ManInv, BootedTypeOK, Unmanaged
  <2>1. CASE \E c \in Clients : BootedUser(c) \/ BootedClient(c)
    BY <2>0, <2>1
       DEF BootedUser, BootedClient, DefinitionStep, WriteDefinition,
           EnableDefinition, StopDefinition, DisableDefinition,
           DeleteDefinition, EndProcesses, platformVars, Unmanaged
  <2>2. CASE ManagerStep \/ Reboot
    BY <2>0, <2>2
       DEF ManagerStep, ProcessFails, ProcessRuns, UserEnables, UserStarts,
           UserAsks, Systemd, ManagerStarts, Reboot, Unmanaged
  <2>3. CASE UNCHANGED bootVars
    BY <2>0, <2>3 DEF bootVars, platformVars, Unmanaged
  <2>4. QED
    BY <2>1, <2>2, <2>3 DEF BootedNext, ManagerStep
<1>3. QED
  BY <1>1, <1>2, ManInvInitially, ManInvPreserved, PTL DEF BootedSpec

(* systemd, root's or a user's, starts nothing at all, not even after a    *)
(* boot, as long as nobody uses systemctl: install writes a unit and       *)
(* enables nothing (platform_service.cc:52-77).  So a service that is      *)
(* managed with frequent-cron's own commands only is never run twice.      *)
Systemctl == \E n \in Names : UserEnables(n) \/ UserStarts(n)

THEOREM NothingIsDueWithoutSystemctl ==
  ASSUME Platforms \subseteq {"systemd", "systemd_user"}
  PROVE  BootedSpec /\ [][~Systemctl]_bootVars => []Unmanaged
<1> DEFINE NothingToStart == Unmanaged /\ enabled = {}
<1>1. BootedInit => NothingToStart
  BY DEF BootedInit, Unmanaged
<1>2. ManInv /\ NothingToStart /\ [BootedNext]_bootVars
        /\ [~Systemctl]_bootVars => NothingToStart'
  <2> SUFFICES ASSUME ManInv, Unmanaged, enabled = {}, [BootedNext]_bootVars,
                      [~Systemctl]_bootVars
               PROVE  Unmanaged' /\ enabled' = {}
    OBVIOUS
  <2>0. /\ platform \in {"systemd", "systemd_user"} /\ due = {} /\ managed = {}
        /\ \A c \in Clients : stage[c] # "enable"
    BY DEF ManInv, BootedTypeOK, Unmanaged, Inside
  <2>1. CASE \E c \in Clients : BootedUser(c) \/ BootedClient(c)
    BY <2>0, <2>1
       DEF BootedUser, BootedClient, DefinitionStep, WriteDefinition,
           EnableDefinition, StopDefinition, DisableDefinition,
           DeleteDefinition, EndProcesses, platformVars, Unmanaged
  <2>2. CASE Reboot
    BY <2>0, <2>2 DEF Reboot, EndProcesses, AutoStarted, Unmanaged
  <2>3. CASE ManagerStep /\ ~Systemctl
    BY <2>0, <2>3
       DEF ManagerStep, Systemctl, ProcessFails, ProcessRuns, ManagerStarts,
           Unmanaged
  <2>4. CASE UNCHANGED bootVars
    BY <2>0, <2>4 DEF bootVars, platformVars, Unmanaged
  <2>5. QED
    BY <2>1, <2>2, <2>3, <2>4 DEF BootedNext, ManagerStep
<1>3. NothingToStart => Unmanaged
  OBVIOUS
<1> HIDE DEF NothingToStart
<1>4. QED
  BY <1>1, <1>2, <1>3, ManInvInitially, ManInvPreserved, PTL DEF BootedSpec

(* ... and what the registry promises holds on systemd across any number   *)
(* of reboots (docs/wiki/Service-Lifecycle.md).                            *)
THEOREM PromisesOutliveBootsOnSystemd ==
  ASSUME Calm, Platforms \subseteq {"systemd", "systemd_user"}
  PROVE  BootedSpec /\ []Apart /\ [][~Systemctl]_bootVars
           /\ [][IdleReboot]_bootVars =>
           [](/\ AtMostOneDaemon /\ LiveDaemonsAreTracked
              /\ PidFileNamesDaemon /\ RemoveCleansUp /\ StopsLeaveNoDaemon)
  BY NothingIsDueWithoutSystemctl, RegistryKeepsItsPromises, PTL

=============================================================================
