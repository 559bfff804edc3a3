--------------------------- MODULE BootedService ---------------------------
(***************************************************************************)
(* The platform service definitions (src/src/platform_service.cc) and the  *)
(* managers that act on them: systemd, launchd and rc.d start a daemon     *)
(* from a definition at boot, and some of them again when it has gone,     *)
(* while ServiceRegistry's commands start and stop daemons of their own.   *)
(*                                                                         *)
(* install and uninstall, one step each in ServiceRegistry, are the file   *)
(* operations and shell commands they are made of.  What a manager does    *)
(* with them is external: systemd starts what is enabled, restarts what    *)
(* fails and stops what it has started; launchd loads every plist and,     *)
(* since KeepAlive is set and the program it launches exits as soon as     *)
(* daemonize has forked, launches it again and again; rc.d starts what     *)
(* rc.conf enables and stops the process its PID file names.               *)
(***************************************************************************)
EXTENDS ServiceRegistry

CONSTANT Platforms   \* the builds to look at

(* "systemd_user" is the Linux build used by anybody but root: the unit    *)
(* goes to ~/.config/systemd/user, which the system manager does not read, *)
(* but it is the system manager that systemctl without --user asks.        *)
ASSUME PlatformAssumption ==
  Platforms \subseteq {"systemd", "systemd_user", "launchd", "rcd"}

VARIABLES
  platform,  \* which PlatformService::create returns; it does not change
  stage,     \* per client, how far it is inside PlatformService
  enabled,   \* systemd's wanted-by links, the _enable lines of rc.conf
  due,       \* definitions their manager is going to start
  managed,   \* live processes that a manager has started
  undone     \* services whose manager has not done what an uninstall asked
             \* of it, or has been told otherwise by a user meanwhile

platformVars == <<platform, stage, enabled, due, managed, undone>>
bootVars == <<vars, platformVars>>

Stages == {"begin", "enable", "disable", "delete"}

BootedTypeOK ==
  /\ TypeOK
  /\ platform \in Platforms
  /\ stage \in [Clients -> Stages]
  /\ enabled \subseteq Names
  /\ due \subseteq Names
  /\ managed \subseteq {p \in Pids : IsProcessRunning(p)}
  /\ undone \subseteq Names

BootedInit ==
  /\ Init
  /\ platform \in Platforms
  /\ stage = [c \in Clients |-> "begin"]
  /\ enabled = {}
  /\ due = {}
  /\ managed = {}
  /\ undone = {}

Systemd == platform \in {"systemd", "systemd_user"}

(* A command is between having n stopped and the end of its uninstall. *)
Leaving(n) == \E c \in Clients : svc[c] = n /\ stage[c] \in {"disable", "delete"}

(* Whether a manager does what a command asks of it: the results of        *)
(* system() are ignored, and so is what the calls write to stderr.         *)
Heeds == platform # "systemd_user" /\ UNCHANGED undone
Ignores(n) ==
  /\ "askfail" \in Faults \/ platform = "systemd_user"
  /\ undone' = undone \cup {n}

(* The processes of this manager end, and their signals with them. *)
EndProcesses(ps) ==
  /\ phase' = [p \in Pids |-> IF p \in ps THEN "dead" ELSE phase[p]]
  /\ termed' = termed \ ps
  /\ managed' = managed \ ps

-----------------------------------------------------------------------------
(* PlatformService::install *)

(* The definition is written; systemd and launchd are told no more than    *)
(* that, rc.d goes on to enable it.  The result is ignored by cmd_install. *)
WriteDefinition(c) ==
  /\ pc[c] = "platform_install"
  /\ stage[c] = "begin"
  /\ \/ "unitfail" \in Faults /\ Done(c) /\ UNCHANGED <<units, stage, undone>>
     \/ /\ units' = units \cup {svc[c]}
        /\ undone' = IF Leaving(svc[c]) THEN undone ELSE undone \ {svc[c]}
        /\ IF platform = "rcd"
           THEN stage' = [stage EXCEPT ![c] = "enable"] /\ UNCHANGED clientVars
           ELSE Done(c) /\ UNCHANGED stage
  /\ UNCHANGED <<dbVars, procVars, fileVars, platform, enabled, due, managed>>

(* sysrc ..._enable=YES, after the script and its permissions. *)
EnableDefinition(c) ==
  /\ pc[c] = "platform_install"
  /\ stage[c] = "enable"
  /\ \/ enabled' = enabled \cup {svc[c]}
     \/ "unitfail" \in Faults /\ UNCHANGED enabled
  /\ stage' = [stage EXCEPT ![c] = "begin"]
  /\ Done(c)
  /\ UNCHANGED <<dbVars, procVars, fileVars, units, platform, due, managed,
                 undone>>

-----------------------------------------------------------------------------
(* PlatformService::uninstall *)

(* Deviation: the definition is deleted without stopping what runs. *)
StopDefinitionNot(c) ==
  /\ pc[c] = "uninstall"
  /\ stage[c] = "begin"
  /\ stage' = [stage EXCEPT ![c] = "disable"]
  /\ UNCHANGED <<vars, platform, enabled, due, managed, undone>>

(* systemctl stop, launchctl unload, service ... stop.  systemd ends the   *)
(* processes of the unit and forgets a pending restart; launchd knows only *)
(* the parent that has exited; rc.subr ends the process of the PID file.   *)
Stopped(n) ==
  CASE platform = "systemd" -> {p \in managed : owner[p] = n}
    [] platform = "rcd" -> {p \in LiveDaemons(n) : p = pidfile[n]}
    [] OTHER -> {}

StopDefinition(c) ==
  LET n == svc[c]
  IN  /\ pc[c] = "uninstall"
      /\ stage[c] = "begin"
      /\ \/ /\ Heeds
            /\ EndProcesses(Stopped(n))
            /\ due' = IF platform = "rcd" THEN due ELSE due \ {n}
         \/ Ignores(n) /\ UNCHANGED <<phase, termed, managed, due>>
      /\ stage' = [stage EXCEPT ![c] = IF platform = "launchd" THEN "delete"
                                                               ELSE "disable"]
      /\ UNCHANGED <<dbVars, owner, fileVars, clientVars, units, platform,
                     enabled>>

(* Deviation: what was enabled stays so. *)
DisableDefinitionNot(c) ==
  /\ pc[c] = "uninstall"
  /\ stage[c] = "disable"
  /\ stage' = [stage EXCEPT ![c] = "delete"]
  /\ UNCHANGED <<vars, platform, enabled, due, managed, undone>>

(* systemctl disable, sysrc -x *)
DisableDefinition(c) ==
  /\ pc[c] = "uninstall"
  /\ stage[c] = "disable"
  /\ \/ Heeds /\ enabled' = enabled \ {svc[c]}
     \/ Ignores(svc[c]) /\ UNCHANGED enabled
  /\ stage' = [stage EXCEPT ![c] = "delete"]
  /\ UNCHANGED <<vars, platform, due, managed>>

(* Deviation: an error of the manager ends the command. *)
DeleteDefinitionAndExit(c) ==
  /\ pc[c] = "uninstall"
  /\ stage[c] = "delete"
  /\ units' = units \ {svc[c]}
  /\ due' = due \ {svc[c]}
  /\ stage' = [stage EXCEPT ![c] = "begin"]
  /\ Done(c)
  /\ UNCHANGED <<dbVars, procVars, fileVars, platform, enabled, managed, undone>>

(* The file goes, if there is one.  systemd is told to reload: then it     *)
(* knows the unit no more.  rc.d has nothing left to run; launchd is told  *)
(* no more than it was before.                                             *)
DeleteDefinition(c) ==
  /\ stage[c] = "delete"
  /\ Uninstall(c)
  /\ \/ /\ Heeds
        /\ due' = IF platform # "launchd" /\ svc[c] \in units
                  THEN due \ {svc[c]} ELSE due
     \/ Systemd /\ Ignores(svc[c]) /\ UNCHANGED due
  /\ stage' = [stage EXCEPT ![c] = "begin"]
  /\ UNCHANGED <<platform, enabled, managed>>

DefinitionStep(c) ==
  \/ WriteDefinition(c) \/ EnableDefinition(c)
  \/ StopDefinition(c) \/ DisableDefinition(c) \/ DeleteDefinition(c)

-----------------------------------------------------------------------------
(* The manager and its user. *)

(* Docs: "You can also manage the service directly with systemctl", also   *)
(* while a command works on it (and with systemctl --user, for a user's).  *)
UserAsks(n) ==
  /\ Systemd
  /\ n \in units
  /\ undone' = IF Leaving(n) THEN undone \cup {n} ELSE undone

UserEnables(n) ==
  /\ UserAsks(n)
  /\ enabled' = enabled \cup {n}
  /\ UNCHANGED <<vars, platform, stage, due, managed>>

UserStarts(n) ==
  /\ UserAsks(n)
  /\ {p \in managed : owner[p] = n} = {}
  /\ due' = due \cup {n}
  /\ UNCHANGED <<vars, platform, stage, enabled, managed>>

(* The program is run as the definition says: with the PID file of the     *)
(* service, without its name, and without a word to the registry.          *)
ManagerStarts(n, p) ==
  /\ n \in due
  /\ Free(p)
  /\ Spawn(n, p)
  /\ managed' = managed \cup {p}
  /\ due' = IF platform = "launchd" THEN due ELSE due \ {n}
  /\ UNCHANGED <<dbVars, clientVars, units, platform, stage, enabled, undone>>

(* A user's manager has no multi-user.target to want the unit. *)
AutoStarted ==
  CASE platform = "launchd" -> units
    [] platform = "systemd_user" -> {}
    [] OTHER -> units \cap enabled

(* The machine goes down and comes up: files and tables stay. *)
Reboot ==
  /\ "reboot" \in Faults
  /\ EndProcesses(Pids)
  /\ pc' = [c \in Clients |-> "idle"]
  /\ op' = [c \in Clients |-> "none"]
  /\ svc' = [c \in Clients |-> NoName]
  /\ seen' = [c \in Clients |-> NoPid]
  /\ todo' = [c \in Clients |-> {}]
  /\ stage' = [c \in Clients |-> "begin"]
  /\ due' = AutoStarted
  /\ UNCHANGED <<dbVars, owner, fileVars, units, platform, enabled, undone>>

(* A process ends and the manager sees it: systemd restarts a unit that    *)
(* failed (Restart=on-failure), and SIGTERM is no failure.                 *)
ProcessFails(p) ==
  /\ Crash(p) \/ BootFail(p)
  /\ due' = IF Systemd /\ p \in managed
            THEN due \cup {owner[p]} ELSE due
  /\ managed' = managed \ {p}
  /\ UNCHANGED <<dbVars, clientVars, units, platform, stage, enabled, undone>>

(* A definition gives no --service-name, so its daemon writes no log. *)
ProcessRuns(p) ==
  /\ \/ OpenPidFile(p) \/ FlushPidFile(p) \/ FlushDetached(p) \/ Die(p)
     \/ Outsider(p)
     \/ p \notin managed /\ WriteLog(p)
  /\ managed' = {q \in managed : phase'[q] # "dead"}
  /\ UNCHANGED <<dbVars, clientVars, units, platform, stage, enabled, due,
                 undone>>

BootedClient(c) ==
  \/ RegistryStep(c) /\ UNCHANGED platformVars
  \/ DefinitionStep(c)

BootedUser(c) ==
  /\ UserStep(c)
  /\ stage' = [stage EXCEPT ![c] = "begin"]
  /\ UNCHANGED <<platform, enabled, due, managed, undone>>

BootedNext ==
  \/ \E c \in Clients : BootedUser(c) \/ BootedClient(c)
  \/ \E p \in Pids : ProcessFails(p) \/ ProcessRuns(p)
  \/ \E n \in Names :
       \/ UserEnables(n) \/ UserStarts(n)
       \/ \E p \in Pids : ManagerStarts(n, p)
  \/ Reboot

BootedSpec == BootedInit /\ [][BootedNext]_bootVars

(* As in ServiceRegistry, and the managers do what is due. *)
BootedFairness ==
  /\ \A c \in Clients : WF_bootVars(BootedClient(c))
  /\ \A p \in Pids : WF_bootVars(Boot(p) /\ ProcessRuns(p))
  /\ \A p \in Pids : WF_bootVars(Die(p) /\ ProcessRuns(p))
  /\ \A n \in Names : WF_bootVars(\E p \in Pids : ManagerStarts(n, p))

BootedFairSpec == BootedSpec /\ BootedFairness

-----------------------------------------------------------------------------
(* A manager is left with something to start that is not defined only if   *)
(* it has ignored a call of the uninstall, or a user has called it in      *)
(* between: rc.conf gets its line after the script and loses it before,    *)
(* systemd's link goes before the unit, a pending restart and launchd's    *)
(* job before the file, at whichever step a command is killed or the       *)
(* machine goes down (platform_service.cc:79-93, 190-200, 407-438).  For a *)
(* user's unit every call is ignored, and this says nothing of it.         *)
NothingDangles == enabled \cup due \subseteq units \cup undone

(* systemd has a process of a unit that is not there any more only for the *)
(* same reason: uninstall ends them, and the restart that may be pending,  *)
(* before the unit goes, so that a removed service does not come back five *)
(* seconds later (platform_service.cc:82-92).                              *)
SupervisedHaveUnits ==
  Systemd => \A p \in managed : owner[p] \in units \cup undone

(* The definitions that are complete: rc.d's is when its line is written.  *)
Settled == units \ {svc[c] : c \in {d \in Clients : stage[d] = "enable"}}

Registry == INSTANCE ServiceRegistry WITH units <- Settled

(* As long as no manager has anything to start or running, the definitions *)
(* in all their steps do to the registry what ServiceRegistry says install *)
(* and uninstall do, so that its results hold until then                   *)
(* (service_registry.cc:124-126, 157-159).                                 *)
RegistryUnlessManaged ==
  [][due \cup managed = {} => Registry!Next \/ Reboot]_(Registry!vars)

(* "All platforms start services at boot when installed"                   *)
(* (docs/releases/v0.3.0.md): what is installed is due after a boot.       *)
InstalledStartAtBoot ==
  [][Reboot => \A n \in services : ~Busy(n) => n \in due']_bootVars

(* "`stopped`: Service is not running" (docs/wiki/Service-Lifecycle.md):   *)
(* while status keeps being asked, a daemon that keeps running does not    *)
(* stay "stopped".                                                         *)
DaemonsBecomeKnown ==
  \A n \in Names :
    ([]<>(\E c \in Clients : op[c] = "status" /\ svc[c] = n))
      => []<>(LiveDaemons(n) = {} \/ status[n] = "running")

=============================================================================
