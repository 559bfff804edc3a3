-------------------------- MODULE ServiceRegistry --------------------------
(***************************************************************************)
(* The commands of the service manager (src/src/service_registry.cc) as    *)
(* short-lived client processes that share the SQLite registry (Database), *)
(* the PID and log files and the daemons (DaemonProcess).  Nothing locks   *)
(* one command out while another runs, so every access to shared state is  *)
(* a step of its own, in the order of the code.                            *)
(*                                                                         *)
(* A client holds what its stack holds: the command (op), the service name *)
(* (svc), the pid it read last (seen) and, for list and status without a   *)
(* name, the rows it has still to print (todo).                            *)
(***************************************************************************)
EXTENDS Database, DaemonProcess, Naturals, FiniteSets

CONSTANTS
  Clients,   \* command-line invocations that may be in flight together
  Ops        \* the subcommands they may run

Commands == {"install", "remove", "start", "stop", "status", "list"}

ASSUME ClientAssumption == Ops \subseteq Commands

VARIABLES
  pc, op, svc, seen, todo,
  units      \* names that have a platform service definition

clientVars == <<pc, op, svc, seen, todo>>
vars == <<dbVars, procVars, fileVars, clientVars, units>>

Labels ==
  {"idle", "get_service", "insert_service", "insert_state",
   "platform_install", "list_services", "list_next", "get_state", "probe",
   "correct", "report_running", "launch", "read_pid_file", "record_start",
   "stop_get_service", "stop_get_state", "stop_read_pid", "stop_probe",
   "stop_mark", "kill", "wait_exit", "stop_record", "stop_unlink",
   "uninstall", "delete_service", "remove_pid_file", "remove_logs"}

(* The labels at which a client holds a pid it is going to use. *)
Holding == {"probe", "stop_probe", "kill", "wait_exit"}

(* The labels at which a client has a service name. *)
Named == Labels \ {"idle", "list_services", "list_next"}

ClientTypeOK ==
  /\ pc \in [Clients -> Labels]
  /\ op \in [Clients -> Commands \cup {"none"}]
  /\ svc \in [Clients -> Names \cup {NoName}]
  /\ seen \in [Clients -> Pids \cup {NoPid}]
  /\ todo \in [Clients -> SUBSET Names]
  /\ \A c \in Clients : pc[c] \in Named => svc[c] \in Names
  /\ \A c \in Clients : pc[c] \in Holding => seen[c] \in Pids

TypeOK ==
  /\ DbTypeOK
  /\ ProcTypeOK
  /\ ClientTypeOK
  /\ units \subseteq Names

Init ==
  /\ DbInit
  /\ ProcInit
  /\ pc = [c \in Clients |-> "idle"]
  /\ op = [c \in Clients |-> "none"]
  /\ svc = [c \in Clients |-> NoName]
  /\ seen = [c \in Clients |-> NoPid]
  /\ todo = [c \in Clients |-> {}]
  /\ units = {}

-----------------------------------------------------------------------------
(* Moving one client's control. *)

(* Continue at label l, holding pid p. *)
Go(c, l, p) ==
  /\ pc' = [pc EXCEPT ![c] = l]
  /\ seen' = [seen EXCEPT ![c] = p]
  /\ UNCHANGED <<op, svc, todo>>

(* The process exits and its stack is gone. *)
Done(c) ==
  /\ pc' = [pc EXCEPT ![c] = "idle"]
  /\ op' = [op EXCEPT ![c] = "none"]
  /\ svc' = [svc EXCEPT ![c] = NoName]
  /\ seen' = [seen EXCEPT ![c] = NoPid]
  /\ todo' = [todo EXCEPT ![c] = {}]

(* return from cmd_stop: to the shell, or into cmd_remove. *)
ReturnFromStop(c) ==
  IF op[c] = "remove" THEN Go(c, "uninstall", NoPid) ELSE Done(c)

(* update_state, whose result no caller looks at: a busy database makes it *)
(* do nothing.                                                             *)
TryUpdateState(n, st, p) ==
  \/ UpdateState(n, st, p)
  \/ "busy" \in Faults /\ UNCHANGED dbVars

-----------------------------------------------------------------------------
(* main: parse the command line, open the registry, call the command.  An  *)
(* open that throws ends the process before it has done anything.          *)
Entry(o) ==
  IF o = "list" THEN "list_services"
  ELSE IF o = "stop" THEN "stop_get_service" ELSE "get_service"

Begin(c, o, n) ==
  /\ pc[c] = "idle"
  /\ op' = [op EXCEPT ![c] = o]
  /\ svc' = [svc EXCEPT ![c] = IF o = "list" THEN NoName ELSE n]
  /\ pc' = [pc EXCEPT ![c] = Entry(o)]
  /\ UNCHANGED <<seen, todo>>

(* db_.get_service(name) at the head of install, remove, start and status. *)
GetService(c) ==
  /\ pc[c] = "get_service"
  /\ LET found == svc[c] \in services
     IN  \/ op[c] = "install" /\ ~found /\ Go(c, "insert_service", NoPid)
         \/ op[c] # "install" /\ found /\ Go(c, "get_state", NoPid)
         \/ (op[c] = "install") = found /\ Done(c)
  /\ UNCHANGED <<dbVars, procVars, fileVars, units>>

-----------------------------------------------------------------------------
(* get_actual_status *)

(* Deviation: start does not look at the answer. *)
VerdictIgnored(c, running) ==
  \/ op[c] = "start" /\ Go(c, "launch", NoPid)
  \/ op[c] = "remove" /\ running /\ Go(c, "stop_get_service", NoPid)
  \/ op[c] = "remove" /\ ~running /\ Go(c, "uninstall", NoPid)
  \/ op[c] \in {"status", "list"} /\ running /\ Go(c, "report_running", NoPid)
  \/ op[c] = "status" /\ ~running /\ Done(c)
  \/ op[c] = "list" /\ ~running /\ Go(c, "list_next", NoPid)

(* What the caller of get_actual_status does with the answer. *)
Verdict(c, running) ==
  \/ op[c] = "start" /\ running /\ Done(c)
  \/ op[c] = "start" /\ ~running /\ Go(c, "launch", NoPid)
  \/ op[c] = "remove" /\ running /\ Go(c, "stop_get_service", NoPid)
  \/ op[c] = "remove" /\ ~running /\ Go(c, "uninstall", NoPid)
  \/ op[c] \in {"status", "list"} /\ running /\ Go(c, "report_running", NoPid)
  \/ op[c] = "status" /\ ~running /\ Done(c)
  \/ op[c] = "list" /\ ~running /\ Go(c, "list_next", NoPid)

(* Deviation: a running row is probed whatever its pid. *)
GetStateAnyPid(c) ==
  LET n == svc[c]
      claimed == n \in stateRows /\ status[n] = "running"
  IN  /\ pc[c] = "get_state"
      /\ IF claimed THEN Go(c, "probe", pid[n]) ELSE Verdict(c, FALSE)
      /\ UNCHANGED <<dbVars, procVars, fileVars, units>>

(* No row: "unknown".  A running row with a pid is probed; any other row's *)
(* status is the answer as it stands, "running" with pid 0 included.       *)
GetState(c) ==
  LET n == svc[c]
      row == n \in stateRows
      claimed == row /\ status[n] = "running"
  IN  /\ pc[c] = "get_state"
      /\ IF claimed /\ pid[n] # NoPid
         THEN Go(c, "probe", pid[n])
         ELSE Verdict(c, claimed)
      /\ UNCHANGED <<dbVars, procVars, fileVars, units>>

Probe(c) ==
  /\ pc[c] = "probe"
  /\ IF IsProcessRunning(seen[c]) THEN Verdict(c, TRUE)
                                  ELSE Go(c, "correct", seen[c])
  /\ UNCHANGED <<dbVars, procVars, fileVars, units>>

(* Deviation: the answer is corrected, the row is not. *)
CorrectAnswerOnly(c) ==
  /\ pc[c] = "correct"
  /\ Verdict(c, FALSE)
  /\ UNCHANGED <<dbVars, procVars, fileVars, units>>

(* Deviation: the copy of the row keeps its pid. *)
CorrectKeepsPid(c) ==
  /\ pc[c] = "correct"
  /\ TryUpdateState(svc[c], "stopped", seen[c])
  /\ Verdict(c, FALSE)
  /\ UNCHANGED <<procVars, fileVars, units>>

(* The row read before the probe is written back as stopped, whatever the  *)
(* row holds by now.                                                       *)
Correct(c) ==
  /\ pc[c] = "correct"
  /\ TryUpdateState(svc[c], "stopped", NoPid)
  /\ Verdict(c, FALSE)
  /\ UNCHANGED <<procVars, fileVars, units>>

(* status and list print "running" for the service. *)
ReportRunning(c) ==
  /\ pc[c] = "report_running"
  /\ IF op[c] = "status" THEN Done(c) ELSE Go(c, "list_next", NoPid)
  /\ UNCHANGED <<dbVars, procVars, fileVars, units>>

-----------------------------------------------------------------------------
(* cmd_list, and cmd_status without a name: a snapshot of the rows, then   *)
(* get_actual_status for each.                                             *)
ListServices(c) ==
  /\ pc[c] = "list_services"
  /\ todo' = [todo EXCEPT ![c] = services]
  /\ pc' = [pc EXCEPT ![c] = "list_next"]
  /\ UNCHANGED <<op, svc, seen, dbVars, procVars, fileVars, units>>

(* Deviation: the loop does not advance. *)
ListNextStuck(c) ==
  /\ pc[c] = "list_next"
  /\ \/ \E n \in todo[c] :
          /\ svc' = [svc EXCEPT ![c] = n]
          /\ pc' = [pc EXCEPT ![c] = "get_state"]
          /\ UNCHANGED <<op, seen, todo>>
     \/ todo[c] = {} /\ Done(c)
  /\ UNCHANGED <<dbVars, procVars, fileVars, units>>

ListNext(c) ==
  /\ pc[c] = "list_next"
  /\ \/ \E n \in todo[c] :
          /\ todo' = [todo EXCEPT ![c] = @ \ {n}]
          /\ svc' = [svc EXCEPT ![c] = n]
          /\ seen' = [seen EXCEPT ![c] = NoPid]
          /\ pc' = [pc EXCEPT ![c] = "get_state"]
          /\ UNCHANGED op
     \/ todo[c] = {} /\ Done(c)
  /\ UNCHANGED <<dbVars, procVars, fileVars, units>>

-----------------------------------------------------------------------------
(* cmd_install *)

(* Deviation: the result of insert_service is not looked at. *)
InsertServiceUnchecked(c) ==
  /\ pc[c] = "insert_service"
  /\ \/ InsertServiceRow(svc[c]) /\ Go(c, "insert_state", NoPid)
     \/ /\ svc[c] \in services \/ "busy" \in Faults
        /\ Go(c, "platform_install", NoPid) /\ UNCHANGED dbVars
  /\ UNCHANGED <<procVars, fileVars, units>>

InsertService(c) ==
  /\ pc[c] = "insert_service"
  /\ \/ InsertServiceRow(svc[c]) /\ Go(c, "insert_state", NoPid)
     \/ /\ svc[c] \in services \/ "busy" \in Faults
        /\ Done(c) /\ UNCHANGED dbVars
  /\ UNCHANGED <<procVars, fileVars, units>>

InsertState(c) ==
  /\ pc[c] = "insert_state"
  /\ \/ InsertStateRow(svc[c])
     \/ "busy" \in Faults /\ UNCHANGED dbVars
  /\ Go(c, "platform_install", NoPid)
  /\ UNCHANGED <<procVars, fileVars, units>>

(* platform_->install writes one definition; its result is ignored.       *)
PlatformInstall(c) ==
  /\ pc[c] = "platform_install"
  /\ \/ units' = units \cup {svc[c]}
     \/ "unitfail" \in Faults /\ UNCHANGED units
  /\ Done(c)
  /\ UNCHANGED <<dbVars, procVars, fileVars>>

-----------------------------------------------------------------------------
(* cmd_start *)

(* The kernel gives a new process a free number.  Pids wrap around, so a   *)
(* number that is still written in a row, in a PID file or on a command's  *)
(* stack comes back only when "reuse" is among the faults.                 *)
Referenced(p) ==
  \/ \E n \in Names : pid[n] = p \/ pidfile[n] = p
  \/ \E c \in Clients : seen[c] = p

Free(p) == phase[p] = "dead" /\ ("reuse" \in Faults \/ ~Referenced(p))

Launch(c, p) ==
  /\ pc[c] = "launch"
  /\ Free(p)
  /\ Spawn(svc[c], p)
  /\ Go(c, "read_pid_file", NoPid)
  /\ UNCHANGED <<dbVars, units>>

LaunchFails(c) ==
  /\ pc[c] = "launch"
  /\ "bootfail" \in Faults \/ \A p \in Pids : ~Free(p)
  /\ Done(c)
  /\ UNCHANGED <<dbVars, procVars, fileVars, units>>

(* Deviation: the pid is recorded without reading the file. *)
ReadPidFileNot(c) ==
  /\ pc[c] = "read_pid_file"
  /\ "slowboot" \in Faults \/ ~BootPending(svc[c])
  /\ Go(c, "record_start", NoPid)
  /\ UNCHANGED <<dbVars, procVars, fileVars, units>>

(* Poll up to ten times for the file to exist, then read a number from it. *)
(* A missing or an empty file gives 0.  Unless "slowboot" is among the     *)
(* faults the daemon has booted before the first poll.                     *)
ReadPidFile(c) ==
  LET n == svc[c]
  IN  /\ pc[c] = "read_pid_file"
      /\ "slowboot" \in Faults \/ ~BootPending(n)
      /\ Go(c, "record_start", IF pidfile[n] \in Pids THEN pidfile[n]
                                                      ELSE NoPid)
      /\ UNCHANGED <<dbVars, procVars, fileVars, units>>

RecordStart(c) ==
  /\ pc[c] = "record_start"
  /\ TryUpdateState(svc[c], "running", seen[c])
  /\ Done(c)
  /\ UNCHANGED <<procVars, fileVars, units>>

-----------------------------------------------------------------------------
(* cmd_stop *)

StopGetService(c) ==
  /\ pc[c] = "stop_get_service"
  /\ IF svc[c] \in services THEN Go(c, "stop_get_state", NoPid)
                            ELSE ReturnFromStop(c)
  /\ UNCHANGED <<dbVars, procVars, fileVars, units>>

(* Deviation: a SELECT that forgot its WHERE. *)
StopGetStateOfAny(c) ==
  /\ pc[c] = "stop_get_state"
  /\ \/ \E n \in stateRows : pid[n] # NoPid /\ Go(c, "stop_probe", pid[n])
     \/ (\A n \in stateRows : pid[n] = NoPid) /\ Go(c, "stop_read_pid", NoPid)
  /\ UNCHANGED <<dbVars, procVars, fileVars, units>>

(* Here the pid decides, not the status column. *)
StopGetState(c) ==
  LET n == svc[c]
  IN  /\ pc[c] = "stop_get_state"
      /\ IF n \in stateRows /\ pid[n] # NoPid
         THEN Go(c, "stop_probe", pid[n])
         ELSE Go(c, "stop_read_pid", NoPid)
      /\ UNCHANGED <<dbVars, procVars, fileVars, units>>

StopReadPid(c) ==
  LET n == svc[c]
  IN  /\ pc[c] = "stop_read_pid"
      /\ IF pidfile[n] \in Pids THEN Go(c, "stop_probe", pidfile[n])
                                ELSE Go(c, "stop_mark", NoPid)
      /\ UNCHANGED <<dbVars, procVars, fileVars, units>>

StopProbe(c) ==
  /\ pc[c] = "stop_probe"
  /\ IF IsProcessRunning(seen[c]) THEN Go(c, "kill", seen[c])
                                  ELSE Go(c, "stop_mark", NoPid)
  /\ UNCHANGED <<dbVars, procVars, fileVars, units>>

(* "is not running": the row is set to stopped, the PID file is left. *)
StopMark(c) ==
  /\ pc[c] = "stop_mark"
  /\ TryUpdateState(svc[c], "stopped", NoPid)
  /\ ReturnFromStop(c)
  /\ UNCHANGED <<procVars, fileVars, units>>

(* Deviation: the signal is 0. *)
KillZero(c) ==
  /\ pc[c] = "kill"
  /\ Go(c, "wait_exit", seen[c])
  /\ UNCHANGED <<dbVars, procVars, fileVars, units>>

(* Deviation: no wait for the process to exit. *)
KillAndGo(c) ==
  /\ pc[c] = "kill"
  /\ SendTerm(seen[c])
  /\ Go(c, "stop_record", NoPid)
  /\ UNCHANGED <<dbVars, units>>

Kill(c) ==
  /\ pc[c] = "kill"
  /\ SendTerm(seen[c])
  /\ Go(c, "wait_exit", seen[c])
  /\ UNCHANGED <<dbVars, units>>

(* Up to twenty polls; after the last one the code carries on as if the    *)
(* process had gone.                                                       *)
WaitExit(c) ==
  /\ pc[c] = "wait_exit"
  /\ ~IsProcessRunning(seen[c]) \/ "slowstop" \in Faults
  /\ Go(c, "stop_record", NoPid)
  /\ UNCHANGED <<dbVars, procVars, fileVars, units>>

StopRecord(c) ==
  /\ pc[c] = "stop_record"
  /\ TryUpdateState(svc[c], "stopped", NoPid)
  /\ Go(c, "stop_unlink", NoPid)
  /\ UNCHANGED <<procVars, fileVars, units>>

StopUnlink(c) ==
  /\ pc[c] = "stop_unlink"
  /\ Unlink(svc[c])
  /\ ReturnFromStop(c)
  /\ UNCHANGED <<dbVars, units>>

-----------------------------------------------------------------------------
(* cmd_remove, after the status and the stop *)

(* platform_->uninstall, where no platform manager has started anything    *)
(* from a definition (BootedService has the one that does).                *)
Uninstall(c) ==
  /\ pc[c] = "uninstall"
  /\ units' = units \ {svc[c]}
  /\ Go(c, "delete_service", NoPid)
  /\ UNCHANGED <<dbVars, procVars, fileVars>>

DeleteService(c) ==
  /\ pc[c] = "delete_service"
  /\ \/ DeleteServiceRow(svc[c]) /\ Go(c, "remove_pid_file", NoPid)
     \/ /\ svc[c] \notin services \/ "busy" \in Faults
        /\ Done(c) /\ UNCHANGED dbVars
  /\ UNCHANGED <<procVars, fileVars, units>>

(* Deviation: the PID file is left to stop, which may not have run. *)
RemovePidFileNot(c) ==
  /\ pc[c] = "remove_pid_file"
  /\ Go(c, "remove_logs", NoPid)
  /\ UNCHANGED <<dbVars, procVars, fileVars, units>>

RemovePidFile(c) ==
  /\ pc[c] = "remove_pid_file"
  /\ Unlink(svc[c])
  /\ Go(c, "remove_logs", NoPid)
  /\ UNCHANGED <<dbVars, units>>

RemoveLogs(c) ==
  /\ pc[c] = "remove_logs"
  /\ logs' = logs \ {svc[c]}
  /\ Done(c)
  /\ UNCHANGED <<dbVars, procVars, pidfile, units>>

-----------------------------------------------------------------------------
(* The steps of service_registry.cc itself, and those of the platform's    *)
(* PlatformService, which BootedService models in more detail.             *)
RegistryStep(c) ==
  \/ GetService(c) \/ GetState(c) \/ Probe(c) \/ Correct(c)
  \/ ReportRunning(c) \/ ListServices(c) \/ ListNext(c)
  \/ InsertService(c) \/ InsertState(c)
  \/ (\E p \in Pids : Launch(c, p)) \/ LaunchFails(c)
  \/ ReadPidFile(c) \/ RecordStart(c)
  \/ StopGetService(c) \/ StopGetState(c) \/ StopReadPid(c)
  \/ StopProbe(c) \/ StopMark(c) \/ Kill(c) \/ WaitExit(c)
  \/ StopRecord(c) \/ StopUnlink(c)
  \/ DeleteService(c) \/ RemovePidFile(c) \/ RemoveLogs(c)

PlatformStep(c) == PlatformInstall(c) \/ Uninstall(c)

ClientStep(c) == RegistryStep(c) \/ PlatformStep(c)

(* A command is killed between two of its steps. *)
ClientCrash(c) ==
  /\ "clicrash" \in Faults
  /\ pc[c] # "idle"
  /\ Done(c)

(* The user's side: only the command itself is touched. *)
UserStep(c) ==
  /\ (\E o \in Ops, n \in Names : Begin(c, o, n)) \/ ClientCrash(c)
  /\ UNCHANGED <<dbVars, procVars, fileVars, units>>

Environment(p) == DaemonStep(p) /\ UNCHANGED <<dbVars, clientVars, units>>

Next ==
  \/ \E c \in Clients : UserStep(c) \/ ClientStep(c)
  \/ \E p \in Pids : Environment(p)

(* The scheduler runs every command and every booting daemon, and delivers *)
(* signals.  Nothing obliges a user to type a command, and no fault has to *)
(* happen.                                                                 *)
Boot(p) == OpenPidFile(p) \/ FlushPidFile(p) \/ FlushDetached(p)

Fairness ==
  /\ \A c \in Clients : WF_vars(ClientStep(c))
  /\ \A p \in Pids :
       /\ WF_vars(Boot(p) /\ UNCHANGED <<dbVars, clientVars, units>>)
       /\ WF_vars(Die(p) /\ UNCHANGED <<dbVars, clientVars, units>>)

Spec == Init /\ [][Next]_vars

FairSpec == Spec /\ Fairness

-----------------------------------------------------------------------------
(* Properties of every interleaving. *)

(* cmd_stop sends SIGTERM only to a daemon that was launched for the       *)
(* service it was asked to stop (service_registry.cc:281-315), however     *)
(* commands, crashes and failed writes interleave, as long as no pid is    *)
(* reused while it is written down and no PID file mixes two numbers.      *)
SignalsOwnDaemon == \A c \in Clients : pc[c] = "kill" => owner[seen[c]] = svc[c]

(* Every pid that is written down for a service, in its row, in its PID    *)
(* file or on the stack of a command that works on it, was given to a      *)
(* process launched for that service: two services never mix, whatever     *)
(* order commands and boots take (service_registry.cc:255-266, 281-296,    *)
(* pid_file.cc:11-24).                                                     *)
PidsBelong ==
  /\ \A n \in Names : pid[n] \in Pids => owner[pid[n]] = n
  /\ \A n \in Names : pidfile[n] \in Pids => owner[pidfile[n]] = n
  /\ \A c \in Clients : seen[c] \in Pids => owner[seen[c]] = svc[c]

(* Every state row belongs to a service: an install whose service another  *)
(* command removed between its two INSERTs leaves nothing behind           *)
(* (database.cc:98-107, and the cascade of database.cc:68).                *)
StateRowsHaveServices == stateRows \subseteq services

(* A row that says "stopped" holds no pid, so the next stop does not       *)
(* signal what the service was once (service_registry.cc:89-92, 301-304,   *)
(* 328-332; cmd_stop decides by the pid alone).                            *)
StoppedRowsHoldNoPid ==
  \A n \in Names : status[n] = "stopped" => pid[n] = NoPid

-----------------------------------------------------------------------------
(* Properties of a service on which one command works at a time. *)

Busy(n) == \E c \in Clients : svc[c] = n

(* Nobody runs two commands on one service at once; list, and status       *)
(* without a name, work on each of their rows in turn.                     *)
Apart == \A c, d \in Clients : c # d => svc[c] # svc[d] \/ svc[c] \notin Names

(* install writes the definition after the row and remove deletes it       *)
(* before the row, so a definition never outlives its record, whichever    *)
(* step a command is killed at or a write fails in                         *)
(* (service_registry.cc:118-126, 157-164).                                 *)
UnitsHaveRecords == units \subseteq services

(* A service has at most one daemon: start launches only after             *)
(* get_actual_status has found none (service_registry.cc:191-195).         *)
AtMostOneDaemon ==
  \A n \in Names : \A p, q \in LiveDaemons(n) : p = q

(* Between commands every live daemon is the pid its service's row holds,  *)
(* so that stop and remove can reach it (service_registry.cc:255-266).     *)
LiveDaemonsAreTracked ==
  \A n \in Names : ~Busy(n) =>
    \A p \in LiveDaemons(n) :
      n \in stateRows /\ status[n] = "running" /\ pid[n] = p

(* Between commands the PID file of a service with a live daemon holds     *)
(* that daemon's pid: no step of a stop or remove takes away, and no stale *)
(* file hides, the file a later start has read (pid_file.cc:11-25,         *)
(* service_registry.cc:255-260, 335-336).                                  *)
PidFileNamesDaemon ==
  \A n \in Names : ~Busy(n) => \A p \in LiveDaemons(n) : pidfile[n] = p

(* "Unregister and clean up everything" (docs/wiki/Service-Lifecycle.md):  *)
(* a service that is not registered has no daemon, state row, PID file,    *)
(* log or platform definition left (service_registry.cc:142-180).          *)
RemoveCleansUp ==
  \A n \in Names \ services : ~Busy(n) =>
    /\ LiveDaemons(n) = {}
    /\ n \notin stateRows \cup logs \cup units
    /\ pidfile[n] = NoFile

(* The places of a command in the order in which it can come to them.      *)
Course ==
  <<"list_services", "get_service", "get_state", "probe", "correct",
    "report_running", "list_next", "insert_service", "insert_state",
    "platform_install", "launch", "read_pid_file", "record_start",
    "stop_get_service", "stop_get_state", "stop_read_pid", "stop_probe",
    "stop_mark", "kill", "wait_exit", "stop_record", "stop_unlink",
    "uninstall", "delete_service", "remove_pid_file", "remove_logs", "idle">>

Before(k, l) ==
  \E i, j \in DOMAIN Course : i < j /\ k = Course[i] /\ l = Course[j]

(* list reads its rows once, and from then on each step leaves it fewer    *)
(* rows or takes it further on.                                            *)
Advance(c) ==
  \/ pc[c] = "list_services" /\ pc'[c] = "list_next"
  \/ /\ pc[c] # "list_services"
     /\ todo'[c] \subseteq todo[c]
     /\ todo'[c] # todo[c] \/ Before(pc[c], pc'[c])

(* No command comes back to where it has been, but for list and status     *)
(* without a name, which have one row less to print when they do: each     *)
(* command is over after a bounded number of its own steps, whatever the   *)
(* others write to the registry meanwhile and whichever of its writes fail *)
(* (service_registry.cc:67-98, 101-440).                                    *)
CommandsAdvance == [][\A c \in Clients : ClientStep(c) => Advance(c)]_vars

(* A stop or remove that has come to writing down that the service is      *)
(* stopped, or to removing what is left of it, has left no daemon behind   *)
(* that nobody could reach any more (service_registry.cc:281-339,          *)
(* 142-180).                                                               *)
StopsLeaveNoDaemon ==
  \A c \in Clients :
    /\ op[c] \in {"stop", "remove"}
    /\ pc[c] \in {"stop_mark", "stop_record", "stop_unlink", "uninstall",
                  "delete_service", "remove_pid_file", "remove_logs"}
    => LiveDaemons(svc[c]) = {}

(* Every command that is typed ends: the polls are bounded and no command  *)
(* waits for another (service_registry.cc:246-253, 319-326).               *)
CommandsTerminate ==
  \A c \in Clients : pc[c] # "idle" ~> pc[c] = "idle"

(* stop and remove leave no daemon of their service behind: the pid they   *)
(* find is that of its live daemon, and they wait for it to go             *)
(* (service_registry.cc:281-326).                                          *)
StopStops ==
  \A n \in Names :
    (\E c \in Clients : op[c] \in {"stop", "remove"} /\ svc[c] = n)
      ~> LiveDaemons(n) = {}

(* "If a process died without updating the database, the status is         *)
(* auto-corrected" (docs/wiki/Service-Lifecycle.md): when status keeps     *)
(* being asked of a service, a row with a dead pid does not stay.          *)
Stale(n) == status[n] = "running" /\ pid[n] \in Pids /\ phase[pid[n]] = "dead"

StaleRowsAreCorrected ==
  \A n \in Names :
    ([]<>(\E c \in Clients : op[c] = "status" /\ svc[c] = n)) => []<>~Stale(n)

(* "`stopped`: Service is not running" (docs/wiki/Service-Lifecycle.md):   *)
(* between commands a row that says so has no live daemon.                 *)
StoppedMeansNoDaemon ==
  \A n \in Names : ~Busy(n) /\ status[n] = "stopped" => LiveDaemons(n) = {}

(* "The `status` command verifies that the tracked PID is actually alive.  *)
(* If a process died without updating the database, the status is          *)
(* auto-corrected" (docs/wiki/Service-Lifecycle.md): while status keeps    *)
(* being asked, a service without a daemon does not stay "running".        *)
DeadServicesAreCorrected ==
  \A n \in Names :
    ([]<>(\E c \in Clients : op[c] = "status" /\ svc[c] = n))
      => []<>(status[n] = "stopped" \/ LiveDaemons(n) # {})

(* The commands implement the life cycle the documentation describes. *)
Lifecycle == INSTANCE ServiceLifecycle WITH
  registered <- services,
  recorded <- status,
  daemons <- [n \in Names |-> Cardinality(LiveDaemons(n))]

ImplementsLifecycle == Lifecycle!Spec

=============================================================================
