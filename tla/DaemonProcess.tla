--------------------------- MODULE DaemonProcess ---------------------------
(***************************************************************************)
(* The processes that "frequent-cron run" turns into: cmd_run of           *)
(* src/src/main.cc from the launch to the executor loop, daemonize.cc,     *)
(* pid_file.cc, and the kernel's view of them (kill(pid, 0) and            *)
(* kill(pid, SIGTERM) in service_registry.cc).  POSIX build.               *)
(*                                                                         *)
(* A launched process boots, opens (creates or truncates) its PID file,    *)
(* flushes its pid into it when the stream is destroyed, and then runs its *)
(* executor loop.  The open and the flush are two steps, so a reader may   *)
(* find the file empty.  A process whose PID file was unlinked in between  *)
(* is "detached": it flushes into an inode that has no name any more.      *)
(*                                                                         *)
(* FAULTS names what the environment may do; a run that leaves a fault out *)
(* assumes it away.                                                        *)
(*   crash      a daemon dies on its own (kill -9, uncaught exception)     *)
(*   bootfail   the launch fails, or the daemon exits before its PID file  *)
(*   slowboot   booting may take longer than the first poll of cmd_start   *)
(*   slowstop   dying may take longer than the polls of cmd_stop           *)
(*   garble     two daemons flush into one file: the shorter number over   *)
(*              the longer one leaves digits of both                       *)
(*   reuse      the kernel may reuse a pid that is still written somewhere *)
(*   busy       a write statement fails with SQLITE_BUSY: another process   *)
(*              writes to the database, and no busy timeout is set         *)
(*   clicrash   a command is killed between two of its steps               *)
(*   unitfail   the platform service definition cannot be written          *)
(*   askfail    a platform manager does not do what uninstall asks of it   *)
(*   reboot     the machine goes down and comes up (BootedService)         *)
(***************************************************************************)
EXTENDS Identifiers

CONSTANTS
  NoFile,   \* there is no file at the PID file's path
  NoName,   \* owner of a pid that never belonged to a service
  Faults

FaultKinds == {"crash", "bootfail", "slowboot", "slowstop", "garble", "reuse",
               "busy", "clicrash", "unitfail", "askfail", "reboot"}

ASSUME ProcessAssumption ==
  /\ NoFile \notin Pids \cup {NoPid}
  /\ NoName \notin Names
  /\ Faults \subseteq FaultKinds

VARIABLES
  phase,    \* how far each process has come
  owner,    \* the service a process was launched for, kept after its death
  termed,   \* processes with a pending SIGTERM
  pidfile,  \* per service: NoFile, NoPid (the file is empty) or the pid in it
  logs      \* services that have a log file

procVars == <<phase, owner, termed>>
fileVars == <<pidfile, logs>>

Phases == {"dead", "booting", "opened", "detached", "up"}
Booting == {"booting", "opened", "detached"}

ProcTypeOK ==
  /\ phase \in [Pids -> Phases]
  /\ owner \in [Pids -> Names \cup {NoName}]
  /\ termed \subseteq Pids
  /\ pidfile \in [Names -> Pids \cup {NoPid, NoFile}]
  /\ logs \subseteq Names
  /\ \A p \in Pids : phase[p] \in Booting => owner[p] \in Names

ProcInit ==
  /\ phase = [p \in Pids |-> "dead"]
  /\ owner = [p \in Pids |-> NoName]
  /\ termed = {}
  /\ pidfile = [n \in Names |-> NoFile]
  /\ logs = {}

-----------------------------------------------------------------------------
(* is_process_running: kill(pid, 0) = 0, which cannot tell whose process   *)
(* it is.                                                                  *)
IsProcessRunning(p) == p \in Pids /\ phase[p] # "dead"

LiveDaemons(n) == {p \in Pids : phase[p] # "dead" /\ owner[p] = n}

BootPending(n) == \E p \in Pids : phase[p] \in Booting /\ owner[p] = n

(* std::filesystem::remove(pid_path). *)
Unlink(n) ==
  /\ pidfile' = [pidfile EXCEPT ![n] = NoFile]
  /\ phase' = [p \in Pids |-> IF phase[p] = "opened" /\ owner[p] = n
                              THEN "detached" ELSE phase[p]]
  /\ UNCHANGED <<owner, termed, logs>>

(* system("frequent-cron run ... &"): the shell returns at once. *)
Spawn(n, p) ==
  /\ phase[p] = "dead"
  /\ phase' = [phase EXCEPT ![p] = "booting"]
  /\ owner' = [owner EXCEPT ![p] = n]
  /\ UNCHANGED <<termed, pidfile, logs>>

(* kill(pid, SIGTERM): without effect on a process that has gone. *)
SendTerm(p) ==
  /\ termed' = IF phase[p] = "dead" THEN termed ELSE termed \cup {p}
  /\ UNCHANGED <<phase, owner, pidfile, logs>>

-----------------------------------------------------------------------------
(* std::ofstream file(filename): create or truncate. *)
OpenPidFile(p) ==
  /\ phase[p] = "booting"
  /\ phase' = [phase EXCEPT ![p] = "opened"]
  /\ pidfile' = [pidfile EXCEPT ![owner[p]] = NoPid]
  /\ UNCHANGED <<owner, termed, logs>>

(* Deviation: the number is taken before daemonize forks. *)
FlushPidOfParent(p) ==
  /\ phase[p] = "opened"
  /\ phase' = [phase EXCEPT ![p] = "up"]
  /\ \E q \in Pids \ {p} : pidfile' = [pidfile EXCEPT ![owner[p]] = q]
  /\ UNCHANGED <<owner, termed, logs>>

(* The digits reach the file at offset 0.  When another daemon's digits    *)
(* are already there, and they are more, some of them stay.                *)
FlushPidFile(p) ==
  /\ phase[p] = "opened"
  /\ phase' = [phase EXCEPT ![p] = "up"]
  /\ \/ pidfile' = [pidfile EXCEPT ![owner[p]] = p]
     \/ /\ "garble" \in Faults
        /\ pidfile[owner[p]] \in Pids
        /\ \E q \in Pids : pidfile' = [pidfile EXCEPT ![owner[p]] = q]
  /\ UNCHANGED <<owner, termed, logs>>

FlushDetached(p) ==
  /\ phase[p] = "detached"
  /\ phase' = [phase EXCEPT ![p] = "up"]
  /\ UNCHANGED <<owner, termed, pidfile, logs>>

(* Bad arguments, fork failure, or write_pid_file returning false: the     *)
(* process exits and has left no PID file.                                 *)
BootFail(p) ==
  /\ "bootfail" \in Faults
  /\ phase[p] = "booting"
  /\ phase' = [phase EXCEPT ![p] = "dead"]
  /\ termed' = termed \ {p}
  /\ UNCHANGED <<owner, pidfile, logs>>

(* The output callback of a running daemon appends to its service's log. *)
WriteLog(p) ==
  /\ phase[p] = "up"
  /\ owner[p] \in Names
  /\ logs' = logs \cup {owner[p]}
  /\ UNCHANGED <<phase, owner, termed, pidfile>>

(* SIGTERM has its default action: nothing is cleaned up, the PID file and *)
(* the database stay as they are.                                          *)
Die(p) ==
  /\ p \in termed
  /\ phase' = [phase EXCEPT ![p] = "dead"]
  /\ termed' = termed \ {p}
  /\ UNCHANGED <<owner, pidfile, logs>>

Crash(p) ==
  /\ "crash" \in Faults
  /\ phase[p] # "dead"
  /\ phase' = [phase EXCEPT ![p] = "dead"]
  /\ termed' = termed \ {p}
  /\ UNCHANGED <<owner, pidfile, logs>>

(* A process that has nothing to do with any service gets a free pid. *)
Outsider(p) ==
  /\ "reuse" \in Faults
  /\ phase[p] = "dead"
  /\ phase' = [phase EXCEPT ![p] = "up"]
  /\ owner' = [owner EXCEPT ![p] = NoName]
  /\ UNCHANGED <<termed, pidfile, logs>>

DaemonStep(p) ==
  \/ OpenPidFile(p) \/ FlushPidFile(p) \/ FlushDetached(p) \/ BootFail(p)
  \/ WriteLog(p) \/ Die(p) \/ Crash(p) \/ Outsider(p)

=============================================================================
