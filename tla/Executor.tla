------------------------------ MODULE Executor ------------------------------
(***************************************************************************)
(* The timer loop of a daemon (src/src/executor.cc) on POSIX: the thread   *)
(* inside io_context::run, the steady_timer, the commands it starts, the   *)
(* thread that may call Executor::stop, and the signal that ends the       *)
(* daemon at any point, after which the service is started again.          *)
(*                                                                         *)
(* Time passes in steps of its own, so a due handler may be late by any    *)
(* amount.  The delay is drawn from what compute_next_delay can return     *)
(* (see Configuration).  The counters of executions and skips are read by  *)
(* tests only and left out.  Boost.Asio completes a wait with success or   *)
(* with operation_aborted, so the branch for another error is not          *)
(* reachable and not modelled.                                             *)
(***************************************************************************)
EXTENDS Integers

CONSTANTS
  Modes,         \* values of synchronous_ to start with
  Callbacks,     \* whether an output callback may be set: TRUE for a daemon
                 \* that was given a service name
  JobControls,   \* whether somebody may stop commands and continue them
  Outcomes,      \* what should_fire can return: {TRUE}, {FALSE} or both
  ProcLimit,     \* processes the kernel lets the daemon have, zombies included
  Overlap,       \* workload: commands that may be running when a tick comes
  Delays,        \* what compute_next_delay may return
  Horizon,       \* bound: times are counted up to this one
  Lives          \* bound: how often the service is started

ASSUME ExecutorAssumption ==
  /\ Modes \subseteq BOOLEAN
  /\ Callbacks \subseteq BOOLEAN
  /\ JobControls \subseteq BOOLEAN
  /\ Outcomes \in SUBSET BOOLEAN \ {{}}
  /\ ProcLimit \in Nat \ {0}
  /\ Overlap \in Nat
  /\ Horizon \in Nat
  /\ Delays \in SUBSET (0..Horizon) \ {{}}
  /\ Lives \in Nat \ {0}

VARIABLES
  synchronous, managed,   \* the configuration, which does not change
  jobcontrol,             \* nor does this: commands get SIGSTOP and SIGCONT
  at,        \* where the loop's thread is
  armed,     \* waits that are pending on the timer
  expired,   \* waits that completed with success, handler not yet run
  aborted,   \* waits that completed with operation_aborted, likewise
  delay,     \* the delay the timer was last set to
  clock,     \* the time since then
  stopped,   \* the io_context has been stopped, or the daemon killed
  running,   \* commands that are running
  zombies,   \* async commands that have ended and have not been waited for
  unlogged,  \* a managed command's output has not reached the log
  quiet,     \* the time since the last command ended (synchronous) or was
             \* due (asynchronous)
  orphans,   \* commands of earlier lives that are still running
  lives      \* how often the service has been started

timerVars == <<armed, expired, aborted, delay, clock>>
childVars == <<running, zombies>>
pastVars == <<unlogged, quiet>>
config == <<synchronous, managed, jobcontrol>>
lifeVars == <<orphans, lives>>
fixed == <<config, lifeVars>>   \* what no step within a life changes
vars == <<config, at, timerVars, stopped, childVars, pastVars, lifeVars>>

Places == {"start", "loop", "sync", "log", "fork", "reap1", "reap2", "returned"}

TypeOK ==
  /\ synchronous \in BOOLEAN /\ managed \in BOOLEAN /\ jobcontrol \in BOOLEAN
  /\ at \in Places
  /\ armed \in Nat /\ expired \in Nat /\ aborted \in Nat
  /\ delay \in Delays /\ clock \in 0..Horizon
  /\ stopped \in BOOLEAN
  /\ running \in Nat /\ zombies \in Nat
  /\ unlogged \in BOOLEAN
  /\ quiet \in 0..Horizon
  /\ orphans \in Nat /\ lives \in 1..Lives

Init ==
  /\ synchronous \in Modes /\ managed \in Callbacks /\ jobcontrol \in JobControls
  /\ at = "start"
  /\ armed = 0 /\ expired = 0 /\ aborted = 0
  /\ delay \in Delays /\ clock = 0
  /\ stopped = FALSE
  /\ running = 0 /\ zombies = 0
  /\ unlogged = FALSE
  /\ quiet = Horizon
  /\ orphans = 0 /\ lives = 1

-----------------------------------------------------------------------------
(* register_callback: expires_after cancels every pending wait, which will *)
(* complete with operation_aborted; async_wait adds one.                   *)
(* The parameters are the completions left in the queue.                   *)
RegisterCallback(successes, aborts) ==
  /\ armed' = 1
  /\ expired' = successes
  /\ aborted' = aborts + armed
  /\ delay' \in Delays
  /\ clock' = 0

(* Executor::run, up to io_context::run. *)
Run ==
  /\ at = "start"
  /\ RegisterCallback(expired, aborted)
  /\ at' = "loop"
  /\ UNCHANGED <<stopped, childVars, pastVars, fixed>>

(* Executor::stop, from another thread at any time. *)
Stop ==
  /\ ~stopped
  /\ stopped' = TRUE
  /\ UNCHANGED <<at, timerVars, childVars, pastVars, fixed>>

(* A unit of time passes. *)
Later(t) == IF t < Horizon THEN t + 1 ELSE t

Pass ==
  /\ clock' = Later(clock)
  /\ quiet' = Later(quiet)
  /\ UNCHANGED <<at, armed, expired, aborted, delay, stopped, childVars, unlogged, fixed>>

(* The time has come: waits complete, whatever the loop's thread is doing. *)
Expire ==
  /\ armed > 0
  /\ clock >= delay
  /\ running <= Overlap
  /\ armed' = 0
  /\ expired' = expired + armed
  /\ UNCHANGED <<at, aborted, delay, clock, stopped, childVars, pastVars, fixed>>

(* Deviation: the loop finishes its queue before it looks at the flag. *)
ReturnWhenIdle ==
  /\ at = "loop"
  /\ expired + aborted = 0
  /\ armed = 0
  /\ at' = "returned"
  /\ UNCHANGED <<timerVars, stopped, childVars, pastVars, fixed>>

(* io_context::run returns when it is stopped or has no work left. *)
Return ==
  /\ at = "loop"
  /\ stopped \/ armed + expired + aborted = 0
  /\ at' = "returned"
  /\ UNCHANGED <<timerVars, stopped, childVars, pastVars, fixed>>

(* timer_callback for an aborted wait, or a tick that should_fire skips:   *)
(* the timer is set again and nothing is run.                              *)
Skip ==
  /\ at = "loop"
  /\ ~stopped
  /\ \/ aborted > 0 /\ RegisterCallback(expired, aborted - 1)
     \/ expired > 0 /\ FALSE \in Outcomes
        /\ RegisterCallback(expired - 1, aborted)
  /\ UNCHANGED <<at, stopped, childVars, pastVars, fixed>>

(* Deviation: the timer is set before the command, as execute_async does.  *)
FireSyncTimerFirst ==
  /\ at = "loop" /\ ~stopped
  /\ expired > 0
  /\ TRUE \in Outcomes
  /\ synchronous
  /\ RegisterCallback(expired - 1, aborted)
  /\ running' = running + 1
  /\ at' = "sync"
  /\ UNCHANGED <<stopped, zombies, pastVars, fixed>>

(* Deviation: the command is left in the background. *)
FireSyncInBackground ==
  /\ at = "loop" /\ ~stopped
  /\ expired > 0
  /\ TRUE \in Outcomes
  /\ synchronous
  /\ RegisterCallback(expired - 1, aborted)
  /\ running' = running + 1
  /\ UNCHANGED <<at, stopped, zombies, pastVars, fixed>>

(* timer_callback for a tick that fires, synchronous: execute_sync blocks  *)
(* the loop in system() or run_process().                                  *)
FireSync ==
  /\ at = "loop" /\ ~stopped
  /\ expired > 0
  /\ TRUE \in Outcomes
  /\ synchronous
  /\ expired' = expired - 1
  /\ running' = running + 1
  /\ at' = "sync"
  /\ UNCHANGED <<armed, aborted, delay, clock, stopped, zombies, pastVars, fixed>>

(* The command ends and has been waited for by system() or pclose(). *)
SyncCommandEnds ==
  /\ at = "sync"
  /\ running' = running - 1
  /\ unlogged' = managed
  /\ quiet' = 0
  /\ at' = "log"
  /\ UNCHANGED <<timerVars, stopped, zombies, fixed>>

(* Deviation: an early return for a command without output. *)
LogWithoutRegister ==
  /\ at = "log"
  /\ unlogged' = FALSE
  /\ at' = "loop"
  /\ UNCHANGED <<timerVars, stopped, childVars, quiet, fixed>>

(* Deviation: the timer is set, the output is dropped. *)
RegisterWithoutLog ==
  /\ at = "log"
  /\ RegisterCallback(expired, aborted)
  /\ at' = "loop"
  /\ UNCHANGED <<stopped, childVars, pastVars, fixed>>

(* output_callback_(result.stdout_data), then register_callback. *)
LogAndRegister ==
  /\ at = "log"
  /\ unlogged' = FALSE
  /\ RegisterCallback(expired, aborted)
  /\ at' = "loop"
  /\ UNCHANGED <<stopped, childVars, quiet, fixed>>

-----------------------------------------------------------------------------
(* timer_callback for a tick that fires, asynchronous: execute_async sets  *)
(* the timer before it forks.                                              *)
FireAsync ==
  /\ at = "loop" /\ ~stopped
  /\ expired > 0
  /\ TRUE \in Outcomes
  /\ ~synchronous
  /\ RegisterCallback(expired - 1, aborted)
  /\ quiet' = 0
  /\ at' = "fork"
  /\ UNCHANGED <<stopped, childVars, unlogged, fixed>>

Fork ==
  /\ at = "fork"
  /\ running + zombies + orphans < ProcLimit
  /\ running' = running + 1
  /\ at' = "reap1"
  /\ UNCHANGED <<timerVars, stopped, zombies, pastVars, fixed>>

(* fork returns -1: a message, and no waitpid. *)
ForkFails ==
  /\ at = "fork"
  /\ running + zombies + orphans >= ProcLimit
  /\ at' = "loop"
  /\ UNCHANGED <<timerVars, stopped, childVars, pastVars, fixed>>

(* Deviation: the second waitpid is missing. *)
ReapNoSecond(here, next) ==
  /\ at = here
  /\ zombies' = IF zombies > 0 /\ here = "reap1" THEN zombies - 1 ELSE zombies
  /\ at' = next
  /\ UNCHANGED <<timerVars, stopped, running, pastVars, fixed>>

(* Deviation: what waitpid returns is taken for a child. *)
ReapBlindly(here, next) ==
  /\ at = here
  /\ zombies' = zombies - 1
  /\ at' = next
  /\ UNCHANGED <<timerVars, stopped, running, pastVars, fixed>>

(* waitpid(-1, &status, WNOHANG | WUNTRACED | WCONTINUED): one zombie, if  *)
(* there is one, or the news that a command was stopped or continued.      *)
Reap(here, next) ==
  /\ at = here
  /\ \/ zombies' = IF zombies > 0 THEN zombies - 1 ELSE 0
     \/ jobcontrol /\ running > 0 /\ UNCHANGED zombies
  /\ at' = next
  /\ UNCHANGED <<timerVars, stopped, running, pastVars, fixed>>

(* Deviation: the timer is set again at the end of execute_async. *)
ReapSecondAndRegister ==
  /\ at = "reap2"
  /\ zombies' = IF zombies > 0 THEN zombies - 1 ELSE 0
  /\ RegisterCallback(expired, aborted)
  /\ at' = "loop"
  /\ UNCHANGED <<stopped, running, pastVars, fixed>>

ReapFirst == Reap("reap1", "reap2")
ReapSecond == Reap("reap2", "loop")

(* The child's command ends and the child exits.  What a managed command   *)
(* has printed the child has written to its own stdout, /dev/null since    *)
(* daemonize.                                                              *)
AsyncCommandEnds ==
  /\ ~synchronous
  /\ running > 0
  /\ running' = running - 1
  /\ zombies' = zombies + 1
  /\ unlogged' = (unlogged \/ managed)
  /\ UNCHANGED <<at, timerVars, stopped, quiet, fixed>>

-----------------------------------------------------------------------------
(* SIGTERM, at its default disposition, or a crash: the loop is gone       *)
(* wherever it was.  The commands are processes of their own and no signal *)
(* is sent to them.                                                        *)
Killed ==
  /\ at # "returned"
  /\ at' = "returned"
  /\ stopped' = TRUE
  /\ UNCHANGED <<timerVars, childVars, pastVars, fixed>>

(* The service is started again with the same configuration: a new process *)
(* with a new Executor.  What the old one ran or had not waited for is     *)
(* init's now.                                                             *)
Restart ==
  /\ at = "returned"
  /\ lives < Lives
  /\ lives' = lives + 1
  /\ orphans' = orphans + running
  /\ at' = "start"
  /\ armed' = 0 /\ expired' = 0 /\ aborted' = 0
  /\ delay' \in Delays /\ clock' = 0
  /\ stopped' = FALSE
  /\ running' = 0 /\ zombies' = 0
  /\ unlogged' = FALSE
  /\ quiet' = Horizon
  /\ UNCHANGED config

OrphanEnds ==
  /\ orphans > 0
  /\ orphans' = orphans - 1
  /\ UNCHANGED <<at, timerVars, stopped, childVars, pastVars, config, lives>>

LifeStep == Killed \/ Restart \/ OrphanEnds

-----------------------------------------------------------------------------
LoopStep ==
  \/ Run \/ Return \/ Skip \/ FireSync \/ LogAndRegister
  \/ FireAsync \/ Fork \/ ForkFails \/ ReapFirst \/ ReapSecond

CommandEnds == SyncCommandEnds \/ AsyncCommandEnds

Next == Stop \/ Pass \/ Expire \/ LoopStep \/ CommandEnds \/ LifeStep

Spec == Init /\ [][Next]_vars

(* The loop's thread is scheduled, time passes and the timer expires.      *)
(* Commands end: an assumption about them, which the properties below      *)
(* need.  A tick fires again and again when should_fire can say so: its    *)
(* draws are independent.  Nothing has to be killed or started again.      *)
Fairness ==
  /\ WF_vars(LoopStep) /\ WF_vars(Pass) /\ WF_vars(Expire)
  /\ WF_vars(CommandEnds) /\ WF_vars(OrphanEnds)
  /\ SF_vars(FireSync \/ FireAsync)

FairSpec == Spec /\ Fairness

-----------------------------------------------------------------------------
(* There is always exactly one of: a wait on the timer, a completed wait,  *)
(* a handler that has yet to set the timer.  With two, each new wait would *)
(* abort the other, and their handlers would set the timer for ever        *)
(* without a delay; with none, run would return (executor.cc:77-93).       *)
OneOutstandingWait ==
  at \notin {"start", "returned"} =>
    armed + expired + aborted + (IF at \in {"sync", "log"} THEN 1 ELSE 0) = 1

(* run returns only to a stop or with the daemon's death: the loop never   *)
(* runs out of work by itself, whatever ticks are skipped, forks fail or   *)
(* waits are cancelled (executor.cc:29-36, 77-93).                         *)
RunsUntilStopped == at = "returned" => stopped

(* A daemon that nobody stops never stops ticking (executor.cc:84-113).    *)
TicksKeepComing == [](~stopped => <>(expired > 0 \/ stopped))

(* run returns once stop has been called, after the command in progress    *)
(* (executor.cc:34-36).                                                    *)
StopEndsRun == stopped ~> at = "returned"

(* As long as its forks succeed, a daemon gets rid of all its zombies      *)
(* again and again, however many commands end between two ticks: each tick *)
(* starts one command and reaps up to two, unless commands are stopped and *)
(* continued, which a waitpid may report instead (executor.cc:130-147).    *)
ReapingKeepsUp ==
  ~jobcontrol /\ [](at = "fork" => running + zombies + orphans < ProcLimit)
    => []<>(zombies = 0 \/ stopped)

(* "Synchronous: frequency is the delay *after* the previous command       *)
(* finishes; Asynchronous: frequency is the delay between command *starts*"*)
(* (docs/wiki/Configuration.md): a tick comes no earlier than the delay    *)
(* drawn for it after the last command of this life has ended, or after    *)
(* the tick before it was handled, however late the loop's thread, the     *)
(* command or the reaping is (executor.cc:77-82, 105-130).                 *)
CommandsAreSpaced == expired > 0 => quiet >= delay

(* SIGTERM ends the daemon and not its command (service_registry.cc:315),  *)
(* so a service that is stopped and started again may run two commands at  *)
(* once, synchronous or not; but a synchronous one never more than one for *)
(* each time it has been started (executor.cc:105-114).                    *)
OverlapIsOnePerLife == synchronous => running + orphans <= lives

(* "In asynchronous mode, the parent process calls `waitpid()` with        *)
(* `WNOHANG` after each fork to reap completed child processes"            *)
(* (docs/wiki/FAQ.md): the same of every daemon, failed forks or not.      *)
ZombiesAreReaped == []<>(zombies = 0 \/ stopped)

(* Whenever a synchronous managed daemon is back at its timer, what its    *)
(* command has printed is in the log (executor.cc:105-114).                *)
SyncOutputIsLogged == synchronous /\ at = "loop" => ~unlogged

(* "frequent-cron captures command output" of managed services             *)
(* (docs/wiki/Logging.md), synchronous or not (executor.cc:132-141).       *)
OutputIsLogged == at = "loop" => ~unlogged

(* The timer of the service, of which the loop's thread, the waits and the *)
(* completions that are queued each hold a part.                           *)
Timer ==
  IF at \in {"start", "returned"} THEN "off"
  ELSE IF armed > 0 THEN "set"
  ELSE IF expired > 0 THEN "over" ELSE "held"

Task == INSTANCE PeriodicTask WITH
  timer <- Timer, owed <- at = "fork", commands <- running

(* The loop is a periodic task: each tick starts one command or is         *)
(* skipped, a synchronous command runs alone and before the next wait, an  *)
(* asynchronous one is not waited for, whatever is late, fails or is       *)
(* killed (executor.cc:77-149).                                            *)
ImplementsTask == Task!Spec

=============================================================================
