# frequent-cron in TLA+

frequent-cron runs a shell command every few milliseconds. `frequent-cron run`
is a daemon with one timer; `install`, `start`, `stop`, `status`, `list` and
`remove` are short-lived commands that manage named services, each of them one
such daemon, through a SQLite registry, PID files and log files. This directory
holds TLA+ models of the parts that carry state, TLC runs that check them on
small instances, and TLAPS proofs for every value of the constants. Line numbers
below refer to `src/src/` unless another directory is named.

## Inventory

| Part | State it keeps | Operations | Talks to |
|---|---|---|---|
| Service registry commands (`service_registry.cc`, `main.cc`) | a stack per invocation | install, remove, start, stop, status, list, logs | database, PID and log files, daemons (signals), platform definitions |
| SQLite registry (`database.cc`) | tables `services`, `service_state` | insert, remove, get, list, update_state, get_state | the file system |
| Daemon start-up (`main.cc` `cmd_run`, `daemonize.cc`, `pid_file.cc`) | a process, its PID file | launch, fork, open and write the PID file, run | executor, log manager |
| Executor (`executor.cc`) | timer, io_context, counters | run, stop, timer callback, synchronous and asynchronous execution | Boost.Asio, child processes, output callback |
| Log manager (`log_manager.cc`) | `.log`, `.log.1` ... `.log.N` of a service | write, rotate, read | the file system |
| Process runner (`process.cc`) | none | run_process | popen |
| Platform definitions (`platform_service.cc`) | one unit, plist or script per service | install, uninstall | systemd, launchd, rc.d |
| Platform managers (external) | what is enabled, due and running | boot, restart, stop | daemons |
| Command line (`config.cc`), data directory (`data_dir.cc`) | none; their settings travel through the record and printed command lines | parse, choose a directory | registry, platform definitions, executor |
| Windows build (`_WIN32` branches, SCM) | - | - | - |

What is hard here is what the commands share without a lock. Every SQL statement
is its own transaction and no busy timeout is set; `start` decides on a row it
read some steps before it launches; the PID passes from the kernel through a
file to a row to a signal, and each hop can be late, empty or out of date;
every poll gives up after a while and then carries on as if it had succeeded.
In the daemon, it is that every path of one callback must set the timer again
exactly once, that children are only reaped at ticks and outlive a SIGTERM, and
that a rotation is many renames and may be cut short by a kill. A platform's
manager starts daemons the registry does not know of. And the settings of a
service are printed, split and parsed again on every start, by a shell, systemd,
launchd or sh under rc.d, each with rules of its own.

What makes each part correct:

* **commands**: a service has at most one daemon, the row of a service is true
  of its daemon, signals reach only the service's own daemon, remove leaves
  nothing, no command hangs;
* **database**: no state row without its service, no pid in a stopped row;
* **executor**: one outstanding wait, ticks until stop and no closer than the
  delay, all children reaped, captured output logged, no more commands at once
  than the mode allows;
* **log manager**: order kept, only the oldest entries lost, size bounded, a
  rotation finds the files it renames (a call that the file system refuses
  throws, and ends the daemon);
* **platform definitions**: nothing is enabled, due or running that has no
  definition, as long as the manager does what an uninstall asks of it, and no
  definition without its record, whichever step an install or uninstall is cut
  short at;
* **settings**: a daemon runs as its install said, and a launch fails for reasons
  that can be named, as long as its launcher leaves the texts of the service
  alone; delays are within the jitter, or 1 ms.

`PROJECT.json` lists the hazards one by one with the line each bites at and the
properties that cover it.

## Modules

| Module | Models |
|---|---|
| `Identifiers` | service names, pids, and 0 as no pid |
| `Database` | the two tables and one operator per SQL statement |
| `DaemonProcess` | daemons from launch to death, PID files, log files, signals, the faults of the environment |
| `ServiceRegistry` | the commands as interleaved clients of the two above; the properties of the whole |
| `ServiceLifecycle` | the abstract life cycle docs/wiki/Service-Lifecycle.md promises |
| `BootedService` | the definitions' install and uninstall in their steps, the managers that act on them, reboots; EXTENDS `ServiceRegistry` |
| `Executor` | the timer loop of one daemon, its delays, its commands, and those that outlive it |
| `PeriodicTask` | the one timer and its commands that docs/wiki/Configuration.md describes |
| `LogManager` | the log files of one daemon and their rotation |
| `LogHistory` | the one log, of which the oldest entries are forgotten, that docs/wiki/Logging.md describes |
| `Configuration` | one service's settings from the command line to the executor |
| `MCServiceRegistry`, `MCBootedService`, `MCExecutor`, `MCLogManager`, `MCConfiguration` | instances for TLC |
| `ServiceRegistryProofs`, `CalmRegistryProofs`, `BootedServiceProofs`, `DefinitionRefinementProofs`, `UnmanagedRegistryProofs`, `ExecutorProofs`, `LogManagerProofs`, `ConfigurationProofs` | theorems and their proofs |

`ServiceRegistry` EXTENDS `Database` and `DaemonProcess` and composes them: an
action of a client conjoins one operator of each with its own change of control.
`Lifecycle` in `ServiceRegistry` is `ServiceLifecycle` under the refinement
mapping *registered = rows of services, recorded = status column, daemons =
number of live processes launched for the service*. `BootedService` refines the
two actions of `ServiceRegistry` that stand for the platform's install and
uninstall; `Registry` in it is `ServiceRegistry` with the definitions that are
complete. `Task` in `Executor` is `PeriodicTask` and `History` in `LogManager` is
`LogHistory`; their mappings are given below.

### ServiceRegistry and the code

A client is one invocation. `pc[c]` is the next access to shared state its code
makes, `op[c]` the subcommand, `svc[c]` the name, `seen[c]` the pid it read last
(`state->pid`, or `pid` in `cmd_start`), `todo[c]` the rows `cmd_list` and
`cmd_status` have still to print. Each label is one such access, in the order of
the code:

| Code | Labels |
|---|---|
| `get_actual_status` 82-98 | `get_state`, `probe`, `correct`; `Verdict` is what each caller does with the answer |
| `cmd_install` 101-139 | `get_service`, `insert_service`, `insert_state`, `platform_install` |
| `cmd_remove` 142-180 | `get_service`, the status, the labels of stop, `uninstall`, `delete_service`, `remove_pid_file`, `remove_logs` |
| `cmd_start` 183-270 | `get_service`, the status, `launch`, `read_pid_file`, `record_start` |
| `cmd_stop` 273-340 | `stop_get_service`, `stop_get_state`, `stop_read_pid`, `stop_probe`, `stop_mark` or `kill`, `wait_exit`, `stop_record`, `stop_unlink` |
| `cmd_status`, `cmd_list` 343-436 | `list_services`, `list_next`, the status, `report_running` |

`status` without a name is `list` (both print every row after
`get_actual_status`; the second read of the state in `cmd_status` is only
printed). The rotated logs and the log that remove deletes are one set here;
`LogManager` has them one by one.

A process is *booting* from the launch to `write_pid_file`, *opened* while the
PID file is truncated and not yet written (the `ofstream` flushes when it is
destroyed), *detached* when the file was unlinked in that window, *up* after.
Signals are delivered by `Die`, some time after `kill`. The polls of `start` and
`stop` last a second or two: unless the run has the fault `slowboot` or
`slowstop` a daemon is taken to boot, or to die, within them.

Faults are a constant, `Faults`, so that a run says which it assumes away:
`crash`, `bootfail`, `slowboot`, `slowstop`, `garble` (two daemons writing one
PID file leave digits of both), `reuse` (of a pid that is still written
somewhere), `busy` (a write returns SQLITE_BUSY), `clicrash` (a command is
killed), `unitfail` (a definition cannot be written or enabled), `askfail` (a
manager does not do what an uninstall asks), `reboot`. Reads are taken never to be busy, as in WAL mode. A
constructor of `Database` that throws ends the command before it has read
anything and is not a step.

### BootedService and the code

`stage[c]` is how far a command is inside `PlatformService::install` or
`uninstall`. `WriteDefinition` and `EnableDefinition` are the file and rc.d's
`sysrc` (52-77, 177-188, 401-421); `StopDefinition`, `DisableDefinition` and
`DeleteDefinition` the three steps of uninstall (79-93, 190-200, 423-438);
launchd has no middle step. What the managers do is external: `enabled` is what a
boot starts, `due` what the manager is about to start, `managed` what it has
started.

There are four platforms, since `SystemdService` is two. Root's unit goes to
`/etc/systemd/system`; anybody else's to `~/.config/systemd/user`
(platform_service.cc:109-119), while `systemctl` is called without `--user` (84,
85, 90) and so asks the system manager, which does not know the unit. For
`systemd_user` every call of uninstall therefore changes nothing: the link, a
pending restart and the processes stay when the unit goes. On the others it may
happen too, with the fault `askfail`, since no result of `system()` is looked at
and stderr is hidden. `Heeds` and `Ignores` are the two outcomes of each of the
three calls. `undone` is a ghost: the services of which a call was ignored since
their definition was written, or of which a user has enabled or started the unit
while an uninstall had already stopped it (`UserAsks`). `NothingDangles` and
`SupervisedHaveUnits` except them, and nothing else; of a user's units they say
nothing, because there the code gives nothing.

systemd restarts what fails (`Restart=on-failure`)
and stops what it started; launchd (`KeepAlive`) runs every plist again whenever
the program it launched has exited, which `daemonize` makes it do at once; rc.d
stops the process its PID file names. `UserEnables` and `UserStarts` are the
`systemctl` commands that docs/wiki/Service-Lifecycle.md invites to (with `--user`
for a user's unit); they may come between any two steps of a command. A user's
manager starts nothing at boot: it has no `multi-user.target` for the unit to be
wanted by. `Reboot`
ends every process and command and keeps files and tables.

### Executor and the code

`at` is the place of the thread inside `io_context::run`. `armed`, `expired` and
`aborted` count the waits that are pending, completed with success, or completed
with `operation_aborted`, and whose handlers have not run; `RegisterCallback` is
`expires_after` (which aborts what is pending) and `async_wait`. `running`,
`zombies` and `ProcLimit` are the children and the kernel's limit on them.
`Reap` is one of the two `waitpid` calls; since they ask for stopped and continued
children as well (executor.cc:146-147), each may report such a child and leave the
zombies, where `jobcontrol` says that somebody sends commands SIGSTOP and SIGCONT.
`delay` is what `compute_next_delay` returned and `clock` the time since, so that
a wait ends no sooner than its delay but any time later; `quiet` is the time
since the last command ended (synchronous) or was due (asynchronous). Time is
counted to `Horizon` and stays there, which keeps every comparison with a delay.
`Killed` is the SIGTERM of stop (or a crash) at any point, `Restart` the next
start of the service; commands the daemon was running go on as `orphans`.

The abstract timer of `PeriodicTask` is off before `run` and after it has
returned, set while a wait is armed, over while a completion is queued, and held
while the thread is in a synchronous command or its log. A command is owed while
the thread is at `fork`.

### LogManager and the code

Every call to the file system is an action, so that `Crash` (the daemon is
killed and started again) and `RemoveFile` (remove in another process) fall
between any two; opening the current file, which creates it, and the write that
closing it flushes are two (`Open`, `Append`). `exists`, `file_size` and `rename` are
the overloads that throw (72-87): on any error with the fault `denied`
(`Denied`: no access, a read-only or broken file system), and `file_size` and
`rename` also when the file has gone (`Missing`). Nothing catches, so the daemon
is at `thrown` until somebody starts it again (`Restart`). The stream does not
throw: with the fault `nowrite` the output is dropped (`OpenFails`). An entry is
taken to be one write; one that is longer than the stream's buffer is several,
and a kill between them would leave a part of it. Entries are numbered in the order they are written, and a file
is the set of its entries and its size. In `LogHistory` what is kept is the union
of the files, so that a rename forgets the file it overwrites and the rest of a
rotation is invisible. `RemoveFile`, the one step that is not the log manager's,
is exempt from `ImplementsHistory`.

### Configuration and the code

`ParseArgs` and the operators below it are `config.cc`, subcommand by subcommand
and error by error; `PrintedOptions` is the command line that `cmd_start` and the
three definitions print (service_registry.cc:200-221, platform_service.cc:34-56,
141-175, 360-399); `Received` what the daemon's parser makes of it after somebody has split it into
words. A text is one of a few kinds by its special characters (an absolute
directory too), a probability an integer in units of 10^-7 that printing rounds
to six digits, and integers have the width `MaxInt`, so that frequency plus
jitter wraps around as `int` does. `Special` are the kinds each launcher damages.
Damaged text may become another text, a directory that cannot be written, an
option that was not printed (`WithStray`; one such option and value is looked at),
or an error of the parser; a word that belongs to no option is ignored, as the
parsers describe no positional ones. `Intact` is that no text of the service is
of a kind its launcher damages. `CmdRun`
parses what arrived and decides the daemon's PID file, log and first delay;
`Tick` is `should_fire` and `compute_next_delay`.

## Runs

One question each. `Symmetry` is used for invariants only.

| Run | Instance | Shows |
|---|---|---|
| `RegistryCalm` | 2 services, 2 pids, 1 command at a time, fairness; crash, bootfail, unitfail | `AtMostOneDaemon`, `LiveDaemonsAreTracked`, `PidFileNamesDaemon`, `RemoveCleansUp`, `StopsLeaveNoDaemon`, `ImplementsLifecycle`, `CommandsTerminate`, `StaleRowsAreCorrected`, `StopStops`, `TypeOK` |
| `RegistryConcurrent` | 2 services, 2 pids, 2 commands among install, start, remove (which contains stop); slowboot | `StateRowsHaveServices`, `StoppedRowsHoldNoPid`, `SignalsOwnDaemon`, `PidsBelong` |
| `Boots` | 1 service, 2 pids, 1 command, four platforms; every fault but `reuse` and `garble` | `UnitsHaveRecords`, `NothingDangles`, `SupervisedHaveUnits`, `RegistryUnlessManaged`, `BootedTypeOK` |
| `ExecutorLoop` | both modes, with and without capture, delays 1 and 2, 5 processes, 2 lives, commands stopped and continued or not | `OneOutstandingWait`, `SyncOutputIsLogged`, `CommandsAreSpaced`, `OverlapIsOnePerLife`, `ImplementsTask`, `TicksKeepComing`, `StopEndsRun`, `ReapingKeepsUp`, `TypeOK` |
| `LogRotates` | 3 rotated files of size 2, 9 entries of size 1 or 2, every subset of crashes, failed opens, refused calls and removal | `LogIsOrdered`, `RetentionIsFull`, `RotationFindsItsFiles`, `SizesAreBounded`, `ImplementsHistory`, `TypeOK` |
| `Settings` | ints of four bits, three environments, command lines that vary two or three options at a time | `DaemonsRunAsInstalled`, `FailedLaunchesAreExplained`, `DaemonsUseServiceDirectory`, `DelaysStayWithinJitter`, `ConfigTypeOK` |

The bounds. Two services are enough for anything that mixes services, since no
step of a command touches more than one; two pids are enough for a second daemon
of one service or a first daemon of two, or, in `Boots`, for a manager's daemon
beside start's. A start that finds no free number fails
(`LaunchFails`), so a small `Pids` takes launches away and adds nothing. Two
commands show every race between a read and a write of one command and the steps
of another; what the concurrent run leaves out (crashes, a busy database, killed
commands, stop and status on their own) the proofs of its four properties cover.
`RegistryCalm` and `Boots` have one command at a time; that their properties hold
of many, if no two of them work on one service, is proved.
Nine entries of size 1 or 2 fill three rotated files and the current one in every
mix of sizes and then rotate the oldest out. In `ExecutorLoop` five commands may
overlap a tick and the limit is five processes, so that forks fail in some
behaviours and not in others; two delays tell an early tick from a late one, and
two lives are one restart beside an orphan. Four-bit ints have every overflow
that 32 bits have: -8, 0, 1, 5 and 7 are frequencies and 3 and 7 jitters, and
their sums leave the range on either side. `Boots` has 1.0 million states,
`LogRotates` 1.3 million, `ExecutorLoop` 37 thousand, `Settings` 22 thousand.
`CHECK_DEADLOCK FALSE` is set where the system
really stops: `Executor::run` returns, and a log's behaviours end at
`MaxEntries`.

These runs check a statement of the documentation and find it violated;
`PROJECT.json` quotes each under "findings":

| Run | Statement | What happens |
|---|---|---|
| `StatusRacesStart` | stopped means not running | a stale correction overwrites a new daemon's row |
| `RunningForever` | a dead service is corrected to stopped | not when its row holds pid 0 |
| `ForkLimit` | zombies are reaped after each fork | not after a fork that failed |
| `AsyncOutputLost` | managed output goes to the log | an asynchronous command's goes to /dev/null |
| `NotStartedAtBoot` | what is installed starts at boot | systemd's unit is written and never enabled |
| `BootedIsUnknown` | stopped means not running | what a manager starts is in no row, so status says stopped for ever |

Three properties are proved and on no run's list, since another one of a run
guards against the same mistakes: `CommandsAdvance` (beside `CommandsTerminate` of
`RegistryCalm`), `RunsUntilStopped` (beside `TicksKeepComing` of `ExecutorLoop`)
and `OnlyOldestAreLost` (which `ImplementsHistory` of `LogRotates` implies). TLC
finds them true on those instances.

`StatusRacesStart` starts from installed, stopped services (`InstalledInit`, the
state every install leaves) to keep the trace short.

Other consequences of the code that the models show, or that came up in writing
them, and no run is spent on:

* adding a second client to `RegistryCalm` violates `LiveDaemonsAreTracked`: two
  starts of one service both pass the status check and both launch;
* adding the fault `reuse` to `RegistryConcurrent` violates `SignalsOwnDaemon`;
* with `busy`, an install whose second INSERT fails reports success and leaves a
  service without a state row (database.cc:98-107);
* a stop of a service whose daemon has crashed returns before it removes the PID
  file (service_registry.cc:298-305; docs/wiki/Troubleshooting.md:64 counts on
  it);
* a remove that comes while a daemon is slow to boot finds no pid and leaves the
  daemon running (service_registry.cc:153-161; docs/wiki/Service-Lifecycle.md:119);
* a rotation keeps `.log.5`, which the comment at log_manager.cc:77 does not
  expect, and between the last rename and the next write `logs` finds no log;
* the command of a service is expanded by the shell that `start` launches it
  with: `$`, backquotes and double quotes do not survive
  (service_registry.cc:200-224; docs/wiki/Configuration.md:29);
* a user's systemd unit cannot be uninstalled while it is enabled or running: the
  link and the process stay (platform_service.cc:84-90, 110-119;
  docs/wiki/Service-Lifecycle.md gives the path of user units), and a failed call
  of any manager's command is not noticed;
* a log directory that cannot be searched or changed ends the daemon at its next
  output, since a rotation throws (log_manager.cc:72-87), while a log file that
  cannot be opened only loses the output;
* `install ""` succeeds and `start ""` launches a daemon that refuses the empty
  `--service-name` (service_registry.cc:207);
* a relative `--data-dir` is found by the commands and not by the daemon, which
  has changed to `/`;
* frequency plus jitter beyond INT_MAX wraps around and becomes a delay of 1 ms
  (executor.cc:59-61; config.cc:29 promises frequency +/- jitter);
* a daemon that `start` launches is not the manager's, so a crash of it is not
  followed by a restart (docs/wiki/FAQ.md:67), and launchd's KeepAlive launches
  one daemon after another.

Each property of a passing run has a mutant: an operator marked *Deviation* that
stands before the definition it would replace and changes it as a plausible bug
would (a dropped test, a lost write, an off-by-one). No specification uses one.

## Fairness

`Fairness` of `ServiceRegistry` says that the operating system schedules every
command and every booting daemon and delivers signals (weak fairness of each
client's steps, of `Boot` and of `Die`). No command has to be typed and no fault
has to happen. `StaleRowsAreCorrected` and `DeadServicesAreCorrected` say in the
formula that status is asked again and again. `BootedFairness` adds that a
manager starts what is due; nobody has to reboot or to use `systemctl`.

`Fairness` of `Executor`: the loop's thread runs, the timer expires, commands
end. The last is an assumption on the commands: a synchronous one that hangs
hangs the daemon. Strong fairness of the two firing actions says that
`should_fire`, whose draws are independent, cannot answer no for ever when its
probability is above 0. Time passes (`Pass`), or no timer would expire. Nothing
has to be killed or restarted. `LogManager` and `Configuration` have no liveness
properties.

## Proofs

`ServiceRegistryProofs` proves, for any sets of names, pids and clients:

* `TypeCorrect`: `Spec => []TypeOK`. Beside the types, `TypeOK` holds that a
  client at a label that uses a pid has one and a client that works on a service
  has its name. Three lemmas say what one step of a client can do to the
  database (`ClientStepDb`: nothing or one statement about its own service), to
  processes and files (`ClientStepProc`) and to its control
  (`ClientStepControl`); the later proofs reuse them instead of going through
  all the actions again.
* `NoOrphanStateRows` and `NoPidWhenStopped`: inductive with `TypeOK`, one step
  per SQL statement. They hold with every fault, `busy` and `clicrash` included.
* `PidsNeverMix` and `OnlyOwnDaemonsAreSignalled`: assuming `NoReuse` (no pid is
  reused while it is written down, and no PID file mixes two), every pid in a
  row, a PID file or a client's hands belongs to the service it is kept for, and
  so stop signals only its own service's daemon. `PidsBelong` alone is not
  inductive: `Begin` gives a client a new name, so the invariant `IInv` adds that
  an idle client holds no pid. The argument is that a step only copies pids that
  were already written down for the same service (`ClientStepSeen`,
  `ClientStepRow`), that only an unreferenced process changes its owner
  (`ClientStepOwner`), and that a daemon writes its own pid into its own file
  (`EnvironmentBelongs`). The assumption is needed: with the fault `reuse` TLC
  finds a stop that signals a stranger.

* `CommandsGoOn`: `CommandsAdvance`, the part of termination that is safety. Each
  step of a command leaves list and status fewer rows to print or moves on in
  `Course`, the order in which the code can come to its places; so, whatever the
  others write meanwhile, a command has no cycle. That each wait on the way is over at
  some time is what fairness is for, and stays with `CommandsTerminate`.

`ExecutorProofs` proves, for any `ProcLimit`, `Overlap`, delays, modes and
outcomes:

* `ExactlyOneWait`: `OneOutstandingWait`, strengthened with what holds before
  `run` (`IdleBeforeRun`) and with the fact that a synchronous daemon has one
  command exactly when its loop is inside it (`OneSyncCommand`).
* `LoopLastsUntilStopped`: `RunsUntilStopped`. With a wait always outstanding the
  io_context never runs out of work.
* `TaskIsImplemented`: `ImplementsTask`, the refinement of `PeriodicTask`, step by
  step. It needs `NeverAborted`: each wait is set when the one before is over, so
  none is cancelled and the first branch of `timer_callback` is never taken.
* `SyncOutputReachesLog`: `SyncOutputIsLogged`, by way of `OutputInHand`.
* `TicksAreSpaced`: `CommandsAreSpaced`, by way of: while a wait is pending, the
  time since it was set is at most the time since the last command.
* `OverlapIsBounded`: `OverlapIsOnePerLife`: of each earlier life at most one
  command is left, and the present one has at most one when its thread is in it.
* `ForksSucceedBelowLimit`: when the statement that `ForkLimit` refutes is true. As
  long as at most K commands run at once, and K and the commands of earlier lives
  are below `ProcLimit`, every fork succeeds, unless commands are stopped and
  continued, which the `waitpid`s may report in place of a zombie. `Children` counts: a fork adds a
  process, the two `waitpid`s after it take away up to two that have ended, so
  running commands and zombies are never more than K + 1.
* `TypeCorrect`.

`LogManagerProofs` proves, for any `MaxFiles`, `MaxSize`, sizes of output, and
every subset of the faults, with no bound on the entries but `MaxEntries`:
`TypeCorrect`, `OrderIsKept` (`LogIsOrdered`), `SizesStayBounded`
(`SizesAreBounded`: an append leaves the file larger than the maximum by less than
what it has added), `RotationFindsWhatItRenames` (`RotationFindsItsFiles`: the
daemon ends in a rotation only if a call is refused, or another process has taken
a file away), `OldestGoFirst` (`OnlyOldestAreLost`) and
`RetentionStaysFull` (`RetentionIsFull`). A rotation deletes the oldest file and
then moves the others up one by one, so that a hole moves down the chain until
the current log has become `.log.1`; the invariant says where the hole is for
each step of the code, that the files above and below it are full and in order,
and that a daemon which is killed on the way leaves a hole that only the next
rotation closes. `HistoryIsImplemented` (`ImplementsHistory`) is the refinement of
`LogHistory`: the move that overwrites the last file is the only step that forgets
(`MoveForgetsOldest`, from the order of the files), and every other one keeps the
union of the files.

`CalmRegistryProofs` makes two assumptions. `Calm` is about the faults: no slow
boot, no slow stop, no busy database, no killed command. Crashes, failed boots,
unwritable definitions, reused pids and mixed PID files may happen. `Apart` is
about the users: at no time do two commands work on one service. It is a
hypothesis on the behaviour (`Spec /\ []Apart => ...`), so that any number of
commands may run, on services of their own. Neither can be weakened: TLC finds
each of the properties below violated when one of the four faults is added, and
when two commands may meet without a fault.

No property is inductive: that a service has one daemon at most depends on its
row, its PID file and what the command in progress has read. `CalmInv` says that
every service is *at rest*, that is *clean* (nothing is there of it) or *tracked*
(registered, its daemon if any named by its row and its PID file), except one
whose command is midway, and for every command what holds of its service at each
label (`At`). `Found` adds which commands have looked their service up. The
argument is that a step of a command is about its own service (`OthersStay`), that
another service can only lose a daemon (`Shrinks`), and that losing one takes none
of these facts away (`ShrinkingKeeps`). From it:

* `OneDaemon` (`AtMostOneDaemon`), `DaemonsAreTracked` (`LiveDaemonsAreTracked`),
  `PidFilesNameDaemons` (`PidFileNamesDaemon`), `NothingIsLeft`
  (`RemoveCleansUp`), `StopsReachTheDaemon` (`StopsLeaveNoDaemon`, what `StopStops`
  says without fairness);
* `StoppedIsTheTruth` (`StoppedMeansNoDaemon`): what `StatusRacesStart` refutes for
  two commands on one service holds of any number of commands on services of
  their own, and a status corrects a row to "stopped" only if there is no daemon;
* `StatusIsTheTruth`: the other half, for "running", which a crash makes false until
  the next status. Without crashes, failed boots (`NoDeaths`) and reused numbers
  (`NoReuse`) the row says "running" exactly if there is a daemon, and status and
  list print it only then. `TruthInv` adds to `CalmInv` that each pending SIGTERM is
  awaited by the command that sent it (`TermedAreAwaited`), that a "running" row
  without a daemon is that command's (`RunningAreLive`), and which commands are
  sure of a daemon (`SureAreRight`). A daemon can then die only under a command
  that has its service to itself and is about to write so;
* `LifecycleIsImplemented` (`ImplementsLifecycle`): the refinement of
  `ServiceLifecycle`. Init maps to Init; a step that writes a row, launches, or
  ends a process maps to the abstract action of that name, under `CalmInv` which
  gives that action its guard, and every other step to a stutter. The abstract
  count of daemons is a cardinality, so these steps rest on the library's
  theorems about finite sets.

`BootedServiceProofs` is about any faults, any platform and any number of services
and commands. Two invariants are inductive. `ManInv` holds of every behaviour: it
adds to the types where inside install or uninstall a command is (`Inside`):
systemd's processes and links go before its unit, but for those of services that
are `undone`. From it come `BootedTypeCorrect`, `SupervisedOnlyWhileDefined` and,
where rc.d is not among the platforms, `NothingDanglesButOnRcd`. `DefInv` needs
`Apart`. It adds that the record comes before the definition and goes after it, and
that rc.d's line comes after its script (`Between`). Two commands on one service
break that order: a remove between an install's row and its definition leaves the
definition, and a `sysrc` that comes after another command's remove leaves a line
without a script. With it a kill, a busy database or a reboot between any two steps
keeps `DefinitionsHaveRecords` and `NothingIsDangling`.

These allow managers that ignore calls, and except what they have ignored.
`UninstallsLeaveNothing` is what follows where they do not: without the fault
`askfail`, without a user's units, and with nobody calling `systemctl` in the middle
of an uninstall (`Meddling`), `undone` stays empty (`NothingIsUndone`) and nothing is
enabled, due or, on systemd, running that has no definition, without exception.
Each of the three assumptions is needed: without any of them TLC finds a removed
service that its manager still has.

The four properties of `RegistryConcurrent` hold beside managers as well. Two hold
across reboots: `NoOrphanStateRowsAcrossBoots` and `NoPidWhenStoppedAcrossBoots`. A
manager launches a daemon as start does, and a reboot ends everything without
writing to a table or a file (`BootedStep`). `PidsNeverMixBesideManagers` and
`OnlyOwnDaemonsAreSignalledBesideManagers` are about the time between two boots
(`WithinABoot`: `NoReuse`, which says within a boot that numbers do not wrap around,
and no reboots). Across a reboot they are false: a kernel that has just booted
counts from the beginning while rows and PID files still hold the numbers of the
last boot, and the code has no defence.

`LaunchdAndRcdStartAtBoot` says when `InstalledStartAtBoot`, which
`NotStartedAtBoot` refutes on systemd, is true: on launchd and rc.d, for any
interleaving of commands, two on one service included, if no write fails
(`busy`, `unitfail`) and neither a kill nor a reboot (`Uncut`) cuts an install or
remove between its record and its definition. By `StartInv` a registered service
has its definition or a command is at work on it; the second conjunct is for
rc.d, whose script can be deleted by one command before another writes the line.

`DefinitionRefinementProofs` proves that `BootedService` implements
`ServiceRegistry` until a manager has something due or running
(`RegistryUntilManaged`, that is `RegistryUnlessManaged`), under `Apart` and with
`crash` among the faults, since rc.d's stop ends a daemon without a signal of the
registry. The mapping is `Settled`: a definition is there once it is complete, so
that writing rc.d's script is a stutter and its line in rc.conf is the platform's
install; a command that is killed between the two leaves a script that counts,
which is that install too. `Fresh` adds to `DefInv` that a name being installed
has no definition yet: without it, writing the script again would take a
definition away.

`UnmanagedRegistryProofs` combines the two: as long as no manager has anything due
or running (`Unmanaged`), what `CalmRegistryProofs` proves of `ServiceRegistry`
holds with the definitions in all their steps (`RegistryKeepsItsPromises`), with
`CalmInv` as it stands. The machine may be rebooted between commands
(`IdleReboot`): every daemon goes, the rows and PID files that named them stay, and
a service at rest stays at rest, since `Tracked` speaks only of daemons that live.
`LifecycleInEveryDetail` is the refinement, without reboots, which end several
daemons at once. Where `Unmanaged` holds is proved too:

* `NothingIsDueBeforeABoot`: on launchd and rc.d always, before a boot;
* `NothingIsDueWithoutSystemctl`: on systemd, with root's units or a user's, before
  and after any boot, until somebody uses `systemctl`, because install writes a unit and enables nothing. So
  `PromisesOutliveBootsOnSystemd` holds without a hypothesis on the managers.

`ConfigurationProofs` proves, for any width of the ints and any command lines and
environments, all that `Settings` checks: `ServicesRunAsInstalled`,
`LaunchFailuresAreExplained` (`FailedLaunchesAreExplained`), `DirectoriesAgree`,
`DelaysAreWithinJitter` and `ConfigTypeCorrect`. All but the last suppose that the
launcher leaves the texts of the service alone (`Intact`).
`LaunchFailuresAreExplained` is an equivalence: among such services the daemon's
parser refuses those that start gives an empty name, and no others, and those
without a PID file are those with a relative directory. What becomes of damaged
texts is modelled, and promised nothing: they may be refused, too.
`DelaysAreWithinJitter` includes overflow: a delay outside of the jitter is 1 ms, and
either the low end is below 1 or the high end no int (the low end is supposed to
be one, as it is for every frequency above 0). `SettingsInv` relates the record
to the options of the install (`Recorded`), and the daemon's configuration to the
record (`Launched`), if the launcher left the words alone. The lemmas say field by
field what the parser understands (`RunAccepts`, `InstallParsed`), what is printed
(`OptionsPrinted`), what arrives (`IntactArrives`, `ReceivedIsParsed`), that printing loses at most five
units of a probability and never all of it (`SamePrinted`), and what an overflow
makes of a sum (`DelaysAreInts`, `DelaysAreNear`).

The assumptions are the named ASSUMEs of the modules: 0 is not a pid, the special
values are not names or pids, the faults and commands are among the known ones,
the limits are positive. TLC evaluates them on every run.

Only model-checked: all liveness (`CommandsTerminate`, `StaleRowsAreCorrected`,
`StopStops`, `TicksKeepComing`, `StopEndsRun`, `ReapingKeepsUp`), which is
beyond this prover. Of the first, the third, and the fourth the part that is safety is
proved: a command never goes round in circles, a stop that ends has left no
daemon, and the loop never runs out of work.

## Plan

Done: the registry and its life cycle, the executor with its durations and
restarts, the log, the platforms' definitions and managers, the settings, and
the theorems above. Left:

1. two writers of one log (two daemons of one service, or a daemon that outlived
   its remove), where `rename` or `file_size` throws and ends a daemon; `read_log`
   against "the last n lines";
2. liveness of a booted system: that a service which systemd restarts is up again.

## Not modelled

* `cmd_logs` and `read_log`: they only read, and `read_log` is called by tests
  only.
* Two daemons that write one log (see the plan).
* `update_service`: no code outside the tests calls it; the columns it writes are
  data no decision reads. Timestamps and `execution_count` likewise, the
  counters of the executor, and the schema migration at open.
* `ensure_exists` of `data_dir.cc`, which only creates directories; abbreviated
  option names, which Boost accepts, and the texts of messages.
* `start`, `stop` and `status` of the platform classes that nothing calls but
  uninstall.
* PID files of `run` without the service manager beside their path: they are the
  user's.
* The Windows branches: another program in the same files, without fork, with a
  blocking `execute_async` and the SCM as its manager.
* The assembly of a command's output in `process.cc`.
* The text of commands, definitions and output beyond the kinds above.
