--------------------------- MODULE Configuration ---------------------------
(***************************************************************************)
(* The settings of a service on their way from the command line of its     *)
(* install (src/src/config.cc, main.cc) through the registry's record and  *)
(* the command lines that cmd_start and the platform definitions print     *)
(* (service_registry.cc, platform_service.cc), through whatever splits     *)
(* those into words, and the parser again, to the Executor of the daemon   *)
(* and the delays and draws it makes of them (executor.cc).                *)
(*                                                                         *)
(* One service and one daemon are followed at a time: they share no        *)
(* setting with others.                                                    *)
(* A text (a command, a name, a distribution) is one of a few kinds, by    *)
(* the characters that somebody on the way treats specially; so is an      *)
(* absolute directory, beside where a relative one is found from.  Option  *)
(* names are written in full: the library's abbreviations of them are left *)
(* out.                                                                    *)
(***************************************************************************)
EXTENDS Integers

CONSTANTS
  Absent,         \* an option that is not given
  NaN,            \* the double that is no number
  MaxInt,         \* the largest int
  Probabilities,  \* doubles, in units of 10^-7
  CommandLines,   \* what users type
  Environments    \* the environments they type it in

MinInt == -MaxInt - 1
Int32 == MinInt .. MaxInt
One == 10000000

Launchers == {"systemd", "launchd", "rcd"}   \* beside start itself
TextOptions == {"command", "service_name", "jitter_distribution", "pid_file", "data_dir"}
NameOptions == {"help", "data_dir"}
InstallOptions ==
  NameOptions \cup {"frequency", "command", "synchronous", "jitter",
                    "jitter_distribution", "fire_probability"}
RunOptions == InstallOptions \cup {"pid_file", "service_name"}

(* The texts that somebody on the way compares with. *)
Words ==
  {"-", "--help", "run", "install", "remove", "start", "stop", "logs", "status",
   "list", "", "yes", "no", "uniform", "blank", "dollar", "quote", "apostrophe",
   "markup", "/var/lib", "$XDG_DATA_HOME", "$HOME", "passwd"}

(* A command line: its first word, the second one if it is no option, and  *)
(* its options.                                                            *)
ASSUME ConfigurationAssumption ==
  /\ MaxInt \in Nat \ {0}
  /\ Absent \notin Int \cup Words /\ NaN \notin Int
  /\ One \in Probabilities /\ Probabilities \subseteq Int
  /\ \A line \in CommandLines :
       /\ DOMAIN line.options = RunOptions
       /\ line.options.fire_probability \in Probabilities \cup {Absent, NaN}

VARIABLES
  row,      \* the service's record, or Absent
  asked,    \* the options its install was given
  unit,     \* the record its platform definition was printed from, or Absent
  launch,   \* who launched the last daemon and what has become of it
  config,   \* that daemon's Config
  delay,    \* the delay it waits for
  fires     \* what should_fire answered last

vars == <<row, asked, unit, launch, config, delay, fires>>
daemonVars == <<launch, config, delay, fires>>

-----------------------------------------------------------------------------
(* Parsing. *)

(* struct Config.  What a subcommand does not use keeps its default; the   *)
(* limits of the log have no option.                                       *)
Default ==
  [subcommand |-> "legacy", service_name |-> "", frequency |-> 0,
   command |-> "", pid_file |-> Absent, synchronous |-> TRUE,
   data_dir |-> Absent, jitter |-> 0, jitter_distribution |-> "uniform",
   fire_probability |-> One]

Ok(cfg) == [result |-> "ok", config |-> cfg]
Help == [result |-> "help", config |-> Default]
ParseError == [result |-> "error", config |-> Default]

(* Deviation: a number is taken as it is. *)
ThrowsUnranged(options, described) ==
  \/ \E o \in RunOptions \ described : options[o] # Absent
  \/ \E o \in TextOptions : options[o] = ""

(* What po::parse_command_line, store and notify throw at: an option that  *)
(* is not described, a number that is no int, an empty value.  A word that *)
(* belongs to no option is ignored: none of the parsers describes any.     *)
Throws(options, described) ==
  \/ \E o \in RunOptions \ described : options[o] # Absent
  \/ \E o \in {"frequency", "jitter"} :
       options[o] # Absent /\ options[o] \notin Int32
  \/ \E o \in TextOptions : options[o] = ""

Given(value, default) == IF value = Absent THEN default ELSE value

(* parse_common_options.  "no" stands for every spelling but the four that *)
(* mean true.                                                              *)
ParseCommonOptions(options, cfg) ==
  [cfg EXCEPT
    !.data_dir = options.data_dir,
    !.synchronous = @ /\ options.synchronous # "no",
    !.jitter = Given(options.jitter, @),
    !.jitter_distribution = Given(options.jitter_distribution, @),
    !.fire_probability = Given(options.fire_probability, @)]

(* Deviation: run describes the options of install. *)
ParseRunArgsAsInstall(options, subcommand) ==
  IF Throws(options, InstallOptions) THEN ParseError
  ELSE IF options.help = "yes" THEN Help
  ELSE IF Absent \in {options.frequency, options.command} THEN ParseError
  ELSE Ok(ParseCommonOptions(options,
            [Default EXCEPT
              !.subcommand = subcommand,
              !.frequency = options.frequency,
              !.command = options.command]))

ParseRunArgs(options, subcommand) ==
  IF Throws(options, RunOptions) THEN ParseError
  ELSE IF options.help = "yes" THEN Help
  ELSE IF Absent \in {options.frequency, options.command} THEN ParseError
  ELSE Ok(ParseCommonOptions(options,
            [Default EXCEPT
              !.subcommand = subcommand,
              !.frequency = options.frequency,
              !.command = options.command,
              !.pid_file = options.pid_file,
              !.service_name = Given(options.service_name, @)]))

ParseInstallArgs(options, name) ==
  IF Throws(options, InstallOptions) THEN ParseError
  ELSE IF options.help = "yes" THEN Help
  ELSE IF Absent \in {options.frequency, options.command} THEN ParseError
  ELSE Ok(ParseCommonOptions(options,
            [Default EXCEPT
              !.subcommand = "install",
              !.service_name = name,
              !.frequency = options.frequency,
              !.command = options.command]))

ParseNameSubcommand(options, subcommand, name) ==
  IF Throws(options, NameOptions) THEN ParseError
  ELSE IF options.help = "yes" THEN Help
  ELSE Ok(ParseCommonOptions(options,
            [Default EXCEPT !.subcommand = subcommand, !.service_name = name]))

(* parse_args: "-" stands for a first word that is an option. *)
ParseArgs(line) ==
  LET opts == line.options
      named == line.name # Absent
  IN  CASE line.first = Absent -> ParseError
        [] line.first = "--help" -> Help
        [] line.first = "-" -> ParseRunArgs(opts, "legacy")
        [] line.first = "run" -> ParseRunArgs(opts, "run")
        [] line.first = "install" ->
             IF named THEN ParseInstallArgs(opts, line.name)
                      ELSE ParseError
        [] line.first \in {"remove", "start", "stop", "logs"} ->
             IF named THEN ParseNameSubcommand(opts, line.first, line.name)
                      ELSE ParseError
        [] line.first = "status" ->
             ParseNameSubcommand(opts, "status", Given(line.name, ""))
        [] line.first = "list" ->
             ParseNameSubcommand(opts, "list", "")
        [] OTHER -> ParseError

-----------------------------------------------------------------------------
(* Where things are. *)

(* data_dir::get_default.  An environment says whether the user is root    *)
(* and which variables are set; XDG_DATA_HOME is ignored on macOS.         *)
DefaultDir(env) ==
  IF env.root /\ ~env.mac THEN "/var/lib"
  ELSE IF env.xdg /\ ~env.mac THEN "$XDG_DATA_HOME"
  ELSE IF env.home THEN "$HOME" ELSE "passwd"

(* make_registry, and cmd_run for the log. *)
DataDir(cfg, env) == Given(cfg.data_dir, DefaultDir(env))

(* daemonize has changed to "/" before the daemon opens a file. *)
ReachableFromRoot(dir) == dir # "relative"

-----------------------------------------------------------------------------
(* Printing, and what becomes of it. *)

(* operator<< of a double: six significant digits. *)
Printed(p) ==
  IF p >= One \div 10 THEN ((p + 5) \div 10) * 10 ELSE p

NoOptions == [o \in RunOptions |-> Absent]

(* Deviation: an asynchronous service is not told so. *)
PrintedOptionsSync(record) ==
  [NoOptions EXCEPT
    !.frequency = record.frequency,
    !.command = record.command,
    !.pid_file = record.dir,
    !.jitter = IF record.jitter > 0 THEN record.jitter ELSE Absent,
    !.jitter_distribution =
        IF record.jitter > 0 THEN record.jitter_distribution ELSE Absent,
    !.fire_probability =
        IF record.fire_probability < One THEN Printed(record.fire_probability)
                                         ELSE Absent]

(* The options that start and every platform definition print alike. *)
PrintedOptions(record) ==
  [NoOptions EXCEPT
    !.frequency = record.frequency,
    !.command = record.command,
    !.pid_file = record.dir,
    !.synchronous = IF record.synchronous THEN Absent ELSE "no",
    !.jitter = IF record.jitter > 0 THEN record.jitter ELSE Absent,
    !.jitter_distribution =
        IF record.jitter > 0 THEN record.jitter_distribution ELSE Absent,
    !.fire_probability =
        IF record.fire_probability < One THEN Printed(record.fire_probability)
                                         ELSE Absent]

(* Deviation: start leaves the daemon to find its directory. *)
StartOptionsNoDir(record) ==
  [PrintedOptions(record) EXCEPT !.service_name = record.name]

(* start adds the name and the directory. *)
StartOptions(record) ==
  [PrintedOptions(record) EXCEPT
    !.service_name = record.name,
    !.data_dir = record.dir]

(* The kinds of text that do not come through.  start writes the command   *)
(* and the two paths in double quotes for sh, the name and the             *)
(* distribution bare; systemd's unit has the same quotes; launchd gets all *)
(* of it as XML; in rc.d's script all of it is inside double quotes and    *)
(* then split again, the command in single quotes, the rest bare.          *)
(* "dollar" stands for whatever is expanded inside double quotes.          *)
Special(launcher, o) ==
  CASE launcher = "launchd" -> {"markup"}
    [] launcher = "rcd" /\ o = "command" -> {"dollar", "quote", "apostrophe"}
    [] launcher \in {"start", "systemd"} /\ o \in {"command", "pid_file", "data_dir"} ->
         {"dollar", "quote"}
    [] OTHER -> {"blank", "dollar", "quote", "apostrophe", "markup"}

Damaged(launcher, options) ==
  {o \in TextOptions : options[o] \in Special(launcher, o)}

(* What is left of a text, or a part of it that looks like an option, may  *)
(* give an option that was not printed: one of them, and one value of it,  *)
(* is looked at.                                                           *)
Stray(o) ==
  CASE o = "jitter" -> MaxInt
    [] o = "fire_probability" -> One
    [] o = "synchronous" -> "no"
    [] o = "help" -> "yes"
    [] OTHER -> "mangled"

WithStray(options) ==
  {options} \cup
  {[options EXCEPT ![o] = Stray(o)] : o \in {p \in RunOptions : options[p] = Absent}}

(* What the daemon's parser makes of what is printed.  A damaged text is   *)
(* another text, a path perhaps one that cannot be written, for which      *)
(* "relative" stands; or the quotes do not match or an option comes twice. *)
Received(launcher, options) ==
  LET damaged == Damaged(launcher, options)
      Mangled(text) == [o \in RunOptions |-> IF o \in damaged THEN text ELSE options[o]]
      arriving == UNION {WithStray(Mangled(text)) : text \in {"mangled", "relative"}}
  IN  IF damaged = {} THEN {ParseRunArgs(options, "run")}
      ELSE {ParseError} \cup {ParseRunArgs(words, "run") : words \in arriving}

-----------------------------------------------------------------------------
(* Delays and draws. *)

(* int arithmetic on a sum that may leave the range once. *)
Narrowed(n) ==
  IF n > MaxInt THEN n - 2 * (MaxInt + 1)
  ELSE IF n < MinInt THEN n + 2 * (MaxInt + 1) ELSE n

(* Deviation: a delay below 1 is left as it is. *)
NextDelaysUnraised(cfg) ==
  IF cfg.jitter <= 0 THEN {cfg.frequency}
  ELSE {Narrowed(cfg.frequency + offset) : offset \in -cfg.jitter .. cfg.jitter}

(* Deviation: a normal offset is not clamped. *)
NextDelaysUnclamped(cfg) ==
  IF cfg.jitter <= 0 THEN {cfg.frequency}
  ELSE {LET sum == Narrowed(cfg.frequency + offset)
        IN  IF sum < 1 THEN 1 ELSE sum :
          offset \in -3 * cfg.jitter .. 3 * cfg.jitter}

(* compute_next_delay: a clamped normal offset and a uniform one have the  *)
(* same range.                                                             *)
NextDelays(cfg) ==
  IF cfg.jitter <= 0 THEN {cfg.frequency}
  ELSE {LET sum == Narrowed(cfg.frequency + offset)
        IN  IF sum < 1 THEN 1 ELSE sum : offset \in -cfg.jitter .. cfg.jitter}

(* should_fire: no draw is below NaN. *)
ShouldFire(cfg) ==
  IF cfg.fire_probability = NaN THEN {FALSE}
  ELSE IF cfg.fire_probability >= One THEN {TRUE}
  ELSE IF cfg.fire_probability <= 0 THEN {FALSE} ELSE BOOLEAN

-----------------------------------------------------------------------------
NotLaunched == [by |-> "nobody", outcome |-> "none", log |-> Absent]

Init ==
  /\ row = Absent /\ asked = NoOptions /\ unit = Absent
  /\ launch = NotLaunched
  /\ config = Default /\ delay = 0 /\ fires = FALSE

(* cmd_run in environment env: the daemon's PID file, its log, and the     *)
(* first delay of its Executor.                                            *)
CmdRun(launcher, parsed, env) ==
  LET cfg == parsed.config
      runs == /\ parsed.result = "ok"
              /\ cfg.pid_file # Absent => ReachableFromRoot(cfg.pid_file)
      outcome == IF parsed.result # "ok" THEN "refused"
                 ELSE IF runs THEN "running" ELSE "no PID file"
      log == IF runs /\ cfg.service_name # "" THEN DataDir(cfg, env) ELSE Absent
  IN  /\ launch' = [by |-> launcher, outcome |-> outcome, log |-> log]
      /\ config' = cfg
      /\ delay' \in NextDelays(cfg)
      /\ UNCHANGED <<row, asked, unit, fires>>

Record(cfg, dir) ==
  [name |-> cfg.service_name, dir |-> dir, command |-> cfg.command,
   frequency |-> cfg.frequency, synchronous |-> cfg.synchronous,
   jitter |-> cfg.jitter, jitter_distribution |-> cfg.jitter_distribution,
   fire_probability |-> cfg.fire_probability]

(* install: SQLite takes NaN for NULL, which the column does not, so that  *)
(* the INSERT fails.  The definition may fail to be written.               *)
Install(line, env) ==
  LET parsed == ParseArgs(line)
      cfg == parsed.config
  IN  /\ row = Absent /\ launch = NotLaunched
      /\ parsed.result = "ok" /\ cfg.subcommand = "install"
      /\ cfg.fire_probability # NaN
      /\ row' = Record(cfg, DataDir(cfg, env))
      /\ asked' = line.options
      /\ unit' \in {row', Absent}
      /\ UNCHANGED daemonVars

(* The service that the command names, in the directory it looks in. *)
Finds(cfg, env) ==
  row # Absent /\ row.name = cfg.service_name /\ row.dir = DataDir(cfg, env)

Start(line, env) ==
  LET parsed == ParseArgs(line)
  IN  /\ row # Absent /\ launch.outcome # "running"
      /\ parsed.result = "ok" /\ parsed.config.subcommand = "start"
      /\ Finds(parsed.config, env)
      /\ \E received \in Received("start", StartOptions(row)) :
           CmdRun("start", received, env)

Remove(line, env) ==
  LET parsed == ParseArgs(line)
  IN  /\ row # Absent
      /\ parsed.result = "ok" /\ parsed.config.subcommand = "remove"
      /\ Finds(parsed.config, env)
      /\ row' = Absent /\ unit' = Absent /\ asked' = NoOptions
      /\ launch' = NotLaunched
      /\ config' = Default /\ delay' = 0 /\ fires' = FALSE

(* A platform's manager runs the definition, in an environment of its own. *)
LaunchDefinition(launcher, env) ==
  /\ unit # Absent
  /\ launch.outcome # "running"
  /\ \E received \in Received(launcher, PrintedOptions(unit)) :
       CmdRun(launcher, received, env)

(* run, or the command line without a subcommand, typed by a user.  It     *)
(* does not read the registry, so it is looked at where that is empty.     *)
Run(line, env) ==
  LET parsed == ParseArgs(line)
  IN  /\ row = Absent /\ launch.outcome # "running"
      /\ parsed.result = "ok" /\ parsed.config.subcommand \in {"run", "legacy"}
      /\ CmdRun("user", parsed, env)

(* A tick of the daemon: the draw, and the next delay. *)
Tick ==
  /\ launch.outcome = "running"
  /\ fires' \in ShouldFire(config)
  /\ delay' \in NextDelays(config)
  /\ UNCHANGED <<row, asked, unit, launch, config>>

(* The daemon ends, or its launch is over that has come to nothing. *)
DaemonEnds ==
  /\ launch # NotLaunched
  /\ launch' = NotLaunched
  /\ config' = Default /\ delay' = 0 /\ fires' = FALSE
  /\ UNCHANGED <<row, asked, unit>>

Next ==
  \/ \E line \in CommandLines, env \in Environments :
       Install(line, env) \/ Start(line, env) \/ Remove(line, env) \/ Run(line, env)
  \/ \E launcher \in Launchers, env \in Environments :
       LaunchDefinition(launcher, env)
  \/ Tick \/ DaemonEnds

Spec == Init /\ [][Next]_vars

-----------------------------------------------------------------------------
Running == launch.outcome = "running"
ByService == launch.by \in Launchers \cup {"start"}

ConfigTypeOK ==
  /\ row # Absent => /\ row.frequency \in Int32 /\ row.jitter \in Int32
                     /\ row.fire_probability \in Probabilities
                     /\ asked.frequency # Absent /\ asked.command # Absent
  /\ row = Absent => unit = Absent
  /\ launch.outcome \in {"none", "refused", "no PID file", "running"}
  /\ config.frequency \in Int32 /\ config.jitter \in Int32
  /\ delay \in Int32 /\ fires \in BOOLEAN

(* The texts of the service are of kinds that its launcher leaves alone:   *)
(* what a shell or a manager does to the others is outside of the code.    *)
Intact ==
  /\ asked.command \notin Special(launch.by, "command")
  /\ asked.jitter_distribution \notin Special(launch.by, "jitter_distribution")
  /\ row.dir \notin Special(launch.by, "pid_file")
  /\ launch.by = "start" => row.name \notin Special("start", "service_name")

(* What an Executor does with its configuration, the draws aside. *)
Behaviour(cfg) ==
  [command |-> cfg.command, frequency |-> cfg.frequency,
   synchronous |-> cfg.synchronous, delays |-> NextDelays(cfg),
   normal |-> cfg.jitter > 0 /\ cfg.jitter_distribution = "normal"]

(* Two chances of firing that differ by no more than printing loses. *)
Chance(p) == IF p > One THEN One ELSE IF p < 0 THEN 0 ELSE p
SameChance(p, q) ==
  /\ Chance(p) - Chance(q) \in -5 .. 5
  /\ Chance(p) = 0 <=> Chance(q) = 0

(* A daemon of a service whose texts its launcher leaves alone, whether    *)
(* start or a platform's manager has launched it, does what the user would *)
(* have got by typing the options of the install after run: nothing is     *)
(* lost, defaulted or changed on the way through the record and the        *)
(* printed command line (service_registry.cc:109-116, 200-221;             *)
(* platform_service.cc:34-56, 141-175, 360-399).                           *)
DaemonsRunAsInstalled ==
  Running /\ ByService /\ Intact =>
    LET direct == ParseRunArgs(asked, "run")
    IN  /\ direct.result = "ok"
        /\ Behaviour(config) = Behaviour(direct.config)
        /\ SameChance(config.fire_probability, direct.config.fire_probability)

(* Where the texts of a service are left alone, a launch is refused for    *)
(* one reason: start passes an empty name on, which install has accepted   *)
(* and no parser accepts as a value (config.cc:113, 162;                   *)
(* service_registry.cc:207).  A daemon ends without its PID file for one   *)
(* reason, too: the directory is relative, and it is no longer there       *)
(* (main.cc:35-39, daemonize.cc:23).  No number, flag or probability that  *)
(* install has accepted is printed in a form the daemon's parser refuses.  *)
FailedLaunchesAreExplained ==
  ByService /\ Intact =>
    /\ launch.outcome = "refused" <=> launch.by = "start" /\ row.name = ""
    /\ launch.outcome = "no PID file" <=>
         launch.outcome # "refused" /\ ~ReachableFromRoot(row.dir)

(* The commands look for a daemon's PID file, and logs for its log, where  *)
(* the daemon puts them, in whatever environment it and they are run, as   *)
(* long as its launcher leaves the texts of the service alone              *)
(* (service_registry.cc:203-206, main.cc:43-47).                           *)
DaemonsUseServiceDirectory ==
  Running /\ ByService /\ Intact =>
    /\ config.pid_file = row.dir
    /\ launch.log # Absent => launch.log = row.dir
    /\ launch.by = "start" => launch.log = row.dir

(* "The actual interval is frequency +/- jitter" (config.cc:29): a         *)
(* service's delay is within the jitter of the frequency it was installed  *)
(* with, but for two cases in which it is 1 ms.  The low end may be below  *)
(* that, or the high end above the largest int: then a sum that wraps      *)
(* around is raised from below zero to 1 (executor.cc:44-61).              *)
DelaysStayWithinJitter ==
  Running /\ ByService /\ Intact =>
    LET jitter == Given(asked.jitter, 0)
        low == asked.frequency - (IF jitter > 0 THEN jitter ELSE 0)
        high == asked.frequency + (IF jitter > 0 THEN jitter ELSE 0)
    IN  low >= MinInt =>
          delay \in low .. high \/ (delay = 1 /\ (low < 1 \/ high > MaxInt))

=============================================================================
