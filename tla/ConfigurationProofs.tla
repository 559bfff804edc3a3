------------------------ MODULE ConfigurationProofs ------------------------
(***************************************************************************)
(* Theorems about Configuration, for every width of the ints, every text   *)
(* and every command line: a daemon of a service is the one its install    *)
(* described.                                                              *)
(***************************************************************************)
EXTENDS Configuration, TLAPS

(* What install has understood, and what the record says of it.            *)
Understood ==
  /\ ~Throws(asked, InstallOptions)
  /\ asked.help # "yes"
  /\ asked.frequency # Absent /\ asked.command # Absent

Recorded ==
  /\ row.command = asked.command
  /\ row.frequency = asked.frequency
  /\ row.synchronous = (asked.synchronous # "no")
  /\ row.jitter = Given(asked.jitter, 0)
  /\ row.jitter_distribution = Given(asked.jitter_distribution, "uniform")
  /\ row.fire_probability = Given(asked.fire_probability, One)
  /\ row.fire_probability \in Probabilities
  /\ row.dir \notin {Absent, ""} /\ row.name # Absent

(* What the daemon of a service has understood.                            *)
AsRecorded ==
  /\ config.frequency = row.frequency
  /\ config.jitter = IF row.jitter > 0 THEN row.jitter ELSE 0
  /\ config.command = row.command
  /\ config.synchronous = row.synchronous
  /\ row.jitter > 0 => config.jitter_distribution = row.jitter_distribution
  /\ config.fire_probability =
       IF row.fire_probability < One THEN Printed(row.fire_probability) ELSE One
  /\ config.pid_file = row.dir
  /\ launch.log = IF launch.by = "start" THEN row.dir ELSE Absent

FailureExplained ==
  /\ launch.outcome = "refused" <=> launch.by = "start" /\ row.name = ""
  /\ launch.outcome = "no PID file" <=>
       launch.outcome # "refused" /\ ~ReachableFromRoot(row.dir)

Launched ==
  /\ row # Absent
  /\ Intact => (Running => AsRecorded) /\ FailureExplained

DaemonTypeOK ==
  /\ launch.outcome \in {"none", "refused", "no PID file", "running"}
  /\ config.frequency \in Int32 /\ config.jitter \in Int32
  /\ delay \in Int32 /\ fires \in BOOLEAN

SettingsInv ==
  /\ row # Absent => Understood /\ Recorded
  /\ unit \in {row, Absent}
  /\ ByService => Launched
  /\ DaemonTypeOK
  /\ Running => delay \in NextDelays(config)

-----------------------------------------------------------------------------
(* Ints and delays. *)

(* Zero and one are ints, and no option that is given is an int or a text. *)
LEMMA Ints ==
  /\ MaxInt \in Nat \ {0} /\ MinInt \in Int /\ MinInt < 0
  /\ 0 \in Int32 /\ 1 \in Int32 /\ Absent \notin Int32
  /\ Absent \notin Int /\ Absent \notin Words /\ One \in Int
  BY ConfigurationAssumption DEF Int32, MinInt, One

(* What compute_next_delay returns is an int.                              *)
LEMMA DelaysAreInts ==
  ASSUME NEW cfg, cfg.frequency \in Int32, cfg.jitter \in Int32,
         NEW d \in NextDelays(cfg)
  PROVE  d \in Int32
<1>1. CASE cfg.jitter <= 0
  BY <1>1, Ints DEF NextDelays, Int32
<1>2. CASE ~(cfg.jitter <= 0)
  <2>1. PICK offset \in -cfg.jitter .. cfg.jitter :
          d = IF Narrowed(cfg.frequency + offset) < 1 THEN 1
              ELSE Narrowed(cfg.frequency + offset)
    BY <1>2 DEF NextDelays
  <2>2. Narrowed(cfg.frequency + offset) \in Int32
    BY Ints DEF Narrowed, Int32, MinInt
  <2>3. QED
    BY <2>1, <2>2, Ints DEF Int32
<1>3. QED
  BY <1>1, <1>2

(* ... and within the jitter, or 1 where the low end is below that or a    *)
(* sum leaves the ints above.                                              *)
LEMMA DelaysAreNear ==
  ASSUME NEW cfg, NEW j, cfg.frequency \in Int32, cfg.jitter \in Int32, j \in Int32,
         cfg.jitter = IF j > 0 THEN j ELSE 0,
         cfg.frequency - cfg.jitter >= MinInt,
         NEW d \in NextDelays(cfg)
  PROVE  \/ d \in cfg.frequency - cfg.jitter .. cfg.frequency + cfg.jitter
         \/ /\ d = 1
            /\ cfg.frequency - cfg.jitter < 1 \/ cfg.frequency + cfg.jitter > MaxInt
<1>1. CASE cfg.jitter <= 0
  BY <1>1, Ints DEF NextDelays, Int32
<1>2. CASE ~(cfg.jitter <= 0)
  <2>1. PICK offset \in -cfg.jitter .. cfg.jitter :
          d = IF Narrowed(cfg.frequency + offset) < 1 THEN 1
              ELSE Narrowed(cfg.frequency + offset)
    BY <1>2 DEF NextDelays
  <2>2. cfg.frequency + offset \in Int /\ cfg.frequency + offset >= MinInt
    BY Ints DEF Int32
  <2>3. CASE cfg.frequency + offset <= MaxInt
    <3>1. Narrowed(cfg.frequency + offset) = cfg.frequency + offset
      BY <2>2, <2>3, Ints DEF Narrowed
    <3>2. QED
      BY <2>1, <3>1, Ints DEF Int32
  <2>4. CASE cfg.frequency + offset > MaxInt
    <3>1. Narrowed(cfg.frequency + offset) < 1
      BY <2>4, Ints DEF Narrowed, Int32
    <3>2. d = 1 /\ cfg.frequency + cfg.jitter > MaxInt
      BY <2>1, <2>4, <3>1, Ints DEF Int32
    <3>3. QED
      BY <3>2
  <2>5. QED
    BY <2>2, <2>3, <2>4, Ints
<1>3. QED
  BY <1>1, <1>2

-----------------------------------------------------------------------------
(* Parsing and printing, field by field. *)

(* What run refuses, and what it understands of the rest.                  *)
Sound(options) ==
  /\ ~Throws(options, RunOptions)
  /\ options.help # "yes"
  /\ options.frequency # Absent /\ options.command # Absent

Parsed(cfg, options) ==
  /\ cfg.frequency = options.frequency
  /\ cfg.command = options.command
  /\ cfg.synchronous = (options.synchronous # "no")
  /\ cfg.jitter = Given(options.jitter, 0)
  /\ cfg.jitter_distribution = Given(options.jitter_distribution, "uniform")
  /\ cfg.fire_probability = Given(options.fire_probability, One)
  /\ cfg.pid_file = options.pid_file
  /\ cfg.data_dir = options.data_dir
  /\ cfg.service_name = Given(options.service_name, "")

LEMMA RunRefuses ==
  ASSUME NEW options, NEW subcommand, ~Sound(options)
  PROVE  /\ ParseRunArgs(options, subcommand).result # "ok"
         /\ ParseRunArgs(options, subcommand).config = Default
  BY DEF ParseRunArgs, ParseError, Help, Sound

LEMMA RunAccepts ==
  ASSUME NEW options, NEW subcommand, Sound(options)
  PROVE  /\ ParseRunArgs(options, subcommand).result = "ok"
         /\ Parsed(ParseRunArgs(options, subcommand).config, options)
  BY DEF ParseRunArgs, Ok, ParseCommonOptions, Default, Sound, Parsed

(* What install understands of the words after its name.                   *)
LEMMA InstallArgsParsed ==
  ASSUME NEW options, NEW name,
         ParseInstallArgs(options, name).result = "ok"
  PROVE  LET cfg == ParseInstallArgs(options, name).config
         IN  /\ ~Throws(options, InstallOptions)
             /\ options.help # "yes"
             /\ options.frequency # Absent /\ options.command # Absent
             /\ cfg.frequency = options.frequency
             /\ cfg.command = options.command
             /\ cfg.synchronous = (options.synchronous # "no")
             /\ cfg.jitter = Given(options.jitter, 0)
             /\ cfg.jitter_distribution =
                  Given(options.jitter_distribution, "uniform")
             /\ cfg.fire_probability = Given(options.fire_probability, One)
             /\ cfg.data_dir = options.data_dir
             /\ cfg.service_name = name
  BY DEF ParseInstallArgs, ParseError, Help, Ok, ParseCommonOptions, Default

(* What install understands.                                               *)
LEMMA InstallParsed ==
  ASSUME NEW line, ParseArgs(line).result = "ok",
         ParseArgs(line).config.subcommand = "install"
  PROVE  LET options == line.options
             cfg == ParseArgs(line).config
         IN  /\ ~Throws(options, InstallOptions)
             /\ options.help # "yes"
             /\ options.frequency # Absent /\ options.command # Absent
             /\ cfg.frequency = options.frequency
             /\ cfg.command = options.command
             /\ cfg.synchronous = (options.synchronous # "no")
             /\ cfg.jitter = Given(options.jitter, 0)
             /\ cfg.jitter_distribution =
                  Given(options.jitter_distribution, "uniform")
             /\ cfg.fire_probability = Given(options.fire_probability, One)
             /\ cfg.data_dir = options.data_dir
             /\ cfg.service_name = line.name /\ line.name # Absent
<1>1. /\ ParseArgs(line) = ParseInstallArgs(line.options, line.name)
      /\ line.name # Absent
  <2>1. ASSUME NEW options, NEW subcommand, NEW name,
               subcommand # "install"
        PROVE  /\ LET parsed == ParseRunArgs(options, subcommand)
                  IN  parsed.result = "ok" =>
                        parsed.config.subcommand # "install"
               /\ LET parsed == ParseNameSubcommand(options, subcommand, name)
                  IN  parsed.result = "ok" =>
                        parsed.config.subcommand # "install"
    BY <2>1 DEF ParseRunArgs, ParseNameSubcommand, ParseError, Help, Ok,
                ParseCommonOptions, Default
  <2>2. ParseError.result # "ok" /\ Help.result # "ok"
    BY DEF ParseError, Help
  <2>3. CASE line.first \notin {Absent, "--help", "-", "run", "install", "remove",
                                "start", "stop", "logs", "status", "list"}
    BY <2>2, <2>3 DEF ParseArgs
  <2>4. CASE line.first \in {Absent, "--help"}
    BY <2>2, <2>4, Ints DEF ParseArgs, Words
  <2>5. CASE line.first \in {"-", "run"}
    <3>1. \E subcommand :
            /\ subcommand # "install"
            /\ ParseArgs(line) = ParseRunArgs(line.options, subcommand)
      BY <2>5, Ints DEF ParseArgs, Words
    <3>2. QED
      BY <2>1, <3>1
  <2>6. CASE line.first \in {"remove", "start", "stop", "logs", "status", "list"}
    <3>1. \/ ParseArgs(line) = ParseError
          \/ \E subcommand, name :
               /\ subcommand # "install"
               /\ ParseArgs(line)
                    = ParseNameSubcommand(line.options, subcommand, name)
      <4>1. CASE line.first = "status"
        BY <4>1, Ints DEF ParseArgs, Words
      <4>2. CASE line.first = "list"
        BY <4>2, Ints DEF ParseArgs, Words
      <4>3. CASE line.first \in {"remove", "start", "stop", "logs"}
        BY <4>3, Ints DEF ParseArgs, Words
      <4>4. QED
        BY <2>6, <4>1, <4>2, <4>3
    <3>2. QED
      BY <2>1, <2>2, <3>1
  <2>7. CASE line.first = "install"
    BY <2>2, <2>7, Ints DEF ParseArgs, Words
  <2>8. QED
    BY <2>3, <2>4, <2>5, <2>6, <2>7
<1>2. /\ ~Throws(line.options, InstallOptions)
      /\ ParseInstallArgs(line.options, line.name).result = "ok"
  BY <1>1, InstallArgsParsed
<1> DEFINE cfg == ParseInstallArgs(line.options, line.name).config
<1>4. /\ line.options.help # "yes"
      /\ line.options.frequency # Absent /\ line.options.command # Absent
      /\ cfg.frequency = line.options.frequency
      /\ cfg.command = line.options.command
      /\ cfg.synchronous = (line.options.synchronous # "no")
      /\ cfg.jitter = Given(line.options.jitter, 0)
      /\ cfg.jitter_distribution =
           Given(line.options.jitter_distribution, "uniform")
      /\ cfg.fire_probability = Given(line.options.fire_probability, One)
      /\ cfg.data_dir = line.options.data_dir
      /\ cfg.service_name = line.name
  BY <1>2, InstallArgsParsed
<1>5. ParseArgs(line).config = cfg
  BY <1>1
<1> HIDE DEF cfg
<1>6. QED
  BY <1>1, <1>2, <1>4, <1>5

(* What start and the definitions print.                                   *)
LEMMA OptionsPrinted ==
  ASSUME NEW record, NEW options,
         \/ options = PrintedOptions(record)
         \/ options = StartOptions(record)
  PROVE  /\ options.frequency = record.frequency
         /\ options.command = record.command
         /\ options.pid_file = record.dir
         /\ options.synchronous = IF record.synchronous THEN Absent ELSE "no"
         /\ options.jitter = IF record.jitter > 0 THEN record.jitter ELSE Absent
         /\ options.jitter_distribution =
              IF record.jitter > 0 THEN record.jitter_distribution ELSE Absent
         /\ options.fire_probability =
              IF record.fire_probability < One
              THEN Printed(record.fire_probability) ELSE Absent
         /\ options.help = Absent
         /\ DOMAIN options = RunOptions
         /\ options = PrintedOptions(record) =>
              options.service_name = Absent /\ options.data_dir = Absent
         /\ options = StartOptions(record) =>
              options.service_name = record.name /\ options.data_dir = record.dir
  BY DEF PrintedOptions, StartOptions, NoOptions, RunOptions, InstallOptions,
         NameOptions

-----------------------------------------------------------------------------
(* The launch of a service's daemon. *)

(* Nothing that is printed of a sound record makes the parser throw.       *)
LEMMA PrintedIsSound ==
  ASSUME SettingsInv, row # Absent, NEW options,
         \/ options = PrintedOptions(row)
         \/ options = StartOptions(row) /\ row.name # ""
  PROVE  /\ ~Throws(options, RunOptions)
         /\ options.help # "yes"
         /\ options.frequency # Absent /\ options.command # Absent
<1>0. Understood /\ Recorded
  BY DEF SettingsInv
<1>1. /\ asked.frequency \in Int32
      /\ asked.jitter # Absent => asked.jitter \in Int32
      /\ asked.command # "" /\ asked.jitter_distribution # ""
  BY <1>0 DEF Understood, Throws, TextOptions
<1>2. /\ options.frequency = row.frequency
      /\ options.command = row.command
      /\ options.jitter = IF row.jitter > 0 THEN row.jitter ELSE Absent
      /\ options.jitter_distribution =
           IF row.jitter > 0 THEN row.jitter_distribution ELSE Absent
      /\ options.help = Absent
      /\ options.pid_file = row.dir
      /\ options.data_dir \in {Absent, row.dir}
      /\ \/ options.service_name = Absent
         \/ options.service_name = row.name /\ row.name # ""
  BY OptionsPrinted
<1>3. row.jitter \in Int32
  BY <1>0, <1>1, Ints DEF Recorded, Given
<1>4. \A o \in {"frequency", "jitter"} : options[o] # Absent => options[o] \in Int32
  BY <1>0, <1>1, <1>2, <1>3 DEF Recorded
<1>5. \A o \in TextOptions : options[o] # ""
  BY <1>0, <1>1, <1>2, Ints DEF Recorded, TextOptions, Given, Words
<1>6. QED
  BY <1>0, <1>1, <1>2, <1>4, <1>5, Ints DEF Throws, Understood, Recorded, Words

(* What the launcher leaves alone is parsed as it was printed.             *)
LEMMA IntactArrives ==
  ASSUME SettingsInv, row # Absent, NEW by \in Launchers \cup {"start"},
         NEW options,
         options = IF by = "start" THEN StartOptions(row) ELSE PrintedOptions(row),
         asked.command \notin Special(by, "command"),
         asked.jitter_distribution \notin Special(by, "jitter_distribution"),
         row.dir \notin Special(by, "pid_file"),
         by = "start" => row.name \notin Special("start", "service_name")
  PROVE  Received(by, options) = {ParseRunArgs(options, "run")}
<1>0. Recorded
  BY DEF SettingsInv
<1>1. /\ options.command = row.command /\ options.pid_file = row.dir
      /\ options.jitter_distribution =
           IF row.jitter > 0 THEN row.jitter_distribution ELSE Absent
      /\ \/ options.service_name = Absent /\ options.data_dir = Absent
         \/ by = "start" /\ options.service_name = row.name /\ options.data_dir = row.dir
  BY OptionsPrinted
<1>2. \A o \in TextOptions : Absent \notin Special(by, o)
  BY Ints DEF TextOptions, Special, Words, Launchers
<1>3. options["command"] \notin Special(by, "command")
  BY <1>0, <1>1 DEF Recorded
<1>4. "uniform" \notin Special(by, "jitter_distribution")
  BY DEF Special, Launchers
<1>5. options["jitter_distribution"] \notin Special(by, "jitter_distribution")
  BY <1>0, <1>1, <1>2, <1>4 DEF Recorded, Given, TextOptions
<1>6. options["service_name"] \notin Special(by, "service_name")
  BY <1>1, <1>2 DEF TextOptions
<1>7. options["pid_file"] \notin Special(by, "pid_file")
  BY <1>1
<1>8. options["data_dir"] \notin Special(by, "data_dir")
  <2>1. Special("start", "data_dir") = Special("start", "pid_file")
    BY DEF Special
  <2>2. QED
    BY <1>1, <1>2, <2>1 DEF TextOptions
<1>9. Damaged(by, options) = {}
  BY <1>3, <1>5, <1>6, <1>7, <1>8 DEF Damaged, TextOptions
<1>10. QED
  BY <1>9 DEF Received

(* Whatever is received, it is what a parser makes of some options.        *)
LEMMA ReceivedIsParsed ==
  ASSUME NEW by, NEW options, NEW received \in Received(by, options)
  PROVE  received = ParseError \/ \E words : received = ParseRunArgs(words, "run")
BY DEF Received

(* start and the managers of the platforms launch what the record says.    *)
LEMMA ServiceLaunches ==
  ASSUME SettingsInv, row # Absent, NEW by \in Launchers \cup {"start"},
         NEW env, NEW options,
         options = IF by = "start" THEN StartOptions(row) ELSE PrintedOptions(row),
         NEW parsed \in Received(by, options),
         CmdRun(by, parsed, env)
  PROVE  Launched'
<1> DEFINE runs == /\ parsed.result = "ok"
                   /\ parsed.config.pid_file # Absent =>
                        ReachableFromRoot(parsed.config.pid_file)
<1>0. Understood /\ Recorded
  BY DEF SettingsInv
<1>1. /\ launch'.by = by /\ config' = parsed.config
      /\ UNCHANGED <<row, asked, unit>>
      /\ launch'.outcome = IF parsed.result # "ok" THEN "refused"
                           ELSE IF runs THEN "running" ELSE "no PID file"
      /\ runs => launch'.log = IF parsed.config.service_name # ""
                               THEN DataDir(parsed.config, env) ELSE Absent
  BY DEF CmdRun
<1>2. row.jitter \in Int /\ row.fire_probability \in Int
  <2>1. asked.jitter # Absent => asked.jitter \in Int32
    BY <1>0 DEF Understood, Throws
  <2>2. row.jitter \in Int32
    BY <1>0, <2>1, Ints DEF Recorded, Given
  <2>3. row.jitter \in Int
    BY <2>2, Ints DEF Int32
  <2>4. row.fire_probability \in Int
    BY <1>0, ConfigurationAssumption DEF Recorded
  <2>5. QED
    BY <2>3, <2>4
<1> SUFFICES ASSUME Intact' PROVE (Running => AsRecorded)' /\ FailureExplained'
  BY <1>1 DEF Launched
<1>3. parsed = ParseRunArgs(options, "run")
  <2>0. /\ asked.command \notin Special(by, "command")
        /\ asked.jitter_distribution \notin Special(by, "jitter_distribution")
        /\ row.dir \notin Special(by, "pid_file")
        /\ by = "start" => row.name \notin Special("start", "service_name")
    BY <1>1 DEF Intact
  <2>1. Received(by, options) = {ParseRunArgs(options, "run")}
    BY <2>0, IntactArrives
  <2>2. QED
    BY <2>1
<1>4. /\ options.frequency = row.frequency
      /\ options.command = row.command
      /\ options.pid_file = row.dir
      /\ options.synchronous = IF row.synchronous THEN Absent ELSE "no"
      /\ options.jitter = IF row.jitter > 0 THEN row.jitter ELSE Absent
      /\ options.jitter_distribution =
           IF row.jitter > 0 THEN row.jitter_distribution ELSE Absent
      /\ options.fire_probability =
           IF row.fire_probability < One
           THEN Printed(row.fire_probability) ELSE Absent
      /\ by # "start" => options.service_name = Absent
      /\ by = "start" => /\ options.service_name = row.name
                         /\ options.data_dir = row.dir
  BY OptionsPrinted
<1>5. CASE by = "start" /\ row.name = ""
  <2>1. ~Sound(options)
    BY <1>4, <1>5 DEF Sound, Throws, TextOptions
  <2>2. parsed.result # "ok"
    BY <1>3, <2>1, RunRefuses
  <2>3. launch'.outcome = "refused"
    BY <1>1, <2>2
  <2>4. QED
    BY <1>1, <1>5, <2>3 DEF FailureExplained, Running
<1>6. CASE ~(by = "start" /\ row.name = "")
  <2>2. Sound(options)
    BY <1>6, PrintedIsSound DEF Sound
  <2>3. parsed.result = "ok" /\ Parsed(parsed.config, options)
    BY <1>3, <2>2, RunAccepts
  <2>5. /\ parsed.config.pid_file = row.dir /\ parsed.config.command = row.command
        /\ parsed.config.frequency = row.frequency
        /\ parsed.config.jitter = IF row.jitter > 0 THEN row.jitter ELSE 0
    BY <1>2, <1>4, <2>3, Ints DEF Parsed, Given
  <2>6. parsed.config.synchronous = row.synchronous
    BY <1>0, <1>4, <2>3, Ints DEF Recorded, Words, Parsed
  <2>7. row.jitter > 0 =>
          parsed.config.jitter_distribution = row.jitter_distribution
    <3>1. row.jitter_distribution # Absent
      BY <1>0, Ints DEF Recorded, Given, Words
    <3>2. QED
      BY <1>4, <2>3, <3>1 DEF Given, Parsed
  <2>8. parsed.config.fire_probability =
          IF row.fire_probability < One THEN Printed(row.fire_probability) ELSE One
    <3>1. Printed(row.fire_probability) # Absent
      BY <1>2, Ints DEF Printed, One
    <3>2. QED
      BY <1>4, <2>3, <3>1 DEF Given, Parsed
  <2>9. runs => launch'.log = IF by = "start" THEN row.dir ELSE Absent
    BY <1>0, <1>1, <1>4, <1>6, <2>3 DEF Recorded, Parsed, Given, DataDir
  <2>10. runs <=> ReachableFromRoot(row.dir)
    BY <1>0, <2>3, <2>5 DEF Recorded
  <2> HIDE DEF runs
  <2>11. FailureExplained'
    BY <1>1, <1>6, <2>3, <2>10 DEF FailureExplained, ReachableFromRoot
  <2>12. Running' => runs
    BY <1>1, <2>3 DEF Running
  <2>13. QED
    BY <1>1, <2>5, <2>6, <2>7, <2>8, <2>9, <2>11, <2>12 DEF AsRecorded
<1>7. QED
  BY <1>5, <1>6

-----------------------------------------------------------------------------
(* The invariant. *)

(* Whatever a daemon is told, its numbers are ints.                        *)
LEMMA LaunchTypes ==
  ASSUME NEW by, NEW parsed, NEW env, CmdRun(by, parsed, env), fires \in BOOLEAN,
         \/ parsed = ParseError
         \/ \E options, subcommand : parsed = ParseRunArgs(options, subcommand)
  PROVE  DaemonTypeOK' /\ (Running => delay \in NextDelays(config))'
<1>1. parsed.config.frequency \in Int32 /\ parsed.config.jitter \in Int32
  <2>1. CASE parsed.config = Default
    <3>1. Default.frequency = 0 /\ Default.jitter = 0
      BY DEF Default
    <3>2. QED
      BY <2>1, <3>1, Ints
  <2>2. ASSUME NEW options, NEW subcommand, parsed = ParseRunArgs(options, subcommand),
               Sound(options)
        PROVE  parsed.config.frequency \in Int32 /\ parsed.config.jitter \in Int32
    <3>1. Parsed(parsed.config, options)
      BY <2>2, RunAccepts
    <3>2. /\ options.frequency \in Int32
          /\ options.jitter # Absent => options.jitter \in Int32
      BY <2>2 DEF Sound, Throws
    <3>3. QED
      BY <3>1, <3>2, Ints DEF Parsed, Given
  <2>3. QED
    BY <2>1, <2>2, RunRefuses DEF ParseError
<1>2. /\ config' = parsed.config /\ delay' \in NextDelays(parsed.config) /\ fires' = fires
      /\ launch'.outcome \in {"refused", "no PID file", "running"}
  BY DEF CmdRun
<1>3. delay' \in Int32
  BY <1>1, <1>2, DelaysAreInts
<1>4. delay' \in NextDelays(config)'
  BY <1>2 DEF NextDelays
<1>5. QED
  BY <1>1, <1>2, <1>3, <1>4 DEF DaemonTypeOK, NextDelays

(* What install writes down is what it has understood.                     *)
LEMMA InstallRecords ==
  ASSUME SettingsInv, NEW line \in CommandLines, NEW env, Install(line, env)
  PROVE  SettingsInv'
<1> DEFINE cfg == ParseArgs(line).config
<1>1. /\ launch = NotLaunched /\ UNCHANGED daemonVars
      /\ ParseArgs(line).result = "ok" /\ cfg.subcommand = "install"
      /\ cfg.fire_probability # NaN
      /\ row' = Record(cfg, DataDir(cfg, env))
      /\ asked' = line.options /\ unit' \in {row', Absent}
  BY DEF Install
<1>2. /\ ~Throws(asked', InstallOptions)
      /\ asked'.help # "yes"
      /\ asked'.frequency # Absent /\ asked'.command # Absent
      /\ cfg.frequency = asked'.frequency
      /\ cfg.command = asked'.command
      /\ cfg.synchronous = (asked'.synchronous # "no")
      /\ cfg.jitter = Given(asked'.jitter, 0)
      /\ cfg.jitter_distribution = Given(asked'.jitter_distribution, "uniform")
      /\ cfg.fire_probability = Given(asked'.fire_probability, One)
      /\ cfg.data_dir = asked'.data_dir
      /\ cfg.service_name # Absent
  BY <1>1, InstallParsed
<1> HIDE DEF cfg
<1>3. cfg.fire_probability \in Probabilities
  BY <1>1, <1>2, ConfigurationAssumption DEF Given
<1>4. DataDir(cfg, env) \notin {Absent, ""}
  <2>1. cfg.data_dir # ""
    BY <1>2 DEF Throws, TextOptions
  <2>2. QED
    BY <2>1, Ints DEF DataDir, DefaultDir, Given, Words
<1>5. Recorded'
  BY <1>1, <1>2, <1>3, <1>4 DEF Recorded, Record
<1>6. Understood'
  BY <1>2 DEF Understood, Throws
<1>7. ~ByService'
  BY <1>1 DEF ByService, NotLaunched, Launchers, daemonVars
<1>8. DaemonTypeOK' /\ (Running => delay \in NextDelays(config))'
  BY <1>1 DEF SettingsInv, DaemonTypeOK, daemonVars, Running, NextDelays
<1>9. QED
  BY <1>1, <1>5, <1>6, <1>7, <1>8 DEF SettingsInv

(* A launch by start or by the manager of a platform.                      *)
LEMMA ServiceStep ==
  ASSUME SettingsInv, row # Absent, NEW by \in Launchers \cup {"start"},
         NEW env, NEW options,
         options = IF by = "start" THEN StartOptions(row) ELSE PrintedOptions(row),
         NEW received \in Received(by, options),
         CmdRun(by, received, env)
  PROVE  SettingsInv'
<1>1. Launched'
  BY ServiceLaunches
<1>2. DaemonTypeOK' /\ (Running => delay \in NextDelays(config))'
  <2>1. fires \in BOOLEAN
    BY DEF SettingsInv, DaemonTypeOK
  <2>2. QED
    BY <2>1, ReceivedIsParsed, LaunchTypes
<1>3. UNCHANGED <<row, asked, unit>>
  BY DEF CmdRun
<1>4. QED
  BY <1>1, <1>2, <1>3 DEF SettingsInv, Understood, Recorded, Throws

(* A daemon that the user runs is no service's.                            *)
LEMMA UserRuns ==
  ASSUME SettingsInv, NEW line \in CommandLines, NEW env, Run(line, env)
  PROVE  SettingsInv'
<1>1. /\ row = Absent /\ ParseArgs(line).result = "ok"
      /\ ParseArgs(line).config.subcommand \in {"run", "legacy"}
      /\ CmdRun("user", ParseArgs(line), env)
  BY DEF Run
<1>2. \E subcommand :
        ParseArgs(line) = ParseRunArgs(line.options, subcommand)
  <2>1. ASSUME NEW options, NEW subcommand, NEW name,
               subcommand \notin {"run", "legacy"}
        PROVE  LET parsed == ParseNameSubcommand(options, subcommand, name)
               IN  parsed.result = "ok" =>
                     parsed.config.subcommand \notin {"run", "legacy"}
    BY <2>1 DEF ParseNameSubcommand, ParseError, Help, Ok,
                ParseCommonOptions, Default
  <2>2. ParseError.result # "ok" /\ Help.result # "ok"
    BY DEF ParseError, Help
  <2>3. CASE line.first \notin {"-", "run", "install", "remove", "start", "stop",
                                "logs", "status", "list"}
    BY <1>1, <2>2, <2>3 DEF ParseArgs
  <2>4. CASE line.first \in {"-", "run"}
    BY <2>4, Ints DEF ParseArgs, Words
  <2>5. CASE line.first \in {"remove", "start", "stop", "logs", "status", "list"}
    <3>1. \/ ParseArgs(line) = ParseError
          \/ \E subcommand, name :
               /\ subcommand \notin {"run", "legacy"}
               /\ ParseArgs(line)
                    = ParseNameSubcommand(line.options, subcommand, name)
      <4>1. CASE line.first = "status"
        BY <4>1, Ints DEF ParseArgs, Words
      <4>2. CASE line.first = "list"
        BY <4>2, Ints DEF ParseArgs, Words
      <4>3. CASE line.first \in {"remove", "start", "stop", "logs"}
        BY <4>3, Ints DEF ParseArgs, Words
      <4>4. QED
        BY <2>5, <4>1, <4>2, <4>3
    <3>2. QED
      BY <1>1, <2>1, <2>2, <3>1
  <2>6. CASE line.first = "install"
    <3>1. ASSUME NEW options, NEW name
          PROVE  LET parsed == ParseInstallArgs(options, name)
                 IN  parsed.result = "ok" =>
                       parsed.config.subcommand \notin {"run", "legacy"}
      BY DEF ParseInstallArgs, ParseError, Help, Ok, ParseCommonOptions, Default
    <3>2. \/ ParseArgs(line) = ParseError
          \/ ParseArgs(line)
               = ParseInstallArgs(line.options, line.name)
      BY <2>6, Ints DEF ParseArgs, Words
    <3>3. QED
      BY <1>1, <2>2, <3>1, <3>2
  <2>7. QED
    BY <2>3, <2>4, <2>5, <2>6
<1>3. DaemonTypeOK' /\ (Running => delay \in NextDelays(config))'
  <2>1. fires \in BOOLEAN
    BY DEF SettingsInv, DaemonTypeOK
  <2>2. QED
    BY <1>1, <1>2, <2>1, LaunchTypes
<1>4. UNCHANGED <<row, asked, unit>> /\ launch'.by = "user"
  BY <1>1 DEF CmdRun
<1>5. QED
  BY <1>1, <1>3, <1>4 DEF SettingsInv, ByService, Launchers

LEMMA SettingsInitially == Init => SettingsInv
<1> SUFFICES ASSUME Init PROVE SettingsInv
  OBVIOUS
<1>1. row = Absent /\ unit = Absent /\ ~Running /\ ~ByService
  BY DEF Init, NotLaunched, Running, ByService, Launchers
<1>2. DaemonTypeOK
  BY Ints DEF Init, DaemonTypeOK, NotLaunched, Default
<1>3. QED
  BY <1>1, <1>2 DEF SettingsInv

LEMMA SettingsPreserved == SettingsInv /\ [Next]_vars => SettingsInv'
<1> SUFFICES ASSUME SettingsInv, [Next]_vars PROVE SettingsInv'
  OBVIOUS
<1>1. ASSUME NEW line \in CommandLines, NEW env \in Environments, Start(line, env)
      PROVE  SettingsInv'
  <2>1. PICK received \in Received("start", StartOptions(row)) :
          CmdRun("start", received, env)
    BY <1>1 DEF Start
  <2>2. row # Absent
    BY <1>1 DEF Start
  <2>3. QED
    BY <2>1, <2>2, ServiceStep
<1>2. ASSUME NEW launcher \in Launchers, NEW env \in Environments,
             LaunchDefinition(launcher, env)
      PROVE  SettingsInv'
  <2>1. unit = row /\ row # Absent /\ launcher # "start"
    BY <1>2 DEF LaunchDefinition, SettingsInv, Launchers
  <2>2. PICK received \in Received(launcher, PrintedOptions(row)) :
          CmdRun(launcher, received, env)
    BY <1>2, <2>1 DEF LaunchDefinition
  <2>3. QED
    BY <2>1, <2>2, ServiceStep
<1>3. ASSUME NEW line \in CommandLines, NEW env \in Environments, Remove(line, env)
      PROVE  SettingsInv'
  <2>1. row' = Absent /\ unit' = Absent /\ ~Running' /\ ~ByService'
    BY <1>3 DEF Remove, NotLaunched, Running, ByService, Launchers
  <2>2. DaemonTypeOK'
    BY <1>3, Ints DEF Remove, DaemonTypeOK, NotLaunched, Default
  <2>3. QED
    BY <2>1, <2>2 DEF SettingsInv
<1>4. CASE Tick
  <2>1. /\ UNCHANGED <<row, asked, unit, launch, config>>
        /\ delay' \in NextDelays(config) /\ fires' \in BOOLEAN
    BY <1>4 DEF Tick, ShouldFire
  <2>2. delay' \in Int32
    BY <2>1, DelaysAreInts DEF SettingsInv, DaemonTypeOK
  <2>3. QED
    BY <2>1, <2>2
       DEF SettingsInv, DaemonTypeOK, Understood, Recorded, Throws, Launched,
           AsRecorded, FailureExplained, Intact, Running, ByService, NextDelays
<1>5. CASE DaemonEnds
  <2>1. UNCHANGED <<row, asked, unit>> /\ ~Running' /\ ~ByService'
    BY <1>5 DEF DaemonEnds, NotLaunched, Running, ByService, Launchers
  <2>2. DaemonTypeOK'
    BY <1>5, Ints DEF DaemonEnds, DaemonTypeOK, NotLaunched, Default
  <2>3. QED
    BY <2>1, <2>2 DEF SettingsInv, Understood, Recorded, Throws
<1>6. CASE UNCHANGED vars
  BY <1>6
     DEF vars, SettingsInv, DaemonTypeOK, Understood, Recorded, Throws, Launched,
         AsRecorded, FailureExplained, Intact, Running, ByService, NextDelays
<1>7. QED
  BY <1>1, <1>2, <1>3, <1>4, <1>5, <1>6, InstallRecords, UserRuns DEF Next

LEMMA SettingsAlways == Spec => []SettingsInv
  BY SettingsInitially, SettingsPreserved, PTL DEF Spec

-----------------------------------------------------------------------------
(* The properties. *)

(* What a sound record holds of numbers.                                   *)
LEMMA RecordNumbers ==
  ASSUME SettingsInv, row # Absent
  PROVE  /\ row.frequency = asked.frequency /\ row.frequency \in Int32
         /\ row.jitter = Given(asked.jitter, 0) /\ row.jitter \in Int32
         /\ row.fire_probability \in Probabilities
         /\ row.fire_probability \in Int /\ row.jitter \in Int
<1>0. Understood /\ Recorded
  BY DEF SettingsInv
<1>1. /\ asked.frequency \in Int32
      /\ asked.jitter # Absent => asked.jitter \in Int32
  BY <1>0 DEF Understood, Throws
<1>2. row.jitter \in Int32
  BY <1>0, <1>1, Ints DEF Recorded, Given
<1>3. row.jitter \in Int
  BY <1>2, Ints DEF Int32
<1>4. row.fire_probability \in Int
  BY <1>0, ConfigurationAssumption DEF Recorded
<1>5. QED
  BY <1>0, <1>1, <1>2, <1>3, <1>4 DEF Recorded

(* Two configurations of the same numbers draw from the same delays.       *)
LEMMA SameDelays ==
  ASSUME NEW cfg, NEW dfg, cfg.frequency = dfg.frequency,
         dfg.jitter \in Int,
         cfg.jitter = IF dfg.jitter > 0 THEN dfg.jitter ELSE 0
  PROVE  NextDelays(cfg) = NextDelays(dfg)
<1>1. CASE dfg.jitter > 0
  BY <1>1 DEF NextDelays
<1>2. CASE ~(dfg.jitter > 0)
  BY <1>2 DEF NextDelays
<1>3. QED
  BY <1>1, <1>2

(* Printing loses less than five units, and never a whole chance.          *)
LEMMA SamePrinted ==
  ASSUME NEW p \in Int
  PROVE  SameChance(IF p < One THEN Printed(p) ELSE One, p)
  BY DEF SameChance, Chance, Printed, One

(* Every number in the record, the daemon's configuration and its delay is *)
(* an int (config.h, executor.cc:42-62).                                   *)
THEOREM ConfigTypeCorrect == Spec => []ConfigTypeOK
<1>1. SettingsInv => ConfigTypeOK
  BY RecordNumbers
     DEF SettingsInv, ConfigTypeOK, DaemonTypeOK, Understood
<1>2. QED
  BY <1>1, SettingsAlways, PTL

(* A daemon of a service does what its install would do as a run: every    *)
(* option comes through the record, the printed command line and the       *)
(* parser, whoever has launched the daemon (service_registry.cc:109-116,   *)
(* 200-221; platform_service.cc:34-56, 141-175, 360-399).                  *)
THEOREM ServicesRunAsInstalled == Spec => []DaemonsRunAsInstalled
<1>1. ASSUME SettingsInv, Running, ByService, Intact
      PROVE  LET direct == ParseRunArgs(asked, "run")
             IN  /\ direct.result = "ok"
                 /\ Behaviour(config) = Behaviour(direct.config)
                 /\ SameChance(config.fire_probability,
                               direct.config.fire_probability)
  <2> DEFINE direct == ParseRunArgs(asked, "run")
  <2>0. /\ row # Absent /\ Understood /\ Recorded /\ AsRecorded
        /\ config.frequency = row.frequency
        /\ config.jitter = IF row.jitter > 0 THEN row.jitter ELSE 0
    BY <1>1 DEF SettingsInv, Launched, AsRecorded
  <2>1. Sound(asked)
    BY <2>0 DEF Understood, Sound, Throws
  <2>2. direct.result = "ok" /\ Parsed(direct.config, asked)
    BY <2>1, RunAccepts
  <2> HIDE DEF direct
  <2>3. /\ row.jitter \in Int /\ row.fire_probability \in Int
        /\ direct.config.frequency = row.frequency
        /\ direct.config.jitter = row.jitter
        /\ direct.config.fire_probability = row.fire_probability
    BY <1>1, <2>0, <2>2, RecordNumbers DEF Parsed, Recorded
  <2>4. NextDelays(config) = NextDelays(direct.config)
    BY <2>0, <2>3, SameDelays
  <2>5. (config.jitter > 0 /\ config.jitter_distribution = "normal")
          = (direct.config.jitter > 0
               /\ direct.config.jitter_distribution = "normal")
    <3>1. CASE row.jitter > 0
      <4>1. config.jitter_distribution = direct.config.jitter_distribution
        BY <2>0, <2>2, <3>1 DEF Parsed, Recorded, AsRecorded
      <4>2. QED
        BY <2>0, <2>3, <3>1, <4>1
    <3>2. CASE ~(row.jitter > 0)
      <4>1. ~(config.jitter > 0) /\ ~(direct.config.jitter > 0)
        BY <2>0, <2>3, <3>2
      <4>2. QED
        BY <4>1
    <3>3. QED
      BY <3>1, <3>2
  <2>6. config.command = direct.config.command
        /\ config.synchronous = direct.config.synchronous
    BY <2>0, <2>2 DEF Parsed, Recorded, AsRecorded
  <2>7. Behaviour(config) = Behaviour(direct.config)
    BY <2>0, <2>3, <2>4, <2>5, <2>6 DEF Behaviour
  <2>8. SameChance(config.fire_probability, direct.config.fire_probability)
    BY <2>0, <2>3, SamePrinted DEF AsRecorded
  <2>9. QED
    BY <2>2, <2>7, <2>8 DEF direct
<1>2. SettingsInv => DaemonsRunAsInstalled
  BY <1>1 DEF DaemonsRunAsInstalled
<1>3. QED
  BY <1>2, SettingsAlways, PTL

(* Where its texts are left alone, a launch of a service is refused by     *)
(* the parser exactly when start passes an empty name on, and comes to     *)
(* nothing otherwise exactly when the directory is relative                *)
(* (config.cc:82-134, main.cc:35-39, daemonize.cc:23).                     *)
THEOREM LaunchFailuresAreExplained == Spec => []FailedLaunchesAreExplained
<1>1. SettingsInv => FailedLaunchesAreExplained
  BY DEF SettingsInv, Launched, FailureExplained, FailedLaunchesAreExplained
<1>2. QED
  BY <1>1, SettingsAlways, PTL

(* Commands and daemons agree on where the PID file and the log are,       *)
(* whatever environments they run in (service_registry.cc:203-206,         *)
(* main.cc:43-47).                                                         *)
THEOREM DirectoriesAgree == Spec => []DaemonsUseServiceDirectory
<1>1. SettingsInv => DaemonsUseServiceDirectory
  BY DEF SettingsInv, Launched, AsRecorded, DaemonsUseServiceDirectory
<1>2. QED
  BY <1>1, SettingsAlways, PTL

(* A service's delays are within the jitter of the frequency it was        *)
(* installed with, or 1 ms where the low end is below that or the high end *)
(* no int (executor.cc:44-61, config.cc:29).                               *)
THEOREM DelaysAreWithinJitter == Spec => []DelaysStayWithinJitter
<1>1. ASSUME SettingsInv, Running, ByService, Intact,
             LET jitter == Given(asked.jitter, 0)
                 j == IF jitter > 0 THEN jitter ELSE 0
             IN  asked.frequency - j >= MinInt
      PROVE  LET jitter == Given(asked.jitter, 0)
                 j == IF jitter > 0 THEN jitter ELSE 0
             IN  \/ delay \in asked.frequency - j .. asked.frequency + j
                 \/ /\ delay = 1
                    /\ asked.frequency - j < 1 \/ asked.frequency + j > MaxInt
  <2>1. /\ row # Absent /\ delay \in NextDelays(config)
        /\ config.frequency = row.frequency /\ config.frequency \in Int32
        /\ config.jitter = IF row.jitter > 0 THEN row.jitter ELSE 0
        /\ config.jitter \in Int32
    BY <1>1 DEF SettingsInv, Launched, AsRecorded, DaemonTypeOK
  <2>2. /\ row.frequency = asked.frequency
        /\ row.jitter = Given(asked.jitter, 0) /\ row.jitter \in Int32
    BY <1>1, <2>1, RecordNumbers
  <2>3. config.frequency - config.jitter >= MinInt
    BY <1>1, <2>1, <2>2
  <2>4. \/ delay \in config.frequency - config.jitter
                      .. config.frequency + config.jitter
        \/ /\ delay = 1
           /\ \/ config.frequency - config.jitter < 1
              \/ config.frequency + config.jitter > MaxInt
    BY <2>1, <2>2, <2>3, DelaysAreNear
  <2>5. QED
    BY <2>1, <2>2, <2>4
<1>2. SettingsInv => DelaysStayWithinJitter
  BY <1>1 DEF DelaysStayWithinJitter
<1>3. QED
  BY <1>2, SettingsAlways, PTL

=============================================================================
