---------------------------- MODULE PeriodicTask ----------------------------
(***************************************************************************)
(* What docs/wiki/Configuration.md promises of a running service, leaving  *)
(* times, processes and their waiting aside: the timer runs down, and then *)
(* the command is started, once, or the tick is skipped.  A synchronous    *)
(* service sets its timer when the command has ended, an asynchronous one  *)
(* when it is about to start it.                                           *)
(***************************************************************************)
EXTENDS Naturals

VARIABLES
  synchronous,   \* how the service is configured
  timer,         \* "off", "set", "over", or "held" while a command runs
  owed,          \* an asynchronous command is about to be started
  commands       \* how many commands it has running

vars == <<synchronous, timer, owed, commands>>

Init ==
  /\ synchronous \in BOOLEAN
  /\ timer = "off" /\ owed = FALSE /\ commands = 0

SwitchOn ==
  /\ timer = "off" /\ commands = 0
  /\ timer' = "set"
  /\ UNCHANGED <<synchronous, owed, commands>>

RunDown ==
  /\ timer = "set"
  /\ timer' = "over"
  /\ UNCHANGED <<synchronous, owed, commands>>

Skip ==
  /\ timer = "over" /\ ~owed
  /\ timer' = "set"
  /\ UNCHANGED <<synchronous, owed, commands>>

(* A synchronous command has the service to itself. *)
StartAlone ==
  /\ synchronous
  /\ timer = "over" /\ commands = 0
  /\ timer' = "held"
  /\ commands' = 1
  /\ UNCHANGED <<synchronous, owed>>

WindUp ==
  /\ timer = "held" /\ commands = 0
  /\ timer' = "set"
  /\ UNCHANGED <<synchronous, owed, commands>>

(* An asynchronous one is started beside the others, if the system can. *)
Prepare ==
  /\ ~synchronous
  /\ timer = "over" /\ ~owed
  /\ timer' = "set"
  /\ owed' = TRUE
  /\ UNCHANGED <<synchronous, commands>>

StartBeside ==
  /\ owed
  /\ owed' = FALSE
  /\ commands' \in {commands, commands + 1}
  /\ UNCHANGED <<synchronous, timer>>

CommandEnds ==
  /\ commands > 0
  /\ commands' = commands - 1
  /\ UNCHANGED <<synchronous, timer, owed>>

SwitchOff ==
  /\ timer # "off"
  /\ timer' = "off"
  /\ owed' = FALSE
  /\ UNCHANGED <<synchronous, commands>>

(* The commands of a service that is off are nobody's any more. *)
LetGo ==
  /\ timer = "off"
  /\ commands' = 0
  /\ UNCHANGED <<synchronous, timer, owed>>

Next ==
  \/ SwitchOn \/ RunDown \/ Skip \/ StartAlone \/ WindUp
  \/ Prepare \/ StartBeside \/ CommandEnds \/ SwitchOff \/ LetGo

Spec == Init /\ [][Next]_vars

=============================================================================
