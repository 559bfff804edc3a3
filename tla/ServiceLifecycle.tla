-------------------------- MODULE ServiceLifecycle --------------------------
(***************************************************************************)
(* What docs/wiki/Service-Lifecycle.md promises of a named service, with   *)
(* every command an atomic change: a service has at most one daemon, only  *)
(* a registered service has one, it is started only when it is recorded    *)
(* as stopped, and it is recorded as stopped or unregistered only when its *)
(* daemon has gone.                                                        *)
(***************************************************************************)
EXTENDS Naturals

CONSTANT Names

VARIABLES
  registered,   \* services that are installed
  recorded,     \* what the registry says of each
  daemons       \* how many daemons each has

vars == <<registered, recorded, daemons>>

Init ==
  /\ registered = {}
  /\ recorded = [n \in Names |-> "stopped"]
  /\ daemons = [n \in Names |-> 0]

Register(n) ==
  /\ n \notin registered
  /\ daemons[n] = 0
  /\ registered' = registered \cup {n}
  /\ UNCHANGED <<recorded, daemons>>

Unregister(n) ==
  /\ n \in registered
  /\ daemons[n] = 0
  /\ registered' = registered \ {n}
  /\ recorded' = [recorded EXCEPT ![n] = "stopped"]
  /\ UNCHANGED daemons

Launch(n) ==
  /\ n \in registered
  /\ recorded[n] = "stopped"
  /\ daemons[n] = 0
  /\ daemons' = [daemons EXCEPT ![n] = 1]
  /\ UNCHANGED <<registered, recorded>>

(* A stop's signal, or a crash. *)
Exit(n) ==
  /\ daemons[n] = 1
  /\ daemons' = [daemons EXCEPT ![n] = 0]
  /\ UNCHANGED <<registered, recorded>>

RecordRunning(n) ==
  /\ n \in registered
  /\ recorded' = [recorded EXCEPT ![n] = "running"]
  /\ UNCHANGED <<registered, daemons>>

RecordStopped(n) ==
  /\ daemons[n] = 0
  /\ recorded' = [recorded EXCEPT ![n] = "stopped"]
  /\ UNCHANGED <<registered, daemons>>

Next ==
  \E n \in Names :
    \/ Register(n) \/ Unregister(n) \/ Launch(n) \/ Exit(n)
    \/ RecordRunning(n) \/ RecordStopped(n)

Spec == Init /\ [][Next]_vars

=============================================================================
