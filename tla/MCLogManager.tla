---------------------------- MODULE MCLogManager ----------------------------
(* Instances of LogManager for TLC. *)
EXTENDS LogManager

EveryFaultSet == SUBSET FaultKinds

=============================================================================
