---------------------------- MODULE Identifiers ----------------------------
(***************************************************************************)
(* The names and numbers the parts of frequent-cron share.                 *)
(***************************************************************************)
CONSTANTS
  Names,   \* service names
  Pids,    \* process ids, all of them positive
  NoPid    \* the value 0 of a pid: no process

ASSUME PidAssumption == NoPid \notin Pids

=============================================================================
