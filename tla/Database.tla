------------------------------ MODULE Database ------------------------------
(***************************************************************************)
(* The SQLite registry (src/src/database.cc): table services, and table    *)
(* service_state whose name column references services(name) ON DELETE     *)
(* CASCADE.  Every statement of the program runs in autocommit mode, so    *)
(* one operator below is one atomic statement; a member function made of   *)
(* two statements (insert_service) is two operators.                       *)
(*                                                                         *)
(* Of a row of services only its existence matters to the properties; of a *)
(* row of service_state its existence, status and pid.  The timestamps and *)
(* execution_count are printed and never read back by any decision.        *)
(***************************************************************************)
EXTENDS Identifiers

VARIABLES
  services,   \* names with a row in services
  stateRows,  \* names with a row in service_state
  status,     \* service_state.status, meaningful for names in stateRows
  pid         \* service_state.pid, likewise

dbVars == <<services, stateRows, status, pid>>

Statuses == {"stopped", "running"}

DbTypeOK ==
  /\ services \subseteq Names
  /\ stateRows \subseteq Names
  /\ status \in [Names -> Statuses]
  /\ pid \in [Names -> Pids \cup {NoPid}]

DbInit ==
  /\ services = {}
  /\ stateRows = {}
  /\ status = [n \in Names |-> "stopped"]
  /\ pid = [n \in Names |-> NoPid]

(* insert_service, first statement: fails on the primary key. *)
InsertServiceRow(n) ==
  /\ n \notin services
  /\ services' = services \cup {n}
  /\ UNCHANGED <<stateRows, status, pid>>

(* Deviation: foreign keys are not enforced (the PRAGMA is missing). *)
InsertStateRowUnkeyed(n) ==
  IF n \notin stateRows
  THEN /\ stateRows' = stateRows \cup {n}
       /\ status' = [status EXCEPT ![n] = "stopped"]
       /\ pid' = [pid EXCEPT ![n] = NoPid]
       /\ UNCHANGED services
  ELSE UNCHANGED dbVars

(* insert_service, second statement: its result is never looked at.  The   *)
(* foreign key makes it fail when the services row has gone.               *)
InsertStateRow(n) ==
  IF n \in services \ stateRows
  THEN /\ stateRows' = stateRows \cup {n}
       /\ status' = [status EXCEPT ![n] = "stopped"]
       /\ pid' = [pid EXCEPT ![n] = NoPid]
       /\ UNCHANGED services
  ELSE UNCHANGED dbVars

(* remove_service: the cascade takes the state row with it.  The columns   *)
(* of a row that does not exist are kept at their defaults.                *)
DeleteServiceRow(n) ==
  /\ n \in services
  /\ services' = services \ {n}
  /\ stateRows' = stateRows \ {n}
  /\ status' = [status EXCEPT ![n] = "stopped"]
  /\ pid' = [pid EXCEPT ![n] = NoPid]

(* Deviation: an UPDATE that forgot its WHERE. *)
UpdateEveryState(n, st, p) ==
  /\ status' = [m \in Names |-> IF m \in stateRows THEN st ELSE status[m]]
  /\ pid' = [m \in Names |-> IF m \in stateRows THEN p ELSE pid[m]]
  /\ UNCHANGED <<services, stateRows>>

(* update_state: UPDATE ... WHERE name = ?, a no-op (that still reports    *)
(* success) when there is no row.                                          *)
UpdateState(n, st, p) ==
  IF n \in stateRows
  THEN /\ status' = [status EXCEPT ![n] = st]
       /\ pid' = [pid EXCEPT ![n] = p]
       /\ UNCHANGED <<services, stateRows>>
  ELSE UNCHANGED dbVars

=============================================================================
