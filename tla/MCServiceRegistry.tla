------------------------- MODULE MCServiceRegistry -------------------------
(* Instances of ServiceRegistry for TLC. *)
EXTENDS ServiceRegistry, TLC

AllOps == Commands

(* Sound for invariants only: no run with a temporal property uses it. *)
Symmetry == Permutations(Names) \cup Permutations(Clients) \cup Permutations(Pids)

NamesAndPids == Permutations(Names) \cup Permutations(Pids)

(* The state an install of each service leaves, for the runs about commands *)
(* on installed services.                                                   *)
InstalledInit ==
  /\ services = Names
  /\ stateRows = Names
  /\ status = [n \in Names |-> "stopped"]
  /\ pid = [n \in Names |-> NoPid]
  /\ ProcInit
  /\ pc = [c \in Clients |-> "idle"]
  /\ op = [c \in Clients |-> "none"]
  /\ svc = [c \in Clients |-> NoName]
  /\ seen = [c \in Clients |-> NoPid]
  /\ todo = [c \in Clients |-> {}]
  /\ units = Names

InstalledSpec == InstalledInit /\ [][Next]_vars

=============================================================================
