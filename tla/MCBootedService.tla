-------------------------- MODULE MCBootedService --------------------------
(* Instances of BootedService for TLC. *)
EXTENDS BootedService, TLC

AllOps == Commands
AllPlatforms == {"systemd", "systemd_user", "launchd", "rcd"}

NamesAndPids == Permutations(Names) \cup Permutations(Pids)

=============================================================================
