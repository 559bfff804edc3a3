----------------------------- MODULE MCExecutor -----------------------------
(* Instances of Executor for TLC. *)
EXTENDS Executor

SyncOnly == {TRUE}
AsyncOnly == {FALSE}
Both == BOOLEAN
Managed == {TRUE}
Unmanaged == {FALSE}
NoJobControl == {FALSE}
AlwaysFire == {TRUE}

=============================================================================
