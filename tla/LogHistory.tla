----------------------------- MODULE LogHistory -----------------------------
(***************************************************************************)
(* What docs/wiki/Logging.md promises of the log of one service, leaving   *)
(* files, renames and kills aside: output is added to it, and to make room *)
(* the oldest entries are forgotten.  What is forgotten does not come back.*)
(***************************************************************************)
EXTENDS Naturals

VARIABLES
  written,   \* how many entries have been written so far
  kept       \* those that can be found in the log's files

vars == <<written, kept>>

Init == written = 0 /\ kept = {}

Write ==
  /\ written' = written + 1
  /\ kept' = kept \cup {written + 1}

ForgetOldest ==
  /\ kept' \subseteq kept
  /\ \A e \in kept \ kept', d \in kept' : e < d
  /\ UNCHANGED written

Next == Write \/ ForgetOldest

Spec == Init /\ [][Next]_vars

=============================================================================
