----------------------------- MODULE LogManager -----------------------------
(***************************************************************************)
(* The log of one managed service (src/src/log_manager.cc): the current    *)
(* file, the rotated files 1 .. MaxFiles, and the daemon that writes them, *)
(* with every access to the file system a step of its own, since the       *)
(* daemon may be killed and its files removed between any two.             *)
(*                                                                         *)
(* Entries are numbered in the order they are written.  A file is appended *)
(* to and renamed as a whole, so the set of its entries says all about its *)
(* contents, and its size is kept beside it.                               *)
(***************************************************************************)
EXTENDS Integers

CONSTANTS
  MaxFiles,     \* max_files_
  MaxSize,      \* max_file_size_
  Outputs,      \* sizes of an entry; write returns at once when it has none
  MaxEntries,   \* bound on the entries a behaviour writes
  FaultSets     \* the sets of faults a behaviour may be exposed to

FaultKinds ==
  {"crash",    \* the daemon is killed and another one started
   "nowrite",  \* the log file cannot be opened, its directory is fine
   "denied",   \* a call on the directory fails: no access, read-only, I/O error
   "remove"}   \* cmd_remove deletes the files while the daemon lives

ASSUME LogAssumption ==
  /\ MaxFiles \in Nat \ {0}
  /\ MaxSize \in Nat \ {0}
  /\ Outputs \subseteq Nat \ {0}
  /\ MaxEntries \in Nat
  /\ FaultSets \subseteq SUBSET FaultKinds

Files == 0 .. MaxFiles

VARIABLES
  faults,    \* what may go wrong in this behaviour; does not change
  present,   \* the files that exist
  entries,   \* the entries in each
  size,      \* the size of each
  last,      \* the entries written so far
  at, i, out \* the writer: its place, its loop variable, its output's size

fileVars == <<present, entries, size>>
vars == <<faults, fileVars, last, at, i, out>>

Places == {"idle", "file_size", "exists", "rename", "shift", "open", "append", "thrown"}

TypeOK ==
  /\ faults \subseteq FaultKinds
  /\ present \subseteq Files
  /\ entries \in [Files -> SUBSET (1 .. last)]
  /\ size \in [Files -> Nat]
  /\ last \in Nat
  /\ at \in Places
  /\ i \in Files
  /\ at \in {"exists", "rename"} => i \in 1 .. MaxFiles - 1
  /\ out \in Nat

Init ==
  /\ faults \in FaultSets
  /\ present = {}
  /\ entries = [f \in Files |-> {}]
  /\ size = [f \in Files |-> 0]
  /\ last = 0
  /\ at = "idle" /\ i = 0 /\ out = 0

-----------------------------------------------------------------------------
(* Deviation: the file is copied. *)
CopyUp(f) ==
  /\ present' = present \cup {f + 1}
  /\ entries' = [entries EXCEPT ![f + 1] = entries[f]]
  /\ size' = [size EXCEPT ![f + 1] = size[f]]

(* std::filesystem::rename(file f, file f + 1), which replaces its target. *)
Move(f) ==
  /\ present' = (present \ {f}) \cup {f + 1}
  /\ entries' = [entries EXCEPT ![f + 1] = entries[f], ![f] = {}]
  /\ size' = [size EXCEPT ![f + 1] = size[f], ![f] = 0]

(* Deviation: the loop counts down to 0. *)
ContinueToZero(f) ==
  /\ i' = IF f >= 0 THEN f ELSE 0
  /\ at' = IF f >= 0 THEN "exists" ELSE "shift"

(* The loop counts down to 1; the current file comes last. *)
Continue(f) ==
  /\ i' = f
  /\ at' = IF f >= 1 THEN "exists" ELSE "shift"

(* A filesystem_error that nothing catches: the daemon terminates. *)
Throw == at' = "thrown" /\ UNCHANGED <<fileVars, i>>

(* The calls of std::filesystem are the overloads without an error_code:   *)
(* they throw on every error but, for exists, that there is no file.       *)
Denied == "denied" \in faults /\ Throw

(* file_size and rename also throw when file f has gone. *)
Missing(f) == f \notin present /\ Throw

(* write, with output of size n, and rotate_if_needed's first test. *)
Write(n) ==
  /\ at = "idle"
  /\ last < MaxEntries
  /\ out' = n
  /\ \/ 0 \in present /\ at' = "file_size" /\ UNCHANGED <<fileVars, i>>
     \/ 0 \notin present /\ at' = "open" /\ UNCHANGED <<fileVars, i>>
     \/ Denied
  /\ UNCHANGED last

(* Deviation: the limit itself does not rotate. *)
FileSizeAbove ==
  /\ at = "file_size"
  /\ \/ Missing(0) \/ Denied
     \/ /\ 0 \in present /\ size[0] <= MaxSize
        /\ at' = "open" /\ UNCHANGED <<fileVars, i>>
     \/ /\ 0 \in present /\ size[0] > MaxSize
        /\ Continue(MaxFiles - 1) /\ UNCHANGED fileVars
  /\ UNCHANGED <<last, out>>

(* Deviation: the chain starts one file too low. *)
FileSizeShortChain ==
  /\ at = "file_size"
  /\ \/ Missing(0) \/ Denied
     \/ /\ 0 \in present /\ size[0] < MaxSize
        /\ at' = "open" /\ UNCHANGED <<fileVars, i>>
     \/ /\ 0 \in present /\ size[0] >= MaxSize
        /\ Continue(MaxFiles - 2) /\ UNCHANGED fileVars
  /\ UNCHANGED <<last, out>>

(* rotate_if_needed: file_size, and the second test. *)
FileSize ==
  /\ at = "file_size"
  /\ \/ Missing(0) \/ Denied
     \/ /\ 0 \in present /\ size[0] < MaxSize
        /\ at' = "open" /\ UNCHANGED <<fileVars, i>>
     \/ /\ 0 \in present /\ size[0] >= MaxSize
        /\ Continue(MaxFiles - 1) /\ UNCHANGED fileVars
  /\ UNCHANGED <<last, out>>

(* Deviation: every file of the chain is renamed, whether it is there. *)
ExistsAssumed ==
  /\ at = "exists"
  /\ at' = "rename" /\ UNCHANGED <<fileVars, i, last, out>>

(* The loop's test of its source. *)
Exists ==
  /\ at = "exists"
  /\ \/ i \in present /\ at' = "rename" /\ UNCHANGED <<fileVars, i>>
     \/ i \notin present /\ Continue(i - 1) /\ UNCHANGED fileVars
     \/ Denied
  /\ UNCHANGED <<last, out>>

(* Deviation: the chain stops at the first file it has moved. *)
RenameOnce ==
  /\ at = "rename"
  /\ \/ i \in present /\ Move(i) /\ Continue(0)
     \/ Missing(i) \/ Denied
  /\ UNCHANGED <<last, out>>

(* Its rename. *)
Rename ==
  /\ at = "rename"
  /\ \/ i \in present /\ Move(i) /\ Continue(i - 1)
     \/ Missing(i) \/ Denied
  /\ UNCHANGED <<last, out>>

(* rename(.log, .log.1) *)
Shift ==
  /\ at = "shift"
  /\ \/ 0 \in present /\ Move(0) /\ at' = "open" /\ UNCHANGED i
     \/ Missing(0) \/ Denied
  /\ UNCHANGED <<last, out>>

(* Open for appending, which creates the file. *)
Open ==
  /\ at = "open"
  /\ present' = present \cup {0}
  /\ at' = "append"
  /\ UNCHANGED <<entries, size, last, i, out>>

(* The entry reaches the file when the stream is closed; if the file has   *)
(* been removed since it was opened, the entry goes with it.               *)
Append ==
  /\ at = "append"
  /\ \/ /\ 0 \in present
        /\ last' = last + 1
        /\ entries' = [entries EXCEPT ![0] = @ \cup {last + 1}]
        /\ size' = [size EXCEPT ![0] = @ + out]
     \/ 0 \notin present /\ UNCHANGED <<last, entries, size>>
  /\ at' = "idle"
  /\ UNCHANGED <<present, i, out>>

(* if( !file ) return: the output is dropped. *)
OpenFails ==
  /\ "nowrite" \in faults
  /\ at = "open"
  /\ at' = "idle"
  /\ UNCHANGED <<fileVars, last, i, out>>

Crash ==
  /\ "crash" \in faults
  /\ at \notin {"idle", "thrown"}
  /\ at' = "idle"
  /\ UNCHANGED <<fileVars, last, i, out>>

(* A new daemon is started after one that terminated. *)
Restart ==
  /\ at = "thrown"
  /\ at' = "idle"
  /\ UNCHANGED <<fileVars, last, i, out>>

(* cmd_remove, one file of its loop. *)
RemoveFile(f) ==
  /\ "remove" \in faults
  /\ f \in present
  /\ present' = present \ {f}
  /\ entries' = [entries EXCEPT ![f] = {}]
  /\ size' = [size EXCEPT ![f] = 0]
  /\ UNCHANGED <<last, at, i, out>>

Step ==
  \/ \E n \in Outputs : Write(n)
  \/ FileSize \/ Exists \/ Rename \/ Shift
  \/ Open \/ OpenFails \/ Append \/ Crash \/ Restart
  \/ \E f \in Files : RemoveFile(f)

Next == Step /\ UNCHANGED faults

Spec == Init /\ [][Next]_vars

-----------------------------------------------------------------------------
(* Read from the highest number down, the files are the log in the order   *)
(* it was written, wherever the daemon was killed in a rotation and        *)
(* whatever was removed meanwhile (log_manager.cc:77-87).                  *)
LogIsOrdered ==
  \A f, g \in Files : f < g =>
    \A e \in entries[f], d \in entries[g] : d < e

(* Rotation loses the oldest entries only: unless files are removed, what  *)
(* is kept is all that was written after some point, crashes in a rotation *)
(* included (log_manager.cc:78-84 goes from the highest number down).      *)
Kept == UNION {entries[f] : f \in Files}

OnlyOldestAreLost ==
  "remove" \notin faults =>
    \A e \in Kept : \A d \in 1 .. last : d > e => d \in Kept

(* While the daemon is neither killed nor refused access to its files nor  *)
(* deprived of them, an entry is lost only when MaxFiles rotated files,    *)
(* each of at least the maximum size, hold newer ones                      *)
(* (docs/wiki/Logging.md: "Max rotated files: 5").                         *)
RetentionIsFull ==
  faults \cap {"crash", "denied", "remove"} = {} /\ at = "idle" /\ (1 .. last) # Kept =>
    \A f \in 1 .. MaxFiles : f \in present /\ size[f] >= MaxSize

(* Unless files are removed, what a rotation asks the size of and what it  *)
(* renames is there, also after earlier rotations that were killed or      *)
(* refused half-way: the daemon terminates in a rotation only because a    *)
(* call is refused (log_manager.cc:74, 82, 87).                            *)
RotationFindsItsFiles ==
  "remove" \notin faults =>
    /\ at \in {"file_size", "shift"} => 0 \in present
    /\ at = "rename" => i \in present
    /\ at = "thrown" => "denied" \in faults

(* A file passes the maximum by less than the entry added to it last: its  *)
(* size is looked at before every append, and what happens between the     *)
(* look and the append does not make it grow (log_manager.cc:26-44,        *)
(* 74-75).                                                                 *)
SizesAreBounded == [][last' # last => size'[0] < MaxSize + out]_vars

(* What the daemon does to its log is what the documentation says, also    *)
(* after it was killed in a rotation or remove has taken files from the    *)
(* middle of the chain: output is added, and what is forgotten is older    *)
(* than all that is kept (log_manager.cc:26-88).                           *)
History == INSTANCE LogHistory WITH written <- last, kept <- Kept

ImplementsHistory ==
  /\ History!Init
  /\ [][History!Next \/ \E f \in Files : RemoveFile(f)]_(History!vars)

=============================================================================
