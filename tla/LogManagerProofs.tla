-------------------------- MODULE LogManagerProofs --------------------------
(***************************************************************************)
(* The properties of LogManager for any number and size of files, any      *)
(* outputs and any faults.                                                 *)
(*                                                                         *)
(* A rotation moves a hole down the chain: when the loop is at i, file     *)
(* i + 1 has just been moved away, unless the loop has only begun.  So a   *)
(* rename overwrites nothing but the last file of the chain, whose entries *)
(* are the oldest.                                                         *)
(***************************************************************************)
EXTENDS LogManager, TLAPS

Rotating == at \in {"exists", "rename", "shift"}

(* What does not exist is empty. *)
AbsentAreEmpty ==
  \A f \in Files \ present : entries[f] = {} /\ size[f] = 0

(* An output that is being written has a size, and the file it goes to is  *)
(* not full.                                                               *)
WriterHasRoom ==
  /\ at # "idle" => out \in Outputs
  /\ at \in {"open", "append"} => size[0] < MaxSize

HoleIsAbsent ==
  /\ at = "shift" => i = 0
  /\ Rotating => i + 1 \notin present \/ i = MaxFiles - 1

IInv ==
  /\ TypeOK
  /\ AbsentAreEmpty
  /\ WriterHasRoom
  /\ HoleIsAbsent

-----------------------------------------------------------------------------
(* The arithmetic of the chain. *)
LEMMA ChainArithmetic ==
  /\ 0 \in Files
  /\ MaxFiles \in Files
  /\ \A f \in 0 .. MaxFiles - 1 : f \in Files /\ f + 1 \in Files /\ f + 1 # f
BY LogAssumption DEF Files

(* What a rename does to the files keeps their types. *)
LEMMA MoveType ==
  ASSUME TypeOK, NEW f \in 0 .. MaxFiles - 1, Move(f)
  PROVE  /\ present' \subseteq Files
         /\ entries' \in [Files -> SUBSET (1 .. last)]
         /\ size' \in [Files -> Nat]
         /\ AbsentAreEmpty => AbsentAreEmpty'
BY ChainArithmetic DEF TypeOK, Move, AbsentAreEmpty

(* Where the loop goes on it has a file number, and the hole is there. *)
LEMMA ContinueType ==
  ASSUME NEW f \in 0 .. MaxFiles - 1, Continue(f)
  PROVE  /\ i' \in Files
         /\ i' = f
         /\ at' \in {"exists", "shift"}
         /\ at' \in {"exists", "rename"} => i' \in 1 .. MaxFiles - 1
         /\ at' = "shift" => i' = 0
BY LogAssumption DEF Continue, Files

LEMMA Initially == Init => IInv
BY LogAssumption, ChainArithmetic
DEF Init, IInv, TypeOK, AbsentAreEmpty, WriterHasRoom, HoleIsAbsent, Rotating, Files, Places

LEMMA Preserved == IInv /\ [Next]_vars => IInv'
<1> SUFFICES ASSUME IInv, [Next]_vars PROVE IInv'
  OBVIOUS
<1> USE DEF IInv, WriterHasRoom, HoleIsAbsent, Rotating, Places
<1>1. ASSUME NEW n \in Outputs, Write(n), UNCHANGED faults PROVE IInv'
  <2>1. /\ at = "idle" /\ out' = n /\ at' \in {"file_size", "open", "thrown"}
        /\ UNCHANGED <<fileVars, i, last>>
        /\ at' = "open" => 0 \notin present
    BY <1>1 DEF Write, Denied, Throw
  <2>2. at' = "open" => size[0] < MaxSize
    BY <2>1, LogAssumption, ChainArithmetic DEF AbsentAreEmpty
  <2>3. n \in Nat
    BY LogAssumption
  <2>4. QED
    BY <1>1, <2>1, <2>2, <2>3 DEF TypeOK, AbsentAreEmpty, fileVars
<1>2. ASSUME FileSize, UNCHANGED faults PROVE IInv'
  <2>1. CASE at' = "thrown"
    BY <1>2, <2>1, ContinueType
    DEF FileSize, Missing, Denied, Throw, Continue, TypeOK, AbsentAreEmpty, fileVars
  <2>2. CASE at' = "open"
    BY <1>2, <2>2, ContinueType
    DEF FileSize, Missing, Denied, Throw, Continue, TypeOK, AbsentAreEmpty, fileVars
  <2>3. CASE at' # "thrown" /\ at' # "open"
    <3>1. Continue(MaxFiles - 1) /\ UNCHANGED <<fileVars, last, out, faults>> /\ at = "file_size"
      BY <1>2, <2>3 DEF FileSize, Missing, Denied, Throw
    <3>2. MaxFiles - 1 \in 0 .. MaxFiles - 1
      BY LogAssumption
    <3>3. QED
      BY <3>1, <3>2, ContinueType DEF TypeOK, AbsentAreEmpty, fileVars
  <2>4. QED
    BY <2>1, <2>2, <2>3
<1>3. ASSUME Exists, UNCHANGED faults PROVE IInv'
  <2>1. CASE at' # "thrown" /\ i \in present
    BY <1>3, <2>1 DEF Exists, Denied, Throw, TypeOK, AbsentAreEmpty, fileVars
  <2>2. CASE at' # "thrown" /\ i \notin present
    <3>1. i - 1 \in 0 .. MaxFiles - 1 /\ i - 1 + 1 = i
      BY <1>3, LogAssumption DEF Exists, TypeOK
    <3>2. Continue(i - 1) /\ UNCHANGED fileVars
      BY <1>3, <2>2 DEF Exists, Denied, Throw
    <3>3. QED
      BY <1>3, <2>2, <3>1, <3>2, ContinueType DEF Exists, TypeOK, AbsentAreEmpty, fileVars
  <2>3. CASE at' = "thrown"
    BY <1>3, <2>3 DEF Exists, Denied, Throw, Continue, TypeOK, AbsentAreEmpty, fileVars
  <2>4. QED
    BY <2>1, <2>2, <2>3
<1>4. ASSUME Rename, UNCHANGED faults PROVE IInv'
  <2>1. CASE at' # "thrown"
    <3>1. /\ i \in 1 .. MaxFiles - 1 /\ i \in 0 .. MaxFiles - 1
          /\ i - 1 \in 0 .. MaxFiles - 1 /\ i - 1 + 1 = i
      BY <1>4, LogAssumption DEF Rename, TypeOK
    <3>2. Move(i) /\ Continue(i - 1)
      BY <1>4, <2>1 DEF Rename, Missing, Denied, Throw
    <3>3. i \notin present'
      BY <3>1, <3>2, ChainArithmetic DEF Move
    <3>4. QED
      BY <1>4, <3>1, <3>2, <3>3, ContinueType, MoveType DEF Rename, TypeOK
  <2>2. CASE at' = "thrown"
    <3>1. Throw
      BY <1>4, <2>2 DEF Rename, Missing, Denied, Continue
    <3>2. QED
      BY <1>4, <3>1 DEF Rename, Throw, TypeOK, AbsentAreEmpty, fileVars
  <2>3. QED
    BY <2>1, <2>2
<1>5. ASSUME Shift, UNCHANGED faults PROVE IInv'
  <2>1. CASE at' # "thrown"
    <3>1. 0 \in 0 .. MaxFiles - 1
      BY LogAssumption
    <3>2. Move(0) /\ at' = "open" /\ UNCHANGED <<i, last, out>>
      BY <1>5, <2>1 DEF Shift, Missing, Denied, Throw
    <3>3. size'[0] = 0
      BY <3>2, ChainArithmetic DEF Move, TypeOK
    <3>4. QED
      BY <1>5, <3>1, <3>2, <3>3, MoveType, LogAssumption DEF Shift, TypeOK
  <2>2. CASE at' = "thrown"
    BY <1>5, <2>2 DEF Shift, Missing, Denied, Throw, TypeOK, AbsentAreEmpty, fileVars
  <2>3. QED
    BY <2>1, <2>2
<1>6. ASSUME Append, UNCHANGED faults PROVE IInv'
  <2>1. CASE 0 \in present
    <3>1. size[0] + out \in Nat /\ last + 1 \in Nat
      BY ChainArithmetic DEF TypeOK
    <3>2. entries' \in [Files -> SUBSET (1 .. last')]
      <4>1. \A f \in Files : entries[f] \subseteq 1 .. last + 1
        BY <3>1 DEF TypeOK
      <4>2. last + 1 \in 1 .. last + 1
        BY <3>1 DEF TypeOK
      <4>3. QED
        BY <1>6, <2>1, <3>1, <4>1, <4>2, ChainArithmetic DEF Append, TypeOK
    <3>3. QED
      BY <1>6, <2>1, <3>1, <3>2, ChainArithmetic DEF Append, TypeOK, AbsentAreEmpty
  <2>2. CASE 0 \notin present
    BY <1>6, <2>2 DEF Append, TypeOK, AbsentAreEmpty
  <2>3. QED
    BY <2>1, <2>2
<1>7. ASSUME OpenFails \/ Crash \/ Restart, UNCHANGED faults PROVE IInv'
  BY <1>7 DEF OpenFails, Crash, Restart, TypeOK, AbsentAreEmpty, fileVars
<1>8. ASSUME NEW f \in Files, RemoveFile(f), UNCHANGED faults PROVE IInv'
  BY <1>8, LogAssumption, ChainArithmetic DEF RemoveFile, TypeOK, AbsentAreEmpty
<1>9. ASSUME Open, UNCHANGED faults PROVE IInv'
  BY <1>9, ChainArithmetic DEF Open, TypeOK, AbsentAreEmpty
<1>10. CASE UNCHANGED vars
  BY <1>10 DEF vars, fileVars, TypeOK, AbsentAreEmpty
<1>11. QED
  BY <1>1, <1>2, <1>3, <1>4, <1>5, <1>6, <1>7, <1>8, <1>9, <1>10 DEF Next, Step

(* The variables keep their types, whatever is killed or removed; inside   *)
(* the loop its variable is a rotated file's number (log_manager.cc:78).   *)
THEOREM TypeCorrect == Spec => []TypeOK
<1>1. IInv => TypeOK
  BY DEF IInv
<1>2. QED
  BY <1>1, Initially, Preserved, PTL DEF Spec

LEMMA Invariant == Spec => []IInv
BY Initially, Preserved, PTL DEF Spec

-----------------------------------------------------------------------------
(* Moving a file up one place keeps the order: the numbers between it and  *)
(* its new place are its own and the new one, and both had older entries   *)
(* than those below and newer ones than those above.                       *)
LEMMA MoveKeepsOrder ==
  ASSUME TypeOK, LogIsOrdered, NEW f \in 0 .. MaxFiles - 1, Move(f)
  PROVE  LogIsOrdered'
<1> SUFFICES ASSUME NEW g \in Files, NEW h \in Files, g < h,
                    NEW e \in entries'[g], NEW d \in entries'[h]
             PROVE  d < e
  BY DEF LogIsOrdered
<1>1. /\ g # f /\ h # f
      /\ e \in entries[IF g = f + 1 THEN f ELSE g]
      /\ d \in entries[IF h = f + 1 THEN f ELSE h]
  BY ChainArithmetic DEF Move, TypeOK
<1>2. (IF g = f + 1 THEN f ELSE g) < (IF h = f + 1 THEN f ELSE h)
  BY <1>1, LogAssumption DEF Files
<1>3. f \in Files
  BY ChainArithmetic
<1>4. QED
  BY <1>1, <1>2, <1>3 DEF LogIsOrdered

LEMMA OrderPreserved == IInv /\ LogIsOrdered /\ [Next]_vars => LogIsOrdered'
<1> SUFFICES ASSUME IInv, LogIsOrdered, [Next]_vars PROVE LogIsOrdered'
  OBVIOUS
<1>t. TypeOK
  BY DEF IInv
<1>1. CASE UNCHANGED entries
  BY <1>1 DEF LogIsOrdered
<1>2. ASSUME Rename, Move(i) PROVE LogIsOrdered'
  <2>1. i \in 0 .. MaxFiles - 1
    BY <1>t, <1>2, LogAssumption DEF Rename, TypeOK
  <2>2. QED
    BY <1>t, <1>2, <2>1, MoveKeepsOrder DEF Rename
<1>3. ASSUME Shift, Move(0) PROVE LogIsOrdered'
  <2>1. 0 \in 0 .. MaxFiles - 1
    BY LogAssumption
  <2>2. QED
    BY <1>t, <1>3, <2>1, MoveKeepsOrder DEF Shift
<1>4. ASSUME Append, 0 \in present PROVE LogIsOrdered'
  <2> SUFFICES ASSUME NEW f \in Files, NEW g \in Files, f < g,
                      NEW e \in entries'[f], NEW d \in entries'[g]
               PROVE  d < e
    BY DEF LogIsOrdered
  <2>0. entries' = [entries EXCEPT ![0] = @ \cup {last + 1}] /\ g # 0
    BY <1>4 DEF Append, Files
  <2>1. d \in entries[g] /\ d \in 1 .. last
    BY <1>t, <2>0 DEF TypeOK
  <2>2. e \in entries[f] \/ e = last + 1
    BY <1>t, <2>0 DEF TypeOK
  <2>3. QED
    BY <1>t, <2>1, <2>2 DEF LogIsOrdered, TypeOK
<1>5. ASSUME NEW f \in Files, RemoveFile(f) PROVE LogIsOrdered'
  BY <1>t, <1>5 DEF RemoveFile, LogIsOrdered, TypeOK
<1>6. QED
  BY <1>1, <1>2, <1>3, <1>4, <1>5
  DEF Next, Step, vars, fileVars, Write, FileSize, Exists, Rename, Shift, Missing,
      Denied, Throw, Continue, Open, OpenFails, Append, Crash, Restart

(* Read from the highest number down, the files are the log in the order   *)
(* it was written, whatever the daemon and its files suffer                *)
(* (log_manager.cc:77-87).                                                 *)
THEOREM OrderIsKept == Spec => []LogIsOrdered
<1>1. Init => LogIsOrdered
  BY DEF Init, LogIsOrdered
<1>2. QED
  BY <1>1, Invariant, OrderPreserved, PTL DEF Spec

-----------------------------------------------------------------------------
LEMMA StepsRespectSizes ==
  IInv /\ [Next]_vars => [last' # last => size'[0] < MaxSize + out]_vars
<1> SUFFICES ASSUME IInv, Next, last' # last PROVE size'[0] < MaxSize + out
  OBVIOUS
<1>1. Append /\ 0 \in present
  BY DEF Next, Step, Write, FileSize, Exists, Rename, Shift, Missing, Denied, Throw,
         Open, OpenFails, Append, Crash, Restart, RemoveFile
<1>2. size[0] < MaxSize /\ size[0] \in Nat /\ out \in Nat
  BY <1>1, ChainArithmetic DEF IInv, WriterHasRoom, TypeOK, Append
<1>3. size'[0] = size[0] + out
  BY <1>1, ChainArithmetic DEF IInv, TypeOK, Append
<1>4. QED
  BY <1>2, <1>3, LogAssumption

(* A file passes the maximum by less than the entry added to it last, for  *)
(* every limit, every output and all faults (log_manager.cc:26-44, 74-75). *)
THEOREM SizesStayBounded == Spec => SizesAreBounded
BY Invariant, StepsRespectSizes, PTL DEF Spec, SizesAreBounded

-----------------------------------------------------------------------------
(* Every test of the loop, too, comes after the current file was found.    *)
SourcesArePresent ==
  "remove" \notin faults =>
    /\ at = "file_size" \/ Rotating => 0 \in present
    /\ at = "rename" => i \in present
    /\ at = "thrown" => "denied" \in faults

LEMMA SourcesInitially == Init => SourcesArePresent
BY DEF Init, SourcesArePresent, Rotating

LEMMA SourcesPreserved ==
  IInv /\ SourcesArePresent /\ [Next]_vars => SourcesArePresent'
<1> SUFFICES ASSUME IInv, SourcesArePresent, [Next]_vars PROVE SourcesArePresent'
  OBVIOUS
<1> USE DEF SourcesArePresent, Rotating, Missing, Denied, Throw
<1>1. ASSUME NEW n \in Outputs, Write(n), UNCHANGED faults PROVE SourcesArePresent'
  BY <1>1 DEF Write, fileVars
<1>2. ASSUME FileSize, UNCHANGED faults PROVE SourcesArePresent'
  BY <1>2 DEF FileSize, Continue, fileVars
<1>3. ASSUME Exists, UNCHANGED faults PROVE SourcesArePresent'
  <2>1. CASE Throw
    BY <1>3, <2>1 DEF Exists, Continue, fileVars
  <2>2. CASE ~Throw
    <3>1. at' \in {"rename", "exists", "shift"} /\ (at' = "rename" => i \in present /\ i' = i)
      BY <1>3, <2>2 DEF Exists, Continue
    <3>2. UNCHANGED present /\ at = "exists"
      BY <1>3, <2>2 DEF Exists, fileVars
    <3>3. QED
      BY <1>3, <3>1, <3>2
  <2>3. QED
    BY <2>1, <2>2
<1>4. ASSUME Rename, UNCHANGED faults PROVE SourcesArePresent'
  <2>1. CASE Throw
    BY <1>4, <2>1 DEF Rename, Continue, fileVars
  <2>2. CASE i \in present /\ Move(i) /\ Continue(i - 1)
    BY <1>4, <2>2, LogAssumption DEF Rename, Continue, Move, IInv, TypeOK
  <2>3. QED
    BY <1>4, <2>1, <2>2 DEF Rename
<1>5. ASSUME Shift, UNCHANGED faults PROVE SourcesArePresent'
  BY <1>5 DEF Shift, fileVars
<1>6. ASSUME Open \/ Append \/ OpenFails \/ Crash \/ Restart, UNCHANGED faults
      PROVE  SourcesArePresent'
  BY <1>6 DEF Open, Append, OpenFails, Crash, Restart, fileVars
<1>7. ASSUME NEW f \in Files, RemoveFile(f), UNCHANGED faults PROVE SourcesArePresent'
  BY <1>7 DEF RemoveFile
<1>8. CASE UNCHANGED vars
  BY <1>8 DEF vars, fileVars
<1>9. QED
  BY <1>1, <1>2, <1>3, <1>4, <1>5, <1>6, <1>7, <1>8 DEF Next, Step

(* Unless files are removed, what a rotation looks at and renames is       *)
(* there, in whatever state an earlier crash or refusal has left the       *)
(* chain: only a refused call terminates the daemon                        *)
(* (log_manager.cc:74, 82, 87).                                            *)
THEOREM RotationFindsWhatItRenames == Spec => []RotationFindsItsFiles
<1>1. SourcesArePresent => RotationFindsItsFiles
  BY DEF SourcesArePresent, RotationFindsItsFiles, Rotating
<1>2. QED
  BY <1>1, Invariant, SourcesInitially, SourcesPreserved, PTL DEF Spec

-----------------------------------------------------------------------------
(* Moving a file onto an empty place loses nothing. *)
LEMMA MoveKeepsEntries ==
  ASSUME TypeOK, NEW f \in 0 .. MaxFiles - 1, Move(f), entries[f + 1] = {}
  PROVE  Kept' = Kept
<1>1. f \in Files /\ f + 1 \in Files /\ f + 1 # f
  BY ChainArithmetic
<1>2. /\ entries'[f + 1] = entries[f] /\ entries'[f] = {}
      /\ \A g \in Files \ {f, f + 1} : entries'[g] = entries[g]
  BY <1>1 DEF Move, TypeOK
<1>3. QED
  BY <1>1, <1>2 DEF Kept

(* Moving the last file but one loses the entries of the last one alone.   *)
LEMMA MoveLosesLast ==
  ASSUME TypeOK, NEW f \in 0 .. MaxFiles - 1, f = MaxFiles - 1, Move(f)
  PROVE  /\ \A g \in Files \ {MaxFiles} : entries[g] \subseteq Kept'
         /\ Kept' \subseteq UNION {entries[g] : g \in Files \ {MaxFiles}}
<1>1. f \in Files /\ f + 1 = MaxFiles /\ MaxFiles \in Files /\ MaxFiles # f
  BY ChainArithmetic, LogAssumption
<1>2. /\ entries'[MaxFiles] = entries[f] /\ entries'[f] = {}
      /\ \A g \in Files \ {f, MaxFiles} : entries'[g] = entries[g]
  BY <1>1 DEF Move, TypeOK
<1>3. QED
  BY <1>1, <1>2 DEF Kept

(* A step of the loop moves onto an empty place, or onto the last one.     *)
LEMMA MoveTarget ==
  ASSUME IInv, at \in {"rename", "shift"}
  PROVE  /\ i \in 0 .. MaxFiles - 1
         /\ i = MaxFiles - 1 \/ (i + 1 \notin present /\ entries[i + 1] = {})
<1>1. i \in 0 .. MaxFiles - 1
  BY LogAssumption DEF IInv, TypeOK, HoleIsAbsent
<1>2. QED
  BY <1>1, ChainArithmetic DEF IInv, HoleIsAbsent, AbsentAreEmpty, Rotating

LEMMA OldestPreserved ==
  IInv /\ LogIsOrdered /\ OnlyOldestAreLost /\ [Next]_vars => OnlyOldestAreLost'
<1> SUFFICES ASSUME IInv, LogIsOrdered, OnlyOldestAreLost, [Next]_vars,
                    "remove" \notin faults
             PROVE  \A e \in Kept' : \A d \in 1 .. last' : d > e => d \in Kept'
  BY DEF OnlyOldestAreLost, Next, vars
<1>t. TypeOK
  BY DEF IInv
<1>k. \A e \in Kept : \A d \in 1 .. last : d > e => d \in Kept
  BY DEF OnlyOldestAreLost
<1>0. CASE UNCHANGED <<entries, last>>
  BY <1>0, <1>k DEF Kept
<1>1. ASSUME at \in {"rename", "shift"}, Move(i), UNCHANGED last
      PROVE  \A e \in Kept' : \A d \in 1 .. last' : d > e => d \in Kept'
  <2>1. CASE entries[i + 1] = {}
    BY <1>t, <1>1, <1>k, <2>1, MoveTarget, MoveKeepsEntries
  <2>2. CASE i = MaxFiles - 1
    <3> SUFFICES ASSUME NEW e \in Kept', NEW d \in 1 .. last, d > e
                 PROVE  d \in Kept'
      BY <1>1
    <3>1. i \in 0 .. MaxFiles - 1
      BY <1>1, MoveTarget
    <3>2. PICK g \in Files \ {MaxFiles} : e \in entries[g]
      BY <1>t, <1>1, <2>2, <3>1, MoveLosesLast
    <3>3. d \in Kept
      BY <1>k, <3>2 DEF Kept
    <3>4. PICK h \in Files : d \in entries[h]
      BY <3>3 DEF Kept
    <3>5. h # MaxFiles
      <4>1. SUFFICES ASSUME h = MaxFiles PROVE FALSE
        OBVIOUS
      <4>2. g < h
        BY <3>2, <4>1, LogAssumption DEF Files
      <4>3. d < e
        BY <3>2, <3>4, <4>2 DEF LogIsOrdered
      <4>4. e \in Nat /\ d \in Nat
        BY <1>t, <3>2 DEF TypeOK
      <4>5. QED
        BY <4>3, <4>4
    <3>6. QED
      BY <1>t, <1>1, <2>2, <3>1, <3>4, <3>5, MoveLosesLast
  <2>3. QED
    BY <1>1, <2>1, <2>2, MoveTarget
<1>2. CASE Rename
  BY <1>0, <1>1, <1>2 DEF Rename, Missing, Denied, Throw, fileVars
<1>3. CASE Shift
  <2>1. i = 0
    BY <1>3 DEF IInv, HoleIsAbsent, Shift
  <2>2. QED
    BY <1>0, <1>1, <1>3, <2>1 DEF Shift, Missing, Denied, Throw, fileVars
<1>4. CASE Append /\ 0 \in present
  <2>1. Kept' = Kept \cup {last + 1} /\ last' = last + 1
    BY <1>t, <1>4, ChainArithmetic DEF Append, Kept, TypeOK
  <2>2. Kept \subseteq 1 .. last
    BY <1>t DEF Kept, TypeOK
  <2>3. QED
    BY <1>t, <1>k, <2>1, <2>2 DEF TypeOK
<1>5. QED
  BY <1>0, <1>2, <1>3, <1>4
  DEF Next, Step, vars, fileVars, Write, FileSize, Exists, Missing, Denied, Throw,
      Continue, Open, OpenFails, Append, Crash, Restart, RemoveFile

(* What is kept is all that was written after some point, wherever the     *)
(* daemon was killed, or refused a call, in a rotation                     *)
(* (log_manager.cc:78-84).                                                 *)
THEOREM OldestGoFirst == Spec => []OnlyOldestAreLost
<1>1. Init => OnlyOldestAreLost /\ LogIsOrdered
  BY DEF Init, OnlyOldestAreLost, Kept, LogIsOrdered
<1>2. QED
  BY <1>1, Invariant, OrderIsKept, OldestPreserved, PTL DEF Spec

-----------------------------------------------------------------------------
(* While nothing disturbs the daemon, the rotated files are a chain        *)
(* without a gap but the hole of a rotation, each of them full, and no     *)
(* entry has been lost unless the chain is as long as it may be.           *)
Undisturbed == faults \cap {"crash", "denied", "remove"} = {}

Hole(f) == Rotating /\ f = i + 1

ChainHasNoGap ==
  \A f \in present : \A g \in 1 .. f - 1 : g \in present \/ Hole(g)

ChainIsFull ==
  /\ \A f \in present \ {0} : size[f] >= MaxSize
  /\ Rotating => size[0] >= MaxSize

ChainIsLong ==
  (1 .. last) # Kept => \A f \in 1 .. MaxFiles : f \in present \/ Hole(f)

Chain == Undisturbed => ChainHasNoGap /\ ChainIsFull /\ ChainIsLong

(* The loop passes a file that is not there: then nothing has been lost    *)
(* and the chain ends below it, so that the hole may go down.              *)
LEMMA ChainAtExists ==
  ASSUME IInv, ChainHasNoGap, ChainIsFull, ChainIsLong,
         at = "exists", i \notin present, Continue(i - 1), UNCHANGED <<fileVars, last>>
  PROVE  ChainHasNoGap' /\ ChainIsFull' /\ ChainIsLong'
<1>1. i \in 1 .. MaxFiles - 1 /\ i - 1 \in 0 .. MaxFiles - 1 /\ i \in 1 .. MaxFiles
  BY LogAssumption DEF IInv, TypeOK
<1>2. Rotating /\ Rotating' /\ i' = i - 1 /\ ~Hole(i)
  BY <1>1, ContinueType DEF Rotating, Hole
<1>3. (1 .. last) = Kept
  BY <1>1, <1>2 DEF ChainIsLong
<1>4. \A f \in present : f <= i
  <2> SUFFICES ASSUME NEW f \in present, f > i PROVE FALSE
    BY <1>1 DEF IInv, TypeOK, Files
  <2>1. i \in 1 .. f - 1
    BY <1>1, LogAssumption DEF IInv, TypeOK, Files
  <2>2. QED
    BY <2>1, <1>2 DEF ChainHasNoGap
<1>5. ChainHasNoGap'
  <2> SUFFICES ASSUME NEW f \in present', NEW g \in 1 .. f - 1 PROVE g \in present' \/ Hole(g)'
    BY DEF ChainHasNoGap
  <2>1. f \in present /\ f <= i /\ f \in Files
    BY <1>4 DEF fileVars, IInv, TypeOK
  <2>2. g # i + 1
    BY <1>1, <2>1, LogAssumption DEF Files
  <2>3. QED
    BY <2>1, <2>2 DEF ChainHasNoGap, Hole, fileVars
<1>6. ChainIsFull'
  BY <1>2 DEF ChainIsFull, fileVars
<1>7. ChainIsLong'
  BY <1>3 DEF ChainIsLong, Kept, fileVars
<1>8. QED
  BY <1>5, <1>6, <1>7

(* A file moves up into the hole, and the hole moves to where it was.      *)
LEMMA ChainAtMove ==
  ASSUME IInv, ChainHasNoGap, ChainIsFull, ChainIsLong,
         at \in {"rename", "shift"}, i \in present, Move(i), UNCHANGED last,
         at = "rename" => Continue(i - 1),
         at = "shift" => at' = "open"
  PROVE  ChainHasNoGap' /\ ChainIsFull' /\ ChainIsLong'
<1>t. TypeOK
  BY DEF IInv
<1>1. /\ i \in 0 .. MaxFiles - 1 /\ i \in Files /\ i + 1 \in Files
      /\ at = "shift" => i = 0
      /\ at = "rename" => i \in 1 .. MaxFiles - 1
      /\ Rotating
  BY MoveTarget, ChainArithmetic DEF IInv, HoleIsAbsent, TypeOK, Rotating
<1>2. /\ present' = (present \ {i}) \cup {i + 1}
      /\ size'[i + 1] = size[i]
      /\ \A f \in Files \ {i, i + 1} : size'[f] = size[f]
  BY <1>t, <1>1 DEF Move, TypeOK
<1>3. \A f \in 1 .. MaxFiles : f = i => Hole(f)'
  <2>1. CASE at = "rename"
    <3>1. i - 1 \in 0 .. MaxFiles - 1 /\ i - 1 + 1 = i
      BY <1>1, <2>1, LogAssumption
    <3>2. QED
      BY <2>1, <3>1, ContinueType DEF Hole, Rotating
  <2>2. CASE at = "shift"
    BY <1>1, <2>2
  <2>3. QED
    BY <2>1, <2>2
<1>4. \A g \in Files \ {0} : (g \in present \/ Hole(g)) => (g \in present' \/ Hole(g)')
  <2> SUFFICES ASSUME NEW g \in Files \ {0}, g \in present \/ Hole(g)
               PROVE  g \in present' \/ Hole(g)'
    OBVIOUS
  <2>1. CASE g = i
    BY <2>1, <1>3, LogAssumption DEF Files
  <2>2. CASE g # i
    BY <2>2, <1>2 DEF Hole
  <2>3. QED
    BY <2>1, <2>2
<1>5. ChainHasNoGap'
  <2> SUFFICES ASSUME NEW f \in present', NEW g \in 1 .. f - 1 PROVE g \in present' \/ Hole(g)'
    BY DEF ChainHasNoGap
  <2>1. f \in Files /\ g \in Files \ {0}
    BY <1>t, <1>1, <1>2, LogAssumption DEF TypeOK, Files
  <2>2. CASE f \in present
    BY <1>4, <2>1, <2>2 DEF ChainHasNoGap
  <2>3. CASE f = i + 1
    <3>1. g = i \/ g \in 1 .. i - 1
      BY <1>1, <2>1, <2>3, LogAssumption DEF Files
    <3>2. g \in 1 .. i - 1 => g \in present \/ Hole(g)
      BY DEF ChainHasNoGap
    <3>3. g = i => g \in present
      OBVIOUS
    <3>4. QED
      BY <1>4, <2>1, <3>1, <3>2, <3>3
  <2>4. QED
    BY <1>2, <2>2, <2>3
<1>6. size[i] >= MaxSize
  BY <1>1 DEF ChainIsFull
<1>7. ChainIsFull'
  <2>1. \A f \in present' \ {0} : size'[f] >= MaxSize
    BY <1>t, <1>2, <1>6 DEF ChainIsFull, TypeOK
  <2>2. Rotating' => size'[0] >= MaxSize
    <3>1. CASE at = "rename"
      BY <1>1, <1>2, <3>1, ChainArithmetic, LogAssumption DEF ChainIsFull
    <3>2. CASE at = "shift"
      BY <3>2 DEF Rotating
    <3>3. QED
      BY <3>1, <3>2
  <2>3. QED
    BY <2>1, <2>2 DEF ChainIsFull
<1>8. ChainIsLong'
  <2>1. CASE entries[i + 1] = {}
    <3>1. (1 .. last') # Kept' => (1 .. last) # Kept
      BY <1>t, <1>1, <2>1, MoveKeepsEntries
    <3>2. 1 .. MaxFiles \subseteq Files \ {0}
      BY LogAssumption DEF Files
    <3>3. QED
      BY <1>4, <3>1, <3>2 DEF ChainIsLong
  <2>2. CASE i = MaxFiles - 1
    <3> SUFFICES ASSUME NEW f \in 1 .. MaxFiles PROVE f \in present' \/ Hole(f)'
      BY DEF ChainIsLong
    <3>1. f = MaxFiles \/ f = i \/ f \in 1 .. i - 1
      BY <1>1, <2>2, LogAssumption
    <3>2. f = MaxFiles => f \in present'
      BY <1>2, <2>2, LogAssumption
    <3>3. f \in 1 .. i - 1 => f \in present \/ Hole(f)
      BY DEF ChainHasNoGap
    <3>4. f \in Files \ {0}
      BY LogAssumption DEF Files
    <3>5. QED
      BY <1>3, <1>4, <3>1, <3>2, <3>3, <3>4
  <2>3. QED
    BY <2>1, <2>2, MoveTarget
<1>9. QED
  BY <1>5, <1>7, <1>8

LEMMA ChainPreserved ==
  IInv /\ SourcesArePresent /\ Chain /\ [Next]_vars => Chain'
<1> SUFFICES ASSUME IInv, SourcesArePresent, Chain, [Next]_vars, Undisturbed
             PROVE  ChainHasNoGap' /\ ChainIsFull' /\ ChainIsLong'
  BY DEF Chain, Undisturbed, Next, vars
<1>t. TypeOK
  BY DEF IInv
<1>c. ChainHasNoGap /\ ChainIsFull /\ ChainIsLong
  BY DEF Chain
<1>f. "remove" \notin faults /\ "crash" \notin faults /\ "denied" \notin faults
  BY DEF Undisturbed
<1>0. ASSUME UNCHANGED <<fileVars, last>>, ~Rotating, ~Rotating'
      PROVE  ChainHasNoGap' /\ ChainIsFull' /\ ChainIsLong'
  BY <1>0, <1>c DEF fileVars, ChainHasNoGap, ChainIsFull, ChainIsLong, Kept, Hole
<1>1. ASSUME UNCHANGED <<fileVars, last, i>>, Rotating, Rotating'
      PROVE  ChainHasNoGap' /\ ChainIsFull' /\ ChainIsLong'
  BY <1>1, <1>c DEF fileVars, ChainHasNoGap, ChainIsFull, ChainIsLong, Kept, Hole
<1>2. ASSUME FileSize
      PROVE  ChainHasNoGap' /\ ChainIsFull' /\ ChainIsLong'
  <2>1. CASE at' \in {"open", "thrown"}
    BY <1>0, <1>2, <2>1 DEF FileSize, Missing, Denied, Throw, Rotating, Continue, fileVars
  <2>2. CASE at' \notin {"open", "thrown"}
    <3>1. ~Rotating /\ size[0] >= MaxSize /\ UNCHANGED <<fileVars, last>>
      BY <1>2, <2>2 DEF FileSize, Missing, Denied, Throw, Rotating
    <3>2. QED
      BY <1>c, <3>1 DEF ChainHasNoGap, ChainIsFull, ChainIsLong, Hole, Kept, fileVars
  <2>3. QED
    BY <2>1, <2>2
<1>3. ASSUME Exists
      PROVE  ChainHasNoGap' /\ ChainIsFull' /\ ChainIsLong'
  <2>1. CASE i \in present
    BY <1>1, <1>3, <1>f, <2>1 DEF Exists, Denied, Rotating
  <2>2. CASE i \notin present
    BY <1>c, <1>3, <1>f, <2>2, ChainAtExists DEF Exists, Denied
  <2>3. QED
    BY <2>1, <2>2
<1>4. ASSUME Rename
      PROVE  ChainHasNoGap' /\ ChainIsFull' /\ ChainIsLong'
  BY <1>c, <1>f, <1>4, ChainAtMove DEF Rename, Missing, Denied, SourcesArePresent
<1>5. ASSUME Shift
      PROVE  ChainHasNoGap' /\ ChainIsFull' /\ ChainIsLong'
  <2>1. i = 0 /\ 0 \in present
    BY <1>f, <1>5 DEF Shift, IInv, HoleIsAbsent, SourcesArePresent, Rotating
  <2>2. QED
    BY <1>c, <1>f, <1>5, <2>1, ChainAtMove DEF Shift, Missing, Denied
<1>6. ASSUME Append, 0 \in present
      PROVE  ChainHasNoGap' /\ ChainIsFull' /\ ChainIsLong'
  <2>1. Kept' = Kept \cup {last + 1} /\ last' = last + 1
    BY <1>t, <1>6, ChainArithmetic DEF Append, Kept, TypeOK
  <2>2. (1 .. last') # Kept' => (1 .. last) # Kept
    BY <1>t, <2>1 DEF TypeOK
  <2>3. /\ ~Rotating /\ ~Rotating'
        /\ present' = present \cup {0}
        /\ \A f \in Files \ {0} : size'[f] = size[f]
    BY <1>t, <1>6 DEF Append, Rotating, TypeOK
  <2>4. ChainHasNoGap'
    BY <1>c, <2>3 DEF ChainHasNoGap, Hole
  <2>5. ChainIsFull'
    BY <1>c, <1>t, <2>3 DEF ChainIsFull, TypeOK
  <2>6. ChainIsLong'
    BY <1>c, <2>2, <2>3 DEF ChainIsLong, Hole
  <2>7. QED
    BY <2>4, <2>5, <2>6
<1>7. ASSUME NEW n \in Outputs, Write(n)
      PROVE  ChainHasNoGap' /\ ChainIsFull' /\ ChainIsLong'
  BY <1>0, <1>7 DEF Write, Denied, Throw, Rotating
<1>8. ASSUME OpenFails \/ Restart \/ (Append /\ 0 \notin present)
      PROVE  ChainHasNoGap' /\ ChainIsFull' /\ ChainIsLong'
  BY <1>0, <1>8 DEF OpenFails, Restart, Append, Rotating, fileVars
<1>o. ASSUME Open
      PROVE  ChainHasNoGap' /\ ChainIsFull' /\ ChainIsLong'
  <2>1. /\ ~Rotating /\ ~Rotating'
        /\ present' = present \cup {0}
        /\ UNCHANGED <<entries, size, last>>
    BY <1>o DEF Open, Rotating
  <2>2. ChainHasNoGap'
    BY <1>c, <2>1 DEF ChainHasNoGap, Hole
  <2>3. ChainIsFull'
    BY <1>c, <2>1 DEF ChainIsFull
  <2>4. ChainIsLong'
    BY <1>c, <2>1 DEF ChainIsLong, Hole, Kept
  <2>5. QED
    BY <2>2, <2>3, <2>4
<1>9. CASE UNCHANGED vars
  BY <1>0, <1>1, <1>9 DEF vars, Rotating
<1>10. QED
  BY <1>f, <1>2, <1>3, <1>4, <1>5, <1>6, <1>7, <1>8, <1>o, <1>9
  DEF Next, Step, Crash, RemoveFile

(* While the daemon is neither killed nor refused access to its files nor  *)
(* deprived of them, an entry is lost only when MaxFiles full files hold   *)
(* newer ones (log_manager.cc:72-87).                                      *)
THEOREM RetentionStaysFull == Spec => []RetentionIsFull
<1>1. Init => Chain
  BY DEF Init, Chain, ChainHasNoGap, ChainIsFull, ChainIsLong, Rotating, Kept
<1>2. IInv /\ Chain => RetentionIsFull
  BY LogAssumption
  DEF Chain, ChainIsFull, ChainIsLong, Hole, Rotating, Undisturbed, RetentionIsFull
<1>3. QED
  BY <1>1, <1>2, Invariant, SourcesInitially, SourcesPreserved, ChainPreserved, PTL DEF Spec

-----------------------------------------------------------------------------
(* Moving the last file but one up forgets what the last one held, which   *)
(* is older than all the rest.                                             *)
LEMMA MoveForgetsOldest ==
  ASSUME TypeOK, LogIsOrdered, NEW f \in 0 .. MaxFiles - 1, f = MaxFiles - 1,
         Move(f), UNCHANGED last
  PROVE  History!ForgetOldest
<1>1. /\ \A g \in Files \ {MaxFiles} : entries[g] \subseteq Kept'
      /\ Kept' \subseteq UNION {entries[g] : g \in Files \ {MaxFiles}}
  BY MoveLosesLast
<1>2. Kept' \subseteq Kept
  BY <1>1 DEF Kept
<1>3. ASSUME NEW e \in Kept \ Kept', NEW d \in Kept'
      PROVE  e < d
  <2>1. e \in entries[MaxFiles] /\ MaxFiles \in Files
    BY <1>1, ChainArithmetic DEF Kept
  <2>2. PICK g \in Files \ {MaxFiles} : d \in entries[g]
    BY <1>1
  <2>3. g < MaxFiles
    BY LogAssumption DEF Files
  <2>4. QED
    BY <2>1, <2>2, <2>3 DEF LogIsOrdered
<1>4. QED
  BY <1>2, <1>3 DEF History!ForgetOldest

LEMMA HistoryStep ==
  ASSUME IInv, LogIsOrdered, [Next]_vars
  PROVE  [History!Next \/ \E f \in Files : RemoveFile(f)]_(History!vars)
<1>t. TypeOK
  BY DEF IInv
<1>0. CASE UNCHANGED <<entries, last>>
  BY <1>0 DEF History!vars, Kept
<1>1. ASSUME at \in {"rename", "shift"}, Move(i), UNCHANGED last
      PROVE  History!ForgetOldest \/ UNCHANGED History!vars
  <2>1. CASE entries[i + 1] = {}
    BY <1>t, <1>1, <2>1, MoveTarget, MoveKeepsEntries DEF History!vars
  <2>2. CASE i = MaxFiles - 1
    BY <1>t, <1>1, <2>2, MoveTarget, MoveForgetsOldest
  <2>3. QED
    BY <1>1, <2>1, <2>2, MoveTarget
<1>2. CASE Rename
  BY <1>0, <1>1, <1>2 DEF Rename, Missing, Denied, Throw, fileVars, History!Next
<1>3. CASE Shift
  <2>1. i = 0
    BY <1>3 DEF IInv, HoleIsAbsent, Shift
  <2>2. QED
    BY <1>0, <1>1, <1>3, <2>1 DEF Shift, Missing, Denied, Throw, fileVars, History!Next
<1>4. CASE Append /\ 0 \in present
  <2>1. Kept' = Kept \cup {last + 1} /\ last' = last + 1
    BY <1>t, <1>4, ChainArithmetic DEF Append, Kept, TypeOK
  <2>2. QED
    BY <2>1 DEF History!Next, History!Write
<1>5. QED
  BY <1>0, <1>2, <1>3, <1>4
  DEF Next, Step, vars, fileVars, Write, FileSize, Exists, Missing, Denied, Throw,
      Continue, Open, OpenFails, Append, Crash, Restart

(* The files, renamed one by one by a daemon that may be killed on the way *)
(* and deprived of any of them, are one log to which output is added and   *)
(* of which the oldest is forgotten (log_manager.cc:26-88).                *)
THEOREM HistoryIsImplemented == Spec => ImplementsHistory
<1>1. Init => History!Init
  BY DEF Init, History!Init, Kept
<1>2. IInv /\ LogIsOrdered /\ [Next]_vars
        => [History!Next \/ \E f \in Files : RemoveFile(f)]_(History!vars)
  BY HistoryStep
<1>3. Spec => Init /\ [][Next]_vars
  BY DEF Spec
<1>4. QED
  BY <1>1, <1>2, <1>3, Invariant, OrderIsKept, PTL DEF ImplementsHistory

=============================================================================
