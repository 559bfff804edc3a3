------------------------ MODULE CalmRegistryProofs ------------------------
(***************************************************************************)
(* Theorems about ServiceRegistry as long as nobody runs two commands on   *)
(* one service at once, daemons boot and die within the polls, no write to *)
(* the registry fails and no command is killed midway: for any number of   *)
(* services, processes and commands, daemons that crash or fail to boot,   *)
(* numbers that other processes get, PID files that mix two numbers, and   *)
(* definitions that cannot be written.                                     *)
(*                                                                         *)
(* Every service is then either clean or tracked, but for those whose      *)
(* command is midway, of which the place of the command says what holds.   *)
(***************************************************************************)
EXTENDS ServiceRegistryProofs, FiniteSetTheorems

(* Each of these faults alone is enough to break every theorem here.       *)
Calm == Faults \cap {"slowboot", "slowstop", "busy", "clicrash"} = {}

HasNone(n) == LiveDaemons(n) = {}

(* Nothing is there of a service that is not registered. *)
Clean(n) ==
  /\ HasNone(n)
  /\ n \notin services /\ n \notin stateRows /\ n \notin units /\ n \notin logs
  /\ pidfile[n] = NoFile

(* A registered service's daemon, if it has one, is up, and its row and    *)
(* its PID file name it.                                                   *)
Tracked(n) ==
  /\ n \in services /\ n \in stateRows
  /\ \A p \in LiveDaemons(n) :
       phase[p] = "up" /\ status[n] = "running" /\ pid[n] = p /\ pidfile[n] = p

AtRest(n) == Clean(n) \/ Tracked(n)

(* Its daemon has been launched; it empties its PID file and once it is up *)
(* the file names it.                                                      *)
Launched(n) ==
  /\ n \in services /\ n \in stateRows
  /\ \A p, q \in LiveDaemons(n) : p = q
  /\ \A p \in LiveDaemons(n) :
       /\ phase[p] # "detached"
       /\ phase[p] = "opened" => pidfile[n] = NoPid
       /\ phase[p] = "up" => pidfile[n] = p

(* Its daemon is up and the command has read its pid. *)
Read(n, s) ==
  /\ n \in services /\ n \in stateRows
  /\ \A p \in LiveDaemons(n) : phase[p] = "up" /\ pidfile[n] = p /\ p = s

(* Its row is gone, and with it whatever could start it. *)
Deleted(n) ==
  HasNone(n) /\ n \notin services /\ n \notin stateRows /\ n \notin units

(* The places where a service is neither clean nor tracked. *)
Midway ==
  {"insert_state", "read_pid_file", "record_start", "remove_pid_file", "remove_logs"}

(* The places where a command knows its service to be registered ...       *)
Knowing ==
  {"platform_install", "probe", "correct", "report_running",
   "launch", "stop_get_state", "stop_read_pid", "stop_probe", "stop_mark",
   "kill", "wait_exit", "stop_record", "stop_unlink", "uninstall",
   "delete_service"}

(* ... and where it knows that there is no daemon. *)
Alone ==
  {"insert_state", "platform_install", "correct", "launch", "stop_read_pid",
   "stop_mark", "stop_record", "stop_unlink", "uninstall", "delete_service"}

(* What holds of service n while its command is at l and has read pid s. *)
At(l, n, s) ==
  /\ l \in Knowing => Tracked(n)
  /\ l \in Alone => HasNone(n)
  /\ l \in Holding => \A p \in LiveDaemons(n) : p = s
  /\ l = "insert_service" => Clean(n)
  /\ l = "insert_state" => n \in services
  /\ l = "launch" => status[n] = "stopped"
  /\ l = "read_pid_file" => Launched(n)
  /\ l = "record_start" => Read(n, s)
  /\ l = "delete_service" => n \notin units
  /\ l \in {"remove_pid_file", "remove_logs"} => Deleted(n)
  /\ l = "remove_logs" => pidfile[n] = NoFile

(* The labels that only list, or only list and status, come to. *)
Fits(l, o) ==
  /\ l \in {"list_services", "list_next"} => o = "list"
  /\ l = "report_running" => o \in {"status", "list"}

(* All but list look a service up before they ask for its status, and      *)
(* remove does before it stops it.                                         *)
Found(c) ==
  /\ Fits(pc[c], op[c])
  /\ \/ pc[c] = "get_state" /\ op[c] # "list"
     \/ pc[c] = "stop_get_service" /\ op[c] = "remove"
     => svc[c] \in services

CalmInv ==
  /\ TypeOK /\ Apart
  /\ \A n \in Names : AtRest(n) \/ \E c \in Clients : svc[c] = n /\ pc[c] \in Midway
  /\ \A c \in Clients : At(pc[c], svc[c], seen[c]) /\ Found(c)

-----------------------------------------------------------------------------
(* Nothing about n changes, but that daemons of it may have gone. *)
Shrinks(n) ==
  /\ n \in services' <=> n \in services
  /\ n \in stateRows' <=> n \in stateRows
  /\ n \in units' <=> n \in units
  /\ n \in logs' <=> n \in logs
  /\ status'[n] = status[n] /\ pid'[n] = pid[n] /\ pidfile'[n] = pidfile[n]
  /\ \A p \in Pids : phase'[p] # "dead" /\ owner'[p] = n =>
       phase[p] # "dead" /\ owner[p] = n /\ phase'[p] = phase[p]

(* No daemon of n that goes takes any of these facts with it. *)
LEMMA ShrinkingKeeps ==
  ASSUME NEW n \in Names, Shrinks(n)
  PROVE  /\ AtRest(n) => AtRest(n)'
         /\ \A l, s : At(l, n, s) => At(l, n, s)'
<1>1. LiveDaemons(n)' \subseteq LiveDaemons(n)
      /\ \A p \in LiveDaemons(n)' : phase'[p] = phase[p]
  BY DEF Shrinks, LiveDaemons
<1>2. /\ HasNone(n) => HasNone(n)'
      /\ Clean(n) => Clean(n)'
      /\ Tracked(n) => Tracked(n)'
      /\ Launched(n) => Launched(n)'
      /\ Deleted(n) => Deleted(n)'
      /\ \A s : Read(n, s) => Read(n, s)'
  BY <1>1 DEF Shrinks, HasNone, Clean, Tracked, Launched, Deleted, Read
<1>3. QED
  BY <1>1, <1>2 DEF AtRest, At, Shrinks

(* A command's step is about the service it works on. *)
LEMMA OthersStay ==
  ASSUME TypeOK, NEW c \in Clients, ClientStep(c), NEW n \in Names, n # svc[c]
  PROVE  Shrinks(n)
<1>0. ProcTypeOK /\ DbTypeOK
  BY DEF TypeOK
<1>1. /\ n \in services' <=> n \in services
      /\ n \in stateRows' <=> n \in stateRows
      /\ status'[n] = status[n] /\ pid'[n] = pid[n]
  BY <1>0, ClientStepDb
     DEF dbVars, InsertServiceRow, InsertStateRow, DeleteServiceRow,
         UpdateState, DbTypeOK
<1>2. n \in units' <=> n \in units
  BY UnitsType
<1>3. /\ n \in logs' <=> n \in logs
      /\ pidfile'[n] = pidfile[n]
      /\ \A p \in Pids : phase'[p] # "dead" /\ owner'[p] = n =>
            phase[p] # "dead" /\ owner[p] = n /\ phase'[p] = phase[p]
  <2>1. CASE \/ UNCHANGED <<procVars, fileVars>>
             \/ seen[c] \in Pids /\ SendTerm(seen[c])
             \/ logs' = logs \ {svc[c]} /\ UNCHANGED <<procVars, pidfile>>
    BY <2>1 DEF procVars, fileVars, SendTerm
  <2>2. CASE Unlink(svc[c])
    BY <1>0, <2>2 DEF Unlink, ProcTypeOK
  <2>3. CASE \E p \in Pids : Free(p) /\ Spawn(svc[c], p)
    BY <1>0, <2>3 DEF Spawn, ProcTypeOK
  <2>4. QED
    BY <2>1, <2>2, <2>3, ClientStepProc
<1>4. QED
  BY <1>1, <1>2, <1>3 DEF Shrinks

(* A command whose service keeps what it has keeps what it relies on. *)
LEMMA OtherCommandsStay ==
  ASSUME CalmInv, NEW d \in Clients,
         pc'[d] = pc[d], op'[d] = op[d], svc'[d] = svc[d], seen'[d] = seen[d],
         \A n \in Names : n = svc[d] => Shrinks(n)
  PROVE  At(pc[d], svc[d], seen[d])' /\ Found(d)'
<1>0. ClientTypeOK /\ At(pc[d], svc[d], seen[d]) /\ Found(d)
  BY DEF CalmInv, TypeOK
<1>1. CASE svc[d] \notin Names
  <2>1. pc[d] \notin Named
    BY <1>0, <1>1 DEF ClientTypeOK
  <2>2. At(pc[d], svc[d], seen[d])'
    BY <2>1 DEF At, Named, Labels, Knowing, Alone, Holding
  <2>3. QED
    BY <1>0, <2>1, <2>2 DEF Found, Fits, Named, Labels
<1>2. CASE svc[d] \in Names
  <2>0. PICK n \in Names : n = svc[d]
    BY <1>2
  <2>1. PICK l, s : l = pc[d] /\ s = seen[d]
    OBVIOUS
  <2>2. Shrinks(n)
    BY <2>0
  <2>3. At(l, n, s)'
    BY <1>0, <2>0, <2>1, <2>2, ShrinkingKeeps
  <2>4. n = svc'[d] /\ l = pc'[d] /\ s = seen'[d]
    BY <2>0, <2>1
  <2>5. At(pc[d], svc[d], seen[d])'
    BY <2>3, <2>4
       DEF At, Tracked, HasNone, LiveDaemons, Clean, Launched, Read, Deleted
  <2>6. Found(d)'
    BY <1>0, <2>0, <2>2, <2>4 DEF Found, Shrinks
  <2>7. QED
    BY <2>5, <2>6
<1>3. QED
  BY <1>1, <1>2

(* The other services, and the commands that work on them, are as before. *)
LEMMA TheRestStays ==
  ASSUME CalmInv, NEW c \in Clients, ClientStep(c),
         \A d \in Clients \ {c} : /\ pc'[d] = pc[d] /\ op'[d] = op[d]
                                  /\ svc'[d] = svc[d] /\ seen'[d] = seen[d]
  PROVE  /\ \A n \in Names : n # svc[c] =>
              AtRest(n)' \/ \E d \in Clients : svc'[d] = n /\ pc'[d] \in Midway
         /\ \A d \in Clients \ {c} : At(pc[d], svc[d], seen[d])' /\ Found(d)'
<1>0. TypeOK /\ Apart
  BY DEF CalmInv
<1>1. ASSUME NEW n \in Names, n # svc[c]
      PROVE  AtRest(n)' \/ \E d \in Clients : svc'[d] = n /\ pc'[d] \in Midway
  <2>1. AtRest(n) => AtRest(n)'
    BY <1>0, <1>1, OthersStay, ShrinkingKeeps
  <2>2. QED
    BY <1>1, <2>1 DEF CalmInv
<1>2. ASSUME NEW d \in Clients \ {c}
      PROVE  At(pc[d], svc[d], seen[d])' /\ Found(d)'
  <2>1. \A n \in Names : n = svc[d] => Shrinks(n)
    BY <1>0, <1>2, OthersStay DEF Apart
  <2>2. QED
    BY <1>2, <2>1, OtherCommandsStay
<1>3. QED
  BY <1>1, <1>2

(* The command has moved on, and what it needs of its service holds. *)
LEMMA AfterGo ==
  ASSUME CalmInv, NEW c \in Clients, ClientStep(c),
         NEW n \in Names, n = svc[c],
         NEW l \in Labels \ {"idle"}, NEW s, Go(c, l, s),
         At(l, n, s)', AtRest(n)' \/ l \in Midway,
         Fits(l, op[c]), l \in {"get_state", "stop_get_service"} => n \in services'
  PROVE  CalmInv'
<1>0. TypeOK /\ ClientTypeOK /\ TypeOK' /\ Apart
  BY TypePreserved DEF CalmInv, TypeOK, Next
<1>1. /\ pc'[c] = l /\ seen'[c] = s /\ UNCHANGED <<op, svc>>
      /\ \A d \in Clients \ {c} : pc'[d] = pc[d] /\ seen'[d] = seen[d]
  BY <1>0 DEF Go, ClientTypeOK
<1>2. Apart'
  BY <1>0, <1>1 DEF Apart
<1>3. \A m \in Names :
        AtRest(m)' \/ \E d \in Clients : svc'[d] = m /\ pc'[d] \in Midway
  BY <1>1, TheRestStays
<1>4. At(pc[c], svc[c], seen[c])'
  BY <1>1 DEF At, Tracked, HasNone, LiveDaemons, Clean, Launched, Read, Deleted
<1>5. Found(c)'
  BY <1>1 DEF Found, Fits
<1>6. \A d \in Clients : At(pc[d], svc[d], seen[d])' /\ Found(d)'
  BY <1>1, <1>4, <1>5, TheRestStays
<1>7. QED
  BY <1>0, <1>2, <1>3, <1>6 DEF CalmInv

(* The command has ended and left its service clean or tracked. *)
LEMMA AfterDone ==
  ASSUME CalmInv, NEW c \in Clients, ClientStep(c), Done(c),
         \A n \in Names : n = svc[c] => AtRest(n)'
  PROVE  CalmInv'
<1>0. TypeOK /\ ClientTypeOK /\ TypeOK' /\ Apart
  BY TypePreserved DEF CalmInv, TypeOK, Next
<1>1. /\ pc'[c] = "idle" /\ svc'[c] = NoName
      /\ \A d \in Clients \ {c} : /\ pc'[d] = pc[d] /\ op'[d] = op[d]
                                  /\ svc'[d] = svc[d] /\ seen'[d] = seen[d]
  BY <1>0 DEF Done, ClientTypeOK
<1>2. Apart'
  BY <1>0, <1>1, ProcessAssumption DEF Apart
<1>3. \A m \in Names :
        AtRest(m)' \/ \E d \in Clients : svc'[d] = m /\ pc'[d] \in Midway
  BY <1>1, TheRestStays
<1>4. At(pc[c], svc[c], seen[c])'
  BY <1>1 DEF At, Knowing, Alone, Holding
<1>5. Found(c)'
  BY <1>1 DEF Found, Fits
<1>6. \A d \in Clients : At(pc[d], svc[d], seen[d])' /\ Found(d)'
  BY <1>1, <1>4, <1>5, TheRestStays
<1>7. QED
  BY <1>0, <1>2, <1>3, <1>6 DEF CalmInv

(* What a command that works on a service may rely on. *)
LEMMA CommandFacts ==
  ASSUME CalmInv, NEW c \in Clients, pc[c] \in Named
  PROVE  /\ svc[c] \in Names /\ DbTypeOK /\ ProcTypeOK /\ ClientTypeOK
         /\ At(pc[c], svc[c], seen[c]) /\ Found(c)
         /\ pc[c] \notin Midway => AtRest(svc[c])
<1>1. svc[c] \in Names
  BY DEF CalmInv, TypeOK, ClientTypeOK
<1>2. ASSUME NEW d \in Clients, svc[d] = svc[c] PROVE d = c
  BY <1>1, <1>2 DEF CalmInv, Apart
<1>3. QED
  BY <1>1, <1>2 DEF CalmInv, TypeOK

(* Steps that change nothing but the command itself. *)
Quiet == UNCHANGED <<dbVars, procVars, fileVars, units>>

LEMMA QuietShrinks ==
  ASSUME Quiet, NEW n \in Names
  PROVE  Shrinks(n) /\ services' = services
  BY DEF Quiet, Shrinks, dbVars, procVars, fileVars

LEMMA QuietGo ==
  ASSUME CalmInv, NEW c \in Clients, ClientStep(c), Quiet,
         NEW n \in Names, n = svc[c],
         NEW l \in Labels \ {"idle"}, NEW s, Go(c, l, s),
         At(l, n, s), AtRest(n), Fits(l, op[c]),
         l \in {"get_state", "stop_get_service"} => n \in services
  PROVE  CalmInv'
  BY QuietShrinks, ShrinkingKeeps, AfterGo

LEMMA QuietDone ==
  ASSUME CalmInv, NEW c \in Clients, ClientStep(c), Quiet, Done(c),
         \A n \in Names : n = svc[c] => AtRest(n)
  PROVE  CalmInv'
  BY QuietShrinks, ShrinkingKeeps, AfterDone

(* get_actual_status returns to its caller. *)
LEMMA AfterVerdict ==
  ASSUME CalmInv, NEW c \in Clients, ClientStep(c),
         NEW n \in Names, n = svc[c], NEW r \in BOOLEAN, Verdict(c, r),
         Tracked(n)', ~r => HasNone(n)' /\ status'[n] = "stopped"
  PROVE  CalmInv'
<1>1. AtRest(n)' /\ n \in services'
  BY DEF AtRest, Tracked
<1>2. CASE Done(c)
  BY <1>1, <1>2, AfterDone
<1>3. CASE ~r /\ op[c] = "start" /\ Go(c, "launch", NoPid)
  <2>1. At("launch", n, NoPid)'
    BY <1>3 DEF At, Knowing, Alone, Holding
  <2>2. QED
    BY <1>1, <1>3, <2>1, AfterGo DEF Labels, Fits
<1>4. CASE ~r /\ op[c] = "remove" /\ Go(c, "uninstall", NoPid)
  <2>1. At("uninstall", n, NoPid)'
    BY <1>4 DEF At, Knowing, Alone, Holding
  <2>2. QED
    BY <1>1, <1>4, <2>1, AfterGo DEF Labels, Fits
<1>5. CASE op[c] = "remove" /\ Go(c, "stop_get_service", NoPid)
  <2>1. At("stop_get_service", n, NoPid)'
    BY DEF At, Knowing, Alone, Holding
  <2>2. QED
    BY <1>1, <1>5, <2>1, AfterGo DEF Labels, Fits
<1>6. CASE op[c] \in {"status", "list"} /\ Go(c, "report_running", NoPid)
  <2>1. At("report_running", n, NoPid)'
    BY DEF At, Knowing, Alone, Holding
  <2>2. QED
    BY <1>1, <1>6, <2>1, AfterGo DEF Labels, Fits
<1>7. CASE op[c] = "list" /\ Go(c, "list_next", NoPid)
  <2>1. At("list_next", n, NoPid)'
    BY DEF At, Knowing, Alone, Holding
  <2>2. QED
    BY <1>1, <1>7, <2>1, AfterGo DEF Labels, Fits
<1>8. QED
  BY <1>2, <1>3, <1>4, <1>5, <1>6, <1>7 DEF Verdict

(* cmd_stop returns, to cmd_remove or to the shell. *)
LEMMA AfterReturn ==
  ASSUME CalmInv, NEW c \in Clients, ClientStep(c),
         NEW n \in Names, n = svc[c], ReturnFromStop(c),
         Tracked(n)', HasNone(n)'
  PROVE  CalmInv'
<1>1. AtRest(n)'
  BY DEF AtRest
<1>2. CASE op[c] = "remove"
  <2>1. At("uninstall", n, NoPid)'
    BY DEF At, Knowing, Alone, Holding
  <2>2. QED
    BY <1>1, <1>2, <2>1, AfterGo DEF Labels, Fits, ReturnFromStop
<1>3. CASE op[c] # "remove"
  BY <1>1, <1>3, AfterDone DEF ReturnFromStop
<1>4. QED
  BY <1>2, <1>3

-----------------------------------------------------------------------------
(* get_service and get_actual_status. *)
LEMMA QuestionsKeep ==
  ASSUME Calm, CalmInv, NEW c \in Clients, ClientStep(c),
         \/ GetService(c) \/ GetState(c) \/ Probe(c) \/ Correct(c)
         \/ ReportRunning(c)
  PROVE  CalmInv'
<1>1. pc[c] \in Named \ Midway
  BY DEF GetService, GetState, Probe, Correct, ReportRunning, Named, Labels,
         Midway
<1> PICK n \in Names : n = svc[c]
  BY <1>1, CommandFacts
<1>2. /\ n = svc[c] /\ DbTypeOK /\ At(pc[c], n, seen[c]) /\ Found(c)
      /\ AtRest(n)
      /\ pc[c] \in Knowing => Tracked(n)
      /\ pc[c] \in Alone => HasNone(n)
      /\ pc[c] \in Holding => \A p \in LiveDaemons(n) : p = seen[c]
  BY <1>1, CommandFacts DEF At
<1>3. CASE GetService(c)
  <2>1. Quiet
    BY <1>3 DEF GetService, Quiet
  <2>2. CASE n \notin services /\ Go(c, "insert_service", NoPid)
    <3>1. At("insert_service", n, NoPid)
      BY <1>2, <2>2 DEF At, Knowing, Alone, Holding, AtRest, Tracked
    <3>2. QED
      BY <1>2, <2>1, <2>2, <3>1, QuietGo DEF Labels, Fits
  <2>3. CASE n \in services /\ Go(c, "get_state", NoPid)
    <3>1. At("get_state", n, NoPid)
      BY <1>2, <2>3 DEF At, Knowing, Alone, Holding, AtRest, Clean
    <3>2. QED
      BY <1>2, <2>1, <2>3, <3>1, QuietGo DEF Labels, Fits
  <2>4. CASE Done(c)
    BY <1>2, <2>1, <2>4, QuietDone
  <2>5. QED
    BY <1>3, <2>2, <2>3, <2>4 DEF GetService
<1>4. CASE GetState(c)
  <2>0. Quiet
    BY <1>4 DEF GetState, Quiet
  <2>u. CASE ~Tracked(n)
    <3>1. n \notin stateRows /\ n \notin services
      BY <1>2, <2>u DEF AtRest, Clean
    <3>2. op[c] = "list" /\ Verdict(c, FALSE)
      BY <1>2, <1>4, <3>1 DEF GetState, Found
    <3>3. Go(c, "list_next", NoPid)
      BY <3>2 DEF Verdict
    <3>4. At("list_next", n, NoPid)
      BY DEF At, Knowing, Alone, Holding
    <3>5. QED
      BY <1>2, <2>0, <3>2, <3>3, <3>4, QuietGo DEF Labels, Fits
  <2> SUFFICES ASSUME Tracked(n) PROVE CalmInv'
    BY <2>u
  <2>1. Quiet /\ Tracked(n)
    BY <2>0
  <2>2. CASE Go(c, "probe", pid[n])
    <3>1. At("probe", n, pid[n])
      BY <2>1 DEF At, Knowing, Alone, Holding, Tracked
    <3>2. QED
      BY <1>2, <2>1, <2>2, <3>1, QuietGo DEF Labels, Fits
  <2>3. CASE \E r \in BOOLEAN : Verdict(c, r) /\ (~r => status[n] # "running")
    <3>1. PICK r \in BOOLEAN : Verdict(c, r) /\ (~r => status[n] # "running")
      BY <2>3
    <3>2. ~r => HasNone(n) /\ status[n] = "stopped"
      BY <1>2, <2>1, <3>1 DEF Tracked, HasNone, DbTypeOK, Statuses
    <3>3. Tracked(n)' /\ (~r => HasNone(n)' /\ status'[n] = "stopped")
          /\ services' = services
      BY <2>1, <3>2
         DEF Quiet, dbVars, procVars, fileVars, Tracked, HasNone, LiveDaemons
    <3>4. QED
      BY <1>2, <3>1, <3>3, AfterVerdict
  <2>4. QED
    BY <1>4, <2>1, <2>2, <2>3 DEF GetState, Tracked
<1>5. CASE Probe(c)
  <2>1. Quiet /\ Tracked(n) /\ \A p \in LiveDaemons(n) : p = seen[c]
    BY <1>2, <1>5 DEF Probe, Quiet, Knowing, Holding
  <2>2. CASE Verdict(c, TRUE)
    <3>1. Tracked(n)' /\ services' = services
      BY <2>1
         DEF Quiet, dbVars, procVars, fileVars, Tracked, LiveDaemons
    <3>2. QED
      BY <1>2, <2>2, <3>1, AfterVerdict
  <2>3. CASE ~IsProcessRunning(seen[c]) /\ Go(c, "correct", seen[c])
    <3>1. HasNone(n)
      BY <2>1, <2>3 DEF IsProcessRunning, HasNone, LiveDaemons
    <3>2. At("correct", n, seen[c])
      BY <2>1, <3>1 DEF At, Knowing, Alone, Holding
    <3>3. QED
      BY <1>2, <2>1, <2>3, <3>2, QuietGo DEF Labels, Fits
  <2>4. QED
    BY <1>5, <2>2, <2>3 DEF Probe
<1>6. CASE Correct(c)
  <2>1. UpdateState(n, "stopped", NoPid) /\ Verdict(c, FALSE)
        /\ UNCHANGED <<procVars, fileVars, units>>
    BY <1>6 DEF Correct, TryUpdateState, Calm
  <2>2. Tracked(n) /\ HasNone(n)
    BY <1>2, <1>6 DEF Correct, Knowing, Alone
  <2>3. Tracked(n)' /\ HasNone(n)' /\ status'[n] = "stopped"
        /\ services' = services
    BY <1>2, <2>1, <2>2
       DEF UpdateState, dbVars, procVars, fileVars, Tracked, HasNone,
           LiveDaemons, DbTypeOK
  <2>4. QED
    BY <1>2, <2>1, <2>3, AfterVerdict
<1>7. CASE ReportRunning(c)
  <2>1. Quiet /\ Fits("report_running", op[c])
    BY <1>2, <1>7 DEF ReportRunning, Quiet, Found
  <2>2. CASE Done(c)
    BY <1>2, <2>1, <2>2, QuietDone
  <2>3. CASE op[c] # "status" /\ Go(c, "list_next", NoPid)
    <3>1. At("list_next", n, NoPid)
      BY DEF At, Knowing, Alone, Holding
    <3>2. QED
      BY <1>2, <2>1, <2>3, <3>1, QuietGo DEF Labels, Fits
  <2>4. QED
    BY <1>7, <2>2, <2>3 DEF ReportRunning
<1>8. QED
  BY <1>3, <1>4, <1>5, <1>6, <1>7

(* list and status without a name. *)
LEMMA ListingKeeps ==
  ASSUME CalmInv, Apart', NEW c \in Clients, ListServices(c) \/ ListNext(c)
  PROVE  CalmInv'
<1>0. ClientStep(c) /\ Quiet /\ TypeOK /\ ClientTypeOK /\ TypeOK'
      /\ pc[c] \notin Midway /\ op[c] = "list"
  BY TypePreserved
     DEF ClientStep, RegistryStep, ListServices, ListNext, Quiet, Next,
         CalmInv, TypeOK, Midway, Found, Fits
<1>1. ASSUME NEW n \in Names
      PROVE  AtRest(n) => AtRest(n)'
  BY <1>0, QuietShrinks, ShrinkingKeeps
<1>2. CASE Done(c)
  <2>1. \A n \in Names : n = svc[c] => AtRest(n)
    <3> SUFFICES ASSUME NEW n \in Names, n = svc[c], ~AtRest(n) PROVE FALSE
      OBVIOUS
    <3>1. PICK d \in Clients : svc[d] = n /\ pc[d] \in Midway
      BY DEF CalmInv
    <3>2. QED
      BY <1>0, <3>1 DEF CalmInv, Apart
  <2>2. QED
    BY <1>0, <1>1, <1>2, <2>1, AfterDone
<1>3. CASE ~Done(c)
  <2>1. /\ pc'[c] \in {"list_next", "get_state"}
        /\ op'[c] = "list"
        /\ \A d \in Clients \ {c} : /\ pc'[d] = pc[d] /\ op'[d] = op[d]
                                    /\ svc'[d] = svc[d] /\ seen'[d] = seen[d]
    BY <1>0, <1>3 DEF ListServices, ListNext, ClientTypeOK
  <2>2. \A n \in Names :
          AtRest(n)' \/ \E d \in Clients : svc'[d] = n /\ pc'[d] \in Midway
    BY <1>0, <1>1, <2>1 DEF CalmInv
  <2>3. At(pc[c], svc[c], seen[c])' /\ Found(c)'
    BY <2>1 DEF At, Found, Fits, Knowing, Alone, Holding
  <2>4. \A d \in Clients \ {c} : At(pc[d], svc[d], seen[d])' /\ Found(d)'
    BY <1>0, <2>1, QuietShrinks, OtherCommandsStay
  <2>5. QED
    BY <1>0, <2>2, <2>3, <2>4 DEF CalmInv
<1>4. QED
  BY <1>2, <1>3

(* install *)
LEMMA InstallKeeps ==
  ASSUME Calm, CalmInv, NEW c \in Clients, ClientStep(c),
         InsertService(c) \/ InsertState(c) \/ PlatformInstall(c)
  PROVE  CalmInv'
<1>1. pc[c] \in Named
  BY DEF InsertService, InsertState, PlatformInstall, Named, Labels
<1> PICK n \in Names : n = svc[c]
  BY <1>1, CommandFacts
<1>2. n = svc[c] /\ DbTypeOK /\ At(pc[c], n, seen[c])
  BY <1>1, CommandFacts
<1>3. CASE InsertService(c)
  <2>1. Clean(n)
    BY <1>2, <1>3 DEF At, InsertService
  <2>2. /\ InsertServiceRow(n) /\ Go(c, "insert_state", NoPid)
        /\ UNCHANGED <<procVars, fileVars, units>>
    BY <1>2, <1>3, <2>1 DEF InsertService, Calm, Clean
  <2>3. HasNone(n)' /\ n \in services'
    BY <2>1, <2>2
       DEF Clean, HasNone, LiveDaemons, InsertServiceRow, procVars
  <2>4. At("insert_state", n, NoPid)'
    BY <2>3 DEF At, Knowing, Alone, Holding
  <2>5. QED
    BY <1>2, <2>2, <2>3, <2>4, AfterGo DEF Labels, Fits, Midway
<1>4. CASE InsertState(c)
  <2>1. HasNone(n) /\ n \in services
    BY <1>2, <1>4 DEF At, InsertState, Alone
  <2>2. /\ InsertStateRow(n) /\ Go(c, "platform_install", NoPid)
        /\ UNCHANGED <<procVars, fileVars, units>>
    BY <1>2, <1>4 DEF InsertState, Calm
  <2>3. Tracked(n)' /\ HasNone(n)' /\ services' = services
    BY <2>1, <2>2
       DEF Tracked, HasNone, LiveDaemons, InsertStateRow, dbVars, procVars
  <2>4. At("platform_install", n, NoPid)' /\ AtRest(n)'
    BY <2>3 DEF At, Knowing, Alone, Holding, AtRest
  <2>5. QED
    BY <1>2, <2>2, <2>3, <2>4, AfterGo DEF Labels, Fits
<1>5. CASE PlatformInstall(c)
  <2>1. Tracked(n) /\ UNCHANGED <<dbVars, procVars, fileVars>> /\ Done(c)
    BY <1>2, <1>5 DEF At, PlatformInstall, Knowing
  <2>2. AtRest(n)'
    BY <2>1
       DEF AtRest, Tracked, LiveDaemons, dbVars, procVars, fileVars
  <2>3. QED
    BY <1>2, <2>1, <2>2, AfterDone
<1>6. QED
  BY <1>3, <1>4, <1>5

(* start *)
LEMMA StartKeeps ==
  ASSUME Calm, CalmInv, NEW c \in Clients, ClientStep(c),
         \/ (\E p \in Pids : Launch(c, p)) \/ LaunchFails(c)
         \/ ReadPidFile(c) \/ RecordStart(c)
  PROVE  CalmInv'
<1>1. pc[c] \in Named
  BY DEF Launch, LaunchFails, ReadPidFile, RecordStart, Named, Labels
<1> PICK n \in Names : n = svc[c]
  BY <1>1, CommandFacts
<1>2. n = svc[c] /\ DbTypeOK /\ ProcTypeOK /\ At(pc[c], n, seen[c])
  BY <1>1, CommandFacts
<1>3. ASSUME NEW p \in Pids, Launch(c, p)
      PROVE  CalmInv'
  <2>1. Tracked(n) /\ HasNone(n)
    BY <1>2, <1>3 DEF At, Launch, Knowing, Alone
  <2>2. Spawn(n, p) /\ Go(c, "read_pid_file", NoPid) /\ UNCHANGED <<dbVars, units>>
    BY <1>2, <1>3 DEF Launch
  <2>3. LiveDaemons(n)' = {p} /\ phase'[p] = "booting"
    BY <1>2, <2>1, <2>2 DEF HasNone, LiveDaemons, Spawn, ProcTypeOK
  <2>4. Launched(n)' /\ services' = services
    BY <2>1, <2>2, <2>3 DEF Launched, Tracked, dbVars
  <2>5. At("read_pid_file", n, NoPid)'
    BY <2>4 DEF At, Knowing, Alone, Holding
  <2>6. QED
    BY <1>2, <2>2, <2>4, <2>5, AfterGo DEF Labels, Fits, Midway
<1>4. CASE LaunchFails(c)
  <2>1. Tracked(n) /\ Quiet /\ Done(c)
    BY <1>2, <1>4 DEF At, LaunchFails, Knowing, Quiet
  <2>2. QED
    BY <1>2, <2>1, QuietDone DEF AtRest
<1>5. CASE ReadPidFile(c)
  <2>1. /\ Launched(n) /\ Quiet /\ ~BootPending(n)
        /\ Go(c, "record_start", IF pidfile[n] \in Pids THEN pidfile[n] ELSE NoPid)
    BY <1>2, <1>5 DEF At, ReadPidFile, Quiet, Calm
  <2> DEFINE s == IF pidfile[n] \in Pids THEN pidfile[n] ELSE NoPid
  <2>2. PICK x : x = s
    OBVIOUS
  <2>3. \A p \in LiveDaemons(n) : phase[p] = "up" /\ pidfile[n] = p /\ p = x
    BY <1>2, <2>1, <2>2
       DEF LiveDaemons, BootPending, Booting, Launched, ProcTypeOK, Phases
  <2>4. Read(n, x)
    BY <2>1, <2>3 DEF Read, Launched
  <2>5. At("record_start", n, x)
    BY <2>4 DEF At, Knowing, Alone, Holding
  <2>6. At("record_start", n, x)' /\ services' = services
    BY <2>1, <2>5, QuietShrinks, ShrinkingKeeps
  <2>7. Go(c, "record_start", x)
    BY <2>1, <2>2
  <2>8. QED
    BY <1>2, <2>6, <2>7, AfterGo DEF Labels, Fits, Midway
<1>6. CASE RecordStart(c)
  <2>1. Read(n, seen[c])
    BY <1>2, <1>6 DEF At, RecordStart
  <2>2. /\ UpdateState(n, "running", seen[c]) /\ Done(c)
        /\ UNCHANGED <<procVars, fileVars, units>>
    BY <1>2, <1>6 DEF RecordStart, TryUpdateState, Calm
  <2>3. Tracked(n)'
    BY <1>2, <2>1, <2>2
       DEF Read, Tracked, LiveDaemons, UpdateState, DbTypeOK, procVars, fileVars
  <2>4. QED
    BY <1>2, <2>2, <2>3, AfterDone DEF AtRest
<1>7. QED
  BY <1>3, <1>4, <1>5, <1>6

(* stop, up to the signal *)
LEMMA StopFindsKeep ==
  ASSUME Calm, CalmInv, NEW c \in Clients, ClientStep(c),
         \/ StopGetService(c) \/ StopGetState(c) \/ StopReadPid(c)
         \/ StopProbe(c) \/ WaitExit(c)
  PROVE  CalmInv'
<1>1. pc[c] \in Named \ Midway /\ Quiet
  BY DEF StopGetService, StopGetState, StopReadPid, StopProbe, WaitExit,
         Named, Labels, Midway, Quiet
<1> PICK n \in Names : n = svc[c]
  BY <1>1, CommandFacts
<1>2. /\ n = svc[c] /\ DbTypeOK /\ ProcTypeOK /\ ClientTypeOK
      /\ At(pc[c], n, seen[c]) /\ Found(c) /\ AtRest(n)
      /\ pc[c] \in Knowing => Tracked(n)
      /\ pc[c] \in Alone => HasNone(n)
      /\ pc[c] \in Holding => \A p \in LiveDaemons(n) : p = seen[c]
  BY <1>1, CommandFacts DEF At
<1>3. CASE StopGetService(c)
  <2>1. CASE n \in services /\ Go(c, "stop_get_state", NoPid)
    <3>1. At("stop_get_state", n, NoPid)
      BY <1>2, <2>1 DEF At, Knowing, Alone, Holding, AtRest, Clean
    <3>2. QED
      BY <1>1, <1>2, <2>1, <3>1, QuietGo DEF Labels, Fits
  <2>2. CASE n \notin services /\ ReturnFromStop(c)
    <3>1. op[c] # "remove"
      BY <1>2, <1>3, <2>2 DEF Found, StopGetService
    <3>2. QED
      BY <1>1, <1>2, <2>2, <3>1, QuietDone DEF ReturnFromStop
  <2>3. QED
    BY <1>2, <1>3, <2>1, <2>2 DEF StopGetService
<1>4. CASE StopGetState(c)
  <2>1. Tracked(n)
    BY <1>2, <1>4 DEF StopGetState, Knowing
  <2>2. CASE Go(c, "stop_probe", pid[n])
    <3>1. At("stop_probe", n, pid[n])
      BY <2>1 DEF At, Knowing, Alone, Holding, Tracked
    <3>2. QED
      BY <1>1, <1>2, <2>2, <3>1, QuietGo DEF Labels, Fits
  <2>3. CASE pid[n] = NoPid /\ Go(c, "stop_read_pid", NoPid)
    <3>1. HasNone(n)
      BY <2>1, <2>3, PidAssumption DEF Tracked, HasNone, LiveDaemons
    <3>2. At("stop_read_pid", n, NoPid)
      BY <2>1, <3>1 DEF At, Knowing, Alone, Holding
    <3>3. QED
      BY <1>1, <1>2, <2>3, <3>2, QuietGo DEF Labels, Fits
  <2>4. QED
    BY <1>2, <1>4, <2>1, <2>2, <2>3 DEF StopGetState, Tracked
<1>5. CASE StopReadPid(c)
  <2>1. Tracked(n) /\ HasNone(n)
    BY <1>2, <1>5 DEF StopReadPid, Knowing, Alone
  <2>2. At("stop_probe", n, pidfile[n]) /\ At("stop_mark", n, NoPid)
    BY <2>1 DEF At, Knowing, Alone, Holding, HasNone
  <2>3. Go(c, "stop_probe", pidfile[n]) \/ Go(c, "stop_mark", NoPid)
    BY <1>2, <1>5 DEF StopReadPid
  <2>4. QED
    BY <1>1, <1>2, <2>2, <2>3, QuietGo DEF Labels, Fits
<1>6. CASE StopProbe(c)
  <2>1. Tracked(n) /\ \A p \in LiveDaemons(n) : p = seen[c]
    BY <1>2, <1>6 DEF StopProbe, Knowing, Holding
  <2>2. CASE Go(c, "kill", seen[c])
    <3>1. At("kill", n, seen[c])
      BY <2>1 DEF At, Knowing, Alone, Holding
    <3>2. QED
      BY <1>1, <1>2, <2>2, <3>1, QuietGo DEF Labels, Fits
  <2>3. CASE ~IsProcessRunning(seen[c]) /\ Go(c, "stop_mark", NoPid)
    <3>1. HasNone(n)
      BY <2>1, <2>3 DEF IsProcessRunning, HasNone, LiveDaemons
    <3>2. At("stop_mark", n, NoPid)
      BY <2>1, <3>1 DEF At, Knowing, Alone, Holding
    <3>3. QED
      BY <1>1, <1>2, <2>3, <3>2, QuietGo DEF Labels, Fits
  <2>4. QED
    BY <1>6, <2>2, <2>3 DEF StopProbe
<1>7. CASE WaitExit(c)
  <2>1. /\ Tracked(n) /\ (\A p \in LiveDaemons(n) : p = seen[c])
        /\ ~IsProcessRunning(seen[c]) /\ Go(c, "stop_record", NoPid)
    BY <1>2, <1>7 DEF WaitExit, Knowing, Holding, Calm
  <2>2. HasNone(n)
    BY <2>1 DEF IsProcessRunning, HasNone, LiveDaemons
  <2>3. At("stop_record", n, NoPid)
    BY <2>1, <2>2 DEF At, Knowing, Alone, Holding
  <2>4. QED
    BY <1>1, <1>2, <2>1, <2>3, QuietGo DEF Labels, Fits
<1>8. QED
  BY <1>3, <1>4, <1>5, <1>6, <1>7

(* stop, the signal and what follows *)
LEMMA StopActsKeep ==
  ASSUME Calm, CalmInv, NEW c \in Clients, ClientStep(c),
         Kill(c) \/ StopMark(c) \/ StopRecord(c) \/ StopUnlink(c)
  PROVE  CalmInv'
<1>1. pc[c] \in Named \ Midway
  BY DEF Kill, StopMark, StopRecord, StopUnlink, Named, Labels, Midway
<1> PICK n \in Names : n = svc[c]
  BY <1>1, CommandFacts
<1>2. /\ n = svc[c] /\ DbTypeOK /\ ProcTypeOK /\ At(pc[c], n, seen[c])
      /\ AtRest(n)
  BY <1>1, CommandFacts
<1>3. CASE Kill(c)
  <2>1. /\ SendTerm(seen[c]) /\ UNCHANGED <<dbVars, units>>
        /\ Go(c, "wait_exit", seen[c])
    BY <1>3 DEF Kill
  <2>2. Shrinks(n) /\ services' = services
    BY <2>1 DEF Shrinks, SendTerm, dbVars
  <2>3. PICK s : s = seen[c]
    OBVIOUS
  <2>4. At("wait_exit", n, s)
    BY <1>2, <1>3, <2>3 DEF At, Kill, Knowing, Alone, Holding
  <2>5. At("wait_exit", n, s)' /\ AtRest(n)'
    BY <1>2, <2>2, <2>4, ShrinkingKeeps
  <2>6. Go(c, "wait_exit", s)
    BY <2>1, <2>3
  <2>7. QED
    BY <1>2, <2>2, <2>5, <2>6, AfterGo DEF Labels, Fits
<1>4. CASE StopMark(c) \/ StopRecord(c)
  <2>1. Tracked(n) /\ HasNone(n)
    BY <1>2, <1>4 DEF At, StopMark, StopRecord, Knowing, Alone
  <2>2. UpdateState(n, "stopped", NoPid) /\ UNCHANGED <<procVars, fileVars, units>>
    BY <1>2, <1>4 DEF StopMark, StopRecord, TryUpdateState, Calm
  <2>3. Tracked(n)' /\ HasNone(n)' /\ services' = services
    BY <2>1, <2>2
       DEF UpdateState, dbVars, procVars, Tracked, HasNone, LiveDaemons
  <2>4. CASE StopMark(c)
    BY <1>2, <2>3, <2>4, AfterReturn DEF StopMark
  <2>5. CASE StopRecord(c)
    <3>1. At("stop_unlink", n, NoPid)' /\ AtRest(n)'
      BY <2>3 DEF At, Knowing, Alone, Holding, AtRest
    <3>2. QED
      BY <1>2, <2>3, <2>5, <3>1, AfterGo DEF Labels, Fits, StopRecord
  <2>6. QED
    BY <1>4, <2>4, <2>5
<1>5. CASE StopUnlink(c)
  <2>1. Tracked(n) /\ HasNone(n)
    BY <1>2, <1>5 DEF At, StopUnlink, Knowing, Alone
  <2>2. Unlink(n) /\ ReturnFromStop(c) /\ UNCHANGED <<dbVars, units>>
    BY <1>2, <1>5 DEF StopUnlink
  <2>3. HasNone(n)'
    BY <1>2, <2>1, <2>2 DEF HasNone, LiveDaemons, Unlink, ProcTypeOK
  <2>4. Tracked(n)' /\ services' = services
    BY <2>1, <2>2, <2>3 DEF Tracked, HasNone, dbVars
  <2>5. QED
    BY <1>2, <2>2, <2>3, <2>4, AfterReturn
<1>6. QED
  BY <1>3, <1>4, <1>5

(* remove, after the stop *)
LEMMA RemoveKeeps ==
  ASSUME Calm, CalmInv, NEW c \in Clients, ClientStep(c),
         Uninstall(c) \/ DeleteService(c) \/ RemovePidFile(c) \/ RemoveLogs(c)
  PROVE  CalmInv'
<1>1. pc[c] \in Named
  BY DEF Uninstall, DeleteService, RemovePidFile, RemoveLogs, Named, Labels
<1> PICK n \in Names : n = svc[c]
  BY <1>1, CommandFacts
<1>2. /\ n = svc[c] /\ DbTypeOK /\ ProcTypeOK /\ At(pc[c], n, seen[c])
  BY <1>1, CommandFacts
<1>3. CASE Uninstall(c)
  <2>2. /\ Tracked(n) /\ HasNone(n) /\ units' = units \ {n}
        /\ UNCHANGED <<dbVars, procVars, fileVars>>
        /\ Go(c, "delete_service", NoPid)
    BY <1>2, <1>3 DEF At, Uninstall, Knowing, Alone
  <2>3. Tracked(n)' /\ HasNone(n)' /\ n \notin units'
    BY <2>2 DEF Tracked, HasNone, LiveDaemons, dbVars, procVars, fileVars
  <2>4. At("delete_service", n, NoPid)' /\ AtRest(n)'
    BY <2>3 DEF At, Knowing, Alone, Holding, AtRest
  <2>5. QED
    BY <1>2, <2>2, <2>4, AfterGo DEF Labels, Fits
<1>4. CASE DeleteService(c)
  <2>1. Tracked(n) /\ HasNone(n) /\ n \notin units
    BY <1>2, <1>4 DEF At, DeleteService, Knowing, Alone
  <2>2. /\ DeleteServiceRow(n) /\ Go(c, "remove_pid_file", NoPid)
        /\ UNCHANGED <<procVars, fileVars, units>>
    BY <1>2, <1>4, <2>1 DEF DeleteService, Calm, Tracked
  <2>3. Deleted(n)'
    BY <2>1, <2>2
       DEF Deleted, HasNone, LiveDaemons, DeleteServiceRow, procVars
  <2>4. At("remove_pid_file", n, NoPid)'
    BY <2>3 DEF At, Knowing, Alone, Holding
  <2>5. QED
    BY <1>2, <2>1, <2>2, <2>4, AfterGo DEF Labels, Fits, Midway
<1>5. CASE RemovePidFile(c)
  <2>1. /\ Deleted(n) /\ Unlink(n) /\ Go(c, "remove_logs", NoPid)
        /\ UNCHANGED <<dbVars, units>>
    BY <1>2, <1>5 DEF At, RemovePidFile
  <2>2. HasNone(n)' /\ pidfile'[n] = NoFile /\ services' = services
    BY <1>2, <2>1
       DEF Deleted, HasNone, LiveDaemons, Unlink, ProcTypeOK, dbVars
  <2>3. Deleted(n)'
    BY <2>1, <2>2 DEF Deleted, dbVars
  <2>4. At("remove_logs", n, NoPid)'
    BY <2>2, <2>3 DEF At, Knowing, Alone, Holding
  <2>5. QED
    BY <1>2, <2>1, <2>2, <2>4, AfterGo DEF Labels, Fits, Midway
<1>6. CASE RemoveLogs(c)
  <2>1. /\ Deleted(n) /\ pidfile[n] = NoFile /\ logs' = logs \ {n} /\ Done(c)
        /\ UNCHANGED <<dbVars, procVars, pidfile, units>>
    BY <1>2, <1>6 DEF At, RemoveLogs
  <2>2. Clean(n)'
    BY <2>1 DEF Deleted, Clean, HasNone, LiveDaemons, dbVars, procVars
  <2>3. QED
    BY <1>2, <2>1, <2>2, AfterDone DEF AtRest
<1>7. QED
  BY <1>3, <1>4, <1>5, <1>6

-----------------------------------------------------------------------------
(* A command is typed. *)
LEMMA UserKeeps ==
  ASSUME Calm, CalmInv, Apart', NEW c \in Clients, UserStep(c)
  PROVE  CalmInv'
<1>0. TypeOK' /\ ClientTypeOK /\ Quiet
  BY TypePreserved DEF CalmInv, Next, TypeOK, UserStep, Quiet
<1>1. PICK o \in Ops, n \in Names : Begin(c, o, n)
  BY DEF UserStep, ClientCrash, Calm
<1>2. /\ pc[c] \notin Midway
      /\ pc'[c] \in {"list_services", "stop_get_service", "get_service"}
      /\ pc'[c] = "stop_get_service" => op'[c] # "remove"
      /\ pc'[c] = "list_services" => op'[c] = "list"
      /\ \A d \in Clients \ {c} : /\ pc'[d] = pc[d] /\ op'[d] = op[d]
                                  /\ svc'[d] = svc[d] /\ seen'[d] = seen[d]
  BY <1>0, <1>1 DEF Begin, Entry, ClientTypeOK, Midway
<1>3. \A m \in Names :
        AtRest(m)' \/ \E d \in Clients : svc'[d] = m /\ pc'[d] \in Midway
  BY <1>0, <1>2, QuietShrinks, ShrinkingKeeps DEF CalmInv
<1>4. At(pc[c], svc[c], seen[c])' /\ Found(c)'
  BY <1>2 DEF At, Found, Fits, Knowing, Alone, Holding
<1>5. \A d \in Clients \ {c} : At(pc[d], svc[d], seen[d])' /\ Found(d)'
  BY <1>0, <1>2, QuietShrinks, OtherCommandsStay
<1>6. QED
  BY <1>0, <1>3, <1>4, <1>5 DEF CalmInv

(* A daemon's step leaves the other services as they are. *)
LEMMA OtherDaemonsStay ==
  ASSUME TypeOK, NEW p \in Pids, Environment(p), NEW n \in Names,
         n # owner[p]
  PROVE  Shrinks(n)
  BY ProcessAssumption
     DEF TypeOK, ProcTypeOK, Environment, DaemonStep, OpenPidFile,
         FlushPidFile, FlushDetached, BootFail, WriteLog, Die, Crash,
         Outsider, Shrinks, dbVars, Booting

(* A daemon goes, or an outsider gets its number. *)
LEMMA GoingShrinks ==
  ASSUME TypeOK, NEW p \in Pids,
         BootFail(p) \/ Die(p) \/ Crash(p) \/ Outsider(p),
         UNCHANGED <<dbVars, clientVars, units>>, NEW n \in Names
  PROVE  Shrinks(n)
  BY ProcessAssumption
     DEF TypeOK, ProcTypeOK, BootFail, Die, Crash, Outsider, Shrinks, dbVars

(* A daemon boots: the command that launched it has not read its PID file. *)
LEMMA BootKeeps ==
  ASSUME Calm, CalmInv, NEW p \in Pids, Environment(p),
         OpenPidFile(p) \/ FlushPidFile(p) \/ FlushDetached(p),
         NEW n \in Names, n = owner[p]
  PROVE  \E c \in Clients :
           /\ svc[c] = n /\ pc[c] = "read_pid_file"
           /\ \A s : At("read_pid_file", n, s)'
<1>1. p \in LiveDaemons(n) /\ phase[p] \in Booting /\ ProcTypeOK
  BY DEF OpenPidFile, FlushPidFile, FlushDetached, LiveDaemons, Booting,
         CalmInv, TypeOK
<1>2. ~AtRest(n)
  BY <1>1 DEF AtRest, Clean, Tracked, HasNone, Booting
<1>3. PICK c \in Clients : svc[c] = n /\ pc[c] \in Midway
  BY <1>2 DEF CalmInv
<1>4. At(pc[c], n, seen[c])
  BY <1>3 DEF CalmInv
<1>5. pc[c] = "read_pid_file" /\ Launched(n)
  BY <1>1, <1>3, <1>4
     DEF At, Midway, Alone, HasNone, Read, Deleted, Booting
<1>6. /\ phase[p] # "detached" /\ UNCHANGED <<dbVars, clientVars, units>>
      /\ \A q \in LiveDaemons(n) : q = p
  BY <1>1, <1>5 DEF Launched, Environment
<1>7. UNCHANGED owner /\ phase'[p] # "dead" /\ phase'[p] # "detached"
      /\ (phase'[p] = "opened" => pidfile'[n] = NoPid)
      /\ (phase'[p] = "up" => pidfile'[n] = p)
      /\ \A q \in Pids \ {p} : phase'[q] = phase[q]
  <2>1. CASE OpenPidFile(p)
    BY <1>1, <2>1 DEF OpenPidFile, ProcTypeOK
  <2>2. CASE FlushPidFile(p)
    <3>1. pidfile[n] \notin Pids
      BY <1>1, <1>5, <2>2, PidAssumption DEF FlushPidFile, Launched
    <3>2. QED
      BY <1>1, <2>2, <3>1 DEF FlushPidFile, ProcTypeOK
  <2>3. QED
    BY <1>6, <2>1, <2>2 DEF FlushDetached
<1>8. \A q \in LiveDaemons(n)' : q = p
  BY <1>6, <1>7 DEF LiveDaemons
<1>9. Launched(n)'
  BY <1>5, <1>6, <1>7, <1>8 DEF Launched, dbVars
<1>10. \A s : At("read_pid_file", n, s)'
  BY <1>9 DEF At, Knowing, Alone, Holding
<1>11. QED
  BY <1>3, <1>5, <1>10

(* A running daemon's log belongs to a service that is there. *)
LEMMA LoggingKeeps ==
  ASSUME NEW p \in Pids, WriteLog(p), UNCHANGED <<dbVars, clientVars, units>>,
         NEW n \in Names, n = owner[p]
  PROVE  /\ AtRest(n) => AtRest(n)'
         /\ \A l, s : At(l, n, s) => At(l, n, s)'
<1>1. p \in LiveDaemons(n) /\ LiveDaemons(n)' = LiveDaemons(n)
      /\ UNCHANGED <<phase, pidfile>>
  BY DEF WriteLog, LiveDaemons
<1>2. ~HasNone(n) /\ ~Clean(n) /\ ~Deleted(n)
  BY <1>1 DEF HasNone, Clean, Deleted
<1>3. /\ Tracked(n) => Tracked(n)'
      /\ Launched(n) => Launched(n)'
      /\ \A s : Read(n, s) => Read(n, s)'
  BY <1>1 DEF Tracked, Launched, Read, dbVars
<1>4. QED
  BY <1>1, <1>2, <1>3 DEF AtRest, At, dbVars

LEMMA EnvironmentKeeps ==
  ASSUME Calm, CalmInv, NEW p \in Pids, Environment(p)
  PROVE  CalmInv'
<1>0. /\ TypeOK /\ TypeOK' /\ ClientTypeOK /\ ProcTypeOK
      /\ UNCHANGED <<dbVars, clientVars, units>>
      /\ UNCHANGED <<pc, op, svc, seen, todo, services>>
  BY TypePreserved DEF CalmInv, Next, TypeOK, Environment, clientVars, dbVars
<1>1. ASSUME NEW n \in Names, n # owner[p]
      PROVE  /\ AtRest(n) => AtRest(n)'
             /\ \A l, s : At(l, n, s) => At(l, n, s)'
  BY <1>0, <1>1, OtherDaemonsStay, ShrinkingKeeps
<1>2. ASSUME NEW n \in Names, n = owner[p]
      PROVE  /\ AtRest(n) => AtRest(n)'
             /\ \A c \in Clients : \A l, s :
                  svc[c] = n /\ l = pc[c] /\ At(l, n, s) => At(l, n, s)'
  <2>1. CASE BootFail(p) \/ Die(p) \/ Crash(p) \/ Outsider(p)
    <3>1. \A l, s : At(l, n, s) => At(l, n, s)'
      BY <1>0, <2>1, GoingShrinks, ShrinkingKeeps
    <3>2. AtRest(n) => AtRest(n)'
      BY <1>0, <2>1, GoingShrinks, ShrinkingKeeps
    <3>3. QED
      BY <3>1, <3>2
  <2>2. CASE WriteLog(p)
    <3>1. \A l, s : At(l, n, s) => At(l, n, s)'
      BY <1>0, <1>2, <2>2, LoggingKeeps
    <3>2. AtRest(n) => AtRest(n)'
      BY <1>0, <1>2, <2>2, LoggingKeeps
    <3>3. QED
      BY <3>1, <3>2
  <2>3. CASE OpenPidFile(p) \/ FlushPidFile(p) \/ FlushDetached(p)
    <3>1. p \in LiveDaemons(n) /\ phase[p] \in Booting
      BY <1>2, <2>3 DEF OpenPidFile, FlushPidFile, FlushDetached, LiveDaemons,
                        Booting
    <3>2. ~AtRest(n)
      BY <3>1 DEF AtRest, Clean, Tracked, HasNone, Booting
    <3>3. PICK d \in Clients : /\ svc[d] = n /\ pc[d] = "read_pid_file"
                               /\ \A s : At("read_pid_file", n, s)'
      BY <1>2, <2>3, BootKeeps
    <3>4. \A c \in Clients : svc[c] = n => c = d
      BY <3>3 DEF CalmInv, Apart
    <3>5. QED
      BY <3>2, <3>3, <3>4
  <2>4. QED
    BY <2>1, <2>2, <2>3 DEF Environment, DaemonStep
<1>3. \A n \in Names :
        AtRest(n)' \/ \E c \in Clients : svc'[c] = n /\ pc'[c] \in Midway
  BY <1>0, <1>1, <1>2 DEF CalmInv
<1>4. ASSUME NEW c \in Clients PROVE At(pc[c], svc[c], seen[c])' /\ Found(c)'
  <2>1. At(pc[c], svc[c], seen[c]) /\ Found(c)
    BY DEF CalmInv
  <2>2. Found(c)'
    BY <1>0, <2>1 DEF Found
  <2>3. At(pc[c], svc[c], seen[c])'
    <3>1. CASE svc[c] \notin Names
      <4>1. pc[c] \notin Named
        BY <1>0, <3>1 DEF ClientTypeOK
      <4>2. pc'[c] \notin Named
        BY <1>0, <4>1
      <4>3. QED
        BY <4>2 DEF At, Named, Labels, Knowing, Alone, Holding
    <3>2. CASE svc[c] \in Names
      <4>0. PICK n \in Names : n = svc[c]
        BY <3>2
      <4>1. PICK l, s : l = pc[c] /\ s = seen[c]
        OBVIOUS
      <4>2. At(l, n, s)'
        BY <1>1, <1>2, <2>1, <4>0, <4>1
      <4>3. n = svc'[c] /\ l = pc'[c] /\ s = seen'[c]
        BY <1>0, <4>0, <4>1
      <4>4. QED
        BY <4>2, <4>3 DEF At, Tracked, HasNone, LiveDaemons, Clean, Launched,
                          Read, Deleted
    <3>3. QED
      BY <3>1, <3>2
  <2>4. QED
    BY <2>2, <2>3
<1>5. Apart'
  BY <1>0 DEF CalmInv, Apart
<1>6. QED
  BY <1>0, <1>3, <1>4, <1>5 DEF CalmInv

-----------------------------------------------------------------------------
LEMMA CalmInitially == Init => CalmInv
  BY TypeInitially, ProcessAssumption
     DEF Init, DbInit, ProcInit, CalmInv, Apart, AtRest, Clean, HasNone,
         LiveDaemons, At, Found, Fits, Knowing, Alone, Holding

LEMMA CalmPreserved ==
  ASSUME Calm
  PROVE  CalmInv /\ Apart' /\ [Next]_vars => CalmInv'
<1> SUFFICES ASSUME CalmInv, Apart', [Next]_vars PROVE CalmInv'
  OBVIOUS
<1>1. ASSUME NEW c \in Clients, ClientStep(c) PROVE CalmInv'
  BY <1>1, QuestionsKeep, ListingKeeps, InstallKeeps, StartKeeps,
     StopFindsKeep, StopActsKeep, RemoveKeeps
     DEF ClientStep, RegistryStep, PlatformStep
<1>2. CASE UNCHANGED vars
  BY <1>2
     DEF vars, dbVars, procVars, fileVars, clientVars, CalmInv, TypeOK, Apart,
         DbTypeOK, ProcTypeOK, ClientTypeOK, At, Found, AtRest, Clean, Tracked,
         HasNone, LiveDaemons, Launched, Read, Deleted
<1>3. QED
  BY <1>1, <1>2, UserKeeps, EnvironmentKeeps DEF Next

LEMMA CalmAlways ==
  ASSUME Calm
  PROVE  Spec /\ []Apart => []CalmInv
  BY CalmInitially, CalmPreserved, PTL DEF Spec

LEMMA CalmAtMostOne == CalmInv => AtMostOneDaemon
<1> SUFFICES ASSUME CalmInv, NEW n \in Names
             PROVE  \A p, q \in LiveDaemons(n) : p = q
  BY DEF AtMostOneDaemon
<1>1. CASE AtRest(n)
  BY <1>1 DEF AtRest, Clean, Tracked, HasNone
<1>2. ASSUME NEW c \in Clients, svc[c] = n, pc[c] \in Midway
      PROVE  \A p, q \in LiveDaemons(n) : p = q
  <2>1. At(pc[c], n, seen[c])
    BY <1>2 DEF CalmInv
  <2>2. QED
    BY <1>2, <2>1 DEF At, Midway, Alone, HasNone, Launched, Read, Deleted
<1>3. QED
  BY <1>1, <1>2 DEF CalmInv

(* A service has at most one daemon: start launches one only when          *)
(* get_actual_status has found none, and no command, crash or failed boot  *)
(* in between hides one (service_registry.cc:191-195, 82-98).              *)
THEOREM OneDaemon ==
  ASSUME Calm
  PROVE  Spec /\ []Apart => []AtMostOneDaemon
  BY CalmAtMostOne, CalmAlways, PTL

LEMMA IdleIsAtRest ==
  ASSUME CalmInv, NEW n \in Names, ~Busy(n)
  PROVE  AtRest(n)
  BY DEF CalmInv, Busy

(* Between commands the row of a service names its daemon, if it has one,  *)
(* so that stop and remove can reach it (service_registry.cc:255-266).     *)
THEOREM DaemonsAreTracked ==
  ASSUME Calm
  PROVE  Spec /\ []Apart => []LiveDaemonsAreTracked
<1>1. CalmInv => LiveDaemonsAreTracked
  BY IdleIsAtRest
     DEF LiveDaemonsAreTracked, AtRest, Clean, Tracked, HasNone
<1>2. QED
  BY <1>1, CalmAlways, PTL

(* Between commands the PID file of a service names its daemon: the two    *)
(* copies of a pid that start makes agree until the daemon has gone        *)
(* (service_registry.cc:255-266, 328-336, pid_file.cc:11-25).              *)
THEOREM PidFilesNameDaemons ==
  ASSUME Calm
  PROVE  Spec /\ []Apart => []PidFileNamesDaemon
<1>1. CalmInv => PidFileNamesDaemon
  BY IdleIsAtRest
     DEF PidFileNamesDaemon, AtRest, Clean, Tracked, HasNone
<1>2. QED
  BY <1>1, CalmAlways, PTL

(* Nothing is left of a service that is not registered: no daemon, row,    *)
(* PID file, log or definition (service_registry.cc:142-180).              *)
THEOREM NothingIsLeft ==
  ASSUME Calm
  PROVE  Spec /\ []Apart => []RemoveCleansUp
<1>1. CalmInv => RemoveCleansUp
  BY IdleIsAtRest DEF RemoveCleansUp, AtRest, Clean, Tracked, HasNone
<1>2. QED
  BY <1>1, CalmAlways, PTL

LEMMA StoppedIsAlone == CalmInv => StopsLeaveNoDaemon
  BY DEF CalmInv, StopsLeaveNoDaemon, At, Alone, HasNone, Deleted

(* A stop or remove that has come to the end of the stop has left no       *)
(* daemon behind: the pid it found was that of the only one there was, and *)
(* it waited for it to go (service_registry.cc:281-339).                   *)
THEOREM StopsReachTheDaemon ==
  ASSUME Calm
  PROVE  Spec /\ []Apart => []StopsLeaveNoDaemon
  BY StoppedIsAlone, CalmAlways, PTL

(* Between commands a row that says "stopped" has no daemon behind it, as  *)
(* docs/wiki/Service-Lifecycle.md says: a status or a start that is about  *)
(* to correct a row has looked at the one daemon that could run, and no    *)
(* start of another command has launched one since                         *)
(* (service_registry.cc:82-98, 361, 382).                                   *)
THEOREM StoppedIsTheTruth ==
  ASSUME Calm
  PROVE  Spec /\ []Apart =>
           [](/\ StoppedMeansNoDaemon
              /\ \A c \in Clients : pc[c] = "correct" => HasNone(svc[c]))
<1>1. CalmInv => StoppedMeansNoDaemon
  BY IdleIsAtRest DEF StoppedMeansNoDaemon, AtRest, Clean, Tracked, HasNone
<1>2. CalmInv => \A c \in Clients : pc[c] = "correct" => HasNone(svc[c])
  BY DEF CalmInv, At, Alone
<1>3. QED
  BY <1>1, <1>2, CalmAlways, PTL

-----------------------------------------------------------------------------
(* Where daemons end by SIGTERM only, and so by a stop or a remove, a      *)
(* "running" row is as true as a "stopped" one.                            *)
NoDeaths == Faults \cap {"crash", "bootfail"} = {}

(* Whoever is to die is awaited by the command that has sent the signal. *)
TermedAreAwaited ==
  \A p \in termed :
    /\ IsProcessRunning(p)
    /\ \E c \in Clients : pc[c] = "wait_exit" /\ seen[c] = p

(* The command that ends n's daemon and has yet to write so. *)
Ending(c, n) == svc[c] = n /\ pc[c] \in {"wait_exit", "stop_record"}

RunningAreLive ==
  \A n \in Names :
    status[n] = "running" => ~HasNone(n) \/ \E c \in Clients : Ending(c, n)

(* The places where a command is sure that there is a daemon. *)
Sure == {"read_pid_file", "record_start", "report_running"}

SureAreRight == \A c \in Clients : pc[c] \in Sure => ~HasNone(svc[c])

TruthInv ==
  /\ CalmInv /\ IInv
  /\ TermedAreAwaited /\ RunningAreLive /\ SureAreRight

(* Which step a command takes at the places that matter here. *)
LEMMA StepsByPlace ==
  ASSUME NEW c \in Clients, ClientStep(c)
  PROVE  /\ pc[c] = "wait_exit" => WaitExit(c)
         /\ pc[c] = "stop_record" => StopRecord(c)
         /\ Kill(c) \/ termed' = termed
         /\ \/ pc'[c] \notin Sure
            \/ \E p \in Pids : Launch(c, p)
            \/ ReadPidFile(c) \/ GetState(c) \/ Probe(c)
            \/ ~ClientTypeOK
<1>1. CASE \/ GetService(c) \/ ReportRunning(c) \/ ListServices(c)
           \/ ListNext(c) \/ StopGetService(c) \/ StopGetState(c)
           \/ StopReadPid(c) \/ StopProbe(c)
  BY <1>1
     DEF GetService, ReportRunning, ListServices, ListNext, StopGetService,
         StopGetState, StopReadPid, StopProbe, ReturnFromStop, Go, Done, Sure,
         ClientTypeOK, procVars
<1>2. CASE \/ InsertService(c) \/ InsertState(c) \/ PlatformInstall(c)
           \/ Uninstall(c) \/ DeleteService(c) \/ RemovePidFile(c)
           \/ RemoveLogs(c)
  BY <1>2
     DEF InsertService, InsertState, PlatformInstall, Uninstall, DeleteService,
         RemovePidFile, RemoveLogs, Unlink, Go, Done, Sure, ClientTypeOK,
         procVars
<1>3. CASE \/ StopMark(c) \/ Kill(c) \/ WaitExit(c) \/ StopRecord(c)
           \/ StopUnlink(c) \/ LaunchFails(c) \/ RecordStart(c)
  BY <1>3
     DEF StopMark, Kill, WaitExit, StopRecord, StopUnlink, LaunchFails,
         RecordStart, ReturnFromStop, Unlink, Go, Done, Sure, ClientTypeOK,
         procVars
<1>4. CASE \/ \E p \in Pids : Launch(c, p)
           \/ ReadPidFile(c) \/ GetState(c) \/ Probe(c)
  BY <1>4 DEF Launch, ReadPidFile, GetState, Probe, Spawn, procVars
<1>5. CASE Correct(c)
  BY <1>5
     DEF Correct, Verdict, Go, Done, Sure, ClientTypeOK, procVars
<1>6. QED
  BY <1>1, <1>2, <1>3, <1>4, <1>5 DEF ClientStep, RegistryStep, PlatformStep

(* Only start says "running". *)
LEMMA OnlyStartSaysRunning ==
  ASSUME TypeOK, NEW c \in Clients, ClientStep(c), NEW n \in Names,
         status'[n] = "running"
  PROVE  status[n] = "running" \/ (pc[c] = "record_start" /\ svc[c] = n)
<1>0. DbTypeOK
  BY DEF TypeOK
<1>1. CASE RecordStart(c)
  BY <1>0, <1>1
     DEF RecordStart, TryUpdateState, UpdateState, DbTypeOK, dbVars
<1>2. CASE Correct(c) \/ StopMark(c) \/ StopRecord(c)
  BY <1>0, <1>2
     DEF Correct, StopMark, StopRecord, TryUpdateState, UpdateState, DbTypeOK,
         dbVars
<1>3. CASE InsertService(c) \/ InsertState(c) \/ DeleteService(c)
  BY <1>0, <1>3
     DEF InsertService, InsertState, DeleteService, InsertServiceRow,
         InsertStateRow, DeleteServiceRow, DbTypeOK, dbVars
<1>4. CASE \/ GetService(c) \/ GetState(c) \/ Probe(c) \/ ReportRunning(c)
           \/ ListServices(c) \/ ListNext(c) \/ PlatformInstall(c)
  BY <1>4 DEF GetService, GetState, Probe, ReportRunning, ListServices,
              ListNext, PlatformInstall, dbVars
<1>5. CASE \/ (\E p \in Pids : Launch(c, p)) \/ LaunchFails(c)
           \/ ReadPidFile(c) \/ StopGetService(c) \/ StopGetState(c)
           \/ StopReadPid(c) \/ StopProbe(c) \/ Kill(c) \/ WaitExit(c)
  BY <1>5 DEF Launch, LaunchFails, ReadPidFile, StopGetService, StopGetState,
              StopReadPid, StopProbe, Kill, WaitExit, dbVars
<1>6. CASE \/ StopUnlink(c) \/ Uninstall(c) \/ RemovePidFile(c)
           \/ RemoveLogs(c)
  BY <1>6 DEF StopUnlink, Uninstall, RemovePidFile, RemoveLogs, dbVars
<1>7. QED
  BY <1>1, <1>2, <1>3, <1>4, <1>5, <1>6
     DEF ClientStep, RegistryStep, PlatformStep

(* A command ends no daemon: the signal does, later. *)
LEMMA CommandsEndNone ==
  ASSUME TypeOK, NEW c \in Clients, ClientStep(c), NEW n \in Names, ~HasNone(n)
  PROVE  ~HasNone(n)'
<1>0. ProcTypeOK
  BY DEF TypeOK
<1>1. PICK p \in Pids : phase[p] # "dead" /\ owner[p] = n
  BY DEF HasNone, LiveDaemons
<1>2. phase'[p] # "dead" /\ owner'[p] = n
  <2>1. CASE \/ UNCHANGED <<procVars, fileVars>>
             \/ seen[c] \in Pids /\ SendTerm(seen[c])
             \/ logs' = logs \ {svc[c]} /\ UNCHANGED <<procVars, pidfile>>
    BY <1>1, <2>1 DEF procVars, SendTerm
  <2>2. CASE Unlink(svc[c]) \/ \E q \in Pids : Free(q) /\ Spawn(svc[c], q)
    BY <1>0, <1>1, <2>2 DEF Unlink, Spawn, ProcTypeOK
  <2>3. QED
    BY <2>1, <2>2, ClientStepProc
<1>3. QED
  BY <1>2 DEF HasNone, LiveDaemons

(* Only a stop's signal is pending, and its command goes on when the       *)
(* daemon has gone.                                                        *)
LEMMA CommandsAwait ==
  ASSUME Calm, TypeOK, TermedAreAwaited, NEW c \in Clients, ClientStep(c)
  PROVE  TermedAreAwaited'
<1>0. /\ ClientTypeOK /\ ProcTypeOK
      /\ \A d \in Clients \ {c} : pc'[d] = pc[d] /\ seen'[d] = seen[d]
  BY ClientStepSeen DEF TypeOK
<1>1. \A p \in Pids : IsProcessRunning(p) => IsProcessRunning(p)'
  <2>1. CASE \/ UNCHANGED <<procVars, fileVars>>
             \/ seen[c] \in Pids /\ SendTerm(seen[c])
             \/ logs' = logs \ {svc[c]} /\ UNCHANGED <<procVars, pidfile>>
    BY <2>1 DEF procVars, SendTerm, IsProcessRunning
  <2>2. CASE Unlink(svc[c]) \/ \E q \in Pids : Free(q) /\ Spawn(svc[c], q)
    BY <1>0, <2>2 DEF Unlink, Spawn, ProcTypeOK, IsProcessRunning
  <2>3. QED
    BY <2>1, <2>2, ClientStepProc
<1>2. CASE Kill(c)
  <2>1. /\ pc[c] = "kill" /\ pc'[c] = "wait_exit" /\ seen'[c] = seen[c]
        /\ termed' = termed \/ (termed' = termed \cup {seen[c]}
                                /\ IsProcessRunning(seen[c]) /\ seen[c] \in Pids)
    BY <1>0, <1>2
       DEF Kill, Go, SendTerm, ClientTypeOK, IsProcessRunning, Holding
  <2>2. QED
    BY <1>0, <1>1, <2>1 DEF TermedAreAwaited, ProcTypeOK
<1>3. CASE pc[c] \notin {"kill", "wait_exit"}
  <2>1. termed' = termed
    BY <1>3, StepsByPlace DEF Kill
  <2>2. QED
    BY <1>0, <1>1, <1>3, <2>1 DEF TermedAreAwaited, ProcTypeOK
<1>4. CASE WaitExit(c)
  <2>1. termed' = termed /\ pc[c] = "wait_exit" /\ ~IsProcessRunning(seen[c])
    BY <1>4 DEF WaitExit, Calm, procVars
  <2>2. QED
    BY <1>0, <1>1, <2>1 DEF TermedAreAwaited, ProcTypeOK
<1>5. CASE pc[c] = "kill" /\ ~Kill(c)
  <2>1. termed' = termed
    BY <1>5, StepsByPlace
  <2>2. QED
    BY <1>0, <1>1, <1>5, <2>1 DEF TermedAreAwaited, ProcTypeOK
<1>6. QED
  BY <1>2, <1>3, <1>4, <1>5, StepsByPlace

(* What a command writes about its service's status is true. *)
LEMMA CommandsWriteTruth ==
  ASSUME Calm, TruthInv, NEW c \in Clients, ClientStep(c)
  PROVE  RunningAreLive'
<1> SUFFICES ASSUME NEW n \in Names, status'[n] = "running",
                    HasNone(n)'
             PROVE  \E d \in Clients : Ending(d, n)'
  BY DEF RunningAreLive
<1>0. /\ TypeOK /\ ClientTypeOK /\ DbTypeOK /\ HasNone(n)
      /\ \A d \in Clients \ {c} : pc'[d] = pc[d] /\ svc'[d] = svc[d]
  BY CommandsEndNone, ClientStepSeen DEF TruthInv, CalmInv, TypeOK
<1>1. status[n] = "running"
  <2>1. ~(pc[c] = "record_start" /\ svc[c] = n)
    BY <1>0 DEF TruthInv, SureAreRight, Sure
  <2>2. QED
    BY <1>0, <2>1, OnlyStartSaysRunning
<1>2. PICK d \in Clients : Ending(d, n)
  BY <1>0, <1>1 DEF TruthInv, RunningAreLive
<1>3. CASE d # c
  BY <1>0, <1>2, <1>3 DEF Ending
<1>4. CASE d = c
  <2>1. CASE WaitExit(c)
    BY <1>0, <1>2, <1>4, <2>1 DEF WaitExit, Go, Ending, ClientTypeOK
  <2>2. CASE StopRecord(c)
    <3>1. n \in stateRows
      BY <1>2, <1>4, <2>2 DEF StopRecord, Ending, TruthInv, CalmInv, At, Knowing, Tracked
    <3>2. status'[n] = "stopped"
      BY <1>0, <1>2, <1>4, <2>2, <3>1
         DEF StopRecord, TryUpdateState, UpdateState, Calm, Ending, DbTypeOK
    <3>3. QED
      BY <3>2
  <2>3. QED
    BY <1>2, <1>4, <2>1, <2>2, StepsByPlace DEF Ending
<1>5. QED
  BY <1>3, <1>4

(* A command is sure when it has launched a daemon or found one. *)
LEMMA CommandsAreSure ==
  ASSUME Calm, TruthInv, NEW c \in Clients, ClientStep(c)
  PROVE  SureAreRight'
<1>0. /\ TypeOK /\ ClientTypeOK /\ ProcTypeOK /\ DbTypeOK /\ PidsBelong
      /\ \A d \in Clients \ {c} : pc'[d] = pc[d] /\ svc'[d] = svc[d]
  BY ClientStepSeen DEF TruthInv, IInv, TypeOK
<1>1. \A d \in Clients : pc[d] \in Sure => svc[d] \in Names /\ ~HasNone(svc[d])
  BY <1>0 DEF TruthInv, SureAreRight, ClientTypeOK, Sure, Named, Labels
<1>2. ASSUME NEW d \in Clients \ {c}, pc'[d] \in Sure PROVE ~HasNone(svc[d])'
  <2>1. PICK n \in Names : n = svc[d] /\ ~HasNone(n)
    BY <1>0, <1>1, <1>2
  <2>2. ~HasNone(n)'
    BY <1>0, <2>1, CommandsEndNone
  <2>3. QED
    BY <1>0, <2>1, <2>2 DEF HasNone, LiveDaemons
<1>3. ASSUME pc'[c] \in Sure PROVE ~HasNone(svc[c])'
  <2>1. CASE \E p \in Pids : Launch(c, p)
    BY <1>0, <2>1
       DEF Launch, Spawn, Go, HasNone, LiveDaemons, ProcTypeOK, ClientTypeOK
  <2>2. CASE ReadPidFile(c)
    BY <1>1, <2>2
       DEF ReadPidFile, Go, HasNone, LiveDaemons, Sure, procVars
  <2>3. CASE GetState(c)
    <3>1. svc[c] \in Names /\ status[svc[c]] = "running" /\ pc[c] = "get_state"
          /\ svc' = svc
      BY <1>0, <1>3, <2>3
         DEF GetState, Verdict, Go, Done, Sure, ClientTypeOK, Named, Labels
    <3>2. ~HasNone(svc[c])
      <4>1. \A d \in Clients : svc[d] = svc[c] => d = c
        BY <3>1 DEF TruthInv, CalmInv, Apart
      <4>2. QED
        BY <3>1, <4>1 DEF TruthInv, RunningAreLive, Ending
    <3>3. QED
      BY <2>3, <3>1, <3>2 DEF GetState, HasNone, LiveDaemons, procVars
  <2>4. CASE Probe(c)
    <3>1. IsProcessRunning(seen[c]) /\ svc' = svc
      BY <1>0, <1>3, <2>4 DEF Probe, Verdict, Go, Done, Sure, ClientTypeOK
    <3>2. QED
      BY <1>0, <2>4, <3>1
         DEF Probe, PidsBelong, IsProcessRunning, HasNone, LiveDaemons, procVars
  <2>5. QED
    BY <1>0, <1>3, <2>1, <2>2, <2>3, <2>4, StepsByPlace
<1>4. QED
  BY <1>2, <1>3 DEF SureAreRight

(* A daemon that dies has been stopped, and the command that stops it is   *)
(* the only one on its service.                                            *)
LEMMA DeathsAreKnown ==
  ASSUME NoReuse, NoDeaths, TruthInv, NEW p \in Pids, Environment(p)
  PROVE  TermedAreAwaited' /\ RunningAreLive' /\ SureAreRight'
<1>0. /\ TypeOK /\ ProcTypeOK /\ ClientTypeOK /\ PidsBelong
      /\ UNCHANGED <<pc, svc, seen, status>>
  BY DEF TruthInv, IInv, TypeOK, Environment, clientVars, dbVars
<1>1. CASE ~Die(p)
  <2>1. /\ UNCHANGED <<owner, termed>>
        /\ \A q \in Pids : phase'[q] = "dead" <=> phase[q] = "dead"
    BY <1>0, <1>1
       DEF Environment, DaemonStep, OpenPidFile, FlushPidFile, FlushDetached,
           BootFail, WriteLog, Crash, Outsider, NoReuse, NoDeaths, ProcTypeOK
  <2>2. \A n : HasNone(n)' <=> HasNone(n)
    BY <2>1 DEF HasNone, LiveDaemons
  <2>3. TermedAreAwaited'
    BY <1>0, <2>1 DEF TruthInv, TermedAreAwaited, IsProcessRunning
  <2>4. RunningAreLive'
    BY <1>0, <2>2 DEF TruthInv, RunningAreLive, Ending
  <2>5. SureAreRight'
    BY <1>0, <2>2 DEF TruthInv, SureAreRight, HasNone, LiveDaemons
  <2>6. QED
    BY <2>3, <2>4, <2>5
<1>2. CASE Die(p)
  <2>1. PICK c \in Clients : pc[c] = "wait_exit" /\ seen[c] = p
    BY <1>2 DEF Die, TruthInv, TermedAreAwaited
  <2>2. owner[p] = svc[c] /\ svc[c] \in Names
    BY <1>0, <2>1 DEF PidsBelong, ClientTypeOK, Named, Labels
  <2>3. /\ owner' = owner /\ termed' = termed \ {p}
        /\ \A q \in Pids \ {p} : phase'[q] = phase[q]
    BY <1>0, <1>2 DEF Die, ProcTypeOK
  <2>4. \A n : n # svc[c] => (HasNone(n)' <=> HasNone(n))
    BY <2>2, <2>3 DEF HasNone, LiveDaemons
  <2>5. TermedAreAwaited'
    BY <1>0, <2>3 DEF TruthInv, TermedAreAwaited, IsProcessRunning, ProcTypeOK
  <2>6. RunningAreLive'
    BY <1>0, <2>1, <2>4 DEF TruthInv, RunningAreLive, Ending
  <2>7. \A d \in Clients : pc[d] \in Sure => svc[d] # svc[c]
    BY <2>1, <2>2 DEF TruthInv, CalmInv, Apart, Sure
  <2>8. SureAreRight'
    BY <1>0, <2>4, <2>7 DEF TruthInv, SureAreRight, HasNone, LiveDaemons
  <2>9. QED
    BY <2>5, <2>6, <2>8
<1>3. QED
  BY <1>1, <1>2

LEMMA TruthPreserved ==
  ASSUME Calm, NoReuse, NoDeaths
  PROVE  TruthInv /\ Apart' /\ [Next]_vars => TruthInv'
<1> SUFFICES ASSUME TruthInv, Apart', [Next]_vars PROVE TruthInv'
  OBVIOUS
<1>1. CalmInv' /\ IInv'
  BY CalmPreserved, IInvPreserved DEF TruthInv
<1>2. ASSUME NEW c \in Clients, ClientStep(c)
      PROVE  TermedAreAwaited' /\ RunningAreLive' /\ SureAreRight'
  <2>1. TypeOK /\ TermedAreAwaited
    BY DEF TruthInv, IInv
  <2>2. QED
    BY <1>2, <2>1, CommandsAwait, CommandsWriteTruth, CommandsAreSure
<1>3. ASSUME UNCHANGED vars \/ \E c \in Clients : UserStep(c)
      PROVE  TermedAreAwaited' /\ RunningAreLive' /\ SureAreRight'
  <2>0. ClientTypeOK
    BY DEF TruthInv, IInv, TypeOK
  <2>1. UNCHANGED <<status, phase, owner, termed>>
    BY <1>3 DEF vars, UserStep, dbVars, procVars
  <2>2. \A d \in Clients :
          \/ pc'[d] = pc[d] /\ svc'[d] = svc[d] /\ seen'[d] = seen[d]
          \/ pc[d] = "idle"
             /\ pc'[d] \in {"list_services", "stop_get_service", "get_service"}
    BY <1>3, <2>0
       DEF vars, clientVars, UserStep, Begin, Entry, ClientCrash, Calm,
           ClientTypeOK
  <2>3. TermedAreAwaited'
    BY <2>1, <2>2 DEF TruthInv, TermedAreAwaited, IsProcessRunning
  <2>4. RunningAreLive'
    BY <2>1, <2>2
       DEF TruthInv, RunningAreLive, Ending, HasNone, LiveDaemons
  <2>5. SureAreRight'
    <3>1. \A n : HasNone(n)' <=> HasNone(n)
      BY <2>1 DEF HasNone, LiveDaemons
    <3>2. \A d \in Clients :
            pc'[d] \in Sure => svc'[d] = svc[d] /\ ~HasNone(svc[d])
      BY <2>2 DEF TruthInv, SureAreRight, Sure
    <3>3. ASSUME NEW d \in Clients, pc'[d] \in Sure PROVE ~HasNone(svc[d])'
      <4>1. PICK n : n = svc[d] /\ n = svc'[d] /\ ~HasNone(n)
        BY <3>2, <3>3
      <4>2. ~HasNone(n)'
        BY <3>1, <4>1
      <4>3. QED
        BY <4>1, <4>2 DEF HasNone, LiveDaemons
    <3>4. QED
      BY <3>3 DEF SureAreRight
  <2>6. QED
    BY <2>3, <2>4, <2>5
<1>4. ASSUME NEW p \in Pids, Environment(p)
      PROVE  TermedAreAwaited' /\ RunningAreLive' /\ SureAreRight'
  BY <1>4, DeathsAreKnown
<1>5. TermedAreAwaited' /\ RunningAreLive' /\ SureAreRight'
  <2>1. CASE \E c \in Clients : ClientStep(c)
    BY <1>2, <2>1
  <2>2. CASE \E p \in Pids : Environment(p)
    BY <1>4, <2>2
  <2>3. QED
    BY <1>3, <2>1, <2>2 DEF Next
<1>6. QED
  BY <1>1, <1>5 DEF TruthInv

LEMMA TruthInitially == Init => TruthInv
  BY CalmInitially, IInvInitially
     DEF Init, DbInit, ProcInit, TruthInv, TermedAreAwaited, RunningAreLive,
         SureAreRight, Sure

(* "`running`: Service is running" (docs/wiki/Service-Lifecycle.md), as    *)
(* well as "stopped", is the truth where daemons end by a stop only and    *)
(* numbers are not reused: between commands a row says "running" exactly   *)
(* if there is a daemon, and status prints it only if there is one         *)
(* (service_registry.cc:82-98, 255-266, 315-339, 382-386).                 *)
THEOREM StatusIsTheTruth ==
  ASSUME Calm, NoReuse, NoDeaths
  PROVE  Spec /\ []Apart =>
           [](/\ \A n \in Names :
                   ~Busy(n) => (status[n] = "running" <=> LiveDaemons(n) # {})
              /\ \A c \in Clients :
                   pc[c] = "report_running" => LiveDaemons(svc[c]) # {})
<1>1. ASSUME TruthInv, NEW n \in Names, ~Busy(n)
      PROVE  status[n] = "running" <=> LiveDaemons(n) # {}
  <2>1. AtRest(n) /\ ~\E c \in Clients : Ending(c, n)
    BY <1>1, IdleIsAtRest DEF TruthInv, Busy, Ending
  <2>2. QED
    BY <1>1, <2>1
       DEF TruthInv, RunningAreLive, AtRest, Clean, Tracked, HasNone
<1>2. ASSUME TruthInv, NEW c \in Clients, pc[c] = "report_running"
      PROVE  LiveDaemons(svc[c]) # {}
  BY <1>2 DEF TruthInv, SureAreRight, Sure, HasNone
<1>3. TruthInv =>
        /\ \A n \in Names :
             ~Busy(n) => (status[n] = "running" <=> LiveDaemons(n) # {})
        /\ \A c \in Clients :
             pc[c] = "report_running" => LiveDaemons(svc[c]) # {}
  BY <1>1, <1>2
<1>4. QED
  BY <1>3, TruthInitially, TruthPreserved, PTL DEF Spec

-----------------------------------------------------------------------------
(* The refinement: the daemons of each service are counted. *)
Counts == [n \in Names |-> Cardinality(LiveDaemons(n))]

LEMMA SameCounts ==
  ASSUME \A n \in Names : LiveDaemons(n)' = LiveDaemons(n)
  PROVE  Counts' = Counts
  BY DEF Counts

LEMMA CountNone ==
  ASSUME NEW n \in Names, HasNone(n)
  PROVE  Counts[n] = 0
  BY FS_EmptySet DEF HasNone, Counts

(* A step that neither writes a row nor starts or ends a process stutters. *)
LEMMA StutterStep ==
  ASSUME UNCHANGED dbVars, \A n \in Names : LiveDaemons(n)' = LiveDaemons(n)
  PROVE  UNCHANGED Lifecycle!vars
  BY SameCounts DEF Lifecycle!vars, Counts, dbVars

(* A row may be set to "stopped" while the service has no daemon. *)
LEMMA StoppingStep ==
  ASSUME DbTypeOK, NEW n \in Names, HasNone(n), UNCHANGED procVars,
         UNCHANGED dbVars \/ InsertStateRow(n) \/ UpdateState(n, "stopped", NoPid)
  PROVE  [Lifecycle!Next]_(Lifecycle!vars)
<1>1. Counts' = Counts /\ Counts[n] = 0
  BY SameCounts, CountNone DEF LiveDaemons, procVars
<1>2. services' = services
      /\ (status' = status \/ status' = [status EXCEPT ![n] = "stopped"])
  BY DEF InsertStateRow, UpdateState, dbVars
<1>3. CASE status' = status
  BY <1>1, <1>2, <1>3 DEF Lifecycle!vars, Counts
<1>4. CASE status' = [status EXCEPT ![n] = "stopped"]
  BY <1>1, <1>2, <1>4 DEF Lifecycle!RecordStopped, Lifecycle!Next, Counts
<1>5. QED
  BY <1>2, <1>3, <1>4

LEMMA SilentStep ==
  ASSUME TypeOK, NEW c \in Clients,
         \/ GetService(c) \/ GetState(c) \/ Probe(c) \/ ReportRunning(c)
         \/ ListServices(c) \/ ListNext(c) \/ PlatformInstall(c)
         \/ LaunchFails(c) \/ ReadPidFile(c) \/ StopGetService(c)
         \/ StopGetState(c) \/ StopReadPid(c) \/ StopProbe(c) \/ Kill(c)
         \/ WaitExit(c) \/ StopUnlink(c) \/ Uninstall(c)
         \/ RemovePidFile(c) \/ RemoveLogs(c)
  PROVE  UNCHANGED Lifecycle!vars
<1>0. ProcTypeOK
  BY DEF TypeOK
<1>1. CASE StopUnlink(c) \/ RemovePidFile(c)
  <2>1. UNCHANGED dbVars /\ Unlink(svc[c])
    BY <1>1 DEF StopUnlink, RemovePidFile
  <2>2. \A n \in Names : LiveDaemons(n)' = LiveDaemons(n)
    BY <1>0, <2>1 DEF Unlink, LiveDaemons, ProcTypeOK
  <2>3. QED
    BY <2>1, <2>2, StutterStep
<1>2. CASE ~(StopUnlink(c) \/ RemovePidFile(c))
  <2>1. UNCHANGED <<dbVars, phase, owner>>
    BY <1>2
       DEF GetService, GetState, Probe, ReportRunning, ListServices, ListNext,
           PlatformInstall, LaunchFails, ReadPidFile, StopGetService,
           StopGetState, StopReadPid, StopProbe, Kill, SendTerm, WaitExit,
           Uninstall, RemoveLogs, procVars
  <2>2. \A n \in Names : LiveDaemons(n)' = LiveDaemons(n)
    BY <2>1 DEF LiveDaemons
  <2>3. QED
    BY <2>1, <2>2, StutterStep
<1>3. QED
  BY <1>1, <1>2

LEMMA WritingStep ==
  ASSUME Calm, CalmInv, NEW c \in Clients,
         \/ InsertService(c) \/ InsertState(c) \/ Correct(c) \/ StopMark(c)
         \/ StopRecord(c) \/ RecordStart(c) \/ DeleteService(c)
  PROVE  [Lifecycle!Next]_(Lifecycle!vars)
<1>1. pc[c] \in Named
  BY DEF InsertService, InsertState, Correct, StopMark, StopRecord,
         RecordStart, DeleteService, Named, Labels
<1> PICK n \in Names : n = svc[c]
  BY <1>1, CommandFacts
<1>2. n = svc[c] /\ DbTypeOK /\ At(pc[c], n, seen[c])
  BY <1>1, CommandFacts
<1>3. UNCHANGED procVars
  BY DEF InsertService, InsertState, Correct, StopMark, StopRecord,
         RecordStart, DeleteService
<1>4. Counts' = Counts
  BY <1>3, SameCounts DEF LiveDaemons, procVars
<1>5. CASE InsertState(c) \/ Correct(c) \/ StopMark(c) \/ StopRecord(c)
  <2>1. HasNone(n)
    BY <1>2, <1>5
       DEF At, Alone, InsertState, Correct, StopMark, StopRecord
  <2>2. UNCHANGED dbVars \/ InsertStateRow(n) \/ UpdateState(n, "stopped", NoPid)
    BY <1>2, <1>5
       DEF InsertState, Correct, StopMark, StopRecord, TryUpdateState
  <2>3. QED
    BY <1>2, <1>3, <2>1, <2>2, StoppingStep
<1>6. CASE InsertService(c)
  <2>1. Clean(n)
    BY <1>2, <1>6 DEF At, InsertService
  <2>2. InsertServiceRow(n) /\ Counts[n] = 0
    BY <1>2, <1>6, <2>1, CountNone DEF InsertService, Calm, Clean
  <2>3. Lifecycle!Register(n)
    BY <1>4, <2>2 DEF Lifecycle!Register, InsertServiceRow, Counts
  <2>4. QED
    BY <2>3 DEF Lifecycle!Next
<1>7. CASE RecordStart(c)
  <2>1. Read(n, seen[c])
    BY <1>2, <1>7 DEF At, RecordStart
  <2>2. UpdateState(n, "running", seen[c])
    BY <1>2, <1>7 DEF RecordStart, TryUpdateState, Calm
  <2>3. Lifecycle!RecordRunning(n)
    BY <1>4, <2>1, <2>2 DEF Lifecycle!RecordRunning, UpdateState, Read, Counts
  <2>4. QED
    BY <2>3 DEF Lifecycle!Next
<1>8. CASE DeleteService(c)
  <2>1. Tracked(n) /\ HasNone(n)
    BY <1>2, <1>8 DEF At, DeleteService, Knowing, Alone
  <2>2. DeleteServiceRow(n) /\ Counts[n] = 0
    BY <1>2, <1>8, <2>1, CountNone DEF DeleteService, Calm, Tracked
  <2>3. Lifecycle!Unregister(n)
    BY <1>4, <2>2 DEF Lifecycle!Unregister, DeleteServiceRow, Counts
  <2>4. QED
    BY <2>3 DEF Lifecycle!Next
<1>9. QED
  BY <1>5, <1>6, <1>7, <1>8

LEMMA LaunchStep ==
  ASSUME Calm, CalmInv, NEW c \in Clients, NEW p \in Pids, Launch(c, p)
  PROVE  Lifecycle!Next
<1>1. pc[c] \in Named
  BY DEF Launch, Named, Labels
<1> PICK n \in Names : n = svc[c]
  BY <1>1, CommandFacts
<1>2. /\ n = svc[c] /\ ProcTypeOK /\ At(pc[c], n, seen[c])
      /\ Spawn(n, p) /\ UNCHANGED dbVars
  BY <1>1, CommandFacts DEF Launch
<1>3. HasNone(n) /\ n \in services /\ status[n] = "stopped"
  BY <1>2 DEF At, Launch, Knowing, Alone, Tracked
<1>4. LiveDaemons(n)' = {p} /\ \A m \in Names \ {n} : LiveDaemons(m)' = LiveDaemons(m)
  BY <1>2, <1>3 DEF HasNone, LiveDaemons, Spawn, ProcTypeOK
<1>5. Counts[n] = 0 /\ Counts' = [Counts EXCEPT ![n] = 1]
  BY <1>3, <1>4, CountNone, FS_Singleton DEF Counts
<1>6. Lifecycle!Launch(n)
  BY <1>2, <1>3, <1>5 DEF Lifecycle!Launch, Counts, dbVars
<1>7. QED
  BY <1>6 DEF Lifecycle!Next

LEMMA DaemonLifeStep ==
  ASSUME Calm, CalmInv, CalmInv', NEW p \in Pids, Environment(p)
  PROVE  [Lifecycle!Next]_(Lifecycle!vars)
<1>0. TypeOK /\ ProcTypeOK /\ UNCHANGED dbVars
  BY DEF CalmInv, TypeOK, Environment
<1>o. UNCHANGED owner \/ (phase[p] = "dead" /\ owner' = [owner EXCEPT ![p] = NoName])
  BY DEF Environment, DaemonStep, OpenPidFile, FlushPidFile, FlushDetached,
         BootFail, WriteLog, Die, Crash, Outsider
<1>1. CASE phase'[p] # "dead" \/ phase[p] = "dead" \/ owner[p] \notin Names
  <2>1. \A q \in Pids \ {p} : phase'[q] = phase[q]
    BY <1>0 DEF ProcTypeOK, Environment, DaemonStep, OpenPidFile, FlushPidFile,
                FlushDetached, BootFail, WriteLog, Die, Crash, Outsider
  <2>2. phase[p] = "dead" => phase'[p] = "dead" \/ owner'[p] \notin Names
    BY <1>0, ProcessAssumption
       DEF ProcTypeOK, Environment, DaemonStep, OpenPidFile, FlushPidFile,
           FlushDetached, BootFail, WriteLog, Die, Crash, Outsider
  <2>3. \A q \in Pids \ {p} : owner'[q] = owner[q]
    BY <1>0, <1>o DEF ProcTypeOK
  <2>4. phase[p] # "dead" => owner'[p] = owner[p]
    BY <1>o
  <2>5. \A n \in Names : LiveDaemons(n)' = LiveDaemons(n)
    BY <1>0, <1>1, <2>1, <2>2, <2>3, <2>4 DEF LiveDaemons
  <2>6. QED
    BY <1>0, <2>5, StutterStep
<1>2. CASE phase'[p] = "dead" /\ phase[p] # "dead" /\ owner[p] \in Names
  <2> PICK n \in Names : n = owner[p]
    BY <1>2
  <2>1. \A q \in Pids \ {p} : phase'[q] = phase[q]
    BY <1>0 DEF ProcTypeOK, Environment, DaemonStep, OpenPidFile, FlushPidFile,
                FlushDetached, BootFail, WriteLog, Die, Crash, Outsider
  <2>2. p \in LiveDaemons(n) /\ p \notin LiveDaemons(n)'
    BY <1>2 DEF LiveDaemons
  <2>3. \A q \in LiveDaemons(n) : q = p
    BY <2>2, CalmAtMostOne DEF AtMostOneDaemon
  <2>4. LiveDaemons(n) = {p} /\ LiveDaemons(n)' = {}
        /\ \A m \in Names \ {n} : LiveDaemons(m)' = LiveDaemons(m)
    BY <1>0, <1>2, <1>o, <2>1, <2>2, <2>3 DEF LiveDaemons
  <2>5. Counts[n] = 1 /\ Counts' = [Counts EXCEPT ![n] = 0]
    BY <2>4, FS_Singleton, FS_EmptySet DEF Counts
  <2>6. Lifecycle!Exit(n)
    BY <1>0, <2>5 DEF Lifecycle!Exit, Counts, dbVars
  <2>7. QED
    BY <2>6 DEF Lifecycle!Next
<1>3. QED
  BY <1>1, <1>2

LEMMA LifecycleInitially == Init => Lifecycle!Init
<1> SUFFICES ASSUME Init PROVE Lifecycle!Init
  OBVIOUS
<1>1. \A n \in Names : HasNone(n)
  BY DEF Init, ProcInit, HasNone, LiveDaemons
<1>2. Counts = [n \in Names |-> 0]
  BY <1>1, CountNone DEF Counts
<1>3. QED
  BY <1>2 DEF Init, DbInit, Lifecycle!Init, Counts

LEMMA LifecycleStep ==
  ASSUME Calm, CalmInv, CalmInv', [Next]_vars
  PROVE  [Lifecycle!Next]_(Lifecycle!vars)
<1>0. TypeOK
  BY DEF CalmInv
<1>1. ASSUME NEW c \in Clients, ClientStep(c)
      PROVE  [Lifecycle!Next]_(Lifecycle!vars)
  BY <1>0, <1>1, SilentStep, WritingStep, LaunchStep
     DEF ClientStep, RegistryStep, PlatformStep
<1>2. CASE UNCHANGED vars \/ \E c \in Clients : UserStep(c)
  <2>1. UNCHANGED <<dbVars, procVars>>
    BY <1>2 DEF vars, UserStep
  <2>2. \A n \in Names : LiveDaemons(n)' = LiveDaemons(n)
    BY <2>1 DEF LiveDaemons, procVars
  <2>3. QED
    BY <2>1, <2>2, StutterStep
<1>3. QED
  BY <1>1, <1>2, DaemonLifeStep DEF Next

(* The commands implement the life cycle of the documentation: every step  *)
(* of a command or of a daemon is one change of that life cycle or none    *)
(* (docs/wiki/Service-Lifecycle.md, service_registry.cc:101-339).          *)
THEOREM LifecycleIsImplemented ==
  ASSUME Calm
  PROVE  Spec /\ []Apart => ImplementsLifecycle
<1>1. CalmInv /\ CalmInv' /\ [Next]_vars => [Lifecycle!Next]_(Lifecycle!vars)
  BY LifecycleStep
<1>2. QED
  BY <1>1, LifecycleInitially, CalmAlways, PTL
     DEF Spec, ImplementsLifecycle, Lifecycle!Spec

=============================================================================
