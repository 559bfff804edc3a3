--------------------------- MODULE ExecutorProofs ---------------------------
(***************************************************************************)
(* Theorems about Executor, for any process limit, workload, delays and    *)
(* number of lives.                                                        *)
(***************************************************************************)
EXTENDS Executor, TLAPS

(* The numbers and the place of TypeOK, and its Booleans. *)
CountsOK ==
  /\ at \in Places
  /\ armed \in Nat /\ expired \in Nat /\ aborted \in Nat
  /\ delay \in Delays /\ clock \in 0..Horizon
  /\ running \in Nat /\ zombies \in Nat
  /\ quiet \in 0..Horizon
  /\ orphans \in Nat /\ lives \in 1..Lives

FlagsOK ==
  /\ synchronous \in BOOLEAN /\ managed \in BOOLEAN /\ jobcontrol \in BOOLEAN
  /\ stopped \in BOOLEAN
  /\ unlogged \in BOOLEAN

(* Before run nothing has been set on the timer, or started. *)
IdleBeforeRun ==
  at = "start" => armed = 0 /\ expired = 0 /\ aborted = 0 /\ running = 0

(* The loop is inside a command only in synchronous mode, and then no      *)
(* other command of this life runs.                                        *)
OneSyncCommand ==
  /\ at \in {"sync", "log"} => synchronous
  /\ at \in {"fork", "reap1", "reap2"} => ~synchronous
  /\ at = "sync" => running = 1
  /\ synchronous /\ at \notin {"sync", "returned"} => running = 0
  /\ synchronous => running <= 1

TimerInv == CountsOK /\ OneOutstandingWait /\ IdleBeforeRun /\ OneSyncCommand

LEMMA TimerInvInitially == Init => TimerInv
  BY ExecutorAssumption
     DEF Init, TimerInv, CountsOK, OneOutstandingWait, IdleBeforeRun,
         OneSyncCommand, Places

LEMMA ConfigIsFixed == [Next]_vars => UNCHANGED config
  BY DEF Next, LoopStep, CommandEnds, LifeStep, Stop, Pass, Expire, Run, Return,
         Skip, FireSync, SyncCommandEnds, LogAndRegister, FireAsync, Fork,
         ForkFails, ReapFirst, ReapSecond, Reap, AsyncCommandEnds, Killed,
         Restart, OrphanEnds, fixed, vars

(* A tick that is skipped has been the only wait, and leaves the only one. *)
LEMMA SkipReplacesWait ==
  ASSUME TimerInv, Skip
  PROVE  /\ at = "loop" /\ at' = "loop"
         /\ armed' = 1 /\ expired' = 0 /\ aborted' = 0
         /\ delay' \in Delays /\ clock' = 0
         /\ UNCHANGED <<stopped, childVars, pastVars, fixed>>
<1> USE DEF TimerInv, CountsOK, OneOutstandingWait
<1>1. at = "loop" /\ armed + expired + aborted = 1
  BY DEF Skip
<1>2. CASE aborted > 0 /\ RegisterCallback(expired, aborted - 1)
  BY <1>1, <1>2 DEF Skip, RegisterCallback
<1>3. CASE expired > 0 /\ RegisterCallback(expired - 1, aborted)
  BY <1>1, <1>3 DEF Skip, RegisterCallback
<1>4. QED
  BY <1>2, <1>3 DEF Skip

LEMMA TimerInvPreserved == TimerInv /\ [Next]_vars => TimerInv'
<1> SUFFICES ASSUME TimerInv, [Next]_vars PROVE TimerInv'
  OBVIOUS
<1>0. synchronous' = synchronous
  BY ConfigIsFixed DEF config
<1> USE ExecutorAssumption
    DEF TimerInv, CountsOK, OneOutstandingWait, IdleBeforeRun, OneSyncCommand,
        Places
<1>1. CASE Run
  BY <1>0, <1>1 DEF Run, RegisterCallback, childVars, pastVars, fixed, lifeVars
<1>2. CASE Stop \/ Return \/ Killed
  BY <1>0, <1>2 DEF Stop, Return, Killed, timerVars, childVars, pastVars, fixed,
                    lifeVars
<1>3. CASE Pass \/ Expire
  BY <1>0, <1>3 DEF Pass, Expire, Later, childVars, pastVars, fixed, lifeVars
<1>4. CASE Skip
  BY <1>0, <1>4, SkipReplacesWait DEF childVars, pastVars, fixed, lifeVars
<1>5. CASE FireSync
  BY <1>0, <1>5 DEF FireSync, pastVars, fixed, lifeVars
<1>6. CASE SyncCommandEnds
  BY <1>0, <1>6 DEF SyncCommandEnds, timerVars, fixed, lifeVars
<1>7. CASE LogAndRegister
  BY <1>0, <1>7 DEF LogAndRegister, RegisterCallback, childVars, fixed, lifeVars
<1>8. CASE FireAsync
  BY <1>0, <1>8 DEF FireAsync, RegisterCallback, childVars, fixed, lifeVars
<1>9. CASE Fork \/ ForkFails
  BY <1>0, <1>9 DEF Fork, ForkFails, timerVars, childVars, pastVars, fixed, lifeVars
<1>10. CASE ReapFirst \/ ReapSecond
  BY <1>0, <1>10 DEF ReapFirst, ReapSecond, Reap, timerVars, pastVars, fixed,
                     lifeVars
<1>11. CASE AsyncCommandEnds
  BY <1>0, <1>11 DEF AsyncCommandEnds, timerVars, fixed, lifeVars
<1>12. CASE Restart
  BY <1>0, <1>12 DEF Restart
<1>13. CASE OrphanEnds
  BY <1>0, <1>13 DEF OrphanEnds, timerVars, childVars, pastVars
<1>14. CASE UNCHANGED vars
  BY <1>0, <1>14 DEF vars, timerVars, childVars, pastVars, lifeVars
<1>15. QED
  BY <1>1, <1>2, <1>3, <1>4, <1>5, <1>6, <1>7, <1>8, <1>9, <1>10, <1>11, <1>12,
     <1>13, <1>14 DEF Next, LoopStep, CommandEnds, LifeStep

(* There is always exactly one of a pending wait, a completed wait and a   *)
(* handler that has yet to set the timer: no interleaving of expiry, stop, *)
(* kill, skipped ticks and commands starts a second chain of ticks or      *)
(* loses the only one (executor.cc:77-93).                                 *)
THEOREM ExactlyOneWait == Spec => []OneOutstandingWait
<1>1. TimerInv => OneOutstandingWait
  BY DEF TimerInv
<1>2. QED
  BY <1>1, TimerInvInitially, TimerInvPreserved, PTL DEF Spec

(* io_context::run never returns for want of work: only when stop has been *)
(* called, or the daemon killed (executor.cc:29-36).                       *)
THEOREM LoopLastsUntilStopped == Spec => []RunsUntilStopped
<1>1. Init => RunsUntilStopped
  BY DEF Init, RunsUntilStopped
<1>2. TimerInv /\ RunsUntilStopped /\ [Next]_vars => RunsUntilStopped'
  <2> SUFFICES ASSUME TimerInv, RunsUntilStopped, [Next]_vars, at' = "returned"
               PROVE  stopped'
    BY DEF RunsUntilStopped
  <2>1. CASE Return
    <3>1. armed + expired + aborted = 1
      BY <2>1 DEF Return, TimerInv, OneOutstandingWait, CountsOK
    <3>2. QED
      BY <2>1, <3>1 DEF Return
  <2>2. CASE Stop \/ Killed
    BY <2>2 DEF Stop, Killed
  <2>3. CASE UNCHANGED <<at, stopped>>
    BY <2>3 DEF RunsUntilStopped
  <2>4. QED
    BY <2>1, <2>2, <2>3
       DEF Next, LoopStep, CommandEnds, LifeStep, Pass, Expire, Run, Skip,
           FireSync, SyncCommandEnds, LogAndRegister, FireAsync, Fork,
           ForkFails, ReapFirst, ReapSecond, Reap, AsyncCommandEnds, Restart,
           OrphanEnds, vars
<1>3. QED
  BY <1>1, <1>2, TimerInvInitially, TimerInvPreserved, PTL DEF Spec

(* The variables keep their types: no count goes below zero, a reaped      *)
(* zombie or an ended command having been one (executor.cc:84-149).        *)
THEOREM TypeCorrect == Spec => []TypeOK
<1>1. Init => FlagsOK
  BY ExecutorAssumption DEF Init, FlagsOK
<1>2. FlagsOK /\ [Next]_vars => FlagsOK'
  <2> SUFFICES ASSUME FlagsOK, [Next]_vars PROVE FlagsOK'
    OBVIOUS
  <2>1. /\ synchronous' \in BOOLEAN /\ managed' \in BOOLEAN
        /\ jobcontrol' \in BOOLEAN
    BY ConfigIsFixed DEF FlagsOK, config
  <2>2. stopped' \in BOOLEAN /\ unlogged' \in BOOLEAN
    BY DEF Next, LoopStep, CommandEnds, LifeStep, Stop, Pass, Expire, Run,
           Return, Skip, FireSync, SyncCommandEnds, LogAndRegister, FireAsync,
           Fork, ForkFails, ReapFirst, ReapSecond, Reap, AsyncCommandEnds,
           Killed, Restart, OrphanEnds, vars, pastVars, FlagsOK
  <2>3. QED
    BY <2>1, <2>2 DEF FlagsOK
<1>3. TimerInv /\ FlagsOK => TypeOK
  BY DEF TimerInv, CountsOK, FlagsOK, TypeOK
<1>4. QED
  BY <1>1, <1>2, <1>3, TimerInvInitially, TimerInvPreserved, PTL DEF Spec

-----------------------------------------------------------------------------
(* What a synchronous command has printed is held by the loop's thread     *)
(* between the command and the log, and nowhere else.                      *)
OutputInHand == synchronous /\ unlogged => at \in {"log", "returned"}

(* A synchronous managed daemon never waits on its timer, nor starts the   *)
(* next command, before the output of the last one is in the log           *)
(* (executor.cc:105-114).                                                  *)
THEOREM SyncOutputReachesLog == Spec => []SyncOutputIsLogged
<1>1. Init => OutputInHand
  BY DEF Init, OutputInHand
<1>2. TimerInv /\ OutputInHand /\ [Next]_vars => OutputInHand'
  <2> SUFFICES ASSUME TimerInv, OutputInHand, [Next]_vars, synchronous', unlogged'
               PROVE  at' \in {"log", "returned"}
    BY DEF OutputInHand
  <2>0. synchronous
    BY ConfigIsFixed DEF config
  <2>1. at \notin {"fork", "reap1", "reap2"}
    BY <2>0 DEF TimerInv, OneSyncCommand
  <2>2. CASE SyncCommandEnds \/ Return \/ Killed
    BY <2>2 DEF SyncCommandEnds, Return, Killed
  <2>3. CASE Stop \/ Pass \/ Expire \/ OrphanEnds \/ UNCHANGED vars
    BY <2>0, <2>3 DEF Stop, Pass, Expire, OrphanEnds, OutputInHand, vars, pastVars
  <2>4. CASE Run \/ Skip \/ FireSync
    BY <2>0, <2>4 DEF Run, Skip, FireSync, OutputInHand, pastVars
  <2>5. CASE LogAndRegister \/ Restart
    BY <2>5 DEF LogAndRegister, Restart
  <2>6. CASE FireAsync \/ AsyncCommandEnds
    BY <2>0, <2>6 DEF FireAsync, AsyncCommandEnds
  <2>7. CASE Fork \/ ForkFails \/ ReapFirst \/ ReapSecond
    BY <2>1, <2>7 DEF Fork, ForkFails, ReapFirst, ReapSecond, Reap
  <2>8. QED
    BY <2>2, <2>3, <2>4, <2>5, <2>6, <2>7
       DEF Next, LoopStep, CommandEnds, LifeStep
<1>3. OutputInHand => SyncOutputIsLogged
  BY DEF OutputInHand, SyncOutputIsLogged
<1>4. QED
  BY <1>1, <1>2, <1>3, TimerInvInitially, TimerInvPreserved, PTL DEF Spec

-----------------------------------------------------------------------------
(* While the timer is set it has not run for longer than it has been quiet. *)
TimerIsYounger == armed > 0 => quiet >= clock

(* A tick never comes earlier than its delay after the last command of the *)
(* same life has ended, or the tick before it was handled, for any delays  *)
(* and however late anything is (executor.cc:77-82, 105-130).              *)
THEOREM TicksAreSpaced == Spec => []CommandsAreSpaced
<1> DEFINE Spaced == TimerIsYounger /\ CommandsAreSpaced
<1> USE ExecutorAssumption DEF TimerIsYounger, CommandsAreSpaced
<1>1. Init => Spaced
  BY DEF Init
<1>2. TimerInv /\ Spaced /\ [Next]_vars => Spaced'
  <2> SUFFICES ASSUME TimerInv, Spaced, [Next]_vars PROVE Spaced'
    OBVIOUS
  <2> USE DEF TimerInv, CountsOK, OneOutstandingWait
  <2>1. CASE Run
    BY <2>1 DEF Run, RegisterCallback, pastVars, IdleBeforeRun
  <2>2. CASE Stop \/ Return \/ Killed
    BY <2>2 DEF Stop, Return, Killed, timerVars, pastVars
  <2>3. CASE Pass
    BY <2>3 DEF Pass, Later
  <2>4. CASE Expire
    BY <2>4 DEF Expire, pastVars
  <2>5. CASE Skip
    BY <2>5, SkipReplacesWait DEF pastVars
  <2>6. CASE FireSync
    BY <2>6 DEF FireSync, pastVars
  <2>7. CASE SyncCommandEnds
    BY <2>7 DEF SyncCommandEnds, timerVars
  <2>8. CASE LogAndRegister
    BY <2>8 DEF LogAndRegister, RegisterCallback
  <2>9. CASE FireAsync
    BY <2>9 DEF FireAsync, RegisterCallback
  <2>10. CASE Fork \/ ForkFails \/ ReapFirst \/ ReapSecond
    BY <2>10 DEF Fork, ForkFails, ReapFirst, ReapSecond, Reap, timerVars, pastVars
  <2>11. CASE AsyncCommandEnds
    BY <2>11 DEF AsyncCommandEnds, timerVars
  <2>12. CASE Restart
    BY <2>12 DEF Restart
  <2>13. CASE OrphanEnds \/ UNCHANGED vars
    BY <2>13 DEF OrphanEnds, vars, timerVars, pastVars
  <2>14. QED
    BY <2>1, <2>2, <2>3, <2>4, <2>5, <2>6, <2>7, <2>8, <2>9, <2>10, <2>11,
       <2>12, <2>13 DEF Next, LoopStep, CommandEnds, LifeStep
<1>3. QED
  BY <1>1, <1>2, TimerInvInitially, TimerInvPreserved, PTL DEF Spec

-----------------------------------------------------------------------------
(* The lives before this one have left at most one command each. *)
OneOrphanPerLife == synchronous => orphans < lives

(* However often a synchronous service is stopped, killed and started, at  *)
(* most one command per start is running (executor.cc:105-114,             *)
(* service_registry.cc:315).                                               *)
THEOREM OverlapIsBounded == Spec => []OverlapIsOnePerLife
<1>1. Init => OneOrphanPerLife
  BY DEF Init, OneOrphanPerLife
<1>2. TimerInv /\ OneOrphanPerLife /\ [Next]_vars => OneOrphanPerLife'
  <2> SUFFICES ASSUME TimerInv, OneOrphanPerLife, [Next]_vars, synchronous'
               PROVE  orphans' < lives'
    BY DEF OneOrphanPerLife
  <2>0. synchronous
    BY ConfigIsFixed DEF config
  <2>1. CASE Restart
    BY <2>0, <2>1 DEF Restart, OneOrphanPerLife, TimerInv, CountsOK, OneSyncCommand
  <2>2. CASE OrphanEnds
    BY <2>0, <2>2 DEF OrphanEnds, OneOrphanPerLife, TimerInv, CountsOK
  <2>3. CASE UNCHANGED lifeVars
    BY <2>0, <2>3 DEF lifeVars, OneOrphanPerLife
  <2>4. QED
    BY <2>1, <2>2, <2>3
       DEF Next, LoopStep, CommandEnds, LifeStep, Stop, Pass, Expire, Run, Return,
           Skip, FireSync, SyncCommandEnds, LogAndRegister, FireAsync, Fork,
           ForkFails, ReapFirst, ReapSecond, Reap, AsyncCommandEnds, Killed,
           fixed, vars
<1>3. TimerInv /\ OneOrphanPerLife => OverlapIsOnePerLife
  BY DEF TimerInv, CountsOK, OneSyncCommand, OneOrphanPerLife, OverlapIsOnePerLife
<1>4. QED
  BY <1>1, <1>2, <1>3, TimerInvInitially, TimerInvPreserved, PTL DEF Spec

-----------------------------------------------------------------------------
(* No wait is ever cancelled: each is set when the one before is over, so  *)
(* timer_callback never comes to its first branch.                         *)
NeverAborted == aborted = 0

LEMMA NeverAbortedPreserved ==
  TimerInv /\ NeverAborted /\ [Next]_vars => NeverAborted'
<1> SUFFICES ASSUME TimerInv, aborted = 0, [Next]_vars PROVE aborted' = 0
  BY DEF NeverAborted
<1> USE DEF TimerInv, CountsOK, OneOutstandingWait
<1>1. CASE Run \/ LogAndRegister
  BY <1>1 DEF Run, LogAndRegister, RegisterCallback, IdleBeforeRun
<1>2. CASE Skip
  BY <1>2, SkipReplacesWait
<1>3. CASE FireAsync
  BY <1>3 DEF FireAsync, RegisterCallback
<1>4. CASE Restart
  BY <1>4 DEF Restart
<1>5. CASE UNCHANGED aborted
  BY <1>5
<1>6. QED
  BY <1>1, <1>2, <1>3, <1>4, <1>5
     DEF Next, LoopStep, CommandEnds, LifeStep, Stop, Pass, Expire, Return,
         FireSync, SyncCommandEnds, Fork, ForkFails, ReapFirst, ReapSecond,
         Reap, AsyncCommandEnds, Killed, OrphanEnds, vars, timerVars

(* Away from the timer's own steps, the task's timer does not move.        *)
LEMMA SameTimer ==
  ASSUME UNCHANGED <<armed, expired>>,
         at \in {"start", "returned"} <=> at' \in {"start", "returned"}
  PROVE  Timer' = Timer
  BY DEF Timer

(* A step of the loop's thread is one of the task or none.                 *)
LEMMA LoopIsTask ==
  ASSUME TimerInv, NeverAborted, LoopStep, UNCHANGED config
  PROVE  [Task!Next]_(Task!vars)
<1>0. synchronous' = synchronous
  BY DEF config
<1> USE DEF TimerInv, CountsOK, OneOutstandingWait, OneSyncCommand, NeverAborted
<1>1. CASE Run
  <2>1. running = 0 /\ UNCHANGED running
    BY <1>1 DEF Run, childVars, IdleBeforeRun
  <2>2. Task!SwitchOn
    BY <1>0, <1>1, <2>1 DEF Run, RegisterCallback, Timer, Task!SwitchOn
  <2>3. QED
    BY <2>2 DEF Task!Next
<1>2. CASE Return
  <2>1. Task!SwitchOff
    BY <1>0, <1>2 DEF Return, childVars, Timer, Task!SwitchOff
  <2>2. QED
    BY <2>1 DEF Task!Next
<1>3. CASE Skip
  <2>1. expired = 1 /\ armed = 0
    BY <1>3 DEF Skip
  <2>2. Task!Skip
    BY <1>0, <1>3, <2>1, SkipReplacesWait DEF childVars, Timer, Task!Skip
  <2>3. QED
    BY <2>2 DEF Task!Next
<1>4. CASE FireSync
  <2>1. Task!StartAlone
    BY <1>0, <1>4 DEF FireSync, Timer, Task!StartAlone
  <2>2. QED
    BY <2>1 DEF Task!Next
<1>5. CASE LogAndRegister
  <2>1. Task!WindUp
    BY <1>0, <1>5
       DEF LogAndRegister, RegisterCallback, childVars, Timer, Task!WindUp
  <2>2. QED
    BY <2>1 DEF Task!Next
<1>6. CASE FireAsync
  <2>1. Task!Prepare
    BY <1>0, <1>6
       DEF FireAsync, RegisterCallback, childVars, Timer, Task!Prepare
  <2>2. QED
    BY <2>1 DEF Task!Next
<1>7. CASE Fork \/ ForkFails
  <2>1. Timer' = Timer
    BY <1>7, SameTimer DEF Fork, ForkFails, timerVars
  <2>2. Task!StartBeside
    BY <1>0, <1>7, <2>1 DEF Fork, ForkFails, childVars, Task!StartBeside
  <2>3. QED
    BY <2>2 DEF Task!Next
<1>8. CASE ReapFirst \/ ReapSecond
  <2>1. Timer' = Timer
    BY <1>8, SameTimer DEF ReapFirst, ReapSecond, Reap, timerVars
  <2>2. QED
    BY <1>0, <1>8, <2>1 DEF ReapFirst, ReapSecond, Reap, Task!vars
<1>9. QED
  BY <1>1, <1>2, <1>3, <1>4, <1>5, <1>6, <1>7, <1>8 DEF LoopStep

(* So is any other step.                                                   *)
LEMMA OthersAreTask ==
  ASSUME TimerInv, UNCHANGED config,
         Stop \/ Pass \/ Expire \/ CommandEnds \/ LifeStep \/ UNCHANGED vars
  PROVE  [Task!Next]_(Task!vars)
<1>0. synchronous' = synchronous
  BY DEF config
<1> USE DEF TimerInv, CountsOK, OneOutstandingWait, OneSyncCommand
<1>1. CASE Stop \/ Pass \/ OrphanEnds \/ UNCHANGED vars
  <2>1. UNCHANGED <<at, armed, expired, running>>
    BY <1>1 DEF Stop, Pass, OrphanEnds, vars, timerVars, childVars
  <2>2. QED
    BY <1>0, <2>1, SameTimer DEF Task!vars
<1>2. CASE Expire
  <2>1. CASE at \in {"start", "returned"}
    BY <1>0, <1>2, <2>1 DEF Expire, childVars, Timer, Task!vars
  <2>2. CASE at \notin {"start", "returned"}
    <3>1. Task!RunDown
      BY <1>0, <1>2, <2>2 DEF Expire, childVars, Timer, Task!RunDown
    <3>2. QED
      BY <3>1 DEF Task!Next
  <2>3. QED
    BY <2>1, <2>2
<1>3. CASE SyncCommandEnds \/ AsyncCommandEnds
  <2>1. Timer' = Timer
    BY <1>3, SameTimer DEF SyncCommandEnds, AsyncCommandEnds, timerVars
  <2>2. Task!CommandEnds
    BY <1>0, <1>3, <2>1 DEF SyncCommandEnds, AsyncCommandEnds, Task!CommandEnds
  <2>3. QED
    BY <2>2 DEF Task!Next
<1>4. CASE Killed
  <2>1. CASE at = "start"
    BY <1>0, <1>4, <2>1 DEF Killed, childVars, Timer, Task!vars
  <2>2. CASE at # "start"
    <3>1. Task!SwitchOff
      BY <1>0, <1>4, <2>2 DEF Killed, childVars, Timer, Task!SwitchOff
    <3>2. QED
      BY <3>1 DEF Task!Next
  <2>3. QED
    BY <2>1, <2>2
<1>5. CASE Restart
  <2>1. Task!LetGo
    BY <1>0, <1>5 DEF Restart, Timer, Task!LetGo
  <2>2. QED
    BY <2>1 DEF Task!Next
<1>6. QED
  BY <1>1, <1>2, <1>3, <1>4, <1>5 DEF CommandEnds, LifeStep

(* The executor is a periodic task, for any delays, process limit,         *)
(* workload and number of starts: its timer, queued completions and the    *)
(* place of its thread make up one timer, and each time that runs down one *)
(* command is started, or the tick is skipped (executor.cc:77-149).        *)
THEOREM TaskIsImplemented == Spec => ImplementsTask
<1>1. Init => Task!Init /\ NeverAborted
  BY ExecutorAssumption DEF Init, Task!Init, Timer, NeverAborted
<1>2. TimerInv /\ NeverAborted /\ [Next]_vars => [Task!Next]_(Task!vars)
  BY ConfigIsFixed, LoopIsTask, OthersAreTask DEF Next
<1>3. QED
  BY <1>1, <1>2, TimerInvInitially, TimerInvPreserved, NeverAbortedPreserved, PTL
     DEF Spec, ImplementsTask, Task!Spec

-----------------------------------------------------------------------------
(* How many processes a daemon has, its zombies included, when at most K   *)
(* of its commands run at once.  A fork adds one, the waitpid after it     *)
(* takes one away if anything has ended, and if nothing has, all that are  *)
(* there are running.  No command is stopped or continued.                 *)
Children(K) ==
  /\ ~jobcontrol
  /\ running + zombies <= K + (IF at \in {"reap1", "returned"} THEN 1 ELSE 0)
  /\ synchronous => zombies = 0

LEMMA ChildrenPreserved ==
  ASSUME NEW K \in Nat
  PROVE  TimerInv /\ Children(K) /\ running <= K /\ (running <= K)' /\ [Next]_vars
           => Children(K)'
<1> SUFFICES ASSUME TimerInv, Children(K), running <= K, running' <= K,
                    [Next]_vars
             PROVE  Children(K)'
  OBVIOUS
<1>0. /\ running \in Nat /\ zombies \in Nat /\ synchronous' = synchronous
      /\ ~jobcontrol /\ ~jobcontrol'
      /\ at \in {"fork", "reap1", "reap2"} => ~synchronous
  BY ConfigIsFixed DEF TimerInv, CountsOK, OneSyncCommand, Children, config
<1>1. CASE \/ Stop \/ Pass \/ Expire \/ Run \/ Return \/ Skip \/ LogAndRegister
           \/ FireAsync \/ ForkFails \/ Killed \/ OrphanEnds \/ UNCHANGED vars
  <2>1. /\ running' = running /\ zombies' = zombies
        /\ at' = at \/ at' = "returned" \/ at \notin {"reap1", "returned"}
    BY <1>1
       DEF Stop, Pass, Expire, Run, Return, Skip, LogAndRegister, FireAsync,
           ForkFails, Killed, OrphanEnds, vars, childVars
  <2>2. QED
    BY <1>0, <2>1 DEF Children
<1>2. CASE FireSync \/ SyncCommandEnds
  <2>1. /\ synchronous /\ zombies' = zombies
        /\ at' \notin {"reap1", "returned"}
    BY <1>2 DEF FireSync, SyncCommandEnds, TimerInv, OneSyncCommand
  <2>2. zombies = 0
    BY <2>1 DEF Children
  <2>3. CASE SyncCommandEnds
    <3>1. running' + zombies' <= K
      BY <1>0, <2>1, <2>2, <2>3 DEF SyncCommandEnds
    <3>2. QED
      BY <1>0, <2>1, <2>2, <3>1 DEF Children
  <2>4. CASE FireSync
    <3>1. running' = 1
      BY <2>1, <2>4 DEF FireSync, TimerInv, OneSyncCommand
    <3>2. 1 <= K
      BY <3>1, Zenon
    <3>3. running' + zombies' <= K
      BY <2>1, <2>2, <3>1, <3>2
    <3>4. QED
      BY <1>0, <2>1, <2>2, <3>3 DEF Children
  <2>5. QED
    BY <1>2, <2>3, <2>4
<1>3. CASE Fork
  BY <1>0, <1>3 DEF Fork, Children
<1>4. CASE ReapFirst \/ ReapSecond
  BY <1>0, <1>4 DEF ReapFirst, ReapSecond, Reap, Children
<1>5. CASE AsyncCommandEnds
  BY <1>0, <1>5 DEF AsyncCommandEnds, Children
<1>6. CASE Restart
  BY <1>0, <1>6 DEF Restart, Children
<1>7. QED
  BY <1>1, <1>2, <1>3, <1>4, <1>5, <1>6
     DEF Next, LoopStep, CommandEnds, LifeStep

(* Zombies alone never bring a daemon to the limit of its processes: as    *)
(* long as its commands and those that an earlier life has left stay below *)
(* the limit between them, every fork succeeds, however many commands end  *)
(* between two ticks, and so a waitpid follows each of them                *)
(* (executor.cc:117-147).  Only commands that run fill the limit, or that  *)
(* somebody stops and continues, of which a waitpid may hear first.        *)
THEOREM ForksSucceedBelowLimit ==
  ASSUME JobControls = {FALSE}, NEW K \in Nat, NEW M \in Nat, K + M < ProcLimit
  PROVE  Spec /\ [](running <= K /\ orphans <= M) =>
           [](/\ at = "fork" => running + zombies + orphans < ProcLimit
              /\ running + zombies <= K + 1)
<1>1. Init => Children(K)
  BY DEF Init, Children
<1>2. ASSUME TimerInv, Children(K), running <= K /\ orphans <= M
      PROVE  /\ at = "fork" => running + zombies + orphans < ProcLimit
             /\ running + zombies <= K + 1
  BY <1>2, ExecutorAssumption DEF TimerInv, CountsOK, Children
<1>3. running <= K /\ orphans <= M => running <= K
  OBVIOUS
<1>4. QED
  BY <1>1, <1>2, <1>3, TimerInvInitially, TimerInvPreserved, ChildrenPreserved,
     PTL DEF Spec

=============================================================================
