----------------------------- MODULE GuardProofs -----------------------------
(***************************************************************************)
(* Theorems about Guard for every set of workers, wrappers and events.      *)
(***************************************************************************)
EXTENDS Guard, FiniteSetTheorems, TLAPS

-----------------------------------------------------------------------------
(* The inductive invariant                                                  *)

\* No process comes to life.
NoNewWorker == \A w \in Workers : Live(w)' => Live(w)

\* What the environment and the workers are.
WorldOK == WorkerTypeOK /\ WorkTypeOK

\* The guard leaves its loop as soon as there are too many failures.
FailuresBelow == gpc # "quit" => failures < MaxFailures

\* Where the guard clears the paths of an earlier worker, it has none itself.
ClearsWithoutWorker == gpc = "clear" => handle = NoWorker

Inv == TypeOK /\ FailuresBelow /\ ClearsWithoutWorker /\ EveryWorkerIsOwned

-----------------------------------------------------------------------------
(* Lemmas about the operators                                               *)

\* A signal ends workers or makes them stop; it brings none to life.
LEMMA TermTypes ==
  ASSUME WorkerTypeOK, NEW S, worker' = AfterTerm(S)
  PROVE  worker' \in [Workers -> WorkerStates] /\ NoNewWorker
  BY DEF WorkerTypeOK, AfterTerm, WorkerStates, Bound, Live, NoNewWorker

\* Neither does a command, as only a live worker answers.
LEMMA ToldTypes ==
  ASSUME WorkerTypeOK, Answers, NEW s \in WorkerStates, worker' = Told(s)
  PROVE  worker' \in [Workers -> WorkerStates] /\ NoNewWorker
  BY DEF WorkerTypeOK, Answers, Told, WorkerStates, Live, NoNewWorker

\* Neither does a sweep.
LEMMA SweepTypes ==
  ASSUME WorkerTypeOK, NEW S, Sweep(S)
  PROVE  WorkerTypeOK' /\ NoNewWorker
  BY DEF WorkerTypeOK, Sweep, WorkerStates, Live, NoNewWorker

\* A step that leaves the processes alone.
LEMMA SameWorkers ==
  ASSUME worker' = worker
  PROVE  NoNewWorker
  BY DEF NoNewWorker, Live

-----------------------------------------------------------------------------
(* Steps of the environment                                                 *)

\* Every step of a wrapper keeps the types and starts no worker.
LEMMA JobStepTypes ==
  ASSUME WorldOK, NEW j \in Jobs, JobStep(j)
  PROVE  WorldOK' /\ NoNewWorker
<1> USE DEF WorldOK
<1>1. CASE Pulse(j)
  BY <1>1, SameWorkers DEF Pulse, WorkerTypeOK, WorkTypeOK, Goto, JobStates,
     markers, activity, workerVars, UnlinkPaths
<1>2. CASE ReleaseAnswered(j)
  <2>1. (IF mode = "stop" THEN "stopping" ELSE "parked") \in WorkerStates
    BY DEF WorkerStates
  <2> QED
    BY <1>2, <2>1, ToldTypes DEF ReleaseAnswered, WorkerTypeOK, WorkTypeOK, Goto,
       JobStates, markers, activity
<1>3. CASE ReleaseUnanswered(j)
  BY <1>3, TermTypes DEF ReleaseUnanswered, WorkerTypeOK, WorkTypeOK, Goto,
     JobStates, markers, activity
<1>4. CASE Killed(j)
  BY <1>4, SameWorkers DEF Killed, WorkerTypeOK, WorkTypeOK, Goto, JobStates,
     markers, activity, workerVars, UnlinkPaths
<1>5. CASE SweepVisible(j)
  BY <1>5, SweepTypes DEF SweepVisible, WorkTypeOK, Goto, JobStates, markers,
     activity
<1>6. CASE Unlink(j)
  BY <1>6, SameWorkers DEF Unlink, WorkerTypeOK, WorkTypeOK, Goto, JobStates,
     markers, activity, workerVars, UnlinkPaths
<1>7. CASE Enqueue(j)
  BY <1>7, SameWorkers DEF Enqueue, WorkerTypeOK, WorkTypeOK, Goto, JobStates,
     markers, activity, workerVars, UnlinkPaths
<1>8. CASE Lock(j)
  BY <1>8, SameWorkers DEF Lock, WorkerTypeOK, WorkTypeOK, Goto, JobStates,
     markers, activity, workerVars, UnlinkPaths
<1>9. CASE Launch(j)
  BY <1>9, SameWorkers DEF Launch, WorkerTypeOK, WorkTypeOK, Goto, JobStates,
     markers, activity, workerVars, UnlinkPaths
<1>10. CASE Finish(j)
  BY <1>10, SameWorkers DEF Finish, WorkerTypeOK, WorkTypeOK, Goto, JobStates,
     markers, activity, workerVars, UnlinkPaths
<1>11. CASE Release(j)
  BY <1>11, SameWorkers DEF Release, WorkerTypeOK, WorkTypeOK, Goto, JobStates,
     markers, activity, workerVars, UnlinkPaths
<1>12. CASE SetManaged(j)
  BY <1>12, SameWorkers DEF SetManaged, WorkerTypeOK, WorkTypeOK, Goto, JobStates,
     markers, activity, workerVars, UnlinkPaths
<1>13. CASE SetStartup(j)
  BY <1>13, SameWorkers DEF SetStartup, WorkerTypeOK, WorkTypeOK, Goto, JobStates,
     markers, activity, workerVars, UnlinkPaths
<1>14. CASE TouchBusy(j)
  BY <1>14, SameWorkers DEF TouchBusy, WorkerTypeOK, WorkTypeOK, Goto, JobStates,
     markers, activity, workerVars, UnlinkPaths
<1>15. CASE StartBackend(j)
  BY <1>15, SameWorkers DEF StartBackend, WorkerTypeOK, WorkTypeOK, Goto, JobStates,
     markers, activity, workerVars, UnlinkPaths
<1>16. CASE ClearStartup(j)
  BY <1>16, SameWorkers DEF ClearStartup, WorkerTypeOK, WorkTypeOK, Goto, JobStates,
     markers, activity, workerVars, UnlinkPaths
<1>17. CASE OpenProxy(j)
  BY <1>17, SameWorkers DEF OpenProxy, WorkerTypeOK, WorkTypeOK, Goto, JobStates,
     markers, activity, workerVars, UnlinkPaths
<1>18. CASE RequestsBegin(j)
  BY <1>18, SameWorkers DEF RequestsBegin, WorkerTypeOK, WorkTypeOK, Goto, JobStates,
     markers, activity, workerVars, UnlinkPaths
<1>19. CASE RequestsEnd(j)
  BY <1>19, SameWorkers DEF RequestsEnd, WorkerTypeOK, WorkTypeOK, Goto, JobStates,
     markers, activity, workerVars, UnlinkPaths
<1>20. CASE CloseSession(j)
  BY <1>20, SameWorkers DEF CloseSession, WorkerTypeOK, WorkTypeOK, Goto, JobStates,
     markers, activity, workerVars, UnlinkPaths
<1>21. CASE EndStartup(j)
  BY <1>21, SameWorkers DEF EndStartup, WorkerTypeOK, WorkTypeOK, Goto, JobStates,
     markers, activity, workerVars, UnlinkPaths
<1>22. CASE EndBusy(j)
  BY <1>22, SameWorkers DEF EndBusy, WorkerTypeOK, WorkTypeOK, Goto, JobStates,
     markers, activity, workerVars, UnlinkPaths
<1>23. CASE ClearManaged(j)
  BY <1>23, SameWorkers DEF ClearManaged, WorkerTypeOK, WorkTypeOK, Goto, JobStates,
     markers, activity, workerVars, UnlinkPaths
<1>24. CASE ChildEnds(j)
  BY <1>24, SameWorkers DEF ChildEnds, WorkerTypeOK, WorkTypeOK, Goto, JobStates,
     markers, activity, workerVars, UnlinkPaths
<1>25. CASE Replace(j)
  BY <1>25, SameWorkers DEF Replace, WorkerTypeOK, WorkTypeOK, Goto, JobStates,
     markers, activity, workerVars, UnlinkPaths
<1>26. CASE Reclaim(j)
  BY <1>26, SameWorkers DEF Reclaim, WorkerTypeOK, WorkTypeOK, markers, activity, workerVars
<1> QED
  BY <1>1, <1>2, <1>3, <1>4, <1>5, <1>6, <1>7, <1>8, <1>9, <1>10, <1>11, <1>12, <1>13, <1>14,
     <1>15, <1>16, <1>17, <1>18, <1>19, <1>20, <1>21, <1>22, <1>23, <1>24, <1>25, <1>26
     DEF JobStep

\* Whatever happens around the guard, as long as no worker comes to life.
LEMMA AroundTheGuard ==
  ASSUME Inv, WorldOK', NoNewWorker, UNCHANGED guardVars,
         struck \subseteq struck', struck' \subseteq EventKinds, lost' \in BOOLEAN
  PROVE  Inv'
<1>1. TypeOK'
  BY DEF Inv, TypeOK, WorldOK, guardVars, memory
<1>2. FailuresBelow' /\ ClearsWithoutWorker'
  BY DEF Inv, FailuresBelow, ClearsWithoutWorker, guardVars, memory
<1>3. EveryWorkerIsOwned'
  BY DEF Inv, EveryWorkerIsOwned, NoNewWorker, guardVars, memory
<1> QED
  BY <1>1, <1>2, <1>3 DEF Inv

-----------------------------------------------------------------------------
(* Steps of the guard                                                       *)

\* What a step of the guard has to keep, next to its history and its events.
FlagsOK == active \in BOOLEAN /\ dormant \in BOOLEAN

MemoryOK ==
  /\ gpc \in GuardStates
  /\ goal \in {"none", "start", "up", "idle"}
  /\ handle \in Workers \cup {NoWorker}
  /\ known \subseteq Workers \cup Jobs \cup {User}
  /\ before \subseteq Workers \cup Jobs \cup {User}
  /\ failures \in 0 .. MaxFailures
  /\ idle \in {"none", "counting", "over"}
  /\ FailuresBelow
  /\ ClearsWithoutWorker

GuardOK == WorldOK /\ FlagsOK /\ MemoryOK

\* Every step of the guard keeps the types and its two side conditions.
LEMMA GuardStepTypes ==
  ASSUME GuardOK, GuardStep \/ GuardStart \/ IdleElapses
  PROVE  GuardOK'
<1> USE DEF GuardOK, WorldOK, FlagsOK, MemoryOK, GuardStates, FailuresBelow,
            ClearsWithoutWorker
<1>1. CASE GuardStart
  <2>1. WorkerTypeOK'
    BY <1>1 DEF GuardStart, WorkerTypeOK, WorkerStates, workVars, workerVars,
       UnlinkPaths
  <2>2. WorkTypeOK'
    BY <1>1 DEF GuardStart, WorkTypeOK, workVars, markers, activity
  <2>3. FlagsOK'
    BY <1>1 DEF GuardStart, memory, Forget
  <2>4. MemoryOK'
    BY <1>1, FailuresAssumption DEF GuardStart, memory, Forget, WorkTypeOK,
       ComputePids, Bound
  <2> QED
    BY <2>1, <2>2, <2>3, <2>4
<1>2. CASE GuardGone
  <2>1. WorkerTypeOK'
    BY <1>2 DEF GuardGone, WorkerTypeOK, WorkerStates, workVars, workerVars,
       UnlinkPaths
  <2>2. WorkTypeOK'
    BY <1>2 DEF GuardGone, WorkTypeOK, workVars, markers, activity
  <2>3. FlagsOK'
    BY <1>2 DEF GuardGone, memory, Forget
  <2>4. MemoryOK'
    BY <1>2, FailuresAssumption DEF GuardGone, memory, Forget, WorkTypeOK,
       ComputePids, Bound
  <2> QED
    BY <2>1, <2>2, <2>3, <2>4
<1>3. CASE EnsureAlive
  <2>1. WorkerTypeOK'
    BY <1>3 DEF EnsureAlive, WorkerTypeOK, WorkerStates, workerVars, UnlinkPaths
  <2>2. WorkTypeOK'
    BY <1>3 DEF EnsureAlive, WorkTypeOK, workVars, markers, activity
  <2>3. FlagsOK'
    BY <1>3 DEF EnsureAlive, memory
  <2>4. MemoryOK'
    BY <1>3, FailuresAssumption DEF EnsureAlive, memory, WorkTypeOK
  <2> QED
    BY <2>1, <2>2, <2>3, <2>4
<1>4. CASE EnsureClear
  <2>1. WorkerTypeOK'
    BY <1>4, TermTypes DEF EnsureClear, WorkerTypeOK, WorkerStates, workVars, workerVars,
       UnlinkPaths
  <2>2. WorkTypeOK'
    BY <1>4 DEF EnsureClear, WorkTypeOK, workVars, markers, activity
  <2>3. FlagsOK'
    BY <1>4 DEF EnsureClear, memory, Forget
  <2>4. MemoryOK'
    BY <1>4, FailuresAssumption DEF EnsureClear, memory, Forget, WorkTypeOK,
       ComputePids, Bound
  <2> QED
    BY <2>1, <2>2, <2>3, <2>4
<1>5. CASE Ready
  <2>1. WorkerTypeOK'
    BY <1>5 DEF Ready, WorkerTypeOK, WorkerStates, workerVars, UnlinkPaths
  <2>2. WorkTypeOK'
    BY <1>5 DEF Ready, WorkTypeOK, workVars, markers, activity
  <2>3. FlagsOK'
    BY <1>5 DEF Ready, memory
  <2>4. MemoryOK'
    BY <1>5, FailuresAssumption DEF Ready, memory, WorkTypeOK, ComputePids, Bound
  <2> QED
    BY <2>1, <2>2, <2>3, <2>4
<1>6. CASE StartFailed
  <2>1. WorkerTypeOK'
    BY <1>6 DEF StartFailed, WorkerTypeOK, WorkerStates, workerVars, UnlinkPaths
  <2>2. WorkTypeOK'
    BY <1>6 DEF StartFailed, WorkTypeOK, workVars, markers, activity
  <2>3. FlagsOK'
    BY <1>6 DEF StartFailed, memory
  <2>4. MemoryOK'
    BY <1>6, FailuresAssumption DEF StartFailed, memory, WorkTypeOK, HandleLive
  <2> QED
    BY <2>1, <2>2, <2>3, <2>4
<1>7. CASE Activate
  <2>1. WorkerTypeOK'
    BY <1>7, ToldTypes DEF Activate, WorkerTypeOK, WorkerStates, workerVars, UnlinkPaths
  <2>2. WorkTypeOK'
    BY <1>7 DEF Activate, WorkTypeOK, workVars, markers, activity
  <2>3. FlagsOK'
    BY <1>7 DEF Activate, memory
  <2>4. MemoryOK'
    BY <1>7, FailuresAssumption DEF Activate, memory, WorkTypeOK
  <2> QED
    BY <2>1, <2>2, <2>3, <2>4
<1>8. CASE ActivateFails
  <2>1. WorkerTypeOK'
    BY <1>8 DEF ActivateFails, WorkerTypeOK, WorkerStates, workerVars, UnlinkPaths
  <2>2. WorkTypeOK'
    BY <1>8 DEF ActivateFails, WorkTypeOK, workVars, markers, activity
  <2>3. FlagsOK'
    BY <1>8 DEF ActivateFails, memory
  <2>4. MemoryOK'
    BY <1>8, FailuresAssumption DEF ActivateFails, memory, WorkTypeOK
  <2> QED
    BY <2>1, <2>2, <2>3, <2>4
<1>9. CASE First
  <2>1. WorkerTypeOK'
    BY <1>9 DEF First, WorkerTypeOK, WorkerStates, workerVars, UnlinkPaths
  <2>2. WorkTypeOK'
    BY <1>9 DEF First, WorkTypeOK, workVars, markers, activity
  <2>3. FlagsOK'
    BY <1>9 DEF First, memory
  <2>4. MemoryOK'
    BY <1>9, FailuresAssumption DEF First, memory, WorkTypeOK
  <2> QED
    BY <2>1, <2>2, <2>3, <2>4
<1>10. CASE Poll
  <2>1. WorkerTypeOK'
    BY <1>10 DEF Poll, WorkerTypeOK, WorkerStates, workVars, workerVars,
       UnlinkPaths, News
  <2>2. WorkTypeOK'
    BY <1>10 DEF Poll, WorkTypeOK, workVars, markers, activity, News
  <2>3. FlagsOK'
    BY <1>10 DEF Poll, memory, Forget, News
  <2>4. MemoryOK'
    BY <1>10, FailuresAssumption DEF Poll, memory, Forget, WorkTypeOK,
       ComputePids, Bound, News
  <2> QED
    BY <2>1, <2>2, <2>3, <2>4
<1>11. CASE Refresh
  <2>1. WorkerTypeOK'
    BY <1>11 DEF Refresh, WorkerTypeOK, WorkerStates, workVars, workerVars,
       UnlinkPaths, HandleLive
  <2>2. WorkTypeOK'
    BY <1>11 DEF Refresh, WorkTypeOK, workVars, markers, activity, HandleLive
  <2>3. FlagsOK'
    BY <1>11 DEF Refresh, memory, Forget, HandleLive
  <2>4. MemoryOK'
    BY <1>11, FailuresAssumption DEF Refresh, memory, Forget, WorkTypeOK,
       ComputePids, Bound, HandleLive
  <2> QED
    BY <2>1, <2>2, <2>3, <2>4
<1>12. CASE DecideBusy
  <2>1. WorkerTypeOK'
    BY <1>12 DEF DecideBusy, WorkerTypeOK, WorkerStates, workVars, workerVars,
       UnlinkPaths
  <2>2. WorkTypeOK'
    BY <1>12 DEF DecideBusy, WorkTypeOK, workVars, markers, activity
  <2>3. FlagsOK'
    BY <1>12 DEF DecideBusy, memory, Forget
  <2>4. MemoryOK'
    BY <1>12, FailuresAssumption DEF DecideBusy, memory, Forget, WorkTypeOK,
       ComputePids, Bound, ReleaseState
  <2> QED
    BY <2>1, <2>2, <2>3, <2>4
<1>13. CASE DecideServeIdle
  <2>1. WorkerTypeOK'
    BY <1>13 DEF DecideServeIdle, WorkerTypeOK, workerVars
  <2>2. WorkTypeOK'
    BY <1>13 DEF DecideServeIdle, WorkTypeOK, workVars, markers, activity
  <2>3. FlagsOK'
    BY <1>13 DEF DecideServeIdle, memory
  <2>4. MemoryOK'
    BY <1>13 DEF DecideServeIdle, memory
  <2> QED
    BY <2>1, <2>2, <2>3, <2>4
<1>14. CASE DecideDormant
  <2>1. WorkerTypeOK'
    BY <1>14 DEF DecideDormant, WorkerTypeOK, workerVars
  <2>2. WorkTypeOK'
    BY <1>14 DEF DecideDormant, WorkTypeOK, workVars, markers, activity
  <2>3. FlagsOK'
    BY <1>14 DEF DecideDormant, memory
  <2>4. MemoryOK'
    BY <1>14 DEF DecideDormant, memory, ReleaseState
  <2> QED
    BY <2>1, <2>2, <2>3, <2>4
<1>15. CASE DecideIdle
  <2>1. WorkerTypeOK'
    BY <1>15 DEF DecideIdle, WorkerTypeOK, workerVars
  <2>2. WorkTypeOK'
    BY <1>15 DEF DecideIdle, WorkTypeOK, workVars, markers, activity
  <2>3. FlagsOK'
    BY <1>15 DEF DecideIdle, memory
  <2>4. MemoryOK'
    BY <1>15 DEF DecideIdle, memory
  <2> QED
    BY <2>1, <2>2, <2>3, <2>4
<1>16. CASE Tire
  <2>1. WorkerTypeOK'
    BY <1>16 DEF Tire, WorkerTypeOK, WorkerStates, workVars, workerVars,
       UnlinkPaths
  <2>2. WorkTypeOK'
    BY <1>16 DEF Tire, WorkTypeOK, workVars, markers, activity
  <2>3. FlagsOK'
    BY <1>16 DEF Tire, memory, Forget
  <2>4. MemoryOK'
    BY <1>16, FailuresAssumption DEF Tire, memory, Forget, WorkTypeOK,
       ComputePids, Bound, ReleaseState
  <2> QED
    BY <2>1, <2>2, <2>3, <2>4
<1>17. CASE IdleElapses
  <2>1. WorkerTypeOK'
    BY <1>17 DEF IdleElapses, WorkerTypeOK, workerVars
  <2>2. WorkTypeOK'
    BY <1>17 DEF IdleElapses, WorkTypeOK, workVars, markers, activity
  <2>3. FlagsOK'
    BY <1>17 DEF IdleElapses, memory
  <2>4. MemoryOK'
    BY <1>17 DEF IdleElapses, memory
  <2> QED
    BY <2>1, <2>2, <2>3, <2>4
<1>18. CASE Stop
  <2>1. WorkerTypeOK'
    BY <1>18, TermTypes, ToldTypes DEF Stop, WorkerTypeOK, WorkerStates, workerVars, UnlinkPaths
  <2>2. WorkTypeOK'
    BY <1>18 DEF Stop, WorkTypeOK, workVars, markers, activity
  <2>3. FlagsOK'
    BY <1>18 DEF Stop, memory
  <2>4. MemoryOK'
    BY <1>18, FailuresAssumption DEF Stop, memory, WorkTypeOK
  <2> QED
    BY <2>1, <2>2, <2>3, <2>4
<1>19. CASE Reap
  <2>1. WorkerTypeOK'
    BY <1>19 DEF Reap, WorkerTypeOK, WorkerStates, workerVars, UnlinkPaths
  <2>2. WorkTypeOK'
    BY <1>19 DEF Reap, WorkTypeOK, workVars, markers, activity
  <2>3. FlagsOK'
    BY <1>19 DEF Reap, memory
  <2>4. MemoryOK'
    BY <1>19, FailuresAssumption DEF Reap, memory, WorkTypeOK
  <2> QED
    BY <2>1, <2>2, <2>3, <2>4
<1>20. CASE Park
  <2>1. WorkerTypeOK'
    BY <1>20, ToldTypes DEF Park, WorkerTypeOK, WorkerStates, workVars, workerVars,
       UnlinkPaths
  <2>2. WorkTypeOK'
    BY <1>20 DEF Park, WorkTypeOK, workVars, markers, activity
  <2>3. FlagsOK'
    BY <1>20 DEF Park, memory, Forget
  <2>4. MemoryOK'
    BY <1>20, FailuresAssumption DEF Park, memory, Forget, WorkTypeOK,
       ComputePids, Bound
  <2> QED
    BY <2>1, <2>2, <2>3, <2>4
<1>21. CASE ParkFails
  <2>1. WorkerTypeOK'
    BY <1>21, TermTypes DEF ParkFails, WorkerTypeOK, WorkerStates, workVars, workerVars,
       UnlinkPaths
  <2>2. WorkTypeOK'
    BY <1>21 DEF ParkFails, WorkTypeOK, workVars, markers, activity
  <2>3. FlagsOK'
    BY <1>21 DEF ParkFails, memory, Forget
  <2>4. MemoryOK'
    BY <1>21, FailuresAssumption DEF ParkFails, memory, Forget, WorkTypeOK,
       ComputePids, Bound
  <2> QED
    BY <2>1, <2>2, <2>3, <2>4
<1>22. CASE ParkKilled
  <2>1. WorkerTypeOK'
    BY <1>22 DEF ParkKilled, WorkerTypeOK, WorkerStates, workerVars, UnlinkPaths
  <2>2. WorkTypeOK'
    BY <1>22 DEF ParkKilled, WorkTypeOK, workVars, markers, activity
  <2>3. FlagsOK'
    BY <1>22 DEF ParkKilled, memory
  <2>4. MemoryOK'
    BY <1>22, FailuresAssumption DEF ParkKilled, memory, WorkTypeOK
  <2> QED
    BY <2>1, <2>2, <2>3, <2>4
<1>23. CASE ParkSweep
  <2>1. WorkerTypeOK'
    BY <1>23, SweepTypes DEF ParkSweep, WorkerTypeOK, WorkerStates, workerVars, UnlinkPaths
  <2>2. WorkTypeOK'
    BY <1>23 DEF ParkSweep, WorkTypeOK, workVars, markers, activity
  <2>3. FlagsOK'
    BY <1>23 DEF ParkSweep, memory
  <2>4. MemoryOK'
    BY <1>23, FailuresAssumption DEF ParkSweep, memory, WorkTypeOK
  <2> QED
    BY <2>1, <2>2, <2>3, <2>4
<1>24. CASE \E w \in Workers : Spawn(w)
  <2>1. WorkerTypeOK'
    BY <1>24 DEF Spawn, WorkerTypeOK, WorkerStates, workVars, workerVars,
       UnlinkPaths
  <2>2. WorkTypeOK'
    BY <1>24 DEF Spawn, WorkTypeOK, workVars, markers, activity
  <2>3. FlagsOK'
    BY <1>24 DEF Spawn, memory, Forget
  <2>4. MemoryOK'
    BY <1>24, FailuresAssumption DEF Spawn, memory, Forget, WorkTypeOK,
       ComputePids, Bound
  <2> QED
    BY <2>1, <2>2, <2>3, <2>4
<1>25. CASE GiveUp(FALSE)
  BY <1>25, TermTypes DEF GiveUp, WorkerTypeOK, WorkTypeOK, workVars, memory, markers, activity
<1> QED
  BY <1>1, <1>2, <1>3, <1>4, <1>5, <1>6, <1>7, <1>8, <1>9, <1>10, <1>11, <1>12, <1>13, <1>14,
     <1>15, <1>16, <1>17, <1>18, <1>19, <1>20, <1>21, <1>22, <1>23, <1>24, <1>25 DEF GuardStep

-----------------------------------------------------------------------------
(* Ownership                                                                *)

\* A step that starts no worker and keeps the handle keeps the ownership.
LEMMA SameHandle ==
  ASSUME Inv, NoNewWorker, handle' = handle, struck \subseteq struck'
  PROVE  EveryWorkerIsOwned'
  BY DEF Inv, EveryWorkerIsOwned, NoNewWorker

\* So does one that leaves no worker.
LEMMA NobodyLeft ==
  ASSUME \A w \in Workers : worker'[w] = "none"
  PROVE  EveryWorkerIsOwned'
  BY DEF EveryWorkerIsOwned, Live

\* Before the guard starts a worker, and where it drops its handle, none is there
\* unless a guard was killed.
Unkilled == struck \cap {"guardkill", "killstart"} = {}

LEMMA NoneWithoutHandle ==
  ASSUME Inv, Unkilled, ~HandleLive
  PROVE  \A w \in Workers : worker[w] = "none"
  BY DEF Inv, Unkilled, EveryWorkerIsOwned, HandleLive, Live

\* Every step of the guard keeps the ownership.
LEMMA GuardStepOwned ==
  ASSUME Inv, GuardStep \/ GuardStart \/ IdleElapses, UNCHANGED struck
  PROVE  EveryWorkerIsOwned'
<1> SUFFICES ASSUME Unkilled
             PROVE  EveryWorkerIsOwned'
  BY DEF EveryWorkerIsOwned, Unkilled
<1>0. WorkerTypeOK
  BY DEF Inv, TypeOK
<1>1. CASE EnsureAlive \/ Ready \/ ActivateFails \/ First \/ Poll \/ DecideBusy
             \/ DecideServeIdle \/ DecideDormant \/ DecideIdle \/ Tire \/ ParkKilled
             \/ GuardStart \/ IdleElapses
  BY <1>1, SameWorkers, SameHandle DEF EnsureAlive, Ready, ActivateFails, First, Poll,
     DecideBusy, DecideServeIdle, DecideDormant, DecideIdle, Tire, ParkKilled,
     GuardStart, IdleElapses, workerVars, memory
<1>2. CASE EnsureClear
  BY <1>0, <1>2, TermTypes, SameHandle DEF EnsureClear, memory, WorkerStates
<1>3. CASE GiveUp(FALSE)
  BY <1>0, <1>3, TermTypes, SameHandle DEF GiveUp, memory, WorkerStates
<1>4. CASE Activate
  BY <1>0, <1>4, ToldTypes, SameHandle DEF Activate, memory, WorkerStates
<1>5. CASE Park
  BY <1>0, <1>5, ToldTypes, SameHandle DEF Park, memory, WorkerStates
<1>6. CASE ParkFails
  BY <1>0, <1>6, TermTypes, SameHandle DEF ParkFails, memory, WorkerStates
<1>7. CASE ParkSweep
  BY <1>0, <1>7, SweepTypes, SameHandle DEF ParkSweep, memory, WorkerStates
<1>8. CASE Stop
  BY <1>0, <1>8, TermTypes, ToldTypes, SameWorkers, SameHandle DEF Stop, memory, WorkerStates
<1>9. CASE \E w \in Workers : Spawn(w)
  <2>1. PICK w \in Workers : Spawn(w)
    BY <1>9
  <2>2. ~HandleLive
    BY <2>1, NamesAssumption DEF Spawn, HandleLive, Inv, ClearsWithoutWorker
  <2>3. \A v \in Workers : Live(v)' => v = w
    BY <1>0, <2>1, <2>2, NoneWithoutHandle DEF Spawn, Live, WorkerTypeOK
  <2> QED
    BY <2>1, <2>3 DEF Spawn, EveryWorkerIsOwned
<1>10. CASE StartFailed
  BY <1>10, NoneWithoutHandle, NobodyLeft DEF StartFailed, workerVars
<1>11. CASE Refresh
  <2>1. CASE HandleLive
    BY <1>11, <2>1, SameWorkers, SameHandle DEF Refresh
  <2>2. CASE ~HandleLive
    BY <1>11, <2>2, NoneWithoutHandle, NobodyLeft DEF Refresh
  <2> QED
    BY <2>1, <2>2
<1>12. CASE Reap
  BY <1>0, <1>12, NobodyLeft DEF Reap, Inv, EveryWorkerIsOwned, Unkilled, Live, WorkerTypeOK
<1>13. CASE GuardGone
  BY <1>0, <1>13, NobodyLeft DEF GuardGone, Inv, EveryWorkerIsOwned, Unkilled, Live, WorkerTypeOK
<1> QED
  BY <1>1, <1>2, <1>3, <1>4, <1>5, <1>6, <1>7, <1>8, <1>9, <1>10, <1>11, <1>12, <1>13 DEF GuardStep

-----------------------------------------------------------------------------
(* Every step                                                               *)

\* The invariant, taken apart into what the lemmas speak of.
LEMMA InvParts ==
  Inv <=> /\ GuardOK
          /\ struck \subseteq EventKinds
          /\ lost \in BOOLEAN
          /\ EveryWorkerIsOwned
  BY DEF Inv, TypeOK, GuardOK, WorldOK, FlagsOK, MemoryOK

\* Workers that load and leave.
LEMMA WorkerStepTypes ==
  ASSUME WorldOK, NEW w \in Workers, WorkerStep(w)
  PROVE  WorldOK' /\ NoNewWorker
<1>1. WorkTypeOK'
  BY DEF WorldOK, WorkerStep, WorkTypeOK, workVars, markers, activity
<1>2. CASE Bind(w)
  BY <1>1, <1>2 DEF WorldOK, WorkerTypeOK, Bind, WorkerStates, NoNewWorker, Live
<1>3. CASE Leave(w)
  BY <1>1, <1>3 DEF WorldOK, WorkerTypeOK, Leave, WorkerStates, NoNewWorker, Live
<1> QED
  BY <1>2, <1>3 DEF WorkerStep

\* An event happens once, and is recorded.
LEMMA StrikeTypes ==
  ASSUME struck \subseteq EventKinds, NEW kind, Strike(kind)
  PROVE  struck \subseteq struck' /\ struck' \subseteq EventKinds /\ kind \in struck'
  BY EventsAssumption DEF Strike

\* Whatever goes wrong, except in the guard itself, is a step around it.
LEMMA EventTypes ==
  ASSUME Inv, Event, lost' \in BOOLEAN
  PROVE  Inv'
<1>1. GuardOK /\ WorldOK /\ WorkerTypeOK /\ WorkTypeOK /\ struck \subseteq EventKinds
  BY InvParts DEF GuardOK, WorldOK
<1>2. CASE Strike("user") /\ UserStart /\ UNCHANGED guardVars
  <2>1. WorldOK' /\ NoNewWorker
    BY <1>1, <1>2, SameWorkers DEF UserStart, WorldOK, WorkerTypeOK, WorkTypeOK, workerVars,
       markers, activity
  <2> QED
    BY <1>1, <1>2, <2>1, StrikeTypes, AroundTheGuard
<1>3. CASE Strike("tired") /\ Tires /\ UNCHANGED guardVars
  <2>1. WorldOK' /\ NoNewWorker
    BY <1>1, <1>3, SameWorkers DEF Tires, WorldOK, WorkerTypeOK, WorkTypeOK, workerVars,
       markers
  <2> QED
    BY <1>1, <1>3, <2>1, StrikeTypes, AroundTheGuard
<1>4. CASE \E j \in Jobs : Strike("kill") /\ Kill(j) /\ UNCHANGED guardVars
  <2>1. WorldOK' /\ NoNewWorker
    BY <1>1, <1>4, SameWorkers DEF Kill, Goto, JobStates, WorldOK, WorkerTypeOK, WorkTypeOK,
       workerVars, markers, activity
  <2> QED
    BY <1>1, <1>4, <2>1, StrikeTypes, AroundTheGuard
<1>5. CASE \E j \in Jobs : Strike("hangup") /\ Hangup(j) /\ UNCHANGED guardVars
  <2>1. WorldOK' /\ NoNewWorker
    BY <1>1, <1>5, SameWorkers DEF Hangup, Goto, JobStates, WorldOK, WorkerTypeOK, WorkTypeOK,
       workerVars, markers, activity
  <2> QED
    BY <1>1, <1>5, <2>1, StrikeTypes, AroundTheGuard
<1>6. CASE \E w \in Workers : Strike("die") /\ Dies(w) /\ UNCHANGED <<workVars, guardVars>>
  <2>1. WorldOK' /\ NoNewWorker
    BY <1>1, <1>6 DEF Dies, WorldOK, WorkerTypeOK, WorkerStates, WorkTypeOK, workVars, markers,
       activity, NoNewWorker, Live
  <2> QED
    BY <1>1, <1>6, <2>1, StrikeTypes, AroundTheGuard
<1>7. CASE \E w \in Workers : /\ Strike("loadfails") /\ LoadFails(w)
                              /\ UNCHANGED <<workVars, guardVars>>
  <2>1. WorldOK' /\ NoNewWorker
    BY <1>1, <1>7 DEF LoadFails, WorldOK, WorkerTypeOK, WorkerStates, WorkTypeOK, workVars,
       markers, activity, NoNewWorker, Live
  <2> QED
    BY <1>1, <1>7, <2>1, StrikeTypes, AroundTheGuard
<1>8. CASE Strike("slowstart") /\ GiveUp(TRUE)
  <2>1. WorldOK' /\ NoNewWorker
    BY <1>1, <1>8, TermTypes DEF GiveUp, WorldOK, WorkerTypeOK, WorkTypeOK, workVars, markers,
       activity
  <2>2. FlagsOK' /\ MemoryOK' /\ handle' = handle
    BY <1>1, <1>8 DEF GiveUp, GuardOK, FlagsOK, MemoryOK, GuardStates, FailuresBelow,
       ClearsWithoutWorker, memory
  <2>3. struck \subseteq struck' /\ struck' \subseteq EventKinds
    BY <1>1, <1>8, StrikeTypes
  <2>4. EveryWorkerIsOwned'
    BY <2>1, <2>2, <2>3, SameHandle
  <2> QED
    BY <2>1, <2>2, <2>3, <2>4 DEF Inv, TypeOK, WorldOK, FlagsOK, MemoryOK
<1>9. CASE Strike("nomemory") /\ ActivateRaises
  <2>1. WorldOK' /\ NoNewWorker
    BY <1>1, <1>9, ToldTypes DEF ActivateRaises, WorldOK, WorkerTypeOK, WorkerStates,
       WorkTypeOK, workVars, markers, activity
  <2>2. FlagsOK' /\ MemoryOK' /\ handle' = handle
    BY <1>1, <1>9 DEF ActivateRaises, GuardOK, FlagsOK, MemoryOK, GuardStates, FailuresBelow,
       ClearsWithoutWorker
  <2>3. struck \subseteq struck' /\ struck' \subseteq EventKinds
    BY <1>1, <1>9, StrikeTypes
  <2>4. EveryWorkerIsOwned'
    BY <2>1, <2>2, <2>3, SameHandle
  <2> QED
    BY <2>1, <2>2, <2>3, <2>4 DEF Inv, TypeOK, WorldOK, FlagsOK, MemoryOK
<1>10. CASE Strike("guardstop") /\ GuardStop
  <2>1. WorldOK' /\ NoNewWorker
    BY <1>1, <1>10, TermTypes, ToldTypes, SameWorkers DEF GuardStop, WorldOK, WorkerTypeOK,
       WorkerStates, WorkTypeOK, workVars, markers, activity
  <2>2. FlagsOK' /\ MemoryOK' /\ handle' = handle
    BY <1>1, <1>10 DEF GuardStop, GuardOK, FlagsOK, MemoryOK, GuardStates, FailuresBelow,
       ClearsWithoutWorker, memory
  <2>3. struck \subseteq struck' /\ struck' \subseteq EventKinds
    BY <1>1, <1>10, StrikeTypes
  <2>4. EveryWorkerIsOwned'
    BY <2>1, <2>2, <2>3, SameHandle
  <2> QED
    BY <2>1, <2>2, <2>3, <2>4 DEF Inv, TypeOK, WorldOK, FlagsOK, MemoryOK
<1>11. CASE Strike(IF gpc = "wait" THEN "killstart" ELSE "guardkill") /\ GuardKill
  <2>1. WorldOK'
    BY <1>1, <1>11 DEF GuardKill, WorldOK, WorkerTypeOK, WorkTypeOK, workerVars, workVars,
       markers, activity
  <2>2. FlagsOK'
    BY <1>11 DEF GuardKill, Forget, FlagsOK
  <2>3. MemoryOK'
    BY <1>11, FailuresAssumption DEF GuardKill, Forget, MemoryOK, GuardStates, FailuresBelow,
       ClearsWithoutWorker
  <2>4. /\ struck' \subseteq EventKinds
        /\ (IF gpc = "wait" THEN "killstart" ELSE "guardkill") \in struck'
    BY <1>1, <1>11, StrikeTypes
  <2>5. EveryWorkerIsOwned'
    BY <2>4 DEF EveryWorkerIsOwned
  <2> QED
    BY <2>1, <2>2, <2>3, <2>4, <2>5 DEF Inv, TypeOK, WorldOK, FlagsOK, MemoryOK
<1> QED
  BY <1>2, <1>3, <1>4, <1>5, <1>6, <1>7, <1>8, <1>9, <1>10, <1>11 DEF Event

\* Nothing has been started, and nothing has gone wrong.
LEMMA InitInv == Init => Inv
<1> SUFFICES ASSUME Init
             PROVE  Inv
  OBVIOUS
<1>1. WorldOK
  BY DEF Init, WorldOK, WorkerInit, WorkerTypeOK, WorkerStates, WorkInit, WorkTypeOK, JobStates
<1>2. FlagsOK
  BY DEF Init, FlagsOK
<1>3. MemoryOK
  BY FailuresAssumption DEF Init, MemoryOK, GuardStates, FailuresBelow, ClearsWithoutWorker
<1>4. EveryWorkerIsOwned
  BY DEF Init, WorkerInit, EveryWorkerIsOwned, Live
<1> QED
  BY <1>1, <1>2, <1>3, <1>4 DEF Init, Inv, TypeOK, WorldOK, FlagsOK, MemoryOK

\* The invariant is inductive.
LEMMA NextInv == Inv /\ [Next]_<<vars, lost>> => Inv'
<1> SUFFICES ASSUME Inv, [Next]_<<vars, lost>>
             PROVE  Inv'
  OBVIOUS
<1>1. GuardOK /\ WorldOK /\ struck \subseteq EventKinds /\ lost \in BOOLEAN
  BY InvParts DEF GuardOK
<1>2. CASE UNCHANGED <<vars, lost>>
  <2>1. WorldOK' /\ NoNewWorker
    BY <1>1, <1>2, SameWorkers DEF vars, workVars, workerVars, markers, activity, WorldOK,
       WorkerTypeOK, WorkTypeOK
  <2> QED
    BY <1>1, <1>2, <2>1, AroundTheGuard DEF vars
<1>3. CASE Next
  <2>1. lost' \in BOOLEAN
    BY <1>3 DEF Next
  <2>2. CASE (GuardStart \/ GuardStep \/ IdleElapses) /\ UNCHANGED struck
    <3>1. GuardOK'
      BY <1>1, <2>2, GuardStepTypes
    <3>2. EveryWorkerIsOwned'
      BY <2>2, GuardStepOwned
    <3> QED
      BY <1>1, <2>1, <2>2, <3>1, <3>2
         DEF Inv, TypeOK, GuardOK, WorldOK, FlagsOK, MemoryOK
  <2>3. CASE \E w \in Workers : WorkerStep(w)
    BY <1>1, <2>1, <2>3, WorkerStepTypes, AroundTheGuard DEF WorkerStep
  <2>4. CASE \E j \in Jobs : JobStep(j) /\ UNCHANGED <<guardVars, struck>>
    BY <1>1, <2>1, <2>4, JobStepTypes, AroundTheGuard
  <2>5. CASE UserEnd /\ UNCHANGED <<guardVars, struck>>
    <3>1. WorldOK' /\ NoNewWorker
      BY <1>1, <2>5, SameWorkers DEF UserEnd, WorldOK, WorkerTypeOK, WorkTypeOK, workerVars,
         markers, activity
    <3> QED
      BY <1>1, <2>1, <2>5, <3>1, AroundTheGuard
  <2>6. CASE Event
    BY <2>1, <2>6, EventTypes
  <2> QED
    BY <1>3, <2>2, <2>3, <2>4, <2>5, <2>6 DEF Next
<1> QED
  BY <1>2, <1>3

\* In every reachable state the invariant holds.
LEMMA InvHolds == Spec => []Inv
  BY InitInv, NextInv, PTL DEF Spec

-----------------------------------------------------------------------------
(* Theorems                                                                 *)

\* The types, whatever strikes.
THEOREM TypeCorrect == Spec => []TypeOK
<1>1. Inv => TypeOK
  BY DEF Inv
<1> QED
  BY <1>1, InvHolds, PTL

\* Unless a guard is killed, or stopped between Popen and the assignment of the handle,
\* it owns every worker there is, through failing starts, deaths, releases by anybody
\* and stops: none leaks (guard.py).
THEOREM EveryWorkerIsOwnedHolds == Spec => []EveryWorkerIsOwned
<1>1. Inv => EveryWorkerIsOwned
  BY DEF Inv
<1> QED
  BY <1>1, InvHolds, PTL
-----------------------------------------------------------------------------
(* One worker, although a guard is killed                                   *)

Up(w)      == worker[w] \in {"parked", "active"}
Loading(w) == worker[w] = "loading"

\* A worker loads only while its guard waits for it, and nobody is bound.
LoadsWaitedFor == \A w \in Workers : Loading(w) => gpc = "wait" /\ handle = w /\ sock = NoWorker

\* The socket of a guard that has a worker is that worker's, once it is bound.
SocketOfHandle == handle \in Workers => sock \in {handle, NoWorker, Gone}

\* Whoever answered has been told to go when the paths are cleared.
ClearIsSilent == gpc = "clear" => ~Answers

\* No stray is overlooked: one that hides before it is looked for is in `lost`,
\* and so there is one worker at most, and none beside the guard's own.
StrayIsMet ==
  /\ LostBefore => lost
  /\ ~lost => /\ \A v, w \in Workers : Up(v) /\ Up(w) => v = w
              /\ handle \in Workers \/ gpc = "clear" => \A w \in Workers : Up(w) => w = handle

PathInv == LoadsWaitedFor /\ SocketOfHandle /\ ClearIsSilent

\* A step that brings up no worker and binds no socket; and takes on no handle.
CalmWorld ==
  /\ \A w \in Workers : (Loading(w)' => Loading(w)) /\ (Up(w)' => Up(w))
  /\ sock' \in {sock, NoWorker, Gone}
  /\ sock = NoWorker => sock' = NoWorker

Calm ==
  /\ CalmWorld
  /\ handle' \in {handle, NoWorker}
  /\ gpc' = "clear" => gpc = "clear"
  /\ \/ gpc # "wait"
     \/ gpc' = "wait" /\ handle' = handle
     \/ \A w \in Workers : ~Loading(w)'

\* What `lost` becomes.
Noted == lost' = (Hidden' /\ (lost \/ LostBefore'))

\* Where nobody hides the socket tells the one worker there is.
LEMMA UnhiddenIsOne ==
  ASSUME PathInv', ~Hidden'
  PROVE  /\ \A v, w \in Workers : Up(v)' /\ Up(w)' => v = w
         /\ handle' \in Workers \/ gpc' = "clear" => \A w \in Workers : Up(w)' => w = handle'
<1>1. \A w \in Workers : Up(w)' => sock' = w
  BY DEF Hidden, Hides, Up
<1>2. ASSUME handle' \in Workers, NEW w \in Workers, Up(w)' PROVE w = handle'
  BY <1>1, <1>2, NamesAssumption DEF PathInv, SocketOfHandle
<1>3. ASSUME gpc' = "clear", NEW w \in Workers, Up(w)' PROVE FALSE
  BY <1>1, <1>3 DEF PathInv, ClearIsSilent, Answers, Up
<1> QED BY <1>1, <1>2, <1>3

\* So a step need only be looked at while nothing is lost.
LEMMA StrayIsMetFrom ==
  ASSUME Noted, PathInv',
         ~lost /\ ~lost' => /\ \A v, w \in Workers : Up(v)' /\ Up(w)' => v = w
                            /\ handle' \in Workers \/ gpc' = "clear" =>
                                 \A w \in Workers : Up(w)' => w = handle'
  PROVE  StrayIsMet'
<1>1. LostBefore' => Hidden'
  BY DEF LostBefore, Hidden
<1>2. CASE Hidden'
  BY <1>2 DEF StrayIsMet, Noted
<1>3. CASE ~Hidden'
  <2>1. /\ \A v, w \in Workers : Up(v)' /\ Up(w)' => v = w
        /\ handle' \in Workers \/ gpc' = "clear" => \A w \in Workers : Up(w)' => w = handle'
    BY <1>3, UnhiddenIsOne
  <2> QED BY <1>1, <1>3, <2>1 DEF StrayIsMet
<1> QED BY <1>2, <1>3

LEMMA CalmKeeps ==
  ASSUME Inv, PathInv, StrayIsMet, Calm, Noted
  PROVE  PathInv' /\ StrayIsMet'
<1>1. LoadsWaitedFor'
  BY DEF PathInv, LoadsWaitedFor, Calm, CalmWorld
<1>2. SocketOfHandle'
  BY NamesAssumption DEF PathInv, SocketOfHandle, Calm, CalmWorld
<1>3. ClearIsSilent'
  BY NamesAssumption DEF PathInv, ClearIsSilent, Answers, Up, Calm, CalmWorld
<1>4. ~lost /\ ~lost' => /\ \A v, w \in Workers : Up(v)' /\ Up(w)' => v = w
                         /\ handle' \in Workers \/ gpc' = "clear" =>
                              \A w \in Workers : Up(w)' => w = handle'
  BY NamesAssumption DEF StrayIsMet, Calm, CalmWorld, Inv, ClearsWithoutWorker
<1> QED
  BY <1>1, <1>2, <1>3, <1>4, StrayIsMetFrom DEF PathInv

-----------------------------------------------------------------------------
(* Which steps are calm                                                     *)

\* No signal, command or sweep brings up a worker.
LEMMA TermIsCalm ==
  ASSUME NEW S, worker' = AfterTerm(S)
  PROVE  /\ \A w \in Workers : (Loading(w)' => Loading(w)) /\ (Up(w)' => Up(w))
         /\ \A w \in S \cap Workers : ~Loading(w)'
  BY DEF AfterTerm, Bound, Loading, Up

LEMMA ToldIsCalm ==
  ASSUME WorkerTypeOK, Answers, NEW s \in {"parked", "active", "stopping"}, worker' = Told(s)
  PROVE  \A w \in Workers : (Loading(w)' => Loading(w)) /\ (Up(w)' => Up(w))
  BY DEF WorkerTypeOK, Answers, Told, Loading, Up

LEMMA SweepIsCalm == ASSUME NEW S, Sweep(S) PROVE CalmWorld
  BY DEF Sweep, CalmWorld, Loading, Up

LEMMA JobIsCalm == ASSUME WorldOK, NEW j \in Jobs, JobStep(j) PROVE CalmWorld
<1>1. CASE ReleaseAnswered(j)
  <2>1. (IF mode = "stop" THEN "stopping" ELSE "parked") \in {"parked", "active", "stopping"}
    OBVIOUS
  <2> QED BY <1>1, <2>1, ToldIsCalm DEF ReleaseAnswered, CalmWorld, WorldOK
<1>2. CASE ReleaseUnanswered(j)
  BY <1>2, TermIsCalm DEF ReleaseUnanswered, CalmWorld
<1>3. CASE SweepVisible(j)
  BY <1>3, SweepIsCalm DEF SweepVisible
<1>4. CASE Unlink(j) \/ Killed(j)
  BY <1>4 DEF Unlink, Killed, UnlinkPaths, CalmWorld, Loading, Up
<1>5. CASE UNCHANGED workerVars
  BY <1>5 DEF workerVars, CalmWorld, Loading, Up
<1> QED
  BY <1>1, <1>2, <1>3, <1>4, <1>5
     DEF JobStep, Pulse, Enqueue, Reclaim, Lock, Launch, Finish, Release, SetManaged, SetStartup,
         TouchBusy, StartBackend, ClearStartup, OpenProxy, RequestsBegin, RequestsEnd,
         CloseSession, EndStartup, EndBusy, ClearManaged, ChildEnds, Replace

\* Steps that leave the guard alone.
LEMMA AroundIsCalm == ASSUME CalmWorld, UNCHANGED guardVars PROVE Calm
  BY DEF Calm, CalmWorld, guardVars, memory

\* The guard itself, apart from a start of a worker and what precedes it.
LEMMA GuardIsCalm ==
  ASSUME Inv, PathInv, GuardStep \/ GuardStart \/ IdleElapses,
         ~EnsureClear, \A w \in Workers : ~Spawn(w)
  PROVE  Calm
<1> USE DEF Calm, CalmWorld
<1>0. WorldOK /\ WorkerTypeOK /\ handle \in Workers \cup {NoWorker}
  BY DEF Inv, TypeOK, WorldOK
<1>1. CASE EnsureAlive \/ ActivateFails \/ First \/ Poll \/ DecideBusy \/ DecideServeIdle
             \/ DecideDormant \/ DecideIdle \/ Tire \/ ParkKilled \/ GuardStart \/ IdleElapses
  BY <1>1 DEF EnsureAlive, ActivateFails, First, Poll, DecideBusy, DecideServeIdle, DecideDormant,
     DecideIdle, Tire, ReleaseState, ParkKilled, GuardStart, IdleElapses, workerVars, memory,
     Loading, Up
<1>2. CASE Ready
  BY <1>2, NamesAssumption DEF Ready, PathInv, LoadsWaitedFor, Answers, Loading, Up
<1>3. CASE GiveUp(FALSE)
  BY <1>3, TermIsCalm DEF GiveUp, PathInv, LoadsWaitedFor, memory
<1>4. CASE StartFailed
  BY <1>4 DEF StartFailed, PathInv, LoadsWaitedFor, HandleLive, Live, workerVars, Loading, Up
<1>5. CASE Activate
  BY <1>0, <1>5, ToldIsCalm DEF Activate
<1>6. CASE Park
  BY <1>0, <1>6, ToldIsCalm DEF Park
<1>7. CASE Refresh
  BY <1>7 DEF Refresh, UnlinkPaths, Loading, Up
<1>8. CASE Stop
  BY <1>0, <1>8, TermIsCalm, ToldIsCalm DEF Stop, memory, Loading, Up
<1>9. CASE Reap \/ GuardGone
  BY <1>9 DEF Reap, GuardGone, Forget, UnlinkPaths, Loading, Up
<1>10. CASE ParkFails
  BY <1>10, TermIsCalm DEF ParkFails
<1>11. CASE ParkSweep
  BY <1>11, SweepIsCalm DEF ParkSweep, CalmWorld, memory
<1> QED
  BY <1>1, <1>2, <1>3, <1>4, <1>5, <1>6, <1>7, <1>8, <1>9, <1>10, <1>11 DEF GuardStep

LEMMA EventIsCalm ==
  ASSUME Inv, PathInv, Event, "killstart" \notin Events
  PROVE  Calm
<1>0. WorldOK /\ WorkerTypeOK /\ handle \in Workers \cup {NoWorker}
  BY DEF Inv, TypeOK, WorldOK
<1>1. CASE UNCHANGED <<workerVars, guardVars>>
  BY <1>1, AroundIsCalm DEF CalmWorld, workerVars, Loading, Up
<1>2. ASSUME NEW w \in Workers, Dies(w) \/ LoadFails(w), UNCHANGED guardVars PROVE Calm
  BY <1>0, <1>2, NamesAssumption, AroundIsCalm
     DEF CalmWorld, Dies, LoadFails, WorkerTypeOK, Loading, Up
<1>3. CASE GiveUp(TRUE)
  BY <1>3, TermIsCalm DEF GiveUp, PathInv, LoadsWaitedFor, memory, Calm, CalmWorld
<1>4. CASE ActivateRaises
  BY <1>0, <1>4, ToldIsCalm DEF ActivateRaises, Calm, CalmWorld
<1>5. CASE GuardStop
  <2>1. gpc' = "quit" /\ UNCHANGED <<sock, handle>>
    BY <1>5 DEF GuardStop, memory
  <2>2. CASE ~HandleLive
    BY <1>5, <2>1, <2>2
       DEF GuardStop, HandleLive, Live, PathInv, LoadsWaitedFor, Calm, CalmWorld, Loading, Up
  <2>3. CASE HandleLive /\ Answers
    <3>1. \A w \in Workers : ~Loading(w)
      BY <2>3, NamesAssumption DEF PathInv, LoadsWaitedFor, Answers
    <3> QED
      BY <1>0, <1>5, <2>1, <2>3, <3>1, ToldIsCalm DEF GuardStop, Calm, CalmWorld
  <2>4. CASE HandleLive /\ ~Answers
    BY <1>5, <2>1, <2>4, TermIsCalm DEF GuardStop, PathInv, LoadsWaitedFor, Calm, CalmWorld
  <2> QED BY <2>2, <2>3, <2>4
<1>6. CASE Strike(IF gpc = "wait" THEN "killstart" ELSE "guardkill") /\ GuardKill
  BY <1>6 DEF Strike, GuardKill, Forget, workerVars, Calm, CalmWorld, Loading, Up
<1> QED
  BY <1>1, <1>2, <1>3, <1>4, <1>5, <1>6
     DEF Event, UserStart, Tires, Kill, Hangup

-----------------------------------------------------------------------------
(* Those that are not                                                       *)

\* The stray that answers is told; one that hides is in `lost` by now.
LEMMA ClearKeeps ==
  ASSUME Inv, PathInv, StrayIsMet, EnsureClear, Noted
  PROVE  PathInv' /\ StrayIsMet'
<1>1. \A w \in Workers : (Loading(w)' => Loading(w)) /\ (Up(w)' => Up(w))
  BY TermIsCalm DEF EnsureClear
<1>2. ~Answers'
  BY DEF EnsureClear, AfterTerm, Bound, Answers
<1>3. PathInv'
  BY <1>1, <1>2, NamesAssumption
     DEF PathInv, LoadsWaitedFor, SocketOfHandle, ClearIsSilent, EnsureClear
<1>4. ~lost => \A w \in Workers : Up(w) => sock = w
  BY DEF StrayIsMet, LostBefore, Hides, Up, EnsureClear
<1>5. ~lost => \A w \in Workers : ~Up(w)'
  BY <1>1, <1>2, <1>4 DEF EnsureClear, Answers, Up
<1> QED
  BY <1>3, <1>5, StrayIsMetFrom

\* There is no other worker when one is started.
LEMMA SpawnKeeps ==
  ASSUME Inv, PathInv, StrayIsMet, NEW w \in Workers, Spawn(w), Noted
  PROVE  PathInv' /\ StrayIsMet'
<1>0. WorkerTypeOK
  BY DEF Inv, TypeOK
<1>1. \A v \in Workers : (Loading(v)' => v = w) /\ (Up(v)' => Up(v))
  BY <1>0 DEF Spawn, WorkerTypeOK, PathInv, LoadsWaitedFor, Loading, Up
<1>2. PathInv'
  BY <1>1 DEF PathInv, LoadsWaitedFor, SocketOfHandle, ClearIsSilent, Spawn
<1>3. ~lost => \A v \in Workers : ~Up(v)
  BY NamesAssumption DEF StrayIsMet, Spawn, Inv, ClearsWithoutWorker, HandleLive, Live, Up, TypeOK
<1> QED
  BY <1>1, <1>2, <1>3, StrayIsMetFrom

\* The worker that binds is the guard's own.
LEMMA BindKeeps ==
  ASSUME Inv, PathInv, StrayIsMet, NEW w \in Workers, Bind(w), UNCHANGED guardVars, Noted
  PROVE  PathInv' /\ StrayIsMet'
<1>0. WorkerTypeOK
  BY DEF Inv, TypeOK
<1>1. gpc = "wait" /\ handle = w /\ UNCHANGED <<gpc, handle>> /\ sock' = w
  BY DEF Bind, PathInv, LoadsWaitedFor, Loading, guardVars, memory
<1>2. \A v \in Workers : ~Loading(v)' /\ (Up(v)' => v = w \/ Up(v))
  BY <1>0, <1>1 DEF Bind, WorkerTypeOK, PathInv, LoadsWaitedFor, Loading, Up
<1>3. PathInv'
  BY <1>1, <1>2 DEF PathInv, LoadsWaitedFor, SocketOfHandle, ClearIsSilent
<1> QED
  BY <1>1, <1>2, <1>3, StrayIsMetFrom DEF StrayIsMet

LEMMA NextOneWorker ==
  ASSUME Inv, PathInv, StrayIsMet, [Next]_<<vars, lost>>, "killstart" \notin Events
  PROVE  PathInv' /\ StrayIsMet'
<1>0. WorldOK
  BY DEF Inv, TypeOK, WorldOK
<1>1. CASE UNCHANGED <<vars, lost>>
  BY <1>1 DEF vars, workerVars, guardVars, memory, PathInv, LoadsWaitedFor, SocketOfHandle,
     ClearIsSilent, StrayIsMet, LostBefore, Hides, Answers, Up, Loading
<1>2. CASE Next
  <2>0. Noted
    BY <1>2 DEF Next, Noted
  <2>1. CASE GuardStart \/ GuardStep \/ IdleElapses
    BY <2>0, <2>1, GuardIsCalm, CalmKeeps, ClearKeeps, SpawnKeeps
  <2>2. ASSUME NEW w \in Workers, WorkerStep(w) PROVE PathInv' /\ StrayIsMet'
    <3>1. CASE Bind(w)
      BY <2>0, <2>2, <3>1, BindKeeps DEF WorkerStep
    <3>2. CASE Leave(w)
      <4>1. CalmWorld
        BY <1>0, <3>2 DEF Leave, CalmWorld, WorldOK, WorkerTypeOK, Loading, Up
      <4> QED BY <2>0, <2>2, <4>1, AroundIsCalm, CalmKeeps DEF WorkerStep
    <3> QED BY <2>2, <3>1, <3>2 DEF WorkerStep
  <2>3. ASSUME NEW j \in Jobs, JobStep(j) /\ UNCHANGED <<guardVars, struck>>
        PROVE  PathInv' /\ StrayIsMet'
    BY <1>0, <2>0, <2>3, JobIsCalm, AroundIsCalm, CalmKeeps
  <2>4. CASE UserEnd /\ UNCHANGED <<guardVars, struck>>
    <3>1. CalmWorld
      BY <2>4 DEF UserEnd, workerVars, Calm, CalmWorld, Loading, Up
    <3> QED BY <2>0, <2>4, <3>1, AroundIsCalm, CalmKeeps
  <2>5. CASE Event
    BY <2>0, <2>5, EventIsCalm, CalmKeeps
  <2> QED BY <1>2, <2>1, <2>2, <2>3, <2>4, <2>5 DEF Next
<1> QED BY <1>1, <1>2

\* A guard that follows a killed one adds no worker to the one it finds, unless
\* that hid before it was looked for; excluded is the kill of a guard whose worker
\* still loads, which nothing leads to (guard.py, ensure_placeholder_worker).
THEOREM OneWorkerHolds ==
  ASSUME "killstart" \notin Events
  PROVE  Spec => []OneWorker
<1>1. Init => PathInv /\ StrayIsMet
  BY NamesAssumption DEF Init, WorkerInit, PathInv, LoadsWaitedFor, SocketOfHandle, ClearIsSilent,
     StrayIsMet, LostBefore, Hides, Answers, Up, Loading
<1>2. Inv /\ PathInv /\ StrayIsMet /\ [Next]_<<vars, lost>> => PathInv' /\ StrayIsMet'
  BY NextOneWorker
<1>3. PathInv /\ StrayIsMet => OneWorker
  <2> SUFFICES ASSUME PathInv, StrayIsMet, ~lost PROVE OneWorker
    BY DEF OneWorker
  <2> DEFINE S == {w \in Workers : worker[w] \in {"loading", "parked", "active"}}
  <2>1. ASSUME NEW v \in S, NEW w \in S PROVE v = w
    BY <2>1 DEF PathInv, LoadsWaitedFor, StrayIsMet, Loading, Up
  <2>2. S = {} \/ \E w : S = {w}
    BY <2>1
  <2>3. Cardinality(S) <= 1
    <3>1. CASE S = {}
      <4>1. Cardinality({}) = 0
        BY FS_EmptySet
      <4>2. Cardinality(S) = 0
        BY <3>1, <4>1
      <4> HIDE DEF S
      <4> QED BY <4>2
    <3>2. ASSUME NEW w, S = {w} PROVE Cardinality(S) <= 1
      <4>1. Cardinality({w}) = 1
        BY FS_Singleton
      <4>2. Cardinality(S) = 1
        BY <3>2, <4>1
      <4> HIDE DEF S
      <4> QED BY <4>2
    <3> QED BY <2>2, <3>1, <3>2
  <2> QED BY <2>3 DEF OneWorker
<1> QED
  BY <1>1, <1>2, <1>3, InvHolds, PTL DEF Spec
-----------------------------------------------------------------------------
(* A release is complete                                                    *)

\* The guard's own steps are no steps of wrappers.
LEMMA GuardLeavesWrappers ==
  ASSUME GuardStep \/ GuardStart \/ IdleElapses
  PROVE  jpc' = jpc
  BY DEF GuardStep, GuardStart, IdleElapses, EnsureAlive, EnsureClear, Spawn, Ready, GiveUp,
         StartFailed, Activate, ActivateFails, First, Poll, Refresh, DecideBusy, DecideServeIdle,
         DecideDormant, DecideIdle, Tire, Stop, Reap, Park, ParkFails, ParkKilled, ParkSweep,
         GuardGone, workVars

\* A wrapper's release ends with an answer or with its sweep.
LEMMA WrapperReleases ==
  ASSUME WorldOK, NEW j \in Jobs, NEW k \in Jobs, JobStep(k),
         Released(j)
  PROVE  ReleaseAnswered(j) \/ SweepVisible(j)
<1> USE DEF Released
<1>1. k = j
  <2>1. jpc' = jpc \/ \E t : Goto(k, t)
    BY DEF JobStep, Pulse, ReleaseAnswered, ReleaseUnanswered, Killed, SweepVisible, Unlink,
           Enqueue, Reclaim, Lock, Launch, Finish, Release, SetManaged, SetStartup, TouchBusy,
           StartBackend, ClearStartup, OpenProxy, RequestsBegin, RequestsEnd, CloseSession,
           EndStartup, EndBusy, ClearManaged, ChildEnds, Replace
  <2> QED
    BY <2>1 DEF Goto, WorldOK, WorkTypeOK
<1>2. ~ReleaseUnanswered(j)
  BY DEF ReleaseUnanswered, Goto, WorldOK, WorkTypeOK
<1>3. ~Reclaim(j) /\ ~ChildEnds(j)
  BY DEF Reclaim, ChildEnds
<1> QED
  BY <1>1, <1>2, <1>3
     DEF JobStep, Pulse, Killed, Unlink, Enqueue, Lock, Launch, Finish, Release, SetManaged,
         SetStartup, TouchBusy, StartBackend, ClearStartup, OpenProxy, RequestsBegin, RequestsEnd,
         CloseSession, EndStartup, EndBusy, ClearManaged, Replace, Session

\* The guard's ends with an answer, with its sweep, or with the end of the process.
LEMMA GuardReleases ==
  ASSUME GuardStep \/ GuardStart \/ IdleElapses,
         GuardReleased \/ FullyStopped
  PROVE  Park \/ ParkSweep \/ Reap
  BY DEF GuardStep, GuardStart, IdleElapses, EnsureAlive, EnsureClear, Spawn, Ready, GiveUp,
         StartFailed, Activate, ActivateFails, First, Poll, Refresh, DecideBusy, DecideServeIdle,
         DecideDormant, DecideIdle, Tire, Stop, ParkFails, ParkKilled, GuardGone, Forget,
         GuardReleased, FullyStopped

\* Events are neither.
LEMMA EventsReleaseNothing ==
  ASSUME WorldOK, Event
  PROVE  /\ \A j \in Jobs : jpc'[j] \in {jpc[j], "killed", "hungup"}
         /\ gpc \in {"park", "sweep", "reap"} => gpc' \in {gpc, "quit", "down"}
  BY DEF Event, Strike, UserStart, Tires, Kill, Hangup, Goto, Dies, LoadFails, GiveUp,
         ActivateRaises, GuardStop, GuardKill, Forget, workVars, guardVars, memory, WorldOK,
         WorkTypeOK

\* Whoever answers is the one worker there is, and is not active afterwards.
LEMMA ToldIsTheOne ==
  ASSUME WorkerTypeOK, Answers, NEW s \in {"parked", "stopping"}, worker' = Told(s),
         \A w \in Workers : Live(w)' => handle' = w
  PROVE  ~Active'
<1>1. sock \in Workers /\ worker'[sock] = s
  BY DEF WorkerTypeOK, Answers, Told
<1>2. handle' = sock
  BY <1>1 DEF Live
<1> QED
  BY <1>1, <1>2 DEF Active, Live

\* A sweep misses no active worker: with a socket goes a context that is seen.
LEMMA SweepClears ==
  ASSUME NEW S \in Visible, Sweep(S)
  PROVE  ~Active'
  BY DEF Visible, Sweep, Active, Bound

\* One step of a release that ends.
LEMMA ReleaseEnds ==
  ASSUME Inv, Inv', Next
  PROVE  ClearsGpu
<1> SUFFICES ASSUME struck' \cap {"guardkill", "killstart"} = {}
             PROVE  /\ (\E j \in Jobs : Released(j)) \/ GuardReleased => ~Active'
                    /\ FullyStopped => \A w \in Workers : ~Live(w)'
  BY DEF ClearsGpu
<1>0. WorldOK /\ WorkerTypeOK /\ \A w \in Workers : Live(w)' => handle' = w
  BY DEF Inv, TypeOK, WorldOK, EveryWorkerIsOwned
<1>1. ASSUME NEW j \in Jobs, ReleaseAnswered(j) \/ SweepVisible(j) PROVE ~Active'
  <2>1. CASE ReleaseAnswered(j)
    <3>1. (IF mode = "stop" THEN "stopping" ELSE "parked") \in {"parked", "stopping"}
      OBVIOUS
    <3> QED
      BY <1>0, <2>1, <3>1, ToldIsTheOne DEF ReleaseAnswered
  <2>2. CASE SweepVisible(j)
    BY <2>2, SweepClears DEF SweepVisible
  <2> QED
    BY <1>1, <2>1, <2>2
<1>2. ASSUME NEW j \in Jobs, Released(j) PROVE ~Active'
  <2>1. jpc' # jpc
    BY <1>2 DEF Released
  <2>2. ~(GuardStart \/ GuardStep \/ IdleElapses)
    BY <2>1, GuardLeavesWrappers
  <2>3. ~Event
    BY <1>0, <1>2, EventsReleaseNothing DEF Released
  <2>4. \E k \in Jobs : JobStep(k)
    BY <2>1, <2>2, <2>3 DEF Next, WorkerStep, UserEnd, workVars
  <2> QED
    BY <1>0, <1>1, <1>2, <2>4, WrapperReleases
<1>3. ASSUME GuardReleased \/ FullyStopped PROVE Park \/ ParkSweep \/ Reap
  <2>1. gpc' # gpc
    BY <1>3 DEF GuardReleased, FullyStopped
  <2>2. ~Event
    BY <1>0, <1>3, EventsReleaseNothing DEF GuardReleased, FullyStopped
  <2>3. GuardStart \/ GuardStep \/ IdleElapses
    BY <2>1, <2>2 DEF Next, WorkerStep, guardVars
  <2> QED
    BY <1>3, <2>3, GuardReleases
<1>4. Park => ~Active'
  BY <1>0, ToldIsTheOne DEF Park
<1>5. ParkSweep => gpc = "sweep" /\ ~Active'
  BY SweepClears DEF ParkSweep
<1>6. Reap => gpc = "reap" /\ \A w \in Workers : ~Live(w)'
  BY <1>0, NamesAssumption DEF Reap
<1> QED
  BY <1>2, <1>3, <1>4, <1>5, <1>6 DEF Park, GuardReleased, FullyStopped

\* As long as no guard is killed, a release by a wrapper or by the guard leaves no
\* active placeholder, and a full stop no process, whoever unlinks the paths, dies or
\* starts meanwhile (lock.py release_placeholder_for_work; guard.py).
THEOREM ReleaseClearsHolds == Spec => ReleaseClears
<1>1. Inv /\ Inv' /\ [Next]_<<vars, lost>> => [ClearsGpu]_vars
  BY ReleaseEnds
<1> QED
  BY <1>1, InvHolds, PTL DEF Spec, ReleaseClears
=============================================================================
