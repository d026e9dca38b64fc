--------------------------- MODULE ServiceProofs ---------------------------
(***************************************************************************)
(* Theorems about Service for all GPUs, configurations, processes, and any  *)
(* number of commands and failures.                                         *)
(***************************************************************************)
EXTENDS Service, TLAPS

-----------------------------------------------------------------------------
(* Types                                                                    *)

\* A process that start() may launch is nobody's.
LEMMA FreeDaemonIsNew ==
  ASSUME NEW d \in FreeDaemons
  PROVE  d \in Daemons /\ daemon[d] = "none" /\ guard[d] = "none"
  BY DEF FreeDaemons

LEMMA FreeWorkerIsWorker == \A k \in Gpus : FreeWorkers(k) \subseteq Workers
  BY DEF FreeWorkers

\* A failure that strikes is one of Events.
LEMMA StrikeTyped ==
  ASSUME struck \subseteq Events, NEW kind
  PROVE  /\ Strike(kind) => struck' \subseteq Events
         /\ \A b : TimeUp(kind, b) => struck' \subseteq Events
  BY DEF Strike, TimeUp

\* The actions of the user, start() and stop() keep the types.
LEMMA ShellTyped == TypeOK /\ (User \/ Pull \/ Start \/ Stop) => TypeOK'
<1> SUFFICES ASSUME TypeOK, User \/ Pull \/ Start \/ Stop PROVE TypeOK'
  OBVIOUS
<1> USE DEF TypeOK, shell, files, paths, service, workers, Return, GiveUp,
            Save, Loads, Renders, WriteConf, RemoveFiles
<1>1. CASE User
  <2>1. CASE Command \/ Update
    BY <2>1 DEF Command, Update, Begin
  <2>2. ASSUME NEW g \in Configs, Install(g) \/ ConfigSet(g) PROVE TypeOK'
    BY <2>2, ConfigsAssumption DEF Install, ConfigSet, Begin
  <2> QED BY <1>1, <2>1, <2>2 DEF User
<1>2. CASE Pull \/ StartCheck \/ StartLoad \/ StartDone
  BY <1>2 DEF Pull, StartCheck, StartLoad, StartDone
<1>3. CASE Launch
  BY <1>3, FreeDaemonIsNew, StrikeTyped DEF Launch
<1>4. CASE StopCheck \/ CleanupGlob \/ StopDone
  BY <1>4 DEF StopCheck, CleanupGlob, StopDone, Running
<1>5. CASE Shutdown
  BY <1>5 DEF Shutdown
<1>6. CASE StopWait
  BY <1>6, StrikeTyped DEF StopWait
<1>7. CASE StopKill
  BY <1>7, StrikeTyped DEF StopKill
<1>8. ASSUME NEW k \in Gpus, CleanupKill(k) \/ CleanupUnlink(k) PROVE TypeOK'
  BY <1>8 DEF CleanupKill, CleanupUnlink, End
<1> QED BY <1>1, <1>2, <1>3, <1>4, <1>5, <1>6, <1>7, <1>8 DEF Start, Stop

\* Those of supervisord, the guard and the workers do.
LEMMA ServiceTyped ==
  ASSUME TypeOK, NEW d \in Daemons, Supervise(d) \/ Work(d) \/ Fail(d)
  PROVE  TypeOK'
<1> USE DEF TypeOK, shell, files, paths, service, workers, Disown
<1>1. CASE DaemonUp(d) \/ DaemonDies(d) \/ DaemonCrashes(d)
  BY <1>1, StrikeTyped DEF DaemonUp, DaemonDies, DaemonCrashes
<1>2. CASE StartGuard(d) \/ TellGuard(d)
  BY <1>2 DEF StartGuard, TellGuard
<1>3. CASE DaemonLeaves(d)
  BY <1>3 DEF DaemonLeaves
<1>4. CASE KillGuard(d) \/ GuardDies(d)
  BY <1>4, StrikeTyped DEF KillGuard, GuardDies, StrikeGuard
<1>5. CASE GuardLeaves(d)
  BY <1>5 DEF GuardLeaves
<1>6. ASSUME NEW k \in Gpus, Ensure(d, k) PROVE TypeOK'
  BY <1>6, FreeWorkerIsWorker DEF Ensure
<1>7. ASSUME NEW w \in Workers, GuardCleans(d, w) PROVE TypeOK'
  BY <1>7 DEF GuardCleans, End, On, Workers
<1> HIDE DEF TypeOK, Disown
<1> QED BY <1>1, <1>2, <1>3, <1>4, <1>5, <1>6, <1>7 DEF Supervise, Work, Fail

LEMMA ReadyTyped == ASSUME TypeOK, NEW w \in Workers, Ready(w) PROVE TypeOK'
  BY DEF Ready, TypeOK, shell, files, paths, service, workers, On, Workers

\* The shell, the files and the processes have their types (Service).
THEOREM TypeCorrect == Spec => []TypeOK
<1>1. Init => TypeOK
  BY DEF Init, TypeOK
<1>2. TypeOK /\ [Next]_vars => TypeOK'
  <2>1. TypeOK /\ UNCHANGED vars => TypeOK'
    BY DEF TypeOK, vars, shell, files, paths, service, workers
  <2> QED BY <2>1, ShellTyped, ServiceTyped, ReadyTyped DEF Next
<1> QED BY <1>1, <1>2, PTL DEF Spec

-----------------------------------------------------------------------------
(* One supervisord, and the paths that lead to it                           *)

Nobody == \A d \in Daemons : ~Alive(d)

\* What each place of a command knows of the supervisord that runs, if any does: the
\* files lead to it, except while start() waits for the pid file; it is told to end
\* only while stop() waits; and a guard has its supervisord.
OneInv ==
  /\ \A d \in Daemons : daemon[d] = "booting" =>
       /\ cpc = "waitpid" /\ pidfile = NoDaemon /\ sock = d /\ guard[d] = "none"
       /\ \A e \in Daemons : Alive(e) => e = d
  /\ \A d \in Daemons : daemon[d] \in {"up", "ending"} => pidfile = d /\ sock = d
  /\ \A d \in Daemons : daemon[d] = "ending" => cpc \in {"waitdead", "kill"}
  /\ cpc \in {"stale", "launch", "glob", "workers"} => Nobody
  /\ cpc = "launch" => pidfile = NoDaemon
  /\ cpc \in {"shutdown", "waitdead", "kill"} =>
       target \in Daemons /\ \A d \in Daemons : Alive(d) => d = target
  /\ cpc = "start" /\ cmd # "start" => Nobody
  /\ ~Orphaned => \A d \in Daemons : guard[d] = "up" => Alive(d)

LEMMA ShellOne == TypeOK /\ OneInv /\ (User \/ Pull \/ Start \/ Stop) => OneInv'
<1> SUFFICES ASSUME TypeOK, OneInv, User \/ Pull \/ Start \/ Stop PROVE OneInv'
  OBVIOUS
<1> USE NamesAssumption DEF OneInv, Nobody, Alive, Orphaned, Running, shell, files, paths, service, workers,
            Return, GiveUp, Save, Loads, Renders, WriteConf, RemoveFiles
<1>1. CASE User
  <2>1. CASE Command \/ Update
    BY <2>1 DEF Command, Update, Begin
  <2>2. ASSUME NEW g \in Configs, Install(g) \/ ConfigSet(g) PROVE OneInv'
    BY <2>2 DEF Install, ConfigSet, Begin
  <2> QED BY <1>1, <2>1, <2>2 DEF User
<1>2. CASE Pull \/ StartCheck
  BY <1>2 DEF Pull, StartCheck, TypeOK
<1>3. CASE StartLoad
  BY <1>3 DEF StartLoad
<1>4. CASE Launch
  BY <1>4, FreeDaemonIsNew DEF Launch, TypeOK, Strike
<1>5. CASE StartDone
  BY <1>5 DEF StartDone, TypeOK
<1>6. CASE StopCheck
  BY <1>6 DEF StopCheck, TypeOK
<1>7. CASE Shutdown
  BY <1>7 DEF Shutdown, TypeOK
<1>8. CASE StopWait
  BY <1>8 DEF StopWait, TypeOK, TimeUp, Strike
<1>9. CASE StopKill
  BY <1>9 DEF StopKill, TypeOK, TimeUp, Strike
<1>10. CASE CleanupGlob
  BY <1>10 DEF CleanupGlob
<1>11. ASSUME NEW k \in Gpus, CleanupKill(k) \/ CleanupUnlink(k) PROVE OneInv'
  BY <1>11 DEF CleanupKill, CleanupUnlink
<1>12. CASE StopDone
  BY <1>12 DEF StopDone
<1> HIDE DEF OneInv
<1> QED
  BY <1>1, <1>2, <1>3, <1>4, <1>5, <1>6, <1>7, <1>8, <1>9, <1>10, <1>11, <1>12 DEF Start, Stop

LEMMA ServiceOne ==
  ASSUME TypeOK, OneInv, NEW d \in Daemons, Supervise(d) \/ Work(d) \/ Fail(d)
  PROVE  OneInv'
<1> USE NamesAssumption DEF OneInv, Nobody, Alive, Orphaned, shell, files, paths, service, workers
<1>1. CASE DaemonUp(d)
  BY <1>1 DEF DaemonUp, TypeOK
<1>2. CASE DaemonDies(d) \/ DaemonCrashes(d)
  BY <1>2 DEF DaemonDies, DaemonCrashes, TypeOK, Strike
<1>3. CASE StartGuard(d) \/ TellGuard(d)
  BY <1>3 DEF StartGuard, TellGuard, TypeOK
<1>4. CASE DaemonLeaves(d)
  BY <1>4 DEF DaemonLeaves, TypeOK
<1>5. CASE KillGuard(d) \/ GuardDies(d)
  BY <1>5 DEF KillGuard, GuardDies, StrikeGuard, Strike, Disown, TypeOK
<1>6. CASE GuardLeaves(d)
  BY <1>6 DEF GuardLeaves, Disown, TypeOK
<1>7. ASSUME NEW k \in Gpus, Ensure(d, k) PROVE OneInv'
  BY <1>7 DEF Ensure
<1>8. ASSUME NEW w \in Workers, GuardCleans(d, w) PROVE OneInv'
  BY <1>8 DEF GuardCleans
<1> HIDE DEF OneInv
<1> QED BY <1>1, <1>2, <1>3, <1>4, <1>5, <1>6, <1>7, <1>8 DEF Supervise, Work, Fail

LEMMA ReadyOne == ASSUME OneInv, NEW w \in Workers, Ready(w) PROVE OneInv'
  BY DEF Ready, OneInv, Nobody, Alive, Orphaned, shell, files, paths, service

LEMMA OneAlways == Spec => [](TypeOK /\ OneInv)
<1>1. Init => OneInv
  BY DEF Init, OneInv, Alive
<1>2. TypeOK /\ OneInv /\ [Next]_vars => OneInv'
  <2>1. OneInv /\ UNCHANGED vars => OneInv'
    BY DEF OneInv, Nobody, Alive, Orphaned, vars, shell, files, paths, service, workers
  <2> QED BY <2>1, ShellOne, ServiceOne, ReadyOne DEF Next
<1> QED BY <1>1, <1>2, TypeCorrect, PTL DEF Spec

\* One supervisord and one guard, whatever commands follow on one another, however
\* they fail and whatever a supervisord that died left (start, stop and restart of
\* supervisor.py).
THEOREM OneServiceHolds == Spec => []OneService
<1>1. TypeOK /\ OneInv => OneService
  BY DEF TypeOK, OneInv, OneService, Alive
<1> QED BY <1>1, OneAlways, PTL

\* supervisor.pid and supervisor.sock are those of the supervisord that is up, whoever
\* unlinks them by path.
THEOREM ReachableHolds == Spec => []Reachable
<1>1. OneInv => Reachable
  BY DEF OneInv, Reachable
<1> QED BY <1>1, OneAlways, PTL

-----------------------------------------------------------------------------
(* What restart and update leave running                                    *)

\* On its way to the end of start(), a command renders the configuration that nobody
\* changes meanwhile; update goes that way only if the service ran, and if it did not
\* run nobody starts it during the pull.
ApplyInv ==
  /\ cpc = "launch" => conf = config
  /\ cpc = "waitpid" => \A d \in Daemons : Alive(d) => watch[d] = config
  /\ cpc \notin {"idle", "pull"} /\ cmd = "update" => was
  /\ cpc = "pull" /\ ~was => Nobody
  /\ cpc = "pull" => cmd = "update"

\* What a step promises that ends a restart or an update.
ReturnStep ==
  /\ Returns /\ (cmd' = "restart" \/ (cmd' = "update" /\ was))
       => Running' /\ watch'[pidfile'] = config'
  /\ Returns /\ cmd' = "update" => (Running' <=> was)

LEMMA ShellApply ==
  TypeOK /\ OneInv /\ ApplyInv /\ (User \/ Pull \/ Start \/ Stop) => ApplyInv' /\ ReturnStep
<1> SUFFICES ASSUME TypeOK, OneInv, ApplyInv, User \/ Pull \/ Start \/ Stop
             PROVE  ApplyInv' /\ ReturnStep
  OBVIOUS
<1> USE NamesAssumption DEF ApplyInv, ReturnStep, Returns, OneInv, Nobody, Alive, Running, TypeOK,
            shell, files, paths, service, workers, Return, GiveUp, Save, Loads, Renders, WriteConf, RemoveFiles
<1>1. CASE User
  <2>1. CASE Command
    BY <2>1 DEF Command, Begin
  <2>2. CASE Update
    BY <2>2 DEF Update, Begin
  <2>3. ASSUME NEW g \in Configs, Install(g) \/ ConfigSet(g) PROVE ApplyInv' /\ ReturnStep
    BY <2>3 DEF Install, ConfigSet, Begin
  <2> QED BY <1>1, <2>1, <2>2, <2>3 DEF User
<1>2. CASE Pull
  BY <1>2 DEF Pull
<1>3. CASE StartCheck
  BY <1>3 DEF StartCheck
<1>4. CASE StartLoad
  BY <1>4 DEF StartLoad
<1>5. CASE Launch
  BY <1>5, FreeDaemonIsNew DEF Launch
<1>6. CASE StartDone
  BY <1>6 DEF StartDone
<1>7. CASE StopCheck \/ Shutdown \/ StopWait \/ StopKill \/ CleanupGlob
  BY <1>7 DEF StopCheck, Shutdown, StopWait, StopKill, CleanupGlob
<1>8. ASSUME NEW k \in Gpus, CleanupKill(k) \/ CleanupUnlink(k) PROVE ApplyInv' /\ ReturnStep
  BY <1>8 DEF CleanupKill, CleanupUnlink
<1>9. CASE StopDone
  BY <1>9 DEF StopDone
<1> HIDE DEF ApplyInv, ReturnStep, OneInv, TypeOK
<1> QED BY <1>1, <1>2, <1>3, <1>4, <1>5, <1>6, <1>7, <1>8, <1>9 DEF Start, Stop

\* Nobody but the shell ends a command, and nobody else starts a supervisord or
\* changes what it watches.
LEMMA ServiceApply ==
  ASSUME TypeOK, OneInv, ApplyInv, NEW d \in Daemons, Supervise(d) \/ Work(d) \/ Fail(d)
  PROVE  ApplyInv' /\ ReturnStep
<1> USE NamesAssumption DEF ApplyInv, ReturnStep, Returns, OneInv, Nobody, Alive, TypeOK,
            shell, files, paths, service, workers
<1>1. CASE DaemonUp(d) \/ DaemonDies(d) \/ DaemonCrashes(d)
  BY <1>1 DEF DaemonUp, DaemonDies, DaemonCrashes
<1>2. CASE StartGuard(d) \/ TellGuard(d)
  BY <1>2 DEF StartGuard, TellGuard
<1>3. CASE DaemonLeaves(d)
  BY <1>3 DEF DaemonLeaves
<1>4. CASE KillGuard(d) \/ GuardDies(d) \/ GuardLeaves(d)
  BY <1>4 DEF KillGuard, GuardDies, GuardLeaves, Disown
<1>5. ASSUME NEW k \in Gpus, Ensure(d, k) PROVE ApplyInv' /\ ReturnStep
  BY <1>5 DEF Ensure
<1>6. ASSUME NEW w \in Workers, GuardCleans(d, w) PROVE ApplyInv' /\ ReturnStep
  BY <1>6 DEF GuardCleans
<1> HIDE DEF ApplyInv, ReturnStep, OneInv, TypeOK
<1> QED BY <1>1, <1>2, <1>3, <1>4, <1>5, <1>6 DEF Supervise, Work, Fail

LEMMA ReadyApply == ASSUME ApplyInv, NEW w \in Workers, Ready(w) PROVE ApplyInv' /\ ReturnStep
  BY DEF Ready, ApplyInv, ReturnStep, Returns, Nobody, Alive, shell, files, paths, service

LEMMA ApplyAlways == Spec => []ApplyInv /\ [][ReturnStep]_vars
<1>1. Init => ApplyInv
  BY DEF Init, ApplyInv
<1>2. TypeOK /\ OneInv /\ ApplyInv /\ [Next]_vars => ApplyInv' /\ [ReturnStep]_vars
  <2>1. ApplyInv /\ UNCHANGED vars => ApplyInv'
    BY DEF ApplyInv, Nobody, Alive, vars, shell, files, paths, service, workers
  <2> QED BY <2>1, ShellApply, ServiceApply, ReadyApply DEF Next
<1> QED BY <1>1, <1>2, OneAlways, PTL DEF Spec

\* A restart that returns 0 has applied the configuration (README.md:327).
THEOREM RestartAppliesHolds == Spec => RestartApplies
<1>1. [ReturnStep]_vars
      => [Returns /\ (cmd' = "restart" \/ (cmd' = "update" /\ was))
            => Running' /\ watch'[pidfile'] = config']_vars
  BY DEF ReturnStep
<1> QED BY <1>1, ApplyAlways, PTL DEF RestartApplies

\* When update returns 0 the service runs if it ran before, and only then, although a
\* supervisord may have died during the pull (README.md:329).
THEOREM UpdateKeepsServiceHolds == Spec => UpdateKeepsService
<1>1. [ReturnStep]_vars => [Returns /\ cmd' = "update" => (Running' <=> was)]_vars
  BY DEF ReturnStep
<1> QED BY <1>1, ApplyAlways, PTL DEF UpdateKeepsService

-----------------------------------------------------------------------------
(* What stop and uninstall leave behind                                     *)

\* A supervisord was slow to stop and has been, or will be, killed.
Slow == "slowstop" \in struck

\* A placeholder that no guard has a handle of.
Stray(w) == Live(w) /\ owner[w] = NoDaemon

\* The pid file leads to every stray, and there is one only if a guard died.
StrayIsFound ==
  \A w \in Workers : Stray(w) =>
    worker[w] = "ready" /\ found[On(w)] = w /\ struck \cap {"guardkill", "slowguard"} # {}

\* An owner is a guard that runs.
OwnerRuns == \A w \in Workers : Live(w) /\ owner[w] # NoDaemon => guard[owner[w]] # "none"

\* Until a supervisord is killed a guard has its supervisord, a GPU has one worker,
\* its files lead to it once it is ready, and the cleanup finds none that it missed.
Orderly ==
  ~Slow =>
    /\ \A d \in Daemons : guard[d] # "none" => Alive(d)
    /\ \A v, w \in Workers : Live(v) /\ Live(w) /\ On(v) = On(w) => v = w
    /\ \A w \in Workers : worker[w] = "ready" => found[On(w)] = w
    /\ \A w \in Workers : On(w) \in ended => ~Live(w)

\* stop() kills no supervisord that has not been told to end, and its cleanup passes no
\* stray by.
StopAt ==
  /\ cpc \in {"waitdead", "kill"} => \A d \in Daemons : daemon[d] # "up"
  /\ cpc = "kill" => Slow
  /\ cpc \in {"pull", "start", "stale", "launch", "waitpid"} => cmd \notin {"stop", "uninstall"}
  /\ cpc = "workers" => \A w \in Workers : Stray(w) => On(w) \in todo
  /\ cpc = "idle" /\ cmd \in {"stop", "uninstall"} =>
       Nobody /\ \A w \in Workers : ~Stray(w)

WorkerInv == StrayIsFound /\ OwnerRuns /\ Orderly /\ StopAt

\* No worker is out of reach.
Tame == ~Orphaned /\ ~Lost

LEMMA OnGpus == \A w \in Workers : On(w) \in Gpus
  BY DEF Workers, On

\* Failures are not undone.
LEMMA StruckGrows == [Next]_vars => struck \subseteq struck'
<1> USE DEF shell, files, paths, service, workers, Strike
<1>1. User \/ Pull \/ Start \/ Stop => struck \subseteq struck'
  BY DEF User, Command, Update, Install, ConfigSet, Begin, Start, StartCheck, StartLoad, Launch,
         StartDone, Pull, Stop, StopCheck, Shutdown, StopWait, StopKill, CleanupGlob, CleanupKill,
         CleanupUnlink, StopDone, TimeUp
<1>2. ASSUME NEW d \in Daemons, Supervise(d) \/ Work(d) \/ Fail(d) PROVE struck \subseteq struck'
  BY <1>2 DEF Supervise, DaemonUp, StartGuard, TellGuard, DaemonLeaves, Work, Ensure, GuardCleans,
              GuardLeaves, Fail, DaemonDies, DaemonCrashes, KillGuard, GuardDies, StrikeGuard
<1> QED BY <1>1, <1>2 DEF Next, Ready, vars

\* A step that leaves workers, guards and supervisords alone, and no command at a
\* place where more is known, keeps the invariant.
LEMMA ShellWorkers ==
  ASSUME TypeOK, OneInv, WorkerInv, Tame, Tame', User \/ Pull \/ Start \/ Stop
  PROVE  WorkerInv'
<1> USE NamesAssumption, OnGpus DEF WorkerInv, StrayIsFound, OwnerRuns, Orderly, StopAt, Slow, Stray, Live,
            Nobody, Alive, shell, files, paths, service, workers, Return, GiveUp, Save, Loads,
            Renders, WriteConf, RemoveFiles
<1>0. struck \subseteq struck'
  BY StruckGrows DEF Next
<1>1. CASE User
  <2>1. CASE Command \/ Update
    BY <2>1 DEF Command, Update, Begin
  <2>2. ASSUME NEW g \in Configs, Install(g) \/ ConfigSet(g) PROVE WorkerInv'
    BY <2>2 DEF Install, ConfigSet, Begin
  <2> QED BY <1>1, <2>1, <2>2 DEF User
<1>2. CASE Pull \/ StartCheck \/ StartLoad \/ StartDone
  BY <1>2 DEF Pull, StartCheck, StartLoad, StartDone
<1>3. CASE Launch
  BY <1>0, <1>3, FreeDaemonIsNew DEF Launch, TypeOK
<1>4. CASE StopCheck
  BY <1>4 DEF StopCheck, TypeOK, OneInv
<1>5. CASE Shutdown
  BY <1>5 DEF Shutdown, TypeOK, OneInv
<1>6. CASE StopWait
  BY <1>0, <1>6 DEF StopWait, TypeOK, OneInv, TimeUp, Strike
<1>7. CASE StopKill
  BY <1>0, <1>7 DEF StopKill, TypeOK, OneInv, TimeUp, Strike
<1>8. CASE CleanupGlob
  BY <1>8 DEF CleanupGlob, TypeOK, OneInv
<1>9. ASSUME NEW k \in Gpus, CleanupKill(k) PROVE WorkerInv'
  BY <1>9 DEF CleanupKill, End, TypeOK, OneInv
<1>10. ASSUME NEW k \in Gpus, CleanupUnlink(k) PROVE WorkerInv'
  BY <1>10 DEF CleanupUnlink, TypeOK, OneInv, Tame, Lost
<1>11. CASE StopDone
  BY <1>11 DEF StopDone, TypeOK, OneInv
<1> HIDE DEF WorkerInv
<1> QED
  BY <1>1, <1>2, <1>3, <1>4, <1>5, <1>6, <1>7, <1>8, <1>9, <1>10, <1>11 DEF Start, Stop

LEMMA ServiceWorkers ==
  ASSUME TypeOK, OneInv, WorkerInv, Tame, Tame', NEW d \in Daemons,
         Supervise(d) \/ Work(d) \/ Fail(d)
  PROVE  WorkerInv'
<1> USE NamesAssumption, OnGpus DEF WorkerInv, StrayIsFound, OwnerRuns, Orderly, StopAt, Slow, Stray, Live,
            Nobody, Alive, shell, files, paths, service, workers
<1>0. struck \subseteq struck'
  BY StruckGrows DEF Next
<1>1. CASE DaemonUp(d)
  BY <1>1 DEF DaemonUp, TypeOK, OneInv
<1>2. CASE DaemonDies(d) \/ DaemonCrashes(d)
  BY <1>0, <1>2 DEF DaemonDies, DaemonCrashes, Strike, TypeOK, OneInv, Tame, Orphaned
<1>3. CASE StartGuard(d) \/ TellGuard(d)
  BY <1>3 DEF StartGuard, TellGuard, TypeOK, OneInv
<1>4. CASE DaemonLeaves(d)
  BY <1>4 DEF DaemonLeaves, TypeOK, OneInv
<1>5. CASE KillGuard(d) \/ GuardDies(d)
  BY <1>0, <1>5 DEF KillGuard, GuardDies, StrikeGuard, Strike, Owned, Disown, TypeOK, OneInv, Tame, Lost,
                    Orphaned
<1>6. CASE GuardLeaves(d)
  BY <1>6 DEF GuardLeaves, Owned, Disown, TypeOK, OneInv
<1>7. ASSUME NEW k \in Gpus, Ensure(d, k) PROVE WorkerInv'
  BY <1>7 DEF Ensure, FreeWorkers, Owned, TypeOK, OneInv, Tame
<1>8. ASSUME NEW w \in Workers, GuardCleans(d, w) PROVE WorkerInv'
  BY <1>8 DEF GuardCleans, End, Owned, TypeOK, OneInv, Tame, Lost
<1> HIDE DEF WorkerInv
<1> QED BY <1>1, <1>2, <1>3, <1>4, <1>5, <1>6, <1>7, <1>8 DEF Supervise, Work, Fail

LEMMA ReadyWorkers ==
  ASSUME TypeOK, OneInv, WorkerInv, Tame, NEW w \in Workers, Ready(w)
  PROVE  WorkerInv'
  BY OnGpus DEF Ready, WorkerInv, StrayIsFound, OwnerRuns, Orderly, StopAt, Slow, Stray, Live,
         Nobody, Alive, shell, files, paths, service, TypeOK, Tame, Lost

\* stop and uninstall leave no placeholder behind, nor a supervisord, whatever was
\* configured and whatever the guard did meanwhile (supervisor.py stop,
\* _cleanup_placeholder_workers).
THEOREM StopLeavesNothingHolds == Spec => []StopLeavesNothing
<1> DEFINE I == Tame => WorkerInv
<1>1. Init => I
  BY DEF Init, WorkerInv, StrayIsFound, OwnerRuns, Orderly, StopAt, Slow, Stray, Live
<1>2. TypeOK /\ OneInv /\ I /\ [Next]_vars => I'
  <2> SUFFICES ASSUME TypeOK, OneInv, I, [Next]_vars, Tame' PROVE WorkerInv'
    OBVIOUS
  <2>1. Tame
    BY StruckGrows DEF Tame, Orphaned, Lost
  <2>2. CASE UNCHANGED vars
    BY <2>1, <2>2 DEF WorkerInv, StrayIsFound, OwnerRuns, Orderly, StopAt, Slow, Stray, Live,
           Nobody, Alive, vars, shell, files, paths, service, workers
  <2> QED BY <2>1, <2>2, ShellWorkers, ServiceWorkers, ReadyWorkers DEF Next
<1>3. TypeOK /\ OneInv /\ I => StopLeavesNothing
  BY DEF TypeOK, OneInv, WorkerInv, OwnerRuns, StopAt, Tame, StopLeavesNothing, Stray, Live, Owned, Nobody
<1> QED BY <1>1, <1>2, <1>3, OneAlways, PTL DEF Spec
=============================================================================
