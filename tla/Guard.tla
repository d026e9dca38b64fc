------------------------------- MODULE Guard -------------------------------
(***************************************************************************)
(* guard.py on one watched GPU: a loop that looks at the markers, the       *)
(* processes on the GPU and the locks, and starts, activates, parks or      *)
(* stops a placeholder worker. It acts on what it has read, through the     *)
(* socket and the pid file, while wrappers and serve sessions (CardWork)    *)
(* and the workers themselves (Placeholder) go on.                          *)
(*                                                                         *)
(* idle_since is "none", "counting" or "over" (placeholder_idle_s ago). A   *)
(* pulse resets it when it is read, so that it is never "over" while the    *)
(* pulse is recent: recent_pulse needs no variable. placeholder_idle_s > 0. *)
(***************************************************************************)
EXTENDS CardWork, Naturals

CONSTANTS
  MaxFailures,  \* PLACEHOLDER_START_FAILURE_EXIT_THRESHOLD
  Events,       \* what may happen besides, each kind once
  MaxEvents     \* how many of these kinds

EventKinds == {"kill", "hangup", "die", "loadfails", "slowstart", "nomemory",
               "guardstop", "guardkill", "killstart", "user", "tired"}

ASSUME FailuresAssumption == MaxFailures \in Nat \ {0}
ASSUME EventsAssumption == Events \subseteq EventKinds /\ MaxEvents \in Nat

VARIABLES
  gpc,      \* where the guard is
  goal,     \* what it wants a worker for: "start", "up" or "idle"; "none" in the loop
  handle,   \* placeholders[gid]: the worker that it started last, or NoWorker
  active,   \* gid in placeholder_active
  known,    \* placeholder_compute_pids_by_gpu[gid]
  before,   \* compute_pids_before of the worker that it waits for
  failures, \* consecutive_placeholder_start_failures
  idle,     \* idle_since[gid]
  dormant,  \* gid in dormant
  struck,   \* the events that have happened
  lost      \* history, for OneWorker: a hidden worker was so before it was looked for

memory == <<goal, handle, active, known, before, failures, idle, dormant>>
guardVars == <<gpc, memory>>
vars == <<workerVars, workVars, guardVars, struck>>

GuardStates == {"down", "ensure", "clear", "wait", "abandon", "activate",
                "first", "poll", "refresh", "decide", "tire",
                "stop", "reap", "park", "kill", "sweep", "quit"}

HandleLive == handle \in Workers /\ Live(handle)

\* A worker whose socket somebody has unlinked by path, just after it was bound.
Hides(w) == worker[w] \in {"parked", "active"} /\ sock # w
Hidden == \E w \in Workers : Hides(w)

\* Such a worker, before a guard looks for what the one before it has left.
LostBefore == \E w \in Workers : Hides(w) /\ (handle = w \/ gpc \in {"down", "ensure"})

Strike(kind) == /\ kind \in Events \ struck
                /\ Cardinality(struck) < MaxEvents
                /\ struck' = struck \cup {kind}

Init == /\ WorkerInit
        /\ WorkInit
        /\ gpc = "down"
        /\ goal = "none"
        /\ handle = NoWorker
        /\ active = FALSE
        /\ known = {}
        /\ before = {}
        /\ failures = 0
        /\ idle = "none"
        /\ dormant = FALSE
        /\ struck = {}
        /\ lost = FALSE

-----------------------------------------------------------------------------
(* Start and end of the guard.                                              *)

\* The memory of the process is gone with it.
Forget ==
  /\ gpc' = "down"
  /\ goal' = "none"
  /\ handle' = NoWorker
  /\ active' = FALSE
  /\ known' = {} /\ before' = {}
  /\ failures' = 0
  /\ idle' = "none"
  /\ dormant' = FALSE

\* cmd_guard up to its first ensure_placeholder_worker. A pulse file of an
\* earlier command is news to it.
GuardStart ==
  /\ gpc = "down"
  /\ gpc' = IF startup THEN "first" ELSE "ensure"
  /\ goal' = "start"
  /\ awake' = TRUE
  /\ pulsed' \in {pulsed, TRUE}
  /\ UNCHANGED <<workerVars, mode, jpc, stale, computing, user, markers,
                 handle, active, known, before, failures, idle, dormant>>

\* cleanup(), on a signal, wherever the loop is.
GuardStop ==
  /\ gpc \notin {"down", "quit"}
  /\ gpc' = "quit"
  /\ worker' = IF ~HandleLive THEN worker
               ELSE IF Answers THEN Told("stopping") ELSE AfterTerm({handle})
  /\ UNCHANGED <<sock, pidfile, workVars, memory>>

\* The rest of cleanup(): the worker has gone, or is killed.
GuardGone ==
  /\ gpc = "quit"
  /\ HandleLive => worker[handle] # "stopping"
  /\ worker' = [w \in Workers |-> IF w = handle THEN "none" ELSE worker[w]]
  /\ IF handle = NoWorker THEN UNCHANGED <<sock, pidfile>> ELSE UnlinkPaths
  /\ Forget
  /\ UNCHANGED workVars

\* SIGKILL: the worker is in a session of its own and stays.
GuardKill ==
  /\ gpc # "down"
  /\ Forget
  /\ UNCHANGED <<workerVars, workVars>>

-----------------------------------------------------------------------------
(* ensure_placeholder_worker.                                               *)

EnsureAlive ==
  /\ gpc = "ensure"
  /\ HandleLive
  /\ gpc' = IF goal = "start" THEN "first" ELSE "activate"
  /\ UNCHANGED <<workerVars, workVars, memory>>

\* Slip: what is at the two paths is taken for stale files.
EnsureClear_unlinksOnly ==
  /\ gpc = "ensure"
  /\ handle = NoWorker
  /\ UNCHANGED worker
  /\ gpc' = "clear"
  /\ active' = FALSE
  /\ known' = {}
  /\ UNCHANGED <<sock, pidfile, workVars, goal, handle, before, failures, idle, dormant>>

\* No worker of its own: whoever answers, or is named in the pid file, goes.
EnsureClear ==
  /\ gpc = "ensure"
  /\ handle = NoWorker
  /\ worker' = AfterTerm(PidTarget \cup (IF Answers THEN {sock} ELSE {}))
  /\ gpc' = "clear"
  /\ active' = FALSE
  /\ known' = {}
  /\ UNCHANGED <<sock, pidfile, workVars, goal, handle, before, failures, idle, dormant>>

\* Where the pass began without a worker it ends with the activation (goal "up"):
\* its last test asks for a worker that was alive when it began. Popen and the
\* assignment of the handle are one step: a guard that is stopped between them leaves
\* what one leaves that is killed in "wait", which is the event killstart.
Spawn(w) ==
  /\ \/ gpc = "clear" /\ \A v \in PidTarget : worker[v] # "stopping"
     \/ gpc = "ensure" /\ handle # NoWorker /\ ~HandleLive
  /\ worker[w] = "none"
  /\ worker' = [worker EXCEPT ![w] = "loading"]
  /\ sock' = NoWorker
  /\ pidfile' = IF gpc = "clear" THEN NoWorker ELSE pidfile
  /\ gpc' = "wait"
  /\ handle' = w
  /\ active' = FALSE
  /\ known' = {}
  /\ before' = ComputePids
  /\ goal' = IF goal = "idle" /\ gpc = "clear" THEN "up" ELSE goal
  /\ UNCHANGED <<workVars, failures, idle, dormant>>

\* Slip: the mapped pid is read from the pid file.
Ready_mapsPidFile ==
  /\ gpc = "wait"
  /\ HandleLive
  /\ Answers
  /\ pidfile' = handle
  /\ known' = {pidfile}
  /\ failures' = 0
  /\ gpc' = IF goal = "start" THEN "first" ELSE "activate"
  /\ before' = {}
  /\ UNCHANGED <<worker, sock, workVars, goal, handle, active, idle, dormant>>

\* A new pid between the two looks is the worker's, if there is just one.
Ready ==
  /\ gpc = "wait"
  /\ HandleLive
  /\ Answers
  /\ pidfile' = handle
  /\ LET new == ComputePids \ before
     IN  known' = IF Cardinality(new) = 1 THEN new ELSE {}
  /\ failures' = 0
  /\ gpc' = IF goal = "start" THEN "first" ELSE "activate"
  /\ before' = {}
  /\ UNCHANGED <<worker, sock, workVars, goal, handle, active, idle, dormant>>

\* PLACEHOLDER_START_TIMEOUT_S: terminate. The worker still loads, or it has its
\* socket and is not reached.
GiveUp(loads) ==
  /\ gpc = "wait"
  /\ HandleLive
  /\ ~Answers
  /\ (worker[handle] = "loading") = loads
  /\ worker' = AfterTerm({handle})
  /\ gpc' = "abandon"
  /\ UNCHANGED <<sock, pidfile, workVars, memory>>

\* The process has exited; too many failures end the guard.
StartFailed ==
  /\ gpc \in {"wait", "abandon"}
  /\ ~HandleLive
  /\ handle' = NoWorker
  /\ before' = {}
  /\ failures' = failures + 1
  /\ gpc' = IF failures + 1 >= MaxFailures THEN "quit"
            ELSE IF goal = "start" THEN "first" ELSE "poll"
  /\ goal' = IF goal = "start" THEN goal ELSE "none"
  /\ UNCHANGED <<workerVars, workVars, active, known, idle, dormant>>

\* activate_placeholder_worker, the command.
Activate ==
  /\ gpc = "activate"
  /\ Answers
  /\ worker' = Told("active")
  /\ active' = TRUE
  /\ idle' = "none"
  /\ gpc' = IF goal = "idle" THEN "tire" ELSE "poll"
  /\ goal' = "none"
  /\ UNCHANGED <<sock, pidfile, workVars, handle, known, before, failures, dormant>>

ActivateFails ==
  /\ gpc = "activate"
  /\ ~Answers
  /\ gpc' = "poll"
  /\ goal' = "none"
  /\ UNCHANGED <<workerVars, workVars, handle, active, known, before, failures, idle, dormant>>

\* ensure_resources raises (the memory is taken): no answer, and the worker leaves.
ActivateRaises ==
  /\ gpc = "activate"
  /\ Answers
  /\ worker' = Told("stopping")
  /\ gpc' = "poll"
  /\ goal' = "none"
  /\ UNCHANGED <<sock, pidfile, workVars, handle, active, known, before, failures, idle, dormant>>

-----------------------------------------------------------------------------
(* The loop.                                                                *)

\* gpu_is_idle_for_placeholder.
IdleForPlaceholder ==
  IF managed THEN ~busy
  ELSE /\ ~Ours
       /\ \/ ComputePids \subseteq known
          \/ mode = "park" /\ ~busy

\* After the start, before the loop.
First ==
  /\ gpc = "first"
  /\ IF ~Ours /\ ~startup /\ IdleForPlaceholder
     THEN gpc' = "ensure" /\ goal' = "up"
     ELSE gpc' = "poll" /\ goal' = "none"
  /\ UNCHANGED <<workerVars, workVars, handle, active, known, before, failures, idle, dormant>>

\* A new pulse, or processes of the guard's user; the latter are not looked at
\* during a startup hold.
News == pulsed \/ (~startup /\ OwnPids \ known # {})

\* Slip: the startup hold parks the worker.
Poll_startupParks ==
  /\ gpc = "poll"
  /\ pulsed' = FALSE
  /\ awake' = (awake \/ News)
  /\ dormant' = (dormant /\ ~News)
  /\ idle' = IF News \/ startup THEN "none" ELSE idle
  /\ gpc' = IF ~startup THEN "refresh"
            ELSE IF handle # NoWorker \/ sock # NoWorker THEN "park" ELSE "poll"
  /\ UNCHANGED <<workerVars, mode, jpc, stale, computing, user, markers,
                 goal, handle, active, known, before, failures>>

\* ingest_activity_pulse, then the startup hold, or observe_user_gpu_activity.
Poll ==
  /\ gpc = "poll"
  /\ pulsed' = FALSE
  /\ awake' = (awake \/ News)
  /\ dormant' = (dormant /\ ~News)
  /\ idle' = IF News \/ startup THEN "none" ELSE idle
  /\ gpc' = IF ~startup THEN "refresh"
            ELSE IF handle # NoWorker \/ sock # NoWorker THEN "stop" ELSE "poll"
  /\ UNCHANGED <<workerVars, mode, jpc, stale, computing, user, markers,
                 goal, handle, active, known, before, failures>>

\* Slip: a worker that has exited stays in placeholder_active.
Refresh_keepsActive ==
  /\ gpc = "refresh"
  /\ gpc' = "decide"
  /\ IF HandleLive
     THEN /\ active' = IF Answers THEN worker[sock] = "active" ELSE active
          /\ UNCHANGED <<sock, pidfile, handle, known>>
     ELSE /\ UNCHANGED active
          /\ handle' = NoWorker
          /\ known' = IF handle = NoWorker THEN known ELSE {}
          /\ IF handle = NoWorker THEN UNCHANGED <<sock, pidfile>> ELSE UnlinkPaths
  /\ UNCHANGED <<worker, workVars, goal, before, failures, idle, dormant>>

\* A worker that has exited is forgotten; one that answers says if it is active.
\* The rest of the pass takes a worker that is still in `handle` to be alive.
Refresh ==
  /\ gpc = "refresh"
  /\ gpc' = "decide"
  /\ IF HandleLive
     THEN /\ active' = IF Answers THEN worker[sock] = "active" ELSE active
          /\ UNCHANGED <<sock, pidfile, handle, known>>
     ELSE /\ active' = FALSE
          /\ handle' = NoWorker
          /\ known' = IF handle = NoWorker THEN known ELSE {}
          /\ IF handle = NoWorker THEN UNCHANGED <<sock, pidfile>> ELSE UnlinkPaths
  /\ UNCHANGED <<worker, workVars, goal, before, failures, idle, dormant>>

\* release_placeholder_worker.
ReleaseState == IF mode = "park" THEN "park" ELSE "stop"

\* Slip: the lock of the service itself blocks its placeholder.
DecideBusy_ownLock ==
  /\ gpc = "decide"
  /\ Ours \/ busy
  /\ awake' = (awake \/ (Ours /\ ~managed))
  /\ gpc' = IF handle # NoWorker THEN ReleaseState ELSE "poll"
  /\ idle' = "none"
  /\ dormant' = FALSE
  /\ UNCHANGED <<workerVars, mode, jpc, stale, computing, user, markers, pulsed,
                 goal, handle, active, known, before, failures>>

\* Work that holds or awaits a lock, or requests in flight: release.
DecideBusy ==
  /\ gpc = "decide"
  /\ (Ours /\ ~managed) \/ busy
  /\ awake' = (awake \/ (Ours /\ ~managed))
  /\ gpc' = IF handle # NoWorker THEN ReleaseState ELSE "poll"
  /\ idle' = "none"
  /\ dormant' = FALSE
  /\ UNCHANGED <<workerVars, mode, jpc, stale, computing, user, markers, pulsed,
                 goal, handle, active, known, before, failures>>

\* Slip: the test for a managed service comes before the one for its requests.
DecideServeIdle_beforeBusy ==
  /\ gpc = "decide"
  /\ managed
  /\ IF active THEN gpc' = "poll" /\ UNCHANGED goal
               ELSE gpc' = "ensure" /\ goal' = "up"
  /\ idle' = "none"
  /\ dormant' = FALSE
  /\ UNCHANGED <<workerVars, workVars, handle, active, known, before, failures>>

\* A serve session without requests: activate.
DecideServeIdle ==
  /\ gpc = "decide"
  /\ managed /\ ~busy
  /\ IF active THEN gpc' = "poll" /\ UNCHANGED goal
               ELSE gpc' = "ensure" /\ goal' = "up"
  /\ idle' = "none"
  /\ dormant' = FALSE
  /\ UNCHANGED <<workerVars, workVars, handle, active, known, before, failures>>

DecideDormant ==
  /\ gpc = "decide"
  /\ ~managed /\ ~busy /\ ~Ours
  /\ dormant
  /\ gpc' = IF handle # NoWorker /\ (active \/ mode = "stop") THEN ReleaseState ELSE "poll"
  /\ UNCHANGED <<workerVars, workVars, memory>>

\* Nobody wants the GPU: wait, then activate. (The branch for user_gpu_pids, in
\* the else of a test of the same, is never taken.)
DecideIdle ==
  /\ gpc = "decide"
  /\ ~managed /\ ~busy /\ ~Ours
  /\ ~dormant
  /\ LET due == idle = "over" /\ IdleForPlaceholder
     IN  /\ gpc' = IF due /\ ~active THEN "ensure" ELSE "tire"
         /\ goal' = IF due /\ ~active THEN "idle" ELSE goal
         /\ idle' = IF due /\ active THEN "none"
                    ELSE IF due THEN idle ELSE "counting"
  /\ UNCHANGED <<workerVars, workVars, handle, active, known, before, failures, dormant>>

\* No activity for idle_timeout: release, and be dormant.
Tire ==
  /\ gpc = "tire"
  /\ IF handle # NoWorker /\ active /\ ~awake
     THEN gpc' = ReleaseState /\ dormant' = TRUE /\ idle' = "none"
     ELSE gpc' = "poll" /\ UNCHANGED <<dormant, idle>>
  /\ UNCHANGED <<workerVars, workVars, goal, handle, active, known, before, failures>>

\* placeholder_idle_s has passed.
IdleElapses ==
  /\ idle = "counting"
  /\ idle' = "over"
  /\ UNCHANGED <<workerVars, workVars, gpc, goal, handle, active, known, before, failures, dormant>>

-----------------------------------------------------------------------------
(* fully_stop_placeholder_worker and park_placeholder_worker.               *)

Stop ==
  /\ gpc = "stop"
  /\ worker' = IF Answers THEN Told("stopping")
               ELSE IF HandleLive THEN AfterTerm({handle}) ELSE worker
  /\ gpc' = "reap"
  /\ UNCHANGED <<sock, pidfile, workVars, memory>>

\* Slip: the handle is dropped while the worker may still stop.
Reap_neitherWaitsNorKills ==
  /\ gpc = "reap"
  /\ UNCHANGED worker
  /\ UnlinkPaths
  /\ gpc' = "poll"
  /\ handle' = NoWorker
  /\ active' = FALSE
  /\ known' = {}
  /\ UNCHANGED <<workVars, goal, before, failures, idle, dormant>>

\* Its own worker has gone, or is killed; then both paths are unlinked.
Reap ==
  /\ gpc = "reap"
  /\ HandleLive => worker[handle] # "stopping"
  /\ worker' = [w \in Workers |-> IF w = handle THEN "none" ELSE worker[w]]
  /\ UnlinkPaths
  /\ gpc' = "poll"
  /\ handle' = NoWorker
  /\ active' = FALSE
  /\ known' = {}
  /\ UNCHANGED <<workVars, goal, before, failures, idle, dormant>>

Park ==
  /\ gpc = "park"
  /\ Answers
  /\ worker' = Told("parked")
  /\ active' = FALSE
  /\ gpc' = "poll"
  /\ UNCHANGED <<sock, pidfile, workVars, goal, handle, known, before, failures, idle, dormant>>

\* No answer: kill_placeholder, kill_visible_placeholder_compute_pids.
ParkFails ==
  /\ gpc = "park"
  /\ ~Answers
  /\ worker' = AfterTerm(PidTarget)
  /\ active' = FALSE
  /\ known' = {}
  /\ gpc' = "kill"
  /\ UNCHANGED <<sock, pidfile, workVars, goal, handle, before, failures, idle, dormant>>

ParkKilled ==
  /\ gpc = "kill"
  /\ \A w \in PidTarget : worker[w] # "stopping"
  /\ pidfile' = NoWorker
  /\ gpc' = "sweep"
  /\ UNCHANGED <<worker, sock, workVars, memory>>

ParkSweep ==
  /\ gpc = "sweep"
  /\ \E S \in Visible : Sweep(S)
  /\ gpc' = "poll"
  /\ UNCHANGED <<workVars, memory>>

-----------------------------------------------------------------------------
GuardStep ==
  \/ EnsureAlive \/ EnsureClear \/ (\E w \in Workers : Spawn(w))
  \/ Ready \/ GiveUp(FALSE) \/ StartFailed \/ Activate \/ ActivateFails
  \/ First \/ Poll \/ Refresh
  \/ DecideBusy \/ DecideServeIdle \/ DecideDormant \/ DecideIdle \/ Tire
  \/ Stop \/ Reap \/ Park \/ ParkFails \/ ParkKilled \/ ParkSweep
  \/ GuardGone

WorkerStep(w) ==
  /\ Bind(w) \/ Leave(w)
  /\ UNCHANGED <<workVars, guardVars, struck>>

Event ==
  \/ Strike("user") /\ UserStart /\ UNCHANGED guardVars
  \/ Strike("tired") /\ Tires /\ UNCHANGED guardVars
  \/ \E j \in Jobs : Strike("kill") /\ Kill(j) /\ UNCHANGED guardVars
  \/ \E j \in Jobs : Strike("hangup") /\ Hangup(j) /\ UNCHANGED guardVars
  \/ \E w \in Workers : Strike("die") /\ Dies(w) /\ UNCHANGED <<workVars, guardVars>>
  \/ \E w \in Workers : /\ Strike("loadfails") /\ LoadFails(w)
                        /\ UNCHANGED <<workVars, guardVars>>
  \/ Strike("slowstart") /\ GiveUp(TRUE)
  \/ Strike("nomemory") /\ ActivateRaises
  \/ Strike("guardstop") /\ GuardStop
  \/ Strike(IF gpc = "wait" THEN "killstart" ELSE "guardkill") /\ GuardKill

Next ==
  /\ \/ (GuardStart \/ GuardStep \/ IdleElapses) /\ UNCHANGED struck
     \/ \E w \in Workers : WorkerStep(w)
     \/ \E j \in Jobs : JobStep(j) /\ UNCHANGED <<guardVars, struck>>
     \/ UserEnd /\ UNCHANGED <<guardVars, struck>>
     \/ Event
  /\ lost' = (Hidden' /\ (lost \/ LostBefore'))

\* The guard and the workers run, the supervisor restarts the guard, and time
\* passes. Nothing is asked of wrappers, services and users.
Fairness ==
  /\ WF_vars((GuardStart \/ GuardStep) /\ UNCHANGED struck)
  /\ WF_vars(IdleElapses /\ UNCHANGED struck)
  /\ \A w \in Workers : WF_vars(WorkerStep(w))

Spec == Init /\ [][Next]_<<vars, lost>> /\ Fairness

-----------------------------------------------------------------------------
TypeOK ==
  /\ WorkerTypeOK
  /\ WorkTypeOK
  /\ gpc \in GuardStates
  /\ goal \in {"none", "start", "up", "idle"}
  /\ handle \in Workers \cup {NoWorker}
  /\ active \in BOOLEAN /\ dormant \in BOOLEAN
  /\ known \subseteq Workers \cup Jobs \cup {User}
  /\ before \subseteq Workers \cup Jobs \cup {User}
  /\ failures \in 0 .. MaxFailures
  /\ idle \in {"none", "counting", "over"}
  /\ struck \subseteq EventKinds
  /\ lost \in BOOLEAN

(* Safety.                                                                  *)

\* Unless it was killed, or stopped between Popen and the assignment of the handle
\* (killstart), the guard holds the handle of every worker that is there: none leaks
\* on any way through start, failure, release and stop, and a stop elsewhere leaves
\* none. The workers live in sessions of their own, so that nothing else ends them.
EveryWorkerIsOwned ==
  struck \cap {"guardkill", "killstart"} = {} => \A w \in Workers : Live(w) => handle = w

\* A guard that is killed leaves its worker; the next one finds it by the socket
\* or the pid file and adds no second one, although wrappers and workers unlink
\* both by path (guard.py, ensure_placeholder_worker). Only a worker that was
\* already hidden it cannot find.
OneWorker ==
  lost \/ Cardinality({w \in Workers : worker[w] \in {"loading", "parked", "active"}}) <= 1

\* A release that ends in this step, by wrapper j or by the guard; and a full stop.
Released(j) == /\ jpc[j] \in {"release", "sweep"}
               /\ jpc'[j] \in {"sweep", "unlink", "queue"} \ {jpc[j]}
GuardReleased == gpc \in {"park", "sweep"} /\ gpc' = "poll"
FullyStopped == gpc = "reap" /\ gpc' = "poll"

ClearsGpu ==
  struck' \cap {"guardkill", "killstart"} = {} =>
    /\ (\E j \in Jobs : Released(j)) \/ GuardReleased => ~Active'
    /\ FullyStopped => \A w \in Workers : ~Live(w)'

\* Whoever releases the placeholder, wrapper or guard, has no active one beside it
\* when its release is done, and no process at all after a full stop, although the
\* worker is reached by paths that others unlink (lock.py,
\* release_placeholder_for_work; guard.py, fully_stop_placeholder_worker and
\* park_placeholder_worker). Only a guard that was killed leaves one behind.
ReleaseClears == [][ClearsGpu]_vars

-----------------------------------------------------------------------------
(* Liveness.                                                                *)

\* serve markers that no live session keeps.
StaleMarkers == (managed \/ startup \/ busy) /\ \A j \in Jobs : jpc[j] \notin Session

\* Work that the placeholder has to make room for.
Needs(j) == jpc[j] \in {"working", "starting", "serving"}

\* A command that runs, a backend that starts and a session with requests have
\* the GPU for themselves before long, and keep it, whatever the guard has read
\* or begun before they came (guard.py, the loop).
WorkIsCleared ==
  \A j \in Jobs : <>[](Needs(j) /\ ~StaleMarkers /\ "guardkill" \notin struck)
                  => <>[]~Active

\* The startup hold: no worker at all, not even a parked or a new one, while a
\* backend starts (guard.py, serve_startup_file: "The placeholder is not
\* respawned until the marker clears").
StartupIsClean ==
  <>[](startup /\ "guardkill" \notin struck) => <>[](\A w \in Workers : ~Live(w))

\* Nobody uses the GPU, and no marker claims it.
Quiet == /\ \A j \in Jobs : jpc[j] = "new"
         /\ user = "none"
         /\ ~managed /\ ~startup /\ ~busy

\* A worker whose pid on the GPU the guard could not tell from somebody else's.
Unmapped == HandleLive /\ known = {} /\ gpc \notin {"wait", "abandon"}

\* What makes the guard lose sight of a worker.
Reachable == "guardkill" \notin struck /\ ~Hidden /\ ~Unmapped

Kept == Active \/ dormant

\* On an idle GPU the placeholder comes back and stays, unless the guard is
\* dormant: no failed start, death of a worker or release on the way gets the
\* loop stuck.
ResumesWhenIdle == <>[](Quiet /\ Reachable) => <>[]Kept

\* A session without requests has the placeholder fill its GPU.
FillsServeIdle ==
  <>[]((\E j \in Jobs : jpc[j] = "open") /\ "guardkill" \notin struck /\ ~Hidden)
  => <>[]Active

-----------------------------------------------------------------------------
(* What the documentation says and the code does not do.                    *)

\* "The placeholder resumes once the GPU is idle again."
AlwaysResumes == <>[]Quiet => <>[]Kept

\* The guard "yields instantly to real work": also, where no wrapper is about, to
\* the user's own process outside gpulock, for which the loop has a branch.
YieldsToUserWork ==
  <>[](user = "own" /\ \A j \in Jobs : jpc[j] = "new") => <>[]~Active

\* The placeholder "is paused automatically - and only for the duration of the
\* lock - so the command runs on a clean card"; a session that has ended, which
\* "cleans everything up on exit", does not change that.
CommandIsCleared == \A j \in Jobs : <>[](jpc[j] = "working") => <>[]~Active
=============================================================================
