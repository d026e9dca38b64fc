------------------------------ MODULE CardWork ------------------------------
(***************************************************************************)
(* The work that comes to one GPU, as the guard and its placeholder see it: *)
(* commands run by gpulock wrappers, `gpulock serve` sessions, and one      *)
(* process of somebody who does not use gpulock.                            *)
(*                                                                         *)
(* A wrapper pulses, releases the placeholder (lock.py), queues, holds the  *)
(* lock, and then runs its command or opens its service (cli.py); when it is *)
(* done, the next one takes its place. Of the lock, only what it promises   *)
(* appears here: one holder at a time.                                      *)
(***************************************************************************)
EXTENDS Placeholder, FiniteSets

CONSTANTS
  Jobs,       \* wrappers
  User,       \* the process outside gpulock
  UserKinds,  \* whose it may be: the guard's user ("own") or another ("other")
  Modes       \* placeholder release modes: "stop", "park"

ASSUME KindsAssumption == UserKinds \subseteq {"own", "other"}
ASSUME ModesAssumption == Modes \subseteq {"stop", "park"}

VARIABLES
  mode,       \* the configured release mode
  jpc,        \* jpc[j]: where wrapper j is
  stale,      \* the lock file is there, and the wrapper that wrote it is dead
  computing,  \* commands that are on the GPU
  user,       \* "none", or whose process is on the GPU
  managed,    \* serve.managed exists
  startup,    \* serve.startup exists
  busy,       \* serve.busy exists
  pulsed,     \* activity.pulse is newer than the guard's last look at it
  awake       \* guard.db has activity of less than idle_timeout ago

markers == <<managed, startup, busy>>
activity == <<pulsed, awake>>
workVars == <<mode, jpc, stale, computing, user, markers, activity>>

JobStates ==
  {"new", "release", "kill", "sweep", "unlink", "queue", "waiting", "locked",
   "working", "managing", "holding", "held", "starting", "ready", "open", "serving",
   "closing", "unholding", "clearing", "leaving", "killed", "hungup"}

Queued  == {"waiting"}
Session == {"managing", "holding", "held", "starting", "ready", "open", "serving",
            "closing", "unholding", "clearing"}
Holding == {"locked", "working", "leaving"} \cup Session

\* gpu_has_our_activity: a lock or request file of a wrapper that lives.
Ours == \E j \in Jobs : jpc[j] \in Queued \cup Holding

\* The processes that nvidia-smi shows: workers have a context from the time
\* they have a socket.
ComputePids == {w \in Workers : Bound(w)} \cup computing
               \cup (IF user = "none" THEN {} ELSE {User})

\* Those of them that are the guard's user's and no placeholders.
OwnPids == computing \cup (IF user = "own" THEN {User} ELSE {})

Goto(j, s) == jpc' = [jpc EXCEPT ![j] = s]

WorkInit == /\ mode \in Modes
            /\ jpc = [j \in Jobs |-> "new"]
            /\ stale = FALSE
            /\ computing = {}
            /\ user = "none"
            /\ managed = FALSE /\ startup = FALSE /\ busy = FALSE
            /\ pulsed = FALSE
            /\ awake = FALSE

-----------------------------------------------------------------------------
(* acquire(): release_placeholder_for_work, one step per call.              *)

\* notify_guard_activity: the pulse file and a row in guard.db.
Pulse(j) ==
  /\ jpc[j] = "new"
  /\ Goto(j, "release")
  /\ pulsed' = TRUE
  /\ awake' = TRUE
  /\ UNCHANGED <<mode, stale, computing, user, markers, workerVars>>

\* stop_placeholder or park_placeholder; without an answer, kill_placeholder.
ReleaseAnswered(j) ==
  /\ jpc[j] = "release"
  /\ Answers
  /\ worker' = Told(IF mode = "stop" THEN "stopping" ELSE "parked")
  /\ Goto(j, IF mode = "stop" THEN "sweep" ELSE "queue")
  /\ UNCHANGED <<mode, stale, computing, user, markers, activity, sock, pidfile>>

ReleaseUnanswered(j) ==
  /\ jpc[j] = "release"
  /\ ~Answers
  /\ worker' = AfterTerm(PidTarget)
  /\ Goto(j, "kill")
  /\ UNCHANGED <<mode, stale, computing, user, markers, activity, sock, pidfile>>

\* kill_placeholder: the process is gone, its pid file too.
Killed(j) ==
  /\ jpc[j] = "kill"
  /\ \A w \in PidTarget : worker[w] # "stopping"
  /\ pidfile' = NoWorker
  /\ Goto(j, "sweep")
  /\ UNCHANGED <<mode, stale, computing, user, markers, activity, worker, sock>>

SweepVisible(j) ==
  /\ jpc[j] = "sweep"
  /\ \E S \in Visible : Sweep(S)
  /\ Goto(j, IF mode = "stop" THEN "unlink" ELSE "queue")
  /\ UNCHANGED <<mode, stale, computing, user, markers, activity>>

Unlink(j) ==
  /\ jpc[j] = "unlink"
  /\ UnlinkPaths
  /\ Goto(j, "queue")
  /\ UNCHANGED <<mode, stale, computing, user, markers, activity, worker>>

\* The request file is there.
Enqueue(j) ==
  /\ jpc[j] = "queue"
  /\ Goto(j, "waiting")
  /\ UNCHANGED <<mode, stale, computing, user, markers, activity, workerVars>>

\* The lock file of a dead wrapper goes only when nothing but placeholders is on
\* the GPU.
Reclaim(j) ==
  /\ jpc[j] = "waiting"
  /\ computing = {} /\ user = "none"
  /\ stale
  /\ stale' = FALSE
  /\ UNCHANGED <<mode, jpc, computing, user, markers, activity, workerVars>>

\* Exclusive.
Lock(j) ==
  /\ jpc[j] = "waiting"
  /\ ~stale
  /\ \A k \in Jobs : jpc[k] \notin Holding
  /\ Goto(j, "locked")
  /\ UNCHANGED <<mode, stale, computing, user, markers, activity, workerVars>>

-----------------------------------------------------------------------------
(* A command.                                                               *)

\* _run_locked_command: the child runs.
Launch(j) ==
  /\ jpc[j] = "locked"
  /\ computing' = computing \cup {j}
  /\ Goto(j, "working")
  /\ UNCHANGED <<mode, stale, user, markers, activity, workerVars>>

\* The child has ended.
Finish(j) ==
  /\ jpc[j] = "working"
  /\ computing' = computing \ {j}
  /\ Goto(j, "leaving")
  /\ UNCHANGED <<mode, stale, user, markers, activity, workerVars>>

\* session.release().
Release(j) ==
  /\ jpc[j] = "leaving"
  /\ Goto(j, "new")
  /\ UNCHANGED <<mode, stale, computing, user, markers, activity, workerVars>>

-----------------------------------------------------------------------------
(* A serve session, with the startup hold that is the default.              *)

SetManaged(j) ==
  /\ jpc[j] = "locked"
  /\ managed' = TRUE
  /\ Goto(j, "managing")
  /\ UNCHANGED <<mode, stale, computing, user, startup, busy, activity, workerVars>>

SetStartup(j) ==
  /\ jpc[j] = "managing"
  /\ startup' = TRUE
  /\ Goto(j, "holding")
  /\ UNCHANGED <<mode, stale, computing, user, managed, busy, activity, workerVars>>

\* The busy signal as a fallback ...
TouchBusy(j) ==
  /\ jpc[j] = "holding"
  /\ busy' = TRUE
  /\ Goto(j, "held")
  /\ UNCHANGED <<mode, stale, computing, user, managed, startup, activity, workerVars>>

\* ... then the backend is launched.
StartBackend(j) ==
  /\ jpc[j] = "held"
  /\ computing' = computing \cup {j}
  /\ Goto(j, "starting")
  /\ UNCHANGED <<mode, stale, user, markers, activity, workerVars>>

\* The backend is ready, or taken to be: the hold is dropped.
ClearStartup(j) ==
  /\ jpc[j] = "starting"
  /\ startup' = FALSE
  /\ Goto(j, "ready")
  /\ UNCHANGED <<mode, stale, computing, user, managed, busy, activity, workerVars>>

OpenProxy(j) ==
  /\ jpc[j] = "ready"
  /\ busy' = FALSE
  /\ Goto(j, "open")
  /\ UNCHANGED <<mode, stale, computing, user, managed, startup, activity, workerVars>>

\* The request counter: on_busy for the first request, on_idle after the last.
RequestsBegin(j) ==
  /\ jpc[j] = "open"
  /\ busy' = TRUE
  /\ Goto(j, "serving")
  /\ UNCHANGED <<mode, stale, computing, user, managed, startup, activity, workerVars>>

RequestsEnd(j) ==
  /\ jpc[j] = "serving"
  /\ busy' = FALSE
  /\ Goto(j, "open")
  /\ UNCHANGED <<mode, stale, computing, user, managed, startup, activity, workerVars>>

\* SIGINT, SIGTERM, the backend's end or its timeout: the backend is terminated.
CloseSession(j) ==
  /\ jpc[j] \in {"starting", "open", "serving"}
  /\ computing' = computing \ {j}
  /\ Goto(j, "closing")
  /\ UNCHANGED <<mode, stale, user, markers, activity, workerVars>>

\* The finally block clears both signals, set or not.
EndStartup(j) ==
  /\ jpc[j] = "closing"
  /\ startup' = FALSE
  /\ Goto(j, "unholding")
  /\ UNCHANGED <<mode, stale, computing, user, managed, busy, activity, workerVars>>

EndBusy(j) ==
  /\ jpc[j] = "unholding"
  /\ busy' = FALSE
  /\ Goto(j, "clearing")
  /\ UNCHANGED <<mode, stale, computing, user, managed, startup, activity, workerVars>>

ClearManaged(j) ==
  /\ jpc[j] = "clearing"
  /\ managed' = FALSE
  /\ Goto(j, "leaving")
  /\ UNCHANGED <<mode, stale, computing, user, startup, busy, activity, workerVars>>

-----------------------------------------------------------------------------
(* Ends that no finally block sees, and the rest of the world.              *)

\* SIGKILL: the child computes on, and every file stays.
Kill(j) ==
  /\ jpc[j] \notin {"new", "killed", "hungup"}
  /\ stale' = (stale \/ jpc[j] \in Holding)
  /\ Goto(j, "killed")
  /\ UNCHANGED <<mode, computing, user, markers, activity, workerVars>>

\* SIGHUP or SIGQUIT: _signal_handler releases the locks and calls os._exit. Or an
\* exception that nobody catches ends the wrapper, and the atexit hook releases them.
Hangup(j) ==
  /\ jpc[j] \in Holding
  /\ Goto(j, "hungup")
  /\ UNCHANGED <<mode, stale, computing, user, markers, activity, workerVars>>

\* A backend ends by itself, or what a dead wrapper has left on the GPU does.
ChildEnds(j) ==
  /\ j \in computing
  /\ jpc[j] \in Session \cup {"killed", "hungup"}
  /\ computing' = computing \ {j}
  /\ UNCHANGED <<mode, stale, jpc, user, markers, activity, workerVars>>

\* The next wrapper in the place of a dead one that has left nothing on the GPU.
Replace(j) ==
  /\ jpc[j] \in {"killed", "hungup"}
  /\ j \notin computing
  /\ Goto(j, "new")
  /\ UNCHANGED <<mode, stale, computing, user, markers, activity, workerVars>>

UserStart ==
  /\ user = "none"
  /\ user' \in UserKinds
  /\ UNCHANGED <<mode, stale, jpc, computing, markers, activity, workerVars>>

UserEnd ==
  /\ user # "none"
  /\ user' = "none"
  /\ UNCHANGED <<mode, stale, jpc, computing, markers, activity, workerVars>>

\* idle_timeout passes without activity.
Tires ==
  /\ awake
  /\ awake' = FALSE
  /\ UNCHANGED <<mode, stale, jpc, computing, user, markers, pulsed, workerVars>>

JobStep(j) ==
  \/ Pulse(j) \/ ReleaseAnswered(j) \/ ReleaseUnanswered(j) \/ Killed(j)
  \/ SweepVisible(j) \/ Unlink(j) \/ Enqueue(j) \/ Reclaim(j) \/ Lock(j)
  \/ Launch(j) \/ Finish(j) \/ Release(j)
  \/ SetManaged(j) \/ SetStartup(j) \/ TouchBusy(j) \/ StartBackend(j)
  \/ ClearStartup(j) \/ OpenProxy(j) \/ RequestsBegin(j) \/ RequestsEnd(j)
  \/ CloseSession(j) \/ EndStartup(j) \/ EndBusy(j) \/ ClearManaged(j)
  \/ ChildEnds(j) \/ Replace(j)

WorkTypeOK ==
  /\ mode \in Modes
  /\ jpc \in [Jobs -> JobStates]
  /\ stale \in BOOLEAN
  /\ computing \subseteq Jobs
  /\ user \in UserKinds \cup {"none"}
  /\ managed \in BOOLEAN /\ startup \in BOOLEAN /\ busy \in BOOLEAN
  /\ pulsed \in BOOLEAN /\ awake \in BOOLEAN
=============================================================================
