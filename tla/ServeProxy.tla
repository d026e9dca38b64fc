----------------------------- MODULE ServeProxy -----------------------------
(***************************************************************************)
(* `gpulock serve <listen>:<backend> <gpus> -- <cmd>`: one session, from its*)
(* write lock to its exit (cli.py _run_serve_proxy_command), and the proxy  *)
(* that runs inside it (serve_proxy.py), whose request counter is the module*)
(* RequestCounter. The session owns the markers serve.managed, serve.startup*)
(* and serve.busy that the guard decides by; serve.busy has two writers, the*)
(* startup hold and the counter. Signals strike between any two steps and   *)
(* mean different things before, during and after the event loop.           *)
(***************************************************************************)
EXTENDS RequestCounter, SequencesExt

CONSTANTS
  Calls,      \* what clients may ask for: [method, path], a path is its segments
  Added,      \* rules of --ignore and GPULOCK_SERVE_IGNORE
  Reset,      \* --ignore-reset
  Options,    \* command lines: [hold |-> a boolean, timeout |-> a member of Waits]
  MaxSignals  \* bound on the number of signals to the session

\* How long the session waits for the backend's port, and what it does then.
Waits == {"forever", "fail", "proxy"}

ASSUME OptionsAssumption == Options \subseteq [hold : BOOLEAN, timeout : Waits]
ASSUME SignalsAssumption == MaxSignals \in Nat

VARIABLES
  call,      \* call[r]: what request r asks for
  opt,       \* the session's command line
  spc,       \* where its main thread is
  backend,   \* the process that Popen started
  stop,      \* stop_event
  handlers,  \* who answers SIGINT and SIGTERM: "session", "loop" or "default"
  managed,   \* serve.managed exists
  startup,   \* serve.startup exists
  lock,      \* the write lock is held, or its file is there
  signals    \* signals so far

counter == <<count, token, timers, clearing, state, quiet, fails>>
process == <<backend, stop, handlers, signals>>
fixed == <<call, opt>>
vars == <<counter, busy, process, fixed, spc, managed, startup, lock>>

Over == {"done", "exited", "aborted", "killed"}

-----------------------------------------------------------------------------
(* The blacklist                                                            *)

Get(path) == [method |-> "GET", path |-> path]

\* Any OPTIONS request, whatever its path.
Preflight == [method |-> "*", path |-> <<"OPTIONS_PREFLIGHT">>]

DefaultRules ==
  {Preflight, Get(<<"v1", "models">>)} \cup
  {Get(<<probe>>) : probe \in {"health", "healthz", "health_generate", "ready", "ping",
                               "metrics", "stats", "load", "version", "get_model_info",
                               "get_server_info"}}

\* The rules that the command line and the environment ask for.
Rules == IF Reset THEN Added ELSE DefaultRules \cup Added

\* A rule's path stands for itself and all below it; the root has nothing below.
Matches(c, rule) ==
  IF rule = Preflight THEN c.method = "OPTIONS"
  ELSE /\ rule.method \in {"*", c.method}
       /\ rule.path = c.path \/ (rule.path # <<>> /\ IsPrefix(rule.path, c.path))

ShouldCount(c, rules) == \A rule \in rules : ~Matches(c, rule)

\* The handler calls should_count without the rules that it was given.
Counted(r) == ShouldCount(call[r], DefaultRules)

-----------------------------------------------------------------------------
\* The lock is taken and the session's signal handlers are registered. A session
\* that was killed before may have left its markers.
Init ==
  /\ CounterInit
  /\ call \in [Requests -> Calls]
  /\ opt \in Options
  /\ spc = "set_managed"
  /\ backend = "none"
  /\ stop = FALSE
  /\ handlers = "session"
  /\ managed \in BOOLEAN
  /\ startup = managed
  /\ busy = managed
  /\ lock = TRUE
  /\ signals = 0

SetManaged ==
  /\ spc = "set_managed"
  /\ managed' = TRUE
  /\ spc' = IF opt.hold THEN "set_startup" ELSE "launch"
  /\ UNCHANGED <<counter, busy, process, fixed, startup, lock>>

SetStartup ==
  /\ spc = "set_startup"
  /\ startup' = TRUE
  /\ spc' = "touch_busy"
  /\ UNCHANGED <<counter, busy, process, fixed, managed, lock>>

TouchBusy ==
  /\ spc = "touch_busy"
  /\ busy' = TRUE
  /\ spc' = "launch"
  /\ UNCHANGED <<counter, process, fixed, managed, startup, lock>>

\* Popen starts the /bin/bash of shell=True, which runs the backend.
LaunchBackend ==
  /\ spc = "launch"
  /\ backend' = "loading"
  /\ spc' = "run_loop"
  /\ UNCHANGED <<counter, busy, stop, handlers, signals, fixed, managed, startup, lock>>

\* asyncio.run, add_signal_handler, the thread that watches the backend.
StartLoop ==
  /\ spc = "run_loop"
  /\ handlers' = "loop"
  /\ spc' = "waiting"
  /\ UNCHANGED <<counter, busy, backend, stop, signals, fixed, managed, startup, lock>>

\* The way on from the wait: the hold is released, if there was one.
Proceed == spc' = IF opt.hold THEN "drop_startup" ELSE "open"

\* asyncio.run returns: handles that wait in call_later are dropped, and
\* loop.close() removes its signal handlers.
CloseLoop ==
  /\ timers' = {}
  /\ handlers' = "default"
  /\ spc' = "ending"
  /\ UNCHANGED <<count, token, clearing, state, quiet, fails>>

\* Slip: readiness is not raced against stop_event.
StopWaiting_notRaced ==
  /\ spc = "waiting"
  /\ stop
  /\ backend = "up"
  /\ CloseLoop
  /\ UNCHANGED <<busy, backend, stop, signals, fixed, managed, startup, lock>>

\* The wait ends with stop_event set, whether or not the backend is ready.
StopWaiting ==
  /\ spc = "waiting"
  /\ stop
  /\ CloseLoop
  /\ UNCHANGED <<busy, backend, stop, signals, fixed, managed, startup, lock>>

\* The backend's port accepts a connection.
BackendReady ==
  /\ spc = "waiting"
  /\ ~stop
  /\ backend = "up"
  /\ Proceed
  /\ UNCHANGED <<counter, busy, process, fixed, managed, startup, lock>>

\* Slip: the result of the wait is not looked at.
ReadyTimeout_ignored ==
  /\ spc = "waiting"
  /\ ~stop
  /\ opt.timeout # "forever"
  /\ Proceed
  /\ UNCHANGED <<counter, busy, process, fixed, managed, startup, lock>>

\* --backend-ready-timeout-s is over: fail, or proxy anyway.
ReadyTimeout ==
  /\ spc = "waiting"
  /\ ~stop
  /\ \/ opt.timeout = "proxy" /\ Proceed /\ UNCHANGED <<timers, handlers>>
     \/ opt.timeout = "fail" /\ CloseLoop
  /\ UNCHANGED <<count, token, clearing, state, quiet, fails>>
  /\ UNCHANGED <<busy, backend, stop, signals, fixed, managed, startup, lock>>

DropStartup ==
  /\ spc = "drop_startup"
  /\ startup' = FALSE
  /\ spc' = "drop_busy"
  /\ UNCHANGED <<counter, busy, process, fixed, managed, lock>>

\* Slip: the fallback busy signal is left to the first request.
DropBusy_left ==
  /\ spc = "drop_busy"
  /\ spc' = "open"
  /\ UNCHANGED <<counter, busy, process, fixed, managed, startup, lock>>

DropBusy ==
  /\ spc = "drop_busy"
  /\ busy' = FALSE
  /\ spc' = "open"
  /\ UNCHANGED <<counter, process, fixed, managed, startup, lock>>

\* run_proxy: the port is taken, or the proxy listens.
OpenProxy ==
  /\ spc = "open"
  /\ \/ spc' = "proxying" /\ UNCHANGED <<timers, handlers>>
     \/ CloseLoop
  /\ UNCHANGED <<count, token, clearing, state, quiet, fails>>
  /\ UNCHANGED <<busy, backend, stop, signals, fixed, managed, startup, lock>>

-----------------------------------------------------------------------------
(* The proxy                                                                *)

\* A request that counts: the handler's increment().
Arrive(r) ==
  /\ spc = "proxying"
  /\ Counted(r)
  /\ Increment(r)
  /\ UNCHANGED <<process, fixed, spc, managed, startup, lock>>

\* A probe is forwarded without a trace.
Forward(r) ==
  /\ spc = "proxying"
  /\ MayRun
  /\ state[r] = "new"
  /\ ~Counted(r)
  /\ Goto(r, "done")
  /\ UNCHANGED <<count, token, timers, clearing, quiet, fails>>
  /\ UNCHANGED <<busy, process, fixed, spc, managed, startup, lock>>

\* A callback of the counter, on the loop until that is closed.
OnLoop(A) ==
  /\ spc \in {"proxying", "draining"}
  /\ A
  /\ UNCHANGED <<process, fixed, spc, managed, startup, lock>>

\* A handler leaves with an answer, an error or its cancellation.
Callbacks == OnLoop((\E r \in Requests : SetBusy(r) \/ Decrement(r)) \/ Idle \/ Tick)

\* stop_event ends run_proxy's wait; runner.cleanup() takes no new requests.
StopProxy ==
  /\ spc = "proxying"
  /\ MayRun
  /\ stop
  /\ spc' = "draining"
  /\ UNCHANGED <<counter, busy, process, fixed, managed, startup, lock>>

\* runner.cleanup() has waited for the handlers, or cancelled them.
EndProxy ==
  /\ spc = "draining"
  /\ Settled
  /\ InFlight = {}
  /\ CloseLoop
  /\ UNCHANGED <<busy, backend, stop, signals, fixed, managed, startup, lock>>

-----------------------------------------------------------------------------
(* The finally block                                                        *)

\* poll(), and terminate() of a backend that runs.
Terminate ==
  /\ spc = "ending"
  /\ spc' = IF backend = "dead" THEN "clear_startup" ELSE "reaping"
  /\ UNCHANGED <<counter, busy, process, fixed, managed, startup, lock>>

\* Slip: the wait for the backend is left out.
Reap_noWait ==
  /\ spc = "reaping"
  /\ spc' = "clear_startup"
  /\ UNCHANGED <<counter, busy, process, fixed, managed, startup, lock>>

\* wait() returns, or times out: kill(), which nobody waits for. Both signals go to
\* the shell, and what it runs is taken to end with it.
Reap ==
  /\ spc = "reaping"
  /\ spc' = "clear_startup"
  /\ \/ backend = "dead" /\ UNCHANGED backend
     \/ backend # "dead" /\ backend' = "dying"
  /\ UNCHANGED <<counter, busy, stop, handlers, signals, fixed, managed, startup, lock>>

ClearStartup ==
  /\ spc = "clear_startup"
  /\ startup' = FALSE
  /\ spc' = "clear_busy"
  /\ UNCHANGED <<counter, busy, process, fixed, managed, lock>>

ClearBusy ==
  /\ spc = "clear_busy"
  /\ busy' = FALSE
  /\ spc' = "clear_managed"
  /\ UNCHANGED <<counter, process, fixed, managed, startup, lock>>

\* Slip: the lock goes before the marker.
ClearManaged_afterRelease ==
  /\ spc = "clear_managed"
  /\ lock' = FALSE
  /\ spc' = "release"
  /\ UNCHANGED <<counter, busy, process, fixed, managed, startup>>

ClearManaged ==
  /\ spc = "clear_managed"
  /\ managed' = FALSE
  /\ spc' = "release"
  /\ UNCHANGED <<counter, busy, process, fixed, startup, lock>>

Release ==
  /\ spc = "release"
  /\ lock' = FALSE
  /\ spc' = "done"
  /\ UNCHANGED <<counter, busy, process, fixed, managed, startup>>

-----------------------------------------------------------------------------
(* The backend and the signals                                              *)

BackendUp ==
  /\ backend = "loading"
  /\ backend' = "up"
  /\ UNCHANGED <<counter, busy, stop, handlers, signals, fixed, spc, managed, startup, lock>>

BackendDies ==
  /\ backend \in {"loading", "up", "dying"}
  /\ backend' = "dead"
  /\ UNCHANGED <<counter, busy, stop, handlers, signals, fixed, spc, managed, startup, lock>>

\* _watch_backend, as long as the loop takes call_soon_threadsafe.
WatchBackend ==
  /\ backend = "dead"
  /\ handlers = "loop"
  /\ spc \notin Over
  /\ stop' = TRUE
  /\ UNCHANGED <<counter, busy, backend, handlers, signals, fixed, spc, managed, startup, lock>>

Signalled ==
  /\ spc \notin Over
  /\ signals < MaxSignals
  /\ signals' = signals + 1
  /\ UNCHANGED <<counter, busy, backend, handlers, fixed, managed, startup>>

\* The session's handler releases the lock and calls os._exit: SIGHUP and SIGQUIT
\* at any time, SIGINT and SIGTERM before the loop runs.
SignalExits ==
  /\ Signalled
  /\ lock' = FALSE
  /\ spc' = "exited"
  /\ UNCHANGED stop

\* The loop's handler for SIGINT and SIGTERM.
SignalStops ==
  /\ Signalled
  /\ handlers = "loop"
  /\ stop' = TRUE
  /\ UNCHANGED <<spc, lock>>

\* SIGTERM after the loop has removed its handler; or SIGKILL.
SignalKills ==
  /\ Signalled
  /\ spc' = "killed"
  /\ UNCHANGED <<stop, lock>>

-----------------------------------------------------------------------------
(* Exceptions that nobody catches                                           *)

\* The traceback ends the process and the atexit hook releases the lock. The markers
\* and the backend stay as they are.
Abort ==
  /\ lock' = FALSE
  /\ spc' = "aborted"
  /\ UNCHANGED <<counter, busy, backend, stop, handlers, fixed, managed, startup>>

\* Before the try block: a marker cannot be written, or the flushed banner or Popen
\* raises.
LaunchRaises ==
  /\ spc \in {"set_managed", "set_startup", "touch_busy", "launch"}
  /\ Abort
  /\ UNCHANGED signals

\* In the finally block: a marker cannot be removed.
CleanupRaises ==
  /\ spc \in {"clear_startup", "clear_busy", "clear_managed"}
  /\ Abort
  /\ UNCHANGED signals

\* SIGINT in the finally block: the loop has given it back to Python's own handler,
\* which raises KeyboardInterrupt.
Interrupted ==
  /\ spc \in {"ending", "reaping", "clear_startup", "clear_busy", "clear_managed", "release"}
  /\ Signalled
  /\ Abort

-----------------------------------------------------------------------------
Begin == SetManaged \/ SetStartup \/ TouchBusy \/ LaunchBackend \/ StartLoop

Await == StopWaiting \/ BackendReady \/ ReadyTimeout

Open == DropStartup \/ DropBusy \/ OpenProxy

Finish ==
  Terminate \/ Reap \/ ClearStartup \/ ClearBusy \/ ClearManaged \/ Release

Handle == \E r \in Requests : Arrive(r) \/ Forward(r)

Outside ==
  \/ BackendUp \/ BackendDies \/ WatchBackend
  \/ SignalExits \/ SignalStops \/ SignalKills
  \/ LaunchRaises \/ CleanupRaises \/ Interrupted

Next ==
  Begin \/ Await \/ Open \/ Handle \/ Callbacks \/ StopProxy \/ EndProxy \/ Finish \/ Outside

Spec == Init /\ [][Next]_vars

\* The session goes on and sees its backend die; timers fire, callbacks that have
\* started go on, time passes; runner.cleanup() leaves no handler behind. A
\* backend need not get ready nor die, a request need neither come nor end while
\* the proxy is open, and nobody need send a signal.
Fairness ==
  /\ WF_vars(Begin \/ StopWaiting \/ BackendReady \/ Open \/ StopProxy \/ EndProxy \/ Finish)
  /\ WF_vars(WatchBackend)
  /\ WF_vars(OnLoop(Idle))
  /\ WF_vars(OnLoop(Tick))
  /\ \A r \in Requests : WF_vars(OnLoop(SetBusy(r)))
  /\ \A r \in Requests : WF_vars(spc = "draining" /\ OnLoop(Decrement(r)))

FairSpec == Spec /\ Fairness

-----------------------------------------------------------------------------
(* Properties                                                               *)

SpcStates ==
  {"set_managed", "set_startup", "touch_busy", "launch", "run_loop", "waiting",
   "drop_startup", "drop_busy", "open", "proxying", "draining", "ending", "reaping",
   "clear_startup", "clear_busy", "clear_managed", "release"} \cup Over

\* The counter's and the session's fields have their types.
TypeOK ==
  /\ CounterTypeOK
  /\ call \in [Requests -> Calls]
  /\ opt \in Options
  /\ spc \in SpcStates
  /\ backend \in {"none", "loading", "up", "dying", "dead"}
  /\ handlers \in {"session", "loop", "default"}
  /\ {stop, managed, startup, lock} \subseteq BOOLEAN
  /\ signals \in 0..MaxSignals

\* The ways out that give the lock back and skip the rest of the finally block:
\* os._exit (session.py _signal_handler), and an exception before the try block or
\* out of the finally block itself (cli.py:514-550, 648-661).
CutShort == spc \in {"exited", "aborted"}

\* The guard takes a marker for the word of the session that has the write lock.
\* None of the three is there without the lock, whatever ended the session's loop
\* and whatever requests and timers were pending then, unless the session was cut
\* short: such a session leaves its markers to the guard and to the next session.
SignalsWithinLock == managed \/ startup \/ busy => lock \/ CutShort

\* The backend has the write lock for as long as it runs, on every way out of a
\* session that is not cut short; one that was killed may still be dying.
LockCoversBackend == backend \in {"loading", "up"} /\ ~CutShort => lock

\* Until the backend is ready its GPUs carry no placeholder: serve.startup and
\* serve.busy are there while it loads, also while the session ends early, unless
\* the user asked to proxy anyway after a timeout.
HeldUntilReady ==
  opt.hold /\ opt.timeout # "proxy" /\ backend = "loading" => startup /\ busy

\* A session whose backend has died, or that was asked to stop, ends; it does not
\* wait on for a backend that never gets ready, holding the lock.
SessionEnds == stop \/ backend = "dead" ~> spc \in Over

\* With no request in flight serve.busy goes away, so that the placeholder comes
\* back, unless a request comes first, a file operation fails or the proxy stops.
\* Without the startup hold a dead session's serve.busy stays until a request.
QuietServiceIsIdle ==
  opt.hold /\ spc = "proxying" /\ InFlight = {} /\ busy
    ~> ~busy \/ InFlight # {} \/ fails > 0 \/ spc # "proxying"

\* Where CardWork's serve session is while this one is at spc.
Serving == IF busy THEN "serving" ELSE "open"

Stage ==
  CASE spc = "set_managed" -> "locked"
    [] spc = "set_startup" -> "managing"
    [] spc = "touch_busy" -> "holding"
    [] spc = "launch" -> "held"
    [] spc \in {"run_loop", "waiting", "drop_startup"} -> "starting"
    [] spc = "drop_busy" -> "ready"
    [] spc \in {"open", "proxying", "draining"} -> Serving
    [] spc \in {"ending", "reaping"} -> IF startup THEN "starting" ELSE Serving
    [] spc = "clear_startup" -> "closing"
    [] spc = "clear_busy" -> "unholding"
    [] spc = "clear_managed" -> "clearing"
    [] spc = "release" -> "leaving"
    [] spc = "done" -> "new"
    [] spc \in {"exited", "aborted"} -> "hungup"
    [] spc = "killed" -> "killed"

\* The work on one GPU that is this session alone: no placeholder, nobody else.
Card == INSTANCE CardWork WITH
  Jobs <- {"session"}, User <- "user", UserKinds <- {}, Modes <- {"stop"},
  Workers <- {}, NoWorker <- "none", Gone <- "gone",
  mode <- "stop", stale <- Stage = "killed", user <- "none", pulsed <- FALSE, awake <- FALSE,
  worker <- <<>>, sock <- "none", pidfile <- "none",
  jpc <- [j \in {"session"} |-> Stage],
  computing <- IF backend \in {"loading", "up"} THEN {"session"} ELSE {}

CardStep == \/ Card!JobStep("session") \/ Card!Kill("session") \/ Card!Hangup("session")
            \/ UNCHANGED Card!workVars

\* With the startup hold, what the guard sees of a session - its lock, its markers
\* and its backend, whatever requests, timers and signals cross - is what CardWork
\* says of a serve session, by which the guard is checked.
ImplementsCardWork ==
  /\ opt.hold => Stage = "locked" /\ backend = "none"
  /\ [](opt.hold => (lock <=> Stage \in Card!Holding \cup {"killed"}))
  /\ [][opt.hold => CardStep]_vars

\* README.md:228-238: a path given by --ignore or GPULOCK_SERVE_IGNORE is a
\* heartbeat that never counts as activity.
ConfiguredProbesStayQuiet ==
  \A r \in Requests : r \in InFlight => ShouldCount(call[r], Rules)

=============================================================================
