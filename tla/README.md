# gpulock: a verification project

gpulock lets several users and agents share the GPUs of one machine. A command
is wrapped as `gpulock check <gpus> -- <cmd>` (a reader) or
`gpulock perf <gpus> -- <cmd>` (a writer); the wrapper takes a per-GPU
read/write lock made of files, runs the command and gives the lock back. A guard
daemon keeps a small placeholder process on idle GPUs and takes it away when
real work comes; `gpulock serve` runs a long-lived service behind a proxy that
tells the guard when the service is busy. This directory holds TLA+ models of
that program, the TLC runs that check them and the theorems that TLAPS proves
about them. File names below are relative to `src/src/gpulock/`.

## 1. Inventory

| Component | State it keeps | Operations | Interacts with |
|---|---|---|---|
| Lock, `lock.py` | lock files (`write.lock`, `readers/*.lock`), request files (`queue/*.req`), the flock `state.lock`, `queue.seq`; in memory the stale-file observations of a waiter | acquire loop, stale-lock cleanup, heartbeat thread, release | other wrappers through the directory only; `nvidia-smi`; placeholder and guard database at the start of `acquire` |
| Session, `session.py` | the list of locks held | acquire in id order with rollback, release in reverse order, signal handler, atexit hook | lock, command |
| Command, `cli.py` `_run_locked_command` | none | acquire, run child, release in `finally` | session, child process |
| Probes, `gpu.py` | none | processes and utilisation per GPU, `pid_exists` | `nvidia-smi`, `/proc` |
| Request counter and proxy, `serve_proxy.py` | number of requests in flight, idle token, pending timers | readiness wait, handler with its blacklist, increment, decrement, delayed idle check, cleanup | `serve.busy` marker, hence the guard; the backend's port |
| Serve command, `cli.py` `_run_serve_proxy_command` | markers `serve.managed`, `serve.startup`, `serve.busy`; `stop_event`; the backend process | start, startup hold, event loop with the proxy in it, `finally`, signals | guard through the markers, session for the lock, backend |
| Guard, `guard.py` | per GPU: worker handle, whether it is active, its mapped pids, idle timer, dormancy; one failure counter | observe, decide, start, activate, park, stop, clean up | placeholder by socket, lock directory, markers, activity database |
| Placeholder, `placeholder.py` | active or parked, socket, pid file | stop, park, activate, kill paths | guard and wrappers by socket |
| Activity log, `activity.py` | time-stamped rows per GPU in SQLite | record, query, migrate | wrappers, guard |
| Service, `service/*.py`, `update.py` | `config.json`, `supervisord.conf`, `supervisord.pid`, the control socket | install, config, start, stop, restart, uninstall, update | supervisord, which runs the guard; placeholder workers by their pid files |
| Diagnostics, agent policy, paths, logging | none that anything races for | reports, text | - |

What makes each of them hard, and what makes it correct:

* **Lock.** Waiters go through the gate one at a time, but owners write
  heartbeats and release without it. Files disappear by path, whoever owns them.
  A lock file may belong to a process that crashed, or to one whose command
  still computes. *Correct*: a writer is alone; an owner's file stays; only
  abandoned files are reclaimed; nobody is overtaken in the queue; a queued
  request is served; an orderly exit leaves nothing behind.
* **Session.** It holds some locks while it waits for others, and may fail, time
  out or be interrupted anywhere. *Correct*: no deadlock, complete rollback,
  exactly what was taken is released.
* **Request counter and serve session.** Timers are not cancelled but outdated by a
  token, and fire late. `serve.busy` has two writers, the startup hold and the
  counter. Signals mean different things before, during and after the event loop.
  *Correct*: exact count; the marker covers every request, is taken away only after
  the debounce time, and then it is; the markers and the backend stay within the
  write lock; the startup hold lasts until the backend is ready; a session that is
  told to end does.
* **Guard, placeholder.** Everything is decided from what was read a
  moment ago, while wrappers, services and users act; each side removes files the
  other one may just have made. *Correct*: at most one worker per GPU, the worker
  is out of the way of real work, a placeholder comes back when the GPU is idle, a
  marker that nobody maintains does not decide for ever.
* **Service.** Every wait has a time limit, after which something is killed; workers
  live in sessions of their own and survive guard and supervisord; pid files and the
  socket are unlinked by path. *Correct*: one supervisord and one guard; the files
  lead to it; a stop leaves no worker; a restart applies the configuration; an update
  restores what ran.

The hazards in `PROJECT.json` list these line by line, with the properties that
would catch each going wrong.

## 2. Modules

| Module | Models |
|---|---|
| `GpuLock` | `lock.py`, `session.py`, the locked command of `cli.py`, on any set of GPUs |
| `RWLock` | abstract: what the lock directory promises |
| `MCGpuLock` | instances of `GpuLock` for TLC |
| `GpuLockProofs`, `GpuLockSessionProofs`, `GpuLockRefinement`, `RWLockProofs` | theorems about the lock |
| `Placeholder` | the placeholder workers of one GPU, their socket and pid file (`placeholder.py`) |
| `CardWork` | what comes to that GPU: wrappers that release the placeholder and run commands, `gpulock serve` sessions with their markers, a foreign process (`lock.py`, `cli.py`, `session.py`, `activity.py`) |
| `Guard`, `MCGuard`, `GuardProofs` | `guard.py` on that GPU, composed with the two above, its instances and its theorems |
| `RequestCounter`, `RequestCounterProofs` | `RequestCounter` of `serve_proxy.py`, and its theorems |
| `ServeProxy`, `MCServe`, `ServeProxyProofs` | a session of `gpulock serve`, with the counter in it, its instances and theorems (`cli.py`, `serve_proxy.py`, `session.py`) |
| `Service`, `MCService`, `ServiceProofs` | the commands of `gpulock service` and `gpulock update`, supervisord, its guard and workers, its instance and theorems (`service/`, `update.py`) |

### GpuLock

One process `p` of `Procs` is one wrapper. `pc[p]` says where it is; its other
variables are the wrapper's memory (`locks`, `unlinked`, `streak`, `probe`), its
child (`work`) and the files of each GPU (`files`, `blank`, `old`, `line`,
`gate`).

| Code | Model |
|---|---|
| `_parse_gpu_ids` (sorted, unique), `session.acquire` | `Cur`: the lowest id not yet held |
| `_ensure_write_lock_gpu_ready` | `PrecheckIdle`, `PrecheckBusy`, `PrecheckTimeout` |
| one pass of the loop in `acquire`, under the flock | `PollBlocked` (must wait) or `PollCreate` (creates the file, keeps the flock), then `Commit` or `CommitFails` |
| the last look at the GPU (`lock.py:379`) and the unlink (383) of a stale file | one step, part of the pass |
| request files with sequence numbers | `line[g][p]`: the requests numbered up to `p`'s own |
| `_try_cleanup_stale_lock` | `Candidates`, `Stale`: two observations without a write in between, then unlink |
| file age against `grace_age_s` and `max(2 * heartbeat_s, 2)` | `old`, set by `Age`; reset by a heartbeat |
| `_write_heartbeat`: `ftruncate`, then `write` | `HeartbeatTruncate`, `HeartbeatWrite` |
| `release` | `ReleaseUnlink`, then `ReleaseClear` |
| `_signal_handler`, during the command or during `release` | `Signal`, `SignalInRelease` |
| Ctrl-C before the handlers are registered | `Interrupt` |
| SIGKILL | `Crash`: the flock goes, files and child stay |

A pass is one step, because it runs under the flock and reads other processes'
files once; the steps of owners that need no flock (heartbeat, release) and of
the creation of a lock file (create, then write) are split where another process
may look in between. `files`, `blank` and `old` are sets of processes per GPU:
the name of a writer's file is the same for everybody (`SamePath`), so that an
unlink by path hits whoever is there.

`Restart` lets a process that has ended run the same command line again, so that
behaviours are endless and the liveness properties have rivals that return.

Faults are of eight kinds, counted together and bounded by `MaxFaults`; a run
names the kinds that may occur. `stall` lets a live owner's file be empty for as
long as it takes to be too old (a heartbeat thread that died between truncate and
write, `lock.py:225-228`), `resignal` is a second signal inside `release`. These
two break `Exclusive`, as TLC finds when a run admits them: a file left empty is taken
for one without an owner, and a second release unlinks what by now is somebody
else's file. All other kinds do not, and theorems say so.

### RWLock and the refinement

`RWLock` has a set of holders per GPU and says who may join and leave it: a grant
needs compatible holders, a release is the holder's own, and a holder is dropped
only if it is dead and nothing computes on its GPU. `GpuLock` implements it under
`Promise`: a holder is whoever has a lock file. `ImplementsRWLock` is checked by
`GpuLock_faults` and proved by `GpuLockRefinement`.

### RequestCounter and ServeProxy

`count`, `_idle_token` and the pending timers are variables, and so is the marker
`serve.busy`. `increment`, `decrement` and `_maybe_idle` are split where the
class's lock is let go of and the file operation follows: `Increment`/`SetBusy`,
`MaybeIdle`/`SetIdle`. With `OneLoop` a callback runs to its end before the next
one starts, as the proxy's event loop does; without it they interleave, as
threads would. `quiet` measures the time since a request last began or ended, in
ticks up to the debounce time, for the properties alone.

`ServeProxy` extends the counter by the session around it. `spc` is where the main
thread is, `handlers` who answers SIGINT and SIGTERM by then.

| Code | Model |
|---|---|
| `_run_serve_proxy_command` up to `asyncio.run` | `SetManaged`, `SetStartup`, `TouchBusy`, `LaunchBackend`, `StartLoop`; the hold's two only under `--park-placeholder-until-ready`, the default |
| `wait_backend_ready` raced against `stop_event` | `StopWaiting`, `BackendReady`, `ReadyTimeout` with each `--backend-ready-timeout` answer |
| the hold is released, `run_proxy` opens its port | `DropStartup`, `DropBusy`, `OpenProxy` |
| `should_count`, the blacklist and its options | `Matches`, `ShouldCount`, `DefaultRules`, `Rules`, `Counted` |
| the handler | `Arrive` or `Forward`, then the counter's actions under `OnLoop` |
| `runner.cleanup()`, the end of the loop | `StopProxy`, `EndProxy`; `CloseLoop` drops the timers |
| the `finally` block | `Terminate`, `Reap`, `ClearStartup`, `ClearBusy`, `ClearManaged`, `Release` |
| `_watch_backend` | `WatchBackend` |
| `session._signal_handler` and `os._exit`; the loop's handlers; none | `SignalExits`, `SignalStops`, `SignalKills` |
| an exception before the `try` block (a marker, the banner, `Popen`); one out of the `finally` block (a marker, Ctrl-C), with the atexit hook | `LaunchRaises`; `CleanupRaises`, `Interrupted`; `Abort` |

A session may start over markers that a killed one has left (`Init`). The three
markers are files of each GPU of the session; they are set and cleared in the same
order on all, and one GPU stands for them.

`Guard` is not composed with this session but with the few steps that `CardWork` has for
one. That these are enough is `ImplementsCardWork`, an instance of `CardWork` inside
`ServeProxy`: `Stage` says where `CardWork`'s session is, the three markers are the
markers, the backend computes while it loads or is up, and there are no workers, since
neither side touches them. With the startup hold every step of the session is then one
that `CardWork` allows, a kill or a hang-up (which is also what a session that an
exception ends looks like), or it changes nothing that the guard can see; and
`CardWork`'s session holds the lock exactly while this one does, or was killed with it.
`backend` is the `/bin/bash` that `Popen` started: `terminate()` and `kill()` reach only
that, and what it runs is taken to end with it. `Reap` waits for ten seconds at most. A
backend that is then sent `kill()`, for which nobody waits (`cli.py:654`), is `dying`
while the lock goes, and counts as not computing. Without the hold there is no such
claim: `CardWork` has only the default.

### Placeholder, CardWork, Guard

`Guard` extends `CardWork`, which extends `Placeholder`: one state with the
variables of all three. They share the files of the GPU's directory. `sock` and
`pidfile` say which worker is found at the two paths (`NoWorker`: no file, `Gone`:
a file that leads to no process); everybody writes and unlinks them by path.

| Code | Model |
|---|---|
| `placeholder_main` up to `bind`, `handle_command`, `on_signal`, `cleanup` | `worker[w]`: loading, parked or active, stopping; `Bind`, `Told`, `AfterTerm`, `Leave` |
| `notify_guard_activity`, `release_placeholder_for_work` | `Pulse` to `Unlink`, one step per call |
| request and lock files, as the guard sees them | `Ours`; one holder at a time (`Lock`), which is what `GpuLock` is about; a dead holder's file (`stale`) goes when nothing but placeholders is on the GPU (`Reclaim`) |
| `_run_locked_command` | `Launch`, `Finish`, `Release` |
| `_run_serve_proxy_command` with the startup hold | `SetManaged` to `ClearManaged`, one step per marker and one for the backend |
| a backend that ends by itself; the command of a dead wrapper that ends; the next command | `ChildEnds`, `Replace` |
| memory of the guard | `handle`, `active`, `known`, `before`, `failures`, `idle`, `dormant` |
| one pass of its loop | `Poll`, `Refresh`, one of `DecideBusy`, `DecideServeIdle`, `DecideDormant`, `DecideIdle` in the order of the `elif`s, `Tire` |
| `ensure_placeholder_worker` | `EnsureAlive` or `EnsureClear`, `Spawn`, then `Ready`, or `GiveUp` and `StartFailed`; `goal` says who called it |
| `activate_placeholder_worker` | then `Activate`, `ActivateFails`, or `ActivateRaises` when there is no memory |
| `fully_stop_placeholder_worker`, `park_placeholder_worker` | `Stop`, `Reap`; `Park` or `ParkFails`, `ParkKilled`, `ParkSweep` |
| `cleanup`, on a signal or after too many failures | `GuardStop`, `GuardGone` |

The guard is split at every call that waits for, or asks, another process, so
that wrappers, services and workers act between what it reads and what it does.
`Spawn` joins `Popen` (`guard.py:247`) and the assignment of the handle (254). A
SIGTERM whose handler runs between them finds no handle and leaves the worker that
loads, which is what a guard leaves that is killed while it waits: the event
`killstart` stands for both.
Numbers are gone: `placeholder_idle_s`, `idle_timeout` and the start timeout are
events that happen at any time when they may. `Event` holds what a run may add:
a wrapper that is killed or hung up, a worker that dies, does not load, loads too
slowly or finds no memory, a guard that is stopped or killed, a user's process,
the idle timeout.

Taken as given: a worker that is told or signalled to stop is gone within the
time that everybody waits for it; an answer comes before the client's timeout; a
worker with a socket is seen by `nvidia-smi`, one that loads may be seen;
`nvidia-smi` does not fail; wrappers and guard use the same release mode;
`placeholder_idle_s` is positive; the precheck of `perf` takes no time. A guard on
several GPUs handles them one after the other, and shares nothing between them but
`failures`.

### Service

`cmd` and `cpc` are the user's shell: the command that runs and where it is. A user
waits for a command before giving the next.

| Code | Model |
|---|---|
| `install`, `config set/unset/preset/edit`, `uninstall` | `Install`, `ConfigSet`, `RemoveFiles` in `StopDone`; a configuration is the set of GPUs it names and whether `render_conf` accepts it (`bad`) |
| `start` | `StartCheck`, `StartLoad`, `Launch`, `StartDone` |
| `stop` | `StopCheck`, `Shutdown`, `StopWait`, `StopKill`, `StopDone` |
| `_cleanup_placeholder_workers` | `CleanupGlob`, then `CleanupKill`, `CleanupUnlink` per GPU |
| `restart`, `update` | `stop`, then `start`; `Update` reads `was_running`, `Pull` goes on by it |
| `_cleanup_stale`, `running_pid` | the resets of `pidfile` and `sock` in `StartLoad` and `StopDone`; `Running` |
| supervisord (external) | `DaemonUp`, `StartGuard`, `TellGuard`, `KillGuard`, `DaemonLeaves`; `DaemonDies`, `DaemonCrashes` |
| the guard and its workers, as far as they outlive a command | `Ensure`, `Ready`, `GuardCleans`, `GuardLeaves`, `Disown` |

Failures strike at most once each and `MaxEvents` times together: supervisord dies
before its pid file (`bootdeath`) or does not start (`noboot`); it is slow to stop and
killed (`slowstop`), even before it told its guard (`orphan`); its guard is slow to stop
(`slowguard`) or is killed (`guardkill`), or either while a worker loads (`killstart`).
Or it dies by itself at any time when it is up (`crash`), and leaves its pid file, its
socket and its guard. That supervisord writes its pid file before `start` is tired of
waiting is taken as given: the file follows the detaching that `Launch` has waited for.
So is that the worker that cleanup kills is gone within the time it is waited for.

## 3. Runs

| Run | Instance | Shows |
|---|---|---|
| `GpuLock_faults` | 3 wrappers, any modes, 1 GPU, 2 faults of 5 kinds | `Exclusive`, `OwnerKeepsFile`, `ReclaimOnlyAbandoned`, `NoOvertaking`, `ImplementsRWLock` |
| `GpuLock_two_gpus` | 2 wrappers on 2 GPUs, precheck on, 2 faults of the other kinds | `TypeOK`, `ExitLeavesNothing`, `NoCircularWait` |
| `GpuLock_live` | 3 wrappers: on one GPU with a crash, or on {0,1}, {1,2}, {0,2} | `QueuedIsServed` |
| `GpuLock_orphan` | a signal during the command | violates `RunningWorkKeepsLock` |
| `GpuLock_starvation` | a writer in the precheck, readers that come and go | violates `WriterIsServed` |
| `Guard_loop` | both release modes, 2 worker processes; 2 wrappers, or 1 and one event of 10 kinds | `TypeOK`, `EveryWorkerIsOwned`, `OneWorker`, `ReleaseClears`, `WorkIsCleared`, `StartupIsClean`, `ResumesWhenIdle`, `FillsServeIdle` |
| `Guard_unmapped` | 1 wrapper, no event | violates `AlwaysResumes` |
| `Guard_dead_session` | 1 wrapper, a SIGHUP | violates `CommandIsCleared` |
| `Guard_user_work` | no wrapper, a process of the guard's user | violates `YieldsToUserWork` |
| `Serve_loop` | 3 requests, debounce of 2 ticks, 5 command lines, 1 failing file operation, 2 signals | `TypeOK`, `CountIsInFlight`, `BusyWhileServing`, `SignalsWithinLock`, `LockCoversBackend`, `HeldUntilReady`, `IdleIsDebounced`, `ImplementsCardWork`, `SessionEnds`, `QuietServiceIsIdle` |
| `Serve_ignore` | 1 request for a path that `--ignore` names | violates `ConfiguredProbesStayQuiet` |
| `Service_commands` | 2 GPUs, configurations {0} and {1}, 2 supervisords, 2 workers per GPU, 2 failures of 7 kinds, or a supervisord that dies by itself; any commands | `TypeOK`, `OneService`, `Reachable`, `StopLeavesNothing`, `RestartApplies`, `UpdateKeepsService`, `ServiceFills` |

**Bounds.** Three processes on one GPU are an owner, a waiter and the one that profits
from a mistake; all faults found need at most three. Two faults allow a crash next to
each other kind. Two GPUs make a session hold one lock and lose another, and two
sessions that want both are the smallest circle there could be (`NoCircularWait`); the
three-process chain is the smallest cycle of sessions that each want two GPUs. The
proofs have none of these bounds. Three requests are one that ends, one that begins in
its pause and outdates the timer, and one in flight when the proxy stops; any of them
may be a probe only once, since probes leave no trace. Two signals are one that stops
the session and one that strikes its `finally`. Two configurations without a common GPU
make the cleanup of a GPU that is no longer configured and the change of what is watched
the common case; a second supervisord, a second worker per GPU are the successor next to
the one that has not gone; the failures that excuse a property come in pairs at most. A
supervisord that dies by itself comes alone (`Alone`): what it leaves are files and an
orphaned guard, and the properties that do not except that one are proved for any
failures together. Two worker processes of `Guard` are a worker and the one that follows
before it has gone; process ids are alike, so that the second is used only while the
first runs (`LowestFree`). With two wrappers one queues, releases and unlinks while the
other has the GPU; the second of them runs commands only. Two failures in a row end the
guard, where the code has three: one more repeats the second. `Service_commands` checks
deadlock: a user may always give a command. The lock's and the session's runs say
`CHECK_DEADLOCK FALSE`: wrappers may all have crashed and a session may be over, and
then the system stops rightly.

**Fairness.** A live wrapper goes on executing (`WF` on its own steps), commands and
foreign jobs end, files get older. A pass needs the flock, which others hold now and
again; the loop retries every `poll_ms` and the kernel does not forget a blocked
process, hence `SF(Pass)`. Nothing is assumed of `Start`, `Restart`, heartbeats and
faults. For the serve session: it goes on, timers fire, callbacks that run go on and
time passes, the death of the backend is seen, handlers end once the proxy closes;
requests need neither come nor end while it is open, backends need neither get ready nor
die, nobody need send a signal (`ChatSpec` is that specification with all requests but
one for tokens). For the service: supervisord, the guard and workers do their work; no
user need give a command, and none that was given need go on. For the guard: it goes on
and is started again (by `supervisord`), workers load and leave, `placeholder_idle_s`
passes. Wrappers, services and users may stop anywhere, for ever, so that the liveness
properties are of the form *if from some time on ..., then from some time on ...*.

**What the violations say.**

1. `GpuLock_orphan`: on a signal the handler releases the locks and exits, while
   the child goes on computing without a lock (`session.py:73`). The README says
   that a lock is never lost while real work is on the card.
2. `GpuLock_starvation`: the precheck (`lock.py:493`) comes before the request is
   registered, so that readers that arrive later are served first, again and
   again. The README says that readers do not starve a waiting writer. From the
   queue on this is true (`QueuedIsServed`, `NoOvertaking`).
3. `Guard_unmapped`: a worker's pid on the GPU is looked for once. If a command has
   come while it loaded and still is on the GPU at that look (`guard.py:277`), nothing
   is mapped, and the guard takes its own parked worker for somebody else's process,
   for ever, when the command has long gone (`guard.py:286`).
4. `Guard_dead_session`: `os._exit` in the session's handler skips the `finally`
   of `gpulock serve`; `serve.managed` stays, and every later command has an active
   placeholder next to it. An exception between the markers and the `try` block leaves
   it likewise.
5. `Guard_user_work`: the branch that releases the placeholder for the user's own
   processes can never be taken (`guard.py:744`). The README says that the guard yields
   instantly to real work (`README.md:83`); its longer text (`README.md:312`) promises
   for such processes only that no placeholder is (re)activated.
6. `Serve_ignore`: the handler calls `should_count` without the rules that were built
   from `--ignore` and the environment (`serve_proxy.py:297`), so that a configured
   heartbeat counts as work.

`Guard_loop` shows the other side: with the three findings about the guard out of the
way the loop does what it is for. `WorkIsCleared` is about work that is not mistaken for
a stale session's, `ResumesWhenIdle` about a worker that the guard can reach and tell
apart. Three more weak spots are excluded in the properties by name and have no document
that promises more: a guard killed while its worker loads leaves one that the next guard
does not find (the event `killstart`, with which `OneWorker` is violated), and so does
one that is stopped between `Popen` and the assignment of the handle; a guard killed and
started again during a startup hold has no handle for the worker that is there, and
never releases it (`"guardkill" \notin struck`); a wrapper may unlink the socket of a
worker that was just bound, which nobody can reach then (`Hidden`).

Ctrl-C while a session waits for its second GPU is a `KeyboardInterrupt`, which the
`except Exception` of `session.py:44` does not see: the first GPU's file stays until
the cleanup takes it for stale. `GpuLock` has this as the fault `interrupt`.

`RequestCounter`'s docstring calls it thread-safe. With `OneLoop = FALSE` TLC
finds `BusyWhileServing` violated: a check that has passed clears the marker after
a request of another thread has set it. `gpulock serve` uses one loop, where it
holds; the count is exact either way (`CountHolds`).

`Serve_loop` is about one loop, like every run of the serve session.

It holds with these exceptions in its properties, each a weak spot of the code without a
document that promises more. `CutShort`: the lock goes, and markers and backend stay as
they are. That is `"exited"`, a session that leaves through `os._exit`, before the loop
on SIGINT and SIGTERM and at any time on SIGHUP and SIGQUIT; and `"aborted"`, one that an
exception ends for which the atexit hook then releases the lock. Such an exception may
come before the `try` block (`cli.py:640`), from a marker that cannot be written, from
the flushed banner (529) or from `Popen` (545); or out of the `finally` block, from a
marker that cannot be removed or as the `KeyboardInterrupt` of a second Ctrl-C, also
while it waits for the backend. `opt.hold` in
`QuietServiceIsIdle`: without the startup hold nobody clears the `serve.busy` of a
session that was killed before, until a request has come and gone. `fails`: only the
first request in flight sets the marker, and later ones do not try again.

`Service_commands` likewise. `Orphaned`: a supervisord that is killed, or dies by
itself, before it told its guard leaves one that no command finds, and it and the next
one end each other's workers for ever. That there is one supervisord, that the files
lead to it, that a restart applies the configuration and that an update restores what
ran holds then too. `Lost`: a guard that is killed while its worker loads
leaves a worker without a pid file; so may a guard of a killed supervisord that still
unlinks the files of its successor's worker, whose own guard then dies. A restart
finds out that the configuration cannot be rendered only after it has stopped the
service (`cmd = "failed"`).

## 4. Theorems

All are proved for every set of processes, GPUs, configurations or requests (finite
where counted), and every bound.

| Theorem | Statement |
|---|---|
| `GpuLockProofs!TypeCorrect` | `Spec => []TypeOK` |
| `GpuLockProofs!ExclusiveHolds` | `Spec => []Exclusive`, without `stall` and `resignal` |
| `GpuLockProofs!OwnerKeepsFileHolds` | `Spec => []OwnerKeepsFile`, likewise |
| `GpuLockProofs!ReclaimOnlyAbandonedHolds` | `Spec => ReclaimOnlyAbandoned`, likewise |
| `GpuLockProofs!NoOvertakingHolds` | `Spec => NoOvertaking`, under all faults |
| `GpuLockSessionProofs!ExitLeavesNothingHolds` | `Spec => []ExitLeavesNothing`, without `writefail` |
| `GpuLockSessionProofs!NoCircularWaitHolds` | `Spec => []NoCircularWait`, finite `Procs`, under all faults |
| `GpuLockRefinement!ImplementsRWLockHolds` | `Spec => Promise!Spec`, without `stall` and `resignal` |
| `RWLockProofs!ExclusionHolds` | the abstract lock is exclusive |
| `GuardProofs!TypeCorrect` | `Spec => []TypeOK`, whatever strikes and however many workers and wrappers there are |
| `GuardProofs!EveryWorkerIsOwnedHolds` | `Spec => []EveryWorkerIsOwned`, likewise; the property excepts `guardkill` and `killstart` |
| `GuardProofs!OneWorkerHolds` | `Spec => []OneWorker`, without `killstart` |
| `GuardProofs!ReleaseClearsHolds` | `Spec => ReleaseClears` |
| `RequestCounterProofs!CountHolds`, `TypeCorrect` | exact count, types; on a loop or in threads |
| `RequestCounterProofs!BusyWhileServingHolds` | `CounterSpec => []BusyWhileServing` on one loop |
| `RequestCounterProofs!IdleIsDebouncedHolds` | `CounterSpec => IdleIsDebounced` on one loop |
| `ServeProxyProofs!SignalsWithinLockHolds` | `Spec => []SignalsWithinLock`, which excepts `CutShort` |
| `ServeProxyProofs!LockCoversBackendHolds` | `Spec => []LockCoversBackend`, likewise |
| `ServeProxyProofs!HeldUntilReadyHolds` | `Spec => []HeldUntilReady` |
| `ServeProxyProofs!SessionCounts` | `Spec => []CountIsInFlight` |
| `ServeProxyProofs!SessionBusyWhileServing` | `Spec => []BusyWhileServing` on one loop |
| `ServeProxyProofs!SessionIdleIsDebounced` | `Spec => IdleIsDebounced` on one loop |
| `ServeProxyProofs!SessionTypeCorrect` | `Spec => []TypeOK` on one loop |
| `ServeProxyProofs!ProbesStayQuietUnderDefaults` | `Spec => []ConfiguredProbesStayQuiet` on one loop, if no rule was added to the defaults |
| `ServeProxyProofs!ImplementsCardWorkHolds` | `Spec => ImplementsCardWork` |
| `ServiceProofs!TypeCorrect` | `Spec => []TypeOK` |
| `ServiceProofs!OneServiceHolds` | `Spec => []OneService` |
| `ServiceProofs!ReachableHolds` | `Spec => []Reachable` |
| `ServiceProofs!StopLeavesNothingHolds` | `Spec => []StopLeavesNothing` |
| `ServiceProofs!RestartAppliesHolds` | `Spec => RestartApplies` |
| `ServiceProofs!UpdateKeepsServiceHolds` | `Spec => UpdateKeepsService` |

*The lock.* `Exclusive` speaks of owners and is not inductive: that a pass saw no
file says nothing about owners unless owners have files. The invariant is
`TypeOK /\ SessionInv /\ FileInv`. `SessionInv` ties `pc` to the session's list
(what is held is wanted, without repetition; who acquires lacks a GPU; an
unlinked lock is the last of the list). `FileInv` says that lock files exclude each
other as their modes demand, dead owners included; that the file of a live
process is never old; that a file just created is still there when its lock gets
into the list; and `OwnerKeepsFile`. The age is what makes it inductive: a cleanup
takes only old files, a live process' file is old only by a `stall`, and a release
by path hits only the own file because files exclude each other, which fails only
if a release runs twice. That is why the two faults are excluded.
`NoOvertaking` needs only the first two: a pass registers a request behind all
live ones and refuses while an older one conflicts.

`ExitLeavesNothing` speaks of the last state only. `BoundsInv` says where on the way a
wrapper may have what: its file from the creation to the unlink, which is while it
is at that GPU or has it in its list; its request while it acquires that lock; the
flock between creation and commit. A wrapper that was killed or interrupted is
excepted, and never gets to `done`; so is one whose first heartbeat failed
(`Stray`). Other processes can only take things away (`Bystander`). The theorem
excludes `writefail`, because a first heartbeat that fails does leave an empty lock
file; the invariant holds with it.

`NoCircularWait` says of every set of waiting sessions that one of its members waits
for none of the others. Who waits for whom is `Delays`: a process computing on the GPU
of a precheck, a lock file or an earlier request that a pass would have to yield to.
The proof puts the waiting sessions into an order in which everybody waits only for
those before (`Before`): they wait at a higher GPU id, or at the same one with an
earlier request. That needs three facts in every state (`WaitInv` with `BoundsInv`):
a session that acquires holds only lower ids than all it still wants, and its command
does not run yet (`Ascending`), so that whoever has a file of GPU `g` and waits, waits
above `g`; files and requests are where `BoundsInv` says, whatever the fault; and the
requests of a GPU are ordered, each being behind those it was registered after
(`Queued`). The order has no circles (`BeforeIsStrict`), and a finite set has a first
member in it (`MinimalExists`). No fault is excluded: a crash, a stalled heartbeat or
a lost file may break exclusion, but none closes a circle. That a session which waits
for nobody gets on is liveness, and `QueuedIsServed` is checked for it.

*The refinement* uses the same invariant: a step that changes no file is a step of
the environment, a pass reclaims or grants, an unlink is the owner's release.

*The counter.* `CountIsInFlight` is inductive with the types, by the cardinality
of the set of requests in flight. For `BusyWhileServing` one adds what callbacks
of one loop settle for each other: at most one is between its lock and its file
operation, a check that passed finds no request, a first request is alone. For
`IdleIsDebounced` the invariant is `DebounceInv`: a timer that is not outdated and
finds no request has at most as long to go as the pause still lacks.

*The serve session* reuses the counter's invariants: the session's own steps leave the
counter's fields alone, or drop all timers when no callback runs, and it writes
`serve.busy` only before the first request and after the last. `SessionInv` is what each
phase has settled for those that follow: the lock is held until `Release` or until the
session is cut short, a marker that has been cleared stays cleared, there is no backend
before `Popen` and none that runs after `Reap`, and from the phases that drop the hold a
backend loads only if the user asked to proxy anyway. For `SessionTypeCorrect` the bound
on the count comes from exactness: it is the number of requests in flight, and that is
at most the number of requests. `ProbesStayQuietUnderDefaults` marks off what
`Serve_ignore` finds: what is in flight passed the default rules (`OnlyCounted`),
whatever the options say; so the promise is kept exactly by those options that add none.

*What the guard sees of a session.* For `ImplementsCardWork` `SessionInv` says more: with the
hold, `serve.startup` is gone once the proxy is about to open, and a session that is
over has no lock. The proof has one case per action of the session: each is one named
step of `CardWork` or leaves markers, backend and `Stage` alone (`Unseen`). The cases
that take thought are those where two places of the code are one stage.
`ending` is reached from a stop under the hold, from a stop while the proxy serves and
from one while it idles, and `Stage` tells these apart by the markers; a callback sets
`serve.busy` that was set already, as a second request does, and is then not seen
(`CallbackBusy`).

*The service.* `OneInv` says what each place of a command knows of the supervisord that
runs: the files lead to it except between its start and its pid file, when `start`
waits; it is told to end only while `stop` waits; nobody runs from the end of that wait
to the next launch; a guard has its supervisord, unless that died first. A supervisord
that dies makes all of this weaker and none of it false. A supervisord that leaves
unlinks its own files, as nobody else runs meanwhile: `Reachable` and `OneService` are
parts of it. `ApplyInv` adds that the generated file is that of `config.json` when
supervisord reads it, that an update that goes on found a running service, and that
where it found none nobody starts one during the pull; what a step that ends a command
promises follows (`ReturnStep`). For `StopLeavesNothing`, `WorkerInv` says that until a
supervisord is killed each GPU has one worker and its files lead to it (`Orderly`); that
a worker without a guard exists only where a guard died, and the pid file always leads
to it (`StrayIsFound`); and that the cleanup of `stop` passes none of these by
(`StopAt`). It holds as long as no guard is `Orphaned` and no worker `Lost`, which are
the exceptions of the property.

*The guard.* The invariant is `TypeOK /\ FailuresBelow /\ ClearsWithoutWorker /\
EveryWorkerIsOwned`. Ownership is lost only if a worker is started or a handle
forgotten. `Spawn` alone starts one, and it overwrites the handle: that there is no
worker then follows from `ClearsWithoutWorker` (the guard gets to the start only
without a live handle) and from ownership itself. The handle is forgotten where the
worker it names has ended, or has been waited for and killed. Every other step,
of wrappers, users and events too, brings no worker to life and leaves the handle
alone (`SameHandle`), in whatever order sockets, pid files and markers come and go.
`FailuresBelow` is what types need: the counter is at its limit only when the guard
leaves. Excluded is a killed guard (`guardkill`, `killstart`), whose worker does
survive it; what the next guard makes of that one is `OneWorker`.

`OneWorker` adds `PathInv /\ StrayIsMet`. A worker loads only while its guard waits
for it and nothing is bound (`LoadsWaitedFor`), hence whoever binds is the guard's own;
from a start on the socket leads to nobody else (`SocketOfHandle`), and between the
search for strays and the start nobody answers (`ClearIsSilent`). So, where no worker
hides, there is one at most: the path holds one socket. Where one hides, either the
guard has not looked yet, and meets it by the socket or notes it in `lost`, or it is
that guard's own (`StrayIsMet`). All steps but the search, the start and the
bind bring nobody up (`Calm`). Excluded is `killstart`, where a worker loads that
nobody waits for.

`ReleaseClears` says what a release is worth when it is done, to the wrapper that goes on
to queue and to the guard: no active placeholder, and no process after a full stop. It
follows from ownership (its exception, a killed guard, is the same). Who is answered
speaks to the guard's own worker, because nobody else is alive (`ToldIsTheOne`); where
the paths have been unlinked, the sweep finds the worker by its context on the GPU
(`SweepClears`), and the stop kills the process of the handle. That the guard may
bring a worker back right afterwards, on what it read before, is the business of
`WorkIsCleared`.

*Assumptions*: the named `ASSUME`s on the constants, among them that GPU ids are
natural numbers (`GpusAssumption`), and the finiteness of `Procs` and `Requests` where
stated. That a non-empty set of ids has a lowest one (`LeastExists`), and that a
finite set has a first member (`MinimalExists`), follow from the library's `WFMin`,
which takes a set and a relation and no operator.

*Only model-checked*: liveness (`QueuedIsServed`, `SessionEnds`, `QuietServiceIsIdle`,
`ServiceFills`, and `WorkIsCleared`, `StartupIsClean`, `ResumesWhenIdle`,
`FillsServeIdle` of the guard), because fairness and `ENABLED` are beyond the prover.
Every invariant, action property and refinement of a passing run has a theorem, with the
hypotheses of the table: the runs of the serve session have `OneLoop`, and those of
the lock admit only the faults under which each property is stated.

## 5. Not modelled

* Of the lock: work that reaches the GPU between the last look at it (`lock.py:379`) and
  the unlink of a stale file (383), an unreadable request file or `queue.seq`, a `pid`
  used again by another process, an `nvidia-smi` that fails. Time is reduced to "old
  enough".
* Of the guard: several GPUs at once, the status snapshot, an exception in its loop.
  Of the placeholder: the workload.
* Of the serve command: the hook form (`_run_serve_command`), the markers of several
  GPUs one by one, a marker that cannot be removed when the hold is dropped, or another
  exception in the loop than a port that is taken (all go to the `finally` block); a
  backend that survives `terminate()` and `kill()` of its shell and computes on while
  the lock goes; of the proxy the forwarding of headers and bodies, and the counter on
  several threads in one session.
* Of the service: two commands at the same time (the second `start` would unlink the
  first one's files), a supervisord that is killed from outside while it shuts down, a
  pid that another process has by then, a `supervisorctl` that does not answer in time,
  a missing supervisor package, a `config.json` that is not JSON, ten quick exits of the
  guard after which supervisord gives up; `status` and `logs` only read.
* Diagnostics, agent policy, configuration, paths, logging: text and files that
  nothing races for.

## 6. Plan

Done: the lock and its refinement, the request counter and the serve session around
it, the guard's loop with its workers and markers, the service; theorems for all their
invariants and action properties, and for what the guard sees of a session. Next, in
this order:

1. The action properties behind the guard's liveness: which of its passes may start or
   activate a worker under a startup hold or next to a command, and how many.
2. Two service commands at once, with the window between `running_pid` and the pid
   file.
3. `GpuLock`: `queue.seq` as a variable, lost and restarted.
