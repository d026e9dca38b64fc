------------------------------ MODULE Service ------------------------------
(***************************************************************************)
(* The guard service: the commands of `gpulock service` and `gpulock update`*)
(* (service/supervisor.py, service/cli.py, service/common.py, update.py),   *)
(* which one user gives one after the other, and what they work on: the     *)
(* configuration and the file generated from it, supervisord with its pid   *)
(* file and socket, the guard that supervisord keeps running, and the       *)
(* placeholder workers that the guard starts in sessions of their own.      *)
(*                                                                         *)
(* supervisord is external: it answers and leaves as its manual says. Of the*)
(* guard and its workers only what outlives a command matters here: who     *)
(* started a worker, whether it is still loading, and whether the pid file  *)
(* of its GPU leads to it. Guard has the rest.                              *)
(***************************************************************************)
EXTENDS Integers, FiniteSets

CONSTANTS
  Gpus,       \* the GPUs of the host
  Configs,    \* the gpu_ids that the user configures
  Daemons,    \* supervisord processes
  Slots,      \* placeholder processes per GPU
  NoDaemon, NoWorker,
  Events,     \* the kinds of failure that may occur, each of them once
  MaxEvents,  \* bound on the number of failures
  Alone       \* bound: the kinds that come with no other

Workers == Gpus \X Slots

Kinds == {"bootdeath", "crash", "noboot", "slowstop", "orphan", "slowguard", "guardkill",
          "killstart"}

ASSUME ConfigsAssumption == Configs \subseteq (SUBSET Gpus) \ {{}}
ASSUME NamesAssumption == NoDaemon \notin Daemons /\ NoWorker \notin Workers
ASSUME EventsAssumption == Events \subseteq Kinds /\ MaxEvents \in Nat /\ Alone \subseteq Kinds

VARIABLES
  \* the user's shell
  cmd,      \* the command that runs, or ran last
  cpc,      \* where it is
  target,   \* the supervisord that stop() found
  todo,     \* GPUs whose pid file the cleanup has yet to follow
  ended,    \* the one whose worker it has just ended
  was,      \* was_running of update
  \* the service directory
  config,   \* gpu_ids of config.json, {}: no such file
  bad,      \* its extra_env cannot be written to a supervisord.conf
  conf,     \* those of supervisord.conf, {}: no such file
  pidfile,  \* the process that supervisord.pid names
  sock,     \* the process that bound supervisor.sock
  \* processes
  daemon,   \* daemon[d]: state of a supervisord
  watch,    \* watch[d]: the GPUs of the guard that d runs
  guard,    \* guard[d]: state of d's guard
  worker,   \* worker[w]: state of a placeholder
  owner,    \* owner[w]: the supervisord whose guard has the handle of w
  found,    \* found[k]: the worker that the pid file and the socket of k lead to
  struck    \* the failures so far

shell == <<cmd, cpc, target, todo, ended, was>>
files == <<config, bad, conf>>
paths == <<pidfile, sock>>
service == <<daemon, watch, guard>>
workers == <<worker, owner, found>>
vars == <<shell, files, paths, service, workers, struck>>

-----------------------------------------------------------------------------
\* The GPU of a worker.
On(w) == w[1]

\* pid_exists of a supervisord and of a worker.
Alive(d) == daemon[d] \in {"booting", "up", "ending"}

Live(w) == worker[w] \in {"loading", "ready"}

\* running_pid() is not 0.
Running == pidfile # NoDaemon /\ Alive(pidfile)

\* Processes whose pid no file and no handle names; pids are alike.
FreeDaemons ==
  LET free == {d \in Daemons : /\ daemon[d] = "none" /\ guard[d] = "none"
                               /\ d \notin {pidfile, sock, target}}
  IN  {d \in free : d = CHOOSE e \in free : TRUE}

FreeWorkers(k) ==
  LET free == {w \in Workers : On(w) = k /\ ~Live(w) /\ found[k] # w}
  IN  {w \in free : w = CHOOSE v \in free : TRUE}

\* The workers whose handle d's guard has.
Owned(d) == {w \in Workers : owner[w] = d /\ Live(w)}

Strike(kind) == /\ kind \in Events \ struck
                /\ Cardinality(struck) < MaxEvents
                /\ struck \cap Alone = {} /\ (kind \in Alone => struck = {})
                /\ struck' = struck \cup {kind}

\* A wait is over: a failure if what it waits for was still to come.
TimeUp(kind, expected) == IF expected THEN Strike(kind) ELSE UNCHANGED struck

\* The workers of ws end; the pid files of their GPUs may lead to them still.
End(ws) ==
  /\ worker' = [w \in Workers |-> IF w \in ws THEN "none" ELSE worker[w]]
  /\ owner' = [w \in Workers |-> IF w \in ws THEN NoDaemon ELSE owner[w]]

Init ==
  /\ cmd = "none" /\ cpc = "idle" /\ target = NoDaemon /\ todo = {} /\ ended = {} /\ was = FALSE
  /\ config = {} /\ bad = FALSE /\ conf = {}
  /\ pidfile = NoDaemon /\ sock = NoDaemon
  /\ daemon = [d \in Daemons |-> "none"]
  /\ watch = [d \in Daemons |-> {}]
  /\ guard = [d \in Daemons |-> "none"]
  /\ worker = [w \in Workers |-> "none"]
  /\ owner = [w \in Workers |-> NoDaemon]
  /\ found = [k \in Gpus |-> NoWorker]
  /\ struck = {}

-----------------------------------------------------------------------------
(* Commands                                                                 *)

Begin(c, pc) ==
  /\ cpc = "idle"
  /\ cmd' = c
  /\ cpc' = pc
  /\ was' = (c = "update" /\ Running)
  /\ UNCHANGED <<target, todo, ended, paths, service, workers, struck>>

Return == cpc' = "idle" /\ UNCHANGED cmd

GiveUp == cpc' = "idle" /\ cmd' = "failed"

\* GuardServiceConfig.save() and load().
Save(g) == config' = g

Loads == config # {}

\* render_conf() raises for a value that the file cannot hold.
Renders == ~bad

WriteConf == conf' = config'

RemoveFiles == config' = {} /\ conf' = {} /\ bad' = FALSE

\* service start | stop | restart | uninstall.
Command ==
  /\ \/ Begin("start", "start")
     \/ \E c \in {"stop", "restart", "uninstall"} : Begin(c, "stop")
  /\ UNCHANGED files

\* service install [--no-start]: save(), write_conf(), start(). What write_conf()
\* refuses has been saved by then.
Install(g) ==
  /\ Save(g)
  /\ \/ (Begin("start", "start") \/ Begin("config", "idle")) /\ bad' = FALSE /\ WriteConf
     \/ Begin("failed", "idle") /\ bad' = TRUE /\ UNCHANGED conf

\* service config set | unset | preset, or edit, which may touch extra_env.
ConfigSet(g) ==
  /\ Begin("config", "idle")
  /\ Loads
  /\ Save(g)
  /\ bad' \in BOOLEAN
  /\ UNCHANGED conf

\* update of a clean checkout (nothing happens to a dirty one).
Update == Begin("update", "pull") /\ UNCHANGED files

\* Slip: the service is looked for after the pull.
Pull_looksAgain ==
  /\ cpc = "pull"
  /\ \/ GiveUp
     \/ ~Running /\ Return
     \/ Running /\ cpc' = "stop" /\ UNCHANGED cmd
  /\ UNCHANGED <<target, todo, ended, was, files, paths, service, workers, struck>>

\* git pull, which may fail; then restart(), of a service that was running before.
Pull ==
  /\ cpc = "pull"
  /\ \/ GiveUp
     \/ ~was /\ Return
     \/ was /\ cpc' = "stop" /\ UNCHANGED cmd
  /\ UNCHANGED <<target, todo, ended, was, files, paths, service, workers, struck>>

-----------------------------------------------------------------------------
(* start()                                                                  *)

\* Slip: a supervisord that runs is not looked for.
StartCheck_blind ==
  /\ cpc = "start"
  /\ cpc' = "stale"
  /\ UNCHANGED <<cmd, target, todo, ended, was, files, paths, service, workers, struck>>

\* Nothing to do if supervisord runs.
StartCheck ==
  /\ cpc = "start"
  /\ \/ Running /\ Return
     \/ ~Running /\ cpc' = "stale" /\ UNCHANGED cmd
  /\ UNCHANGED <<target, todo, ended, was, files, paths, service, workers, struck>>

\* Slip: an existing supervisord.conf is taken as it is.
StartLoad_keepsConf ==
  /\ cpc = "stale"
  /\ pidfile' = NoDaemon
  /\ sock' = NoDaemon
  /\ UNCHANGED config
  /\ \/ ~(Loads /\ Renders) /\ GiveUp /\ UNCHANGED conf
     \/ Loads /\ Renders /\ cpc' = "launch" /\ UNCHANGED cmd
        /\ IF conf = {} THEN WriteConf ELSE UNCHANGED conf
  /\ UNCHANGED <<target, todo, ended, was, bad, service, workers, struck>>

\* _cleanup_stale(), GuardServiceConfig.load(), write_conf().
StartLoad ==
  /\ cpc = "stale"
  /\ pidfile' = NoDaemon
  /\ sock' = NoDaemon
  /\ UNCHANGED config
  /\ \/ ~(Loads /\ Renders) /\ GiveUp /\ UNCHANGED conf
     \/ Loads /\ Renders /\ WriteConf /\ cpc' = "launch" /\ UNCHANGED cmd
  /\ UNCHANGED <<target, todo, ended, was, bad, service, workers, struck>>

\* supervisord reads its configuration, binds its socket and detaches. One that
\* fails, or is killed because it has not detached in time, may leave the socket.
Launch ==
  /\ cpc = "launch"
  /\ \E d \in FreeDaemons :
       /\ \/ /\ cpc' = "waitpid"
             /\ sock' = d
             /\ daemon' = [daemon EXCEPT ![d] = "booting"]
             /\ watch' = [watch EXCEPT ![d] = conf]
             /\ UNCHANGED <<cmd, struck>>
          \/ /\ Strike("noboot")
             /\ GiveUp
             /\ sock' \in {d, NoDaemon}
             /\ UNCHANGED <<daemon, watch>>
  /\ UNCHANGED <<target, todo, ended, was, files, pidfile, guard, workers>>

\* The pid file appears; five seconds go by if supervisord has died.
StartDone ==
  /\ cpc = "waitpid"
  /\ \/ Running /\ Return
     \/ (\A d \in Daemons : ~Alive(d)) /\ GiveUp
  /\ UNCHANGED <<target, todo, ended, was, files, paths, service, workers, struck>>

-----------------------------------------------------------------------------
(* stop()                                                                   *)

StopCheck ==
  /\ cpc = "stop"
  /\ \/ Running /\ target' = pidfile /\ cpc' = "shutdown"
     \/ ~Running /\ cpc' = "glob" /\ UNCHANGED target
  /\ UNCHANGED <<cmd, todo, ended, was, files, paths, service, workers, struck>>

\* supervisorctl shutdown, over the socket.
Shutdown ==
  /\ cpc = "shutdown"
  /\ cpc' = "waitdead"
  /\ daemon' = [d \in Daemons |-> IF d = sock /\ daemon[d] = "up" THEN "ending" ELSE daemon[d]]
  /\ UNCHANGED <<cmd, target, todo, ended, was, files, paths, watch, guard, workers, struck>>

\* Slip: the answer to shutdown is taken for its end.
StopWait_none ==
  /\ cpc = "waitdead"
  /\ cpc' = "glob"
  /\ UNCHANGED <<cmd, target, todo, ended, was, files, paths, service, workers, struck>>

\* The process is gone; or the time is over: SIGTERM, half a second, SIGKILL.
StopWait ==
  /\ cpc = "waitdead"
  /\ \/ ~Alive(target) /\ cpc' = "glob" /\ UNCHANGED <<daemon, struck>>
     \/ /\ Alive(target)
        /\ TimeUp("slowstop", daemon[target] = "ending")
        /\ cpc' = "kill"
        /\ daemon' = [daemon EXCEPT ![target] = "ending"]
  /\ UNCHANGED <<cmd, target, todo, ended, was, files, paths, watch, guard, workers>>

\* A supervisord that is killed removes nothing, and its guard lives on; one that
\* it had not told to end does so for good.
StopKill ==
  /\ cpc = "kill"
  /\ cpc' = "glob"
  /\ daemon' = [daemon EXCEPT ![target] = "none"]
  /\ TimeUp("orphan", guard[target] = "up")
  /\ UNCHANGED <<cmd, target, todo, ended, was, files, paths, watch, guard, workers>>

\* Slip: only the GPUs of the present configuration are looked at.
CleanupGlob_configured ==
  /\ cpc = "glob"
  /\ todo' = {k \in config : found[k] # NoWorker}
  /\ target' = NoDaemon
  /\ cpc' = "workers"
  /\ UNCHANGED <<cmd, ended, was, files, paths, service, workers, struck>>

\* _cleanup_placeholder_workers(): the pid files of all GPUs, configured or not.
CleanupGlob ==
  /\ cpc = "glob"
  /\ todo' = {k \in Gpus : found[k] # NoWorker}
  /\ target' = NoDaemon
  /\ cpc' = "workers"
  /\ UNCHANGED <<cmd, ended, was, files, paths, service, workers, struck>>

\* The worker that the files lead to by now is told to stop, waited for, signalled
\* and killed.
CleanupKill(k) ==
  /\ cpc = "workers"
  /\ k \in todo
  /\ ended = {}
  /\ ended' = {k}
  /\ End({found[k]})
  /\ UNCHANGED <<cmd, cpc, target, todo, was, files, paths, service, found, struck>>

\* Slip: the loop does not leave the GPU it has cleaned.
CleanupUnlink_noReset(k) ==
  /\ k \in ended
  /\ todo' = todo \ {k}
  /\ found' = [found EXCEPT ![k] = NoWorker]
  /\ UNCHANGED <<cmd, cpc, target, ended, was, files, paths, service, worker, owner, struck>>

\* The files are unlinked, whomever they lead to then.
CleanupUnlink(k) ==
  /\ k \in ended
  /\ ended' = {}
  /\ todo' = todo \ {k}
  /\ found' = [found EXCEPT ![k] = NoWorker]
  /\ UNCHANGED <<cmd, cpc, target, was, files, paths, service, worker, owner, struck>>

\* _cleanup_stale(); restart and update go on with start(), uninstall removes the
\* configuration.
StopDone ==
  /\ cpc = "workers"
  /\ todo = {}
  /\ pidfile' = NoDaemon
  /\ sock' = NoDaemon
  /\ \/ cmd = "stop" /\ Return /\ UNCHANGED files
     \/ cmd = "uninstall" /\ Return /\ RemoveFiles
     \/ cmd \in {"restart", "update"} /\ cpc' = "start" /\ UNCHANGED <<cmd, files>>
  /\ UNCHANGED <<target, todo, ended, was, service, workers, struck>>

-----------------------------------------------------------------------------
(* supervisord                                                              *)

\* It has detached and writes its pid file, before start() is tired of waiting.
DaemonUp(d) ==
  /\ daemon[d] = "booting"
  /\ daemon' = [daemon EXCEPT ![d] = "up"]
  /\ pidfile' = d
  /\ UNCHANGED <<shell, files, sock, watch, guard, workers, struck>>

\* It dies before.
DaemonDies(d) ==
  /\ daemon[d] = "booting"
  /\ Strike("bootdeath")
  /\ daemon' = [daemon EXCEPT ![d] = "none"]
  /\ watch' = [watch EXCEPT ![d] = {}]
  /\ UNCHANGED <<shell, files, paths, guard, workers>>

\* It is killed, or dies by itself: its files stay, and its guard lives on.
DaemonCrashes(d) ==
  /\ daemon[d] = "up"
  /\ Strike("crash")
  /\ daemon' = [daemon EXCEPT ![d] = "none"]
  /\ UNCHANGED <<shell, files, paths, watch, guard, workers>>

\* Slip: autorestart=false, the guard is started once.
StartGuard_once(d) ==
  /\ daemon[d] = "up"
  /\ guard[d] = "none"
  /\ struck \cap {"guardkill", "killstart"} = {}
  /\ guard' = [guard EXCEPT ![d] = "up"]
  /\ UNCHANGED <<shell, files, paths, daemon, watch, workers, struck>>

\* autostart and autorestart.
StartGuard(d) ==
  /\ daemon[d] = "up"
  /\ guard[d] = "none"
  /\ guard' = [guard EXCEPT ![d] = "up"]
  /\ UNCHANGED <<shell, files, paths, daemon, watch, workers, struck>>

\* stopsignal=TERM.
TellGuard(d) ==
  /\ daemon[d] = "ending"
  /\ guard[d] = "up"
  /\ guard' = [guard EXCEPT ![d] = "told"]
  /\ UNCHANGED <<shell, files, paths, daemon, watch, workers, struck>>

\* The guard is gone; the workers it had are nobody's.
Disown(d) ==
  /\ guard' = [guard EXCEPT ![d] = "none"]
  /\ owner' = [w \in Workers |-> IF owner[w] = d THEN NoDaemon ELSE owner[w]]
  /\ UNCHANGED <<shell, files, paths, daemon, watch, worker, found>>

\* A guard that dies while a worker loads leaves one that no file leads to.
StrikeGuard(d, kind) ==
  Strike(IF \E w \in Owned(d) : worker[w] = "loading" THEN "killstart" ELSE kind)

\* stopwaitsecs are over: the guard is killed, its workers are not of its group.
KillGuard(d) ==
  /\ daemon[d] = "ending"
  /\ guard[d] = "told"
  /\ StrikeGuard(d, "slowguard")
  /\ Disown(d)

\* supervisord ends once its guard has, and unlinks its files by path.
DaemonLeaves(d) ==
  /\ daemon[d] = "ending"
  /\ guard[d] = "none"
  /\ daemon' = [daemon EXCEPT ![d] = "none"]
  /\ watch' = [watch EXCEPT ![d] = {}]
  /\ pidfile' = NoDaemon
  /\ sock' = NoDaemon
  /\ UNCHANGED <<shell, files, guard, workers, struck>>

-----------------------------------------------------------------------------
(* The guard and its workers                                                *)

\* ensure_placeholder_worker: the worker that the files of the GPU lead to is
\* stopped or killed, a new one started.
Ensure(d, k) ==
  /\ guard[d] = "up"
  /\ k \in watch[d]
  /\ \A w \in Owned(d) : On(w) # k
  /\ \E w \in FreeWorkers(k) :
       /\ worker' = [v \in Workers |-> IF v = w THEN "loading"
                                       ELSE IF v = found[k] THEN "none" ELSE worker[v]]
       /\ owner' = [v \in Workers |-> IF v = w THEN d
                                      ELSE IF v = found[k] THEN NoDaemon ELSE owner[v]]
  /\ found' = [found EXCEPT ![k] = NoWorker]
  /\ UNCHANGED <<shell, files, paths, service, struck>>

\* The worker binds its socket and writes its pid file, which the guard writes once
\* more when it answers.
Ready(w) ==
  /\ worker[w] = "loading"
  /\ worker' = [worker EXCEPT ![w] = "ready"]
  /\ found' = [found EXCEPT ![On(w)] = w]
  /\ UNCHANGED <<shell, files, paths, service, owner, struck>>

\* cleanup() of the guard, for one GPU: the worker is stopped, the files go.
GuardCleans(d, w) ==
  /\ guard[d] = "told"
  /\ w \in Owned(d)
  /\ End({w})
  /\ found' = [found EXCEPT ![On(w)] = NoWorker]
  /\ UNCHANGED <<shell, files, paths, service, struck>>

GuardLeaves(d) ==
  /\ guard[d] = "told"
  /\ Owned(d) = {}
  /\ Disown(d)
  /\ UNCHANGED struck

\* SIGKILL of the guard, or a fatal error of its interpreter.
GuardDies(d) ==
  /\ guard[d] = "up"
  /\ StrikeGuard(d, "guardkill")
  /\ Disown(d)

-----------------------------------------------------------------------------
User == Command \/ Update \/ \E g \in Configs : Install(g) \/ ConfigSet(g)

Start == StartCheck \/ StartLoad \/ Launch \/ StartDone

Stop ==
  \/ StopCheck \/ Shutdown \/ StopWait \/ StopKill \/ CleanupGlob \/ StopDone
  \/ \E k \in Gpus : CleanupKill(k) \/ CleanupUnlink(k)

Supervise(d) == DaemonUp(d) \/ StartGuard(d) \/ TellGuard(d) \/ DaemonLeaves(d)

Work(d) ==
  (\E k \in Gpus : Ensure(d, k)) \/ (\E w \in Workers : GuardCleans(d, w)) \/ GuardLeaves(d)

Fail(d) == DaemonDies(d) \/ DaemonCrashes(d) \/ KillGuard(d) \/ GuardDies(d)

Next ==
  \/ User \/ Pull \/ Start \/ Stop
  \/ \E d \in Daemons : Supervise(d) \/ Work(d) \/ Fail(d)
  \/ \E w \in Workers : Ready(w)

Spec == Init /\ [][Next]_vars

\* supervisord and the guard do their work and workers get ready. No user need give a
\* command, no command that was given need go on, and no failure need strike.
Fairness ==
  /\ \A d \in Daemons : WF_vars(Supervise(d)) /\ WF_vars(Work(d))
  /\ \A w \in Workers : WF_vars(Ready(w))

FairSpec == Spec /\ Fairness

-----------------------------------------------------------------------------
(* Properties                                                               *)

\* The shell, the files and the processes have their types.
TypeOK ==
  /\ cmd \in {"none", "start", "stop", "restart", "uninstall", "config", "update", "failed"}
  /\ cpc \in {"idle", "pull", "start", "stale", "launch", "waitpid", "stop", "shutdown",
              "waitdead", "kill", "glob", "workers"}
  /\ target \in Daemons \cup {NoDaemon}
  /\ todo \subseteq Gpus /\ ended \subseteq todo /\ (cpc # "workers" => todo = {})
  /\ was \in BOOLEAN
  /\ bad \in BOOLEAN
  /\ config \subseteq Gpus /\ conf \subseteq Gpus
  /\ pidfile \in Daemons \cup {NoDaemon} /\ sock \in Daemons \cup {NoDaemon}
  /\ daemon \in [Daemons -> {"none", "booting", "up", "ending"}]
  /\ watch \in [Daemons -> SUBSET Gpus]
  /\ guard \in [Daemons -> {"none", "up", "told"}]
  /\ worker \in [Workers -> {"none", "loading", "ready"}]
  /\ owner \in [Workers -> Daemons \cup {NoDaemon}]
  /\ found \in [Gpus -> Workers \cup {NoWorker}]
  /\ struck \subseteq Events

\* supervisord died before it told its guard, which nobody controls now.
Orphaned == struck \cap {"orphan", "crash"} # {}

\* A guard died, and a worker of its has no pid file that leads to it: it was still
\* loading, or the guard of a supervisord that was killed unlinked the file.
Lost == \/ "killstart" \in struck
        \/ "slowstop" \in struck /\ struck \cap {"guardkill", "slowguard"} # {}

\* One supervisord, whatever commands follow on one another, however they fail and
\* whatever files a dead one left (start: "Idempotent", stop, restart); and one guard.
OneService ==
  /\ \A d, e \in Daemons : Alive(d) /\ Alive(e) => d = e
  /\ ~Orphaned => \A d, e \in Daemons : guard[d] = "up" /\ guard[e] = "up" => d = e

\* The files that commands find supervisord by are never unlinked from under it,
\* neither by the cleanup of a command nor by an older supervisord that leaves.
Reachable ==
  \A d \in Daemons : daemon[d] = "up" => pidfile = d /\ sock = d

\* supervisor.py:92-97: stop and uninstall leave no placeholder behind, including
\* those of GPUs removed from the configuration, and no supervisord; what a guard
\* that was told to end still cleans up is its own affair.
StopLeavesNothing ==
  cpc = "idle" /\ cmd \in {"stop", "uninstall"} /\ ~Orphaned /\ ~Lost =>
    /\ \A d \in Daemons : ~Alive(d)
    /\ \A w \in Workers : Live(w) => \E d \in Daemons : guard[d] = "told" /\ w \in Owned(d)

\* A command ends.
Returns == cpc # "idle" /\ cpc' = "idle"

\* README.md:327: a restart applies the configuration: when it returns, the guard
\* watches the GPUs of config.json (restart, also at the end of an update).
RestartApplies ==
  [][Returns /\ (cmd' = "restart" \/ (cmd' = "update" /\ was))
       => Running' /\ watch'[pidfile'] = config']_vars

\* README.md:329: update restarts the service if it was running, and only then,
\* whatever happened to the service during the pull.
UpdateKeepsService == [][Returns /\ cmd' = "update" => (Running' <=> was)]_vars

\* As long as supervisord runs, every GPU of its guard gets a placeholder, and gets
\* it back when the guard dies (autorestart, ensure_placeholder_worker). Two guards,
\* one of them orphaned, end each other's workers for ever.
ServiceFills ==
  \A k \in Gpus :
    <>[](~Orphaned /\ \E d \in Daemons : daemon[d] = "up" /\ k \in watch[d])
      => <>[](\E w \in Workers : worker[w] = "ready" /\ On(w) = k)

=============================================================================
