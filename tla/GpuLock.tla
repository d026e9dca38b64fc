------------------------------ MODULE GpuLock ------------------------------
(***************************************************************************)
(* The per-GPU read/write lock of gpulock (lock.py), the session that takes *)
(* it on several GPUs (session.py) and the command wrapper that runs a      *)
(* workload under the session (cli.py, _run_locked_command).                *)
(*                                                                         *)
(* Every process is one `gpulock check|perf <gpus> -- <cmd>` wrapper.       *)
(* Processes share nothing but the lock directory of each GPU:             *)
(*   write.lock, readers/*.lock  - files[g], blank[g], old[g]               *)
(*   queue/*.req                 - line[g]                                  *)
(*   state.lock (flock)          - gate[g]                                  *)
(* What a process keeps in memory: its session's list of GpuLock objects    *)
(* (locks), the release in progress (unlinked), the streak of the idle      *)
(* precheck (streak) and its observations of stale candidates (probe).      *)
(***************************************************************************)
EXTENDS Integers, FiniteSets, Sequences

CONSTANTS
  Procs,          \* wrapper processes
  Gpus,           \* GPU indices
  NoProc,         \* "nobody holds the flock"
  SkipIdleCheck,  \* --no-wait-gpu-idle
  IdleStreak,     \* --idle-streak-s: idle observations the precheck wants
  Faults,         \* the kinds of fault that may occur
  MaxFaults       \* bound on the number of faults of a behaviour

FaultKinds == {"crash", "interrupt", "writefail", "stall", "signal",
               "resignal", "timeout", "foreign"}

ASSUME GpusAssumption == Gpus \subseteq Nat
ASSUME NoProcAssumption == NoProc \notin Procs
ASSUME BoundsAssumption == /\ SkipIdleCheck \in BOOLEAN
                           /\ IdleStreak \in Nat \ {0}
                           /\ MaxFaults \in Nat
                           /\ Faults \subseteq FaultKinds

VARIABLES
  mode,      \* mode[p]: "read" (check) or "write" (perf)
  want,      \* want[p]: the GPU ids of the command line, deduplicated
  pc,        \* pc[p]: where the wrapper is
  locks,     \* locks[p]: session.locks, the GPUs whose lock p holds, in order
  unlinked,  \* unlinked[p]: release() has unlinked its file, fd not yet None
  streak,    \* streak[p]: consecutive idle observations of the precheck
  work,      \* work[p]: p's workload: "none", "cpu" (no CUDA context), "gpu"
  files,     \* files[g]: processes whose lock file exists
  blank,     \* blank[g]: those whose file is empty, so has no pid line
  old,       \* old[g]: those whose file is past the stale-lock minimum age
  line,      \* line[g][p]: requests numbered up to p's own, {} if p has none
  gate,      \* gate[g]: who keeps the flock across steps
  probe,     \* probe[g][p]: files that waiter p saw stale once (_stale_probe)
  foreign,   \* GPUs with a compute process that never went through gpulock
  faults     \* number of faults so far

procVars == <<mode, want, pc, locks, unlinked, streak, work>>
fileVars == <<files, blank, old>>
vars == <<mode, want, pc, locks, unlinked, streak, work, files, blank, old,
          line, gate, probe, foreign, faults>>

-----------------------------------------------------------------------------
\* Helpers

PcStates == {"idle", "precheck", "queue", "created", "abort", "interrupt",
             "locked", "run", "rollback", "release", "done", "dead"}

Held(p) == {locks[p][i] : i \in 1..Len(locks[p])}
Top(p)  == locks[p][Len(locks[p])]
Front(s) == SubSeq(s, 1, Len(s) - 1)

Lowest(S) == CHOOSE g \in S : \A h \in S : g <= h

\* Slip: each session takes its GPUs in an order of its own.
Cur_unsorted(p) ==
  IF mode[p] = "read" THEN Lowest(want[p] \ Held(p))
  ELSE CHOOSE g \in want[p] \ Held(p) : \A h \in want[p] \ Held(p) : h <= g

\* The GPU that session.acquire() is working on: ids come sorted.
Cur(p) == Lowest(want[p] \ Held(p))

\* pid_exists(p)
Alive(p) == pc[p] \notin {"done", "dead"}

\* Slip: readers share one path, too.
SamePath_noUuid(p, q) == mode[p] = mode[q]

\* The lock paths of p and q on one GPU coincide: write.lock is one fixed
\* path, every reader has a path of its own.
SamePath(p, q) == p = q \/ (mode[p] = "write" /\ mode[q] = "write")

Writers(S) == {q \in S : mode[q] = "write"}

\* gpu_has_processes_by_index: a compute process that is no placeholder.
Computing(g) == g \in foreign \/ \E q \in Procs : work[q] = "gpu" /\ g \in want[q]

Fault(kind) == /\ kind \in Faults
               /\ faults < MaxFaults
               /\ faults' = faults + 1

\* The request queue of one GPU as the order of its sequence numbers.
Requests(l)   == {r \in Procs : r \in l[r]}
Register(l, p) == IF p \in l[p] THEN l ELSE [l EXCEPT ![p] = Requests(l) \cup {p}]
Dequeue(l, S) == [r \in Procs |-> IF r \in S THEN {} ELSE l[r] \ S]
Earlier(l, p) == l[p] \ {p}

\* A write to q's file gives it a new mtime and heartbeat, so that no earlier
\* observation of it matches any more.
Touched(g, q) == [r \in Procs |-> probe[g][r] \ {q}]

\* Where session.acquire() stands once it turns to its next GPU.
Entry(p) == IF mode[p] = "write" /\ ~SkipIdleCheck THEN "precheck" ELSE "queue"

Goto(p, state) == pc' = [pc EXCEPT ![p] = state]

\* Files S disappear from GPU g.
Unlink(g, S) == /\ files' = [files EXCEPT ![g] = @ \ S]
                /\ blank' = [blank EXCEPT ![g] = @ \ S]
                /\ old'   = [old EXCEPT ![g] = @ \ S]

\* Process p lets go of every flock it holds.
GateFreed(p) == [g \in Gpus |-> IF gate[g] = p THEN NoProc ELSE gate[g]]

-----------------------------------------------------------------------------
Init ==
  /\ mode \in [Procs -> {"read", "write"}]
  /\ want \in [Procs -> (SUBSET Gpus) \ {{}}]
  /\ pc = [p \in Procs |-> "idle"]
  /\ locks = [p \in Procs |-> <<>>]
  /\ unlinked = [p \in Procs |-> FALSE]
  /\ streak = [p \in Procs |-> 0]
  /\ work = [p \in Procs |-> "none"]
  /\ files = [g \in Gpus |-> {}]
  /\ blank = [g \in Gpus |-> {}]
  /\ old = [g \in Gpus |-> {}]
  /\ line = [g \in Gpus |-> [p \in Procs |-> {}]]
  /\ gate = [g \in Gpus |-> NoProc]
  /\ probe = [g \in Gpus |-> [p \in Procs |-> {}]]
  /\ foreign = {}
  /\ faults = 0

-----------------------------------------------------------------------------
(* session.acquire(): one GpuLock.acquire() per GPU, in ascending order.    *)

Start(p) ==
  /\ pc[p] = "idle"
  /\ Goto(p, Entry(p))
  /\ UNCHANGED <<mode, want, locks, unlinked, streak, work, fileVars, line,
                 gate, probe, foreign, faults>>

\* Slip: one observation too many is waited for.
PrecheckIdle_offByOne(p) ==
  /\ pc[p] = "precheck"
  /\ IF streak[p] + 1 > IdleStreak
     THEN Goto(p, "queue") /\ streak' = [streak EXCEPT ![p] = 0]
     ELSE streak' = [streak EXCEPT ![p] = @ + 1] /\ UNCHANGED pc
  /\ UNCHANGED <<mode, want, locks, unlinked, work, fileVars, line, gate,
                 probe, foreign, faults>>

\* _ensure_write_lock_gpu_ready, before the request enters the queue. With no
\* compute process on the GPU, or with util = 0, it looks idle.
PrecheckIdle(p) ==
  /\ pc[p] = "precheck"
  /\ IF streak[p] + 1 >= IdleStreak
     THEN Goto(p, "queue") /\ streak' = [streak EXCEPT ![p] = 0]
     ELSE streak' = [streak EXCEPT ![p] = @ + 1] /\ UNCHANGED pc
  /\ UNCHANGED <<mode, want, locks, unlinked, work, fileVars, line, gate,
                 probe, foreign, faults>>

PrecheckBusy(p) ==
  /\ pc[p] = "precheck"
  /\ Computing(Cur(p))
  /\ streak' = [streak EXCEPT ![p] = 0]
  /\ UNCHANGED <<mode, want, pc, locks, unlinked, work, fileVars, line, gate,
                 probe, foreign, faults>>

PrecheckTimeout(p) ==
  /\ pc[p] = "precheck"
  /\ Fault("timeout")
  /\ Goto(p, "rollback")
  /\ streak' = [streak EXCEPT ![p] = 0]
  /\ UNCHANGED <<mode, want, locks, unlinked, work, fileVars, line, gate,
                 probe, foreign>>

\* Slip: the requests of dead processes stay in the queue.
LineSeenBy_noCleanup(p, g) == Register(line[g], p)

\* One pass of the acquire loop under the state.lock gate first registers the
\* request if it is missing, then drops the requests of dead processes ...
LineSeenBy(p, g) ==
  LET l == Register(line[g], p)
  IN  Dequeue(l, {q \in Requests(l) : ~Alive(q)})

\* Slips: the minimum age is not looked at; the GPU is not looked at.
Candidates_anyAge(g)  == {q \in files[g] : (q \in blank[g] \/ ~Alive(q)) /\ ~Computing(g)}
Candidates_busyGpu(g) == {q \in files[g] : q \in old[g] /\ (q \in blank[g] \/ ~Alive(q))}

\* ... then goes through the lock files: past the minimum age, with a dead or
\* missing pid and nothing computing on the GPU a file is a candidate; one
\* that was a candidate in the previous observation, unchanged, is unlinked.
Candidates(g) == {q \in files[g] : /\ q \in old[g]
                                   /\ q \in blank[g] \/ ~Alive(q)
                                   /\ ~Computing(g)}
Stale(p, g)     == Candidates(g) \cap probe[g][p]
FilesLeft(p, g) == files[g] \ Stale(p, g)

\* Slip: a writer does not look at readers/.
MustWait_ignoresReaders(p, g) ==
  LET ahead == Earlier(LineSeenBy(p, g), p)
  IN  IF mode[p] = "write" THEN ahead # {} \/ Writers(FilesLeft(p, g)) # {}
                           ELSE Writers(ahead) # {} \/ Writers(FilesLeft(p, g)) # {}

\* Slip: a reader does not mind the writers that wait before it.
MustWait_readersPass(p, g) ==
  LET ahead == Earlier(LineSeenBy(p, g), p)
  IN  IF mode[p] = "write" THEN ahead # {} \/ FilesLeft(p, g) # {}
                           ELSE Writers(FilesLeft(p, g)) # {}

\* _queue_wait_reason_locked and the existence checks of _acquire_*_locked.
MustWait(p, g) ==
  LET ahead == Earlier(LineSeenBy(p, g), p)
  IN  IF mode[p] = "write" THEN ahead # {} \/ FilesLeft(p, g) # {}
                           ELSE Writers(ahead) # {} \/ Writers(FilesLeft(p, g)) # {}

\* A pass that must wait, then sleeps for poll_ms. The last look at the GPU and the
\* unlink of a stale file are one step, here and in PollCreate: work that reaches the
\* GPU exactly between them is left out.
PollBlocked(p) ==
  LET g == Cur(p) IN
  /\ pc[p] = "queue"
  /\ gate[g] = NoProc
  /\ MustWait(p, g)
  /\ line' = [line EXCEPT ![g] = LineSeenBy(p, g)]
  /\ Unlink(g, Stale(p, g))
  /\ probe' = [probe EXCEPT ![g][p] = Candidates(g) \ @]
  /\ UNCHANGED <<procVars, gate, foreign, faults>>

\* A pass that may go ahead creates its file (O_EXCL), empty for the moment.
PollCreate(p) ==
  LET g == Cur(p) IN
  /\ pc[p] = "queue"
  /\ gate[g] = NoProc
  /\ ~MustWait(p, g)
  /\ line' = [line EXCEPT ![g] = LineSeenBy(p, g)]
  /\ files' = [files EXCEPT ![g] = FilesLeft(p, g) \cup {p}]
  /\ blank' = [blank EXCEPT ![g] = (@ \ Stale(p, g)) \cup {p}]
  /\ old' = [old EXCEPT ![g] = @ \ (Stale(p, g) \cup {p})]
  /\ probe' = [probe EXCEPT ![g] = [Touched(g, p) EXCEPT ![p] = {}]]
  /\ gate' = [gate EXCEPT ![g] = p]
  /\ Goto(p, "created")
  /\ UNCHANGED <<mode, want, locks, unlinked, streak, work, foreign, faults>>

\* The first heartbeat is written, the request leaves the queue, the heartbeat
\* thread starts, the gate opens and the session appends the lock to its list.
Commit(p) ==
  LET g == Cur(p) IN
  /\ pc[p] = "created"
  /\ blank' = [blank EXCEPT ![g] = @ \ {p}]
  /\ line' = [line EXCEPT ![g] = Dequeue(@, {p})]
  /\ gate' = [gate EXCEPT ![g] = NoProc]
  /\ locks' = [locks EXCEPT ![p] = Append(@, g)]
  /\ Goto(p, IF want[p] = Held(p) \cup {g} THEN "locked" ELSE Entry(p))
  /\ UNCHANGED <<mode, want, unlinked, streak, work, files, old, probe,
                 foreign, faults>>

\* The first heartbeat raises (a full disk): the file stays behind, empty, and
\* its lock never gets into the session's list.
CommitFails(p) ==
  /\ pc[p] = "created"
  /\ Fault("writefail")
  /\ gate' = GateFreed(p)
  /\ Goto(p, "abort")
  /\ UNCHANGED <<mode, want, locks, unlinked, streak, work, fileVars, line,
                 probe, foreign>>

\* Past the deadline after a pass that had to wait.
QueueTimeout(p) ==
  /\ pc[p] = "queue"
  /\ p \in line[Cur(p)][p]
  /\ Fault("timeout")
  /\ Goto(p, "abort")
  /\ UNCHANGED <<mode, want, locks, unlinked, streak, work, fileVars, line,
                 gate, probe, foreign>>

\* SIGINT before the session's handlers are registered: KeyboardInterrupt runs
\* the `finally` of GpuLock.acquire but is no Exception for session.acquire.
Interrupt(p) ==
  /\ pc[p] \in {"precheck", "queue", "created"}
  /\ Fault("interrupt")
  /\ gate' = GateFreed(p)
  /\ IF pc[p] = "precheck"
     THEN Goto(p, "dead") /\ locks' = [locks EXCEPT ![p] = <<>>]
     ELSE Goto(p, "interrupt") /\ UNCHANGED locks
  /\ streak' = [streak EXCEPT ![p] = 0]
  /\ UNCHANGED <<mode, want, unlinked, work, fileVars, line, probe, foreign>>

\* The `finally` of GpuLock.acquire; then session.acquire rolls back, or the
\* KeyboardInterrupt ends the process with its files in place.
Unregister(p) ==
  LET g == Cur(p) IN
  /\ pc[p] \in {"abort", "interrupt"}
  /\ gate[g] = NoProc
  /\ line' = [line EXCEPT ![g] = Dequeue(@, {p})]
  /\ probe' = [probe EXCEPT ![g][p] = {}]
  /\ IF pc[p] = "abort"
     THEN Goto(p, "rollback") /\ UNCHANGED locks
     ELSE Goto(p, "dead") /\ locks' = [locks EXCEPT ![p] = <<>>]
  /\ UNCHANGED <<mode, want, unlinked, streak, work, fileVars, gate, foreign,
                 faults>>

-----------------------------------------------------------------------------
(* The command under the lock, and the release.                             *)

\* register_process_cleanup(), then subprocess.run(command).
Launch(p) ==
  /\ pc[p] = "locked"
  /\ Goto(p, "run")
  /\ work' = [work EXCEPT ![p] = "cpu"]
  /\ UNCHANGED <<mode, want, locks, unlinked, streak, fileVars, line, gate,
                 probe, foreign, faults>>

\* The workload, whether or not its wrapper still lives.
WorkReachesGpu(p) ==
  /\ work[p] = "cpu"
  /\ work' = [work EXCEPT ![p] = "gpu"]
  /\ UNCHANGED <<mode, want, pc, locks, unlinked, streak, fileVars, line, gate,
                 probe, foreign, faults>>

WorkEnds(p) ==
  /\ work[p] # "none"
  /\ work' = [work EXCEPT ![p] = "none"]
  /\ UNCHANGED <<mode, want, pc, locks, unlinked, streak, fileVars, line, gate,
                 probe, foreign, faults>>

\* subprocess.run returns: the `finally` of _run_locked_command releases.
Finish(p) ==
  /\ pc[p] = "run"
  /\ work[p] = "none"
  /\ Goto(p, "release")
  /\ UNCHANGED <<mode, want, locks, unlinked, streak, work, fileVars, line,
                 gate, probe, foreign, faults>>

\* SIGINT, SIGTERM, SIGHUP or SIGQUIT to the wrapper while the command runs:
\* _signal_handler releases and exits; nobody signals the child.
Signal(p) ==
  /\ pc[p] = "run"
  /\ Fault("signal")
  /\ Goto(p, "release")
  /\ UNCHANGED <<mode, want, locks, unlinked, streak, work, fileVars, line,
                 gate, probe, foreign>>

\* GpuLock.release, last lock of the session first: stop the heartbeat, close,
\* unlink the path - not under the gate and whoever owns the file by now.
ReleaseUnlink(p) ==
  LET g == Top(p) IN
  /\ pc[p] \in {"rollback", "release"}
  /\ locks[p] # <<>>
  /\ ~unlinked[p]
  /\ Unlink(g, {q \in files[g] : SamePath(p, q)})
  /\ unlinked' = [unlinked EXCEPT ![p] = TRUE]
  /\ UNCHANGED <<mode, want, pc, locks, streak, work, line, gate, probe,
                 foreign, faults>>

\* ... and only then fd = None.
ReleaseClear(p) ==
  /\ pc[p] \in {"rollback", "release"}
  /\ unlinked[p]
  /\ locks' = [locks EXCEPT ![p] = Front(@)]
  /\ unlinked' = [unlinked EXCEPT ![p] = FALSE]
  /\ UNCHANGED <<mode, want, pc, streak, work, fileVars, line, gate, probe,
                 foreign, faults>>

\* A signal in the middle of release(): the handler runs release() again from
\* the top and finds fd still set.
SignalInRelease(p) ==
  /\ pc[p] = "release"
  /\ unlinked[p]
  /\ Fault("resignal")
  /\ unlinked' = [unlinked EXCEPT ![p] = FALSE]
  /\ UNCHANGED <<mode, want, pc, locks, streak, work, fileVars, line, gate,
                 probe, foreign>>

\* Slip: a failed session.acquire() does not release what it holds.
Exit_noRollback(p) ==
  /\ pc[p] \in {"rollback", "release"}
  /\ pc[p] = "release" => locks[p] = <<>>
  /\ Goto(p, "done")
  /\ UNCHANGED <<mode, want, locks, unlinked, streak, work, fileVars, line,
                 gate, probe, foreign, faults>>

Exit(p) ==
  /\ pc[p] \in {"rollback", "release"}
  /\ locks[p] = <<>>
  /\ Goto(p, "done")
  /\ UNCHANGED <<mode, want, locks, unlinked, streak, work, fileVars, line,
                 gate, probe, foreign, faults>>

\* The same command line again, as a new process: p stands for it once
\* nothing of the previous one is left.
Restart(p) ==
  /\ pc[p] = "done"
  /\ work[p] = "none"
  /\ \A g \in Gpus : p \notin files[g]
  /\ Goto(p, "idle")
  /\ UNCHANGED <<mode, want, locks, unlinked, streak, work, fileVars, line,
                 gate, probe, foreign, faults>>

-----------------------------------------------------------------------------
(* Heartbeats, the passage of time, crashes and foreign jobs.               *)

Beating(p, g) ==
  /\ Alive(p)
  /\ g \in Held(p)
  /\ p \in files[g]
  /\ ~(unlinked[p] /\ g = Top(p))

\* _write_heartbeat empties the file ...
HeartbeatTruncate(p, g) ==
  /\ Beating(p, g)
  /\ p \notin blank[g]
  /\ blank' = [blank EXCEPT ![g] = @ \cup {p}]
  /\ old' = [old EXCEPT ![g] = @ \ {p}]
  /\ probe' = [probe EXCEPT ![g] = Touched(g, p)]
  /\ UNCHANGED <<procVars, files, line, gate, foreign, faults>>

\* ... and writes the payload, unless the write fails, which ends the thread.
HeartbeatWrite(p, g) ==
  /\ Beating(p, g)
  /\ p \in blank[g]
  /\ blank' = [blank EXCEPT ![g] = @ \ {p}]
  /\ old' = [old EXCEPT ![g] = @ \ {p}]
  /\ probe' = [probe EXCEPT ![g] = Touched(g, p)]
  /\ UNCHANGED <<procVars, files, line, gate, foreign, faults>>

\* A file's mtime falls behind now by the minimum age: max(2 * heartbeat_s, 2)
\* with a pid line, grace_age_s without. The age of a file with a live pid
\* plays no part in the code, and that of a live process' empty file gets that
\* high only if its heartbeat stalls or fails.
Age(q, g) ==
  /\ q \in files[g] \ old[g]
  /\ IF Alive(q) THEN q \in blank[g] /\ pc[q] # "created" /\ Fault("stall")
                 ELSE UNCHANGED faults
  /\ old' = [old EXCEPT ![g] = @ \cup {q}]
  /\ UNCHANGED <<procVars, files, blank, line, gate, probe, foreign>>

\* SIGKILL, or a signal with its default action before the handlers are there:
\* the kernel drops the flock, everything on disk stays, and so does the work.
Crash(p) ==
  /\ pc[p] \notin {"idle", "done", "dead"}
  /\ Fault("crash")
  /\ Goto(p, "dead")
  /\ gate' = GateFreed(p)
  /\ locks' = [locks EXCEPT ![p] = <<>>]
  /\ unlinked' = [unlinked EXCEPT ![p] = FALSE]
  /\ streak' = [streak EXCEPT ![p] = 0]
  /\ probe' = [g \in Gpus |-> [probe[g] EXCEPT ![p] = {}]]
  /\ UNCHANGED <<mode, want, work, fileVars, line, foreign>>

ForeignStart(g) ==
  /\ g \notin foreign
  /\ Fault("foreign")
  /\ foreign' = foreign \cup {g}
  /\ UNCHANGED <<procVars, fileVars, line, gate, probe>>

ForeignEnd(g) ==
  /\ g \in foreign
  /\ foreign' = foreign \ {g}
  /\ UNCHANGED <<procVars, fileVars, line, gate, probe, faults>>

-----------------------------------------------------------------------------
Acquiring(p) == \/ Start(p)       \/ PrecheckIdle(p) \/ PrecheckBusy(p)
                \/ PollBlocked(p) \/ PollCreate(p)   \/ Commit(p)
                \/ Unregister(p)

Running(p) == Launch(p) \/ WorkReachesGpu(p) \/ WorkEnds(p) \/ Finish(p)

Releasing(p) == ReleaseUnlink(p) \/ ReleaseClear(p) \/ Exit(p) \/ Restart(p)

Failing(p) == \/ PrecheckTimeout(p) \/ QueueTimeout(p) \/ CommitFails(p)
              \/ Interrupt(p) \/ Signal(p) \/ SignalInRelease(p) \/ Crash(p)

Disk(p, g) == HeartbeatTruncate(p, g) \/ HeartbeatWrite(p, g) \/ Age(p, g)

Next == \/ \E p \in Procs : Acquiring(p) \/ Running(p) \/ Releasing(p) \/ Failing(p)
        \/ \E p \in Procs, g \in Gpus : Disk(p, g)
        \/ \E g \in Gpus : ForeignStart(g) \/ ForeignEnd(g)

Spec == Init /\ [][Next]_vars

\* What a wrapper does on its own, once it lives, and what ends its workload.
Proceed(p) == \/ PrecheckIdle(p)  \/ PrecheckBusy(p) \/ Commit(p) \/ Launch(p)
              \/ WorkEnds(p)      \/ Finish(p)
              \/ ReleaseUnlink(p) \/ ReleaseClear(p) \/ Exit(p)

\* What needs the flock.
Pass(p) == PollBlocked(p) \/ PollCreate(p) \/ Unregister(p)

\* A wrapper that lives keeps executing, a command and a foreign job end, time
\* passes. The loop asks for the flock every poll_ms for as long as it waits,
\* and the kernel does not pass over a blocked process for ever: whoever asks
\* for a gate that is open again and again gets through it.
\* Nothing obliges a user to start a command, or a fault to happen.
Fairness == /\ \A p \in Procs : WF_vars(Proceed(p)) /\ SF_vars(Pass(p))
            /\ WF_vars(\E p \in Procs, g \in Gpus : ~Alive(p) /\ Age(p, g))
            /\ \A g \in Gpus : WF_vars(ForeignEnd(g))

FairSpec == Spec /\ Fairness

-----------------------------------------------------------------------------
(* Properties                                                               *)

\* Every variable holds values of its type (lock.py GpuLock.__init__ and the
\* lock directory's layout).
TypeOK ==
  /\ mode \in [Procs -> {"read", "write"}]
  /\ want \in [Procs -> (SUBSET Gpus) \ {{}}]
  /\ pc \in [Procs -> PcStates]
  /\ locks \in [Procs -> Seq(Gpus)]
  /\ unlinked \in [Procs -> BOOLEAN]
  /\ streak \in [Procs -> 0..(IdleStreak - 1)]
  /\ work \in [Procs -> {"none", "cpu", "gpu"}]
  /\ files \in [Gpus -> SUBSET Procs]
  /\ blank \in [Gpus -> SUBSET Procs]
  /\ old \in [Gpus -> SUBSET Procs]
  /\ line \in [Gpus -> [Procs -> SUBSET Procs]]
  /\ gate \in [Gpus -> Procs \cup {NoProc}]
  /\ probe \in [Gpus -> [Procs -> SUBSET Procs]]
  /\ foreign \subseteq Gpus
  /\ faults \in 0..MaxFaults

\* p is in possession of g's lock: its GpuLock object has a file descriptor
\* and release() has not unlinked the file.
Owns(p, g) == Alive(p) /\ g \in Held(p) /\ ~(unlinked[p] /\ g = Top(p))

\* The promise of the lock (lock.py _acquire_write_locked and
\* _acquire_read_locked): whoever owns a write lock on a GPU owns it alone,
\* whatever is reclaimed, released and crashes around it.
Exclusive ==
  \A g \in Gpus : \A p, q \in Procs :
    (p # q /\ Owns(p, g) /\ Owns(q, g)) => mode[p] = "read" /\ mode[q] = "read"

\* The file of an owner stays where the others look for it: no stale-lock
\* cleanup and no release of another process takes it away.
OwnerKeepsFile ==
  \A p \in Procs, g \in Gpus : Owns(p, g) => p \in files[g]

\* A process that has ended in an orderly way - command finished, lock
\* timeout, signal - left neither a lock file nor a request behind
\* (session.py acquire's rollback, lock.py acquire's `finally`).
ExitLeavesNothing ==
  \A p \in Procs, g \in Gpus :
    pc[p] = "done" => p \notin files[g] /\ p \notin line[g][p] /\ gate[g] # p

\* A lock file disappears by the hand of its owner, or when the owner is dead
\* and no compute process is on the GPU (lock.py _try_cleanup_stale_lock).
ReclaimOnlyAbandoned ==
  [][\A g \in Gpus : \A q \in files[g] \ files'[g] :
       \/ Owns(q, g) /\ unlinked'[q]
       \/ ~Alive(q) /\ ~Computing(g)]_vars

\* p's request on g is older than that of q, who may be about to file it.
Older(p, q, g) == /\ p # q
                  /\ p \in line[g][p]
                  /\ q \in line[g][q] => p \in line[g][q]

\* First come, first served once requests are in the queue: a lock is not
\* granted past an older live request unless both are readers
\* (lock.py _queue_wait_reason_locked).
NoOvertaking ==
  [][\A g \in Gpus : \A q \in files'[g] \ files[g], p \in Procs :
       Older(p, q, g) /\ Alive(p) => mode[p] = "read" /\ mode[q] = "read"]_vars

\* A session that waits for its next GPU.
Waiting(p) == pc[p] \in {"precheck", "queue"}

\* q is among those that p waits for on its next GPU: its work is seen there by
\* the precheck, or its file or earlier request stands in the way of p's pass.
Delays(q, p) ==
  LET g == Cur(p) IN
  /\ q # p
  /\ \/ pc[p] = "precheck" /\ work[q] = "gpu" /\ g \in want[q]
     \/ /\ pc[p] = "queue"
        /\ q \in FilesLeft(p, g) \cup Earlier(LineSeenBy(p, g), p)
        /\ "write" \in {mode[p], mode[q]}

\* Sessions hold some GPUs while they wait for others, and never in a circle: among
\* any that wait, one waits for none of the rest (session.py acquire takes sorted
\* ids one by one; lock.py _queue_wait_reason_locked).
NoCircularWait ==
  \A S \in SUBSET {p \in Procs : Waiting(p)} :
    S # {} => \E p \in S : \A q \in S : ~Delays(q, p)

\* Whoever has a request in the queue gets through: neither a stream of other
\* requests, nor crashed owners and waiters, nor processes that hold some GPUs
\* and wait for others keep it out for good (lock.py acquire, session.py).
QueuedIsServed ==
  \A p \in Procs :
    pc[p] = "queue" ~> pc[p] \notin {"precheck", "queue", "created"}

\* README: "readers never starve a waiting writer". A writer that waits in the
\* precheck has no request in the queue yet (lock.py acquire).
WriterIsServed ==
  \A p \in Procs :
    pc[p] = "precheck" ~> pc[p] \notin {"precheck", "queue", "created"}

\* README: "a lock is never lost while real work is still on the card".
RunningWorkKeepsLock ==
  \A p \in Procs : \A g \in want[p] : work[p] = "gpu" => p \in files[g]

\* The lock files, seen from outside, are the read/write lock of RWLock: that
\* is what Init, the handlers and the stale-lock cleanup of lock.py add up to.
Promise == INSTANCE RWLock WITH
  kind    <- mode,
  holders <- files,
  live    <- {p \in Procs : Alive(p)},
  busy    <- {g \in Gpus : Computing(g)}

ImplementsRWLock == Promise!Spec

=============================================================================
