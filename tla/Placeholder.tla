----------------------------- MODULE Placeholder -----------------------------
(***************************************************************************)
(* The placeholder workers of one GPU (placeholder.py): processes started   *)
(* by the guard, and the two files that lead to them, placeholder.sock and  *)
(* placeholder.pid. Both files are written and removed by path, by the      *)
(* worker, the guard and every wrapper.                                     *)
(*                                                                         *)
(* A worker is "loading" (imports torch, has no socket and no handlers),    *)
(* "parked" or "active" (answers commands), "stopping" (told or signalled   *)
(* to stop, answers nothing, its CUDA context is still there) or "none".    *)
(***************************************************************************)
CONSTANTS
  Workers,   \* process ids
  NoWorker,  \* no file at the path
  Gone       \* a file that leads to a process which is no more

ASSUME NamesAssumption == /\ NoWorker \notin Workers
                          /\ Gone \notin Workers
                          /\ NoWorker # Gone

VARIABLES
  worker,    \* worker[w]: the state of process w
  sock,      \* whose socket is bound at placeholder.sock
  pidfile    \* whose pid placeholder.pid holds

workerVars == <<worker, sock, pidfile>>

WorkerStates == {"none", "loading", "parked", "active", "stopping"}

Live(w)   == worker[w] # "none"
Bound(w)  == worker[w] \in {"parked", "active", "stopping"}
Active    == \E w \in Workers : worker[w] = "active"

\* A command sent to placeholder.sock is answered.
Answers == sock \in Workers /\ worker[sock] \in {"parked", "active"}

WorkerInit == /\ worker = [w \in Workers |-> "none"]
              /\ sock = NoWorker
              /\ pidfile = NoWorker

\* The state of every worker after SIGTERM to those in S: before placeholder_main
\* has installed its handlers the signal kills, later it sets `stopping`.
AfterTerm(S) ==
  [w \in Workers |-> IF w \notin S THEN worker[w]
                     ELSE IF Bound(w) THEN "stopping" ELSE "none"]

\* handle_command: the worker that answers goes to state s.
Told(s) == [worker EXCEPT ![sock] = s]

\* The process that kill_placeholder signals.
PidTarget == {pidfile} \cap {w \in Workers : Live(w)}

\* Workers that nvidia-smi shows: those with a socket have a CUDA context,
\* those that load may have one.
Visible == {S \in SUBSET {w \in Workers : Live(w)} : \A w \in Workers : Bound(w) => w \in S}

\* Slip: the process of the pid file is taken for the only one.
Sweep_pidOnly(S) ==
  /\ worker' = [w \in Workers |-> IF w \in S /\ w = pidfile THEN "none" ELSE worker[w]]
  /\ sock' = IF \E w \in S : Bound(w) THEN NoWorker ELSE sock
  /\ pidfile' = IF pidfile \in S THEN NoWorker ELSE pidfile

\* kill_visible_placeholder_compute_pids: SIGTERM, wait, SIGKILL if need be.
\* A worker with a socket removes it, and its pid, on the way out.
Sweep(S) ==
  /\ worker' = [w \in Workers |-> IF w \in S THEN "none" ELSE worker[w]]
  /\ sock' = IF \E w \in S : Bound(w) THEN NoWorker ELSE sock
  /\ pidfile' = IF pidfile \in S THEN NoWorker ELSE pidfile

\* Nothing is left at the two paths.
UnlinkPaths == sock' = NoWorker /\ pidfile' = NoWorker

-----------------------------------------------------------------------------
(* What a worker does itself.                                               *)

\* The end of start-up: unlink the path, bind, write the pid.
Bind(w) ==
  /\ worker[w] = "loading"
  /\ worker' = [worker EXCEPT ![w] = "parked"]
  /\ sock' = w
  /\ pidfile' = w

\* No CUDA device, no torch: placeholder_main returns 1.
LoadFails(w) ==
  /\ worker[w] = "loading"
  /\ worker' = [worker EXCEPT ![w] = "none"]
  /\ UNCHANGED <<sock, pidfile>>

\* cleanup(): the path is unlinked if it exists, whoever is bound there; the
\* pid file only if it is its own.
Leave(w) ==
  /\ worker[w] = "stopping"
  /\ worker' = [worker EXCEPT ![w] = "none"]
  /\ sock' = NoWorker
  /\ pidfile' = IF pidfile = w THEN NoWorker ELSE pidfile

\* Killed, or gone without a cleanup.
Dies(w) ==
  /\ Live(w)
  /\ worker' = [worker EXCEPT ![w] = "none"]
  /\ sock' = IF sock = w THEN Gone ELSE sock
  /\ pidfile' = IF pidfile = w THEN Gone ELSE pidfile

WorkerTypeOK ==
  /\ worker \in [Workers -> WorkerStates]
  /\ sock \in Workers \cup {NoWorker, Gone}
  /\ pidfile \in Workers \cup {NoWorker, Gone}
=============================================================================
