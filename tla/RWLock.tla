------------------------------- MODULE RWLock -------------------------------
(***************************************************************************)
(* What the lock of one machine's GPUs promises, without its files, queue   *)
(* and heartbeats (lock.py, class GpuLock): a GPU is held by any number of  *)
(* readers or by one writer; a holder gives its lock back itself; the lock  *)
(* of a holder that died is taken away only while nothing computes on the   *)
(* GPU, so that a workload which outlives its wrapper keeps the card.       *)
(***************************************************************************)
CONSTANTS Procs, Gpus

VARIABLES
  kind,     \* kind[p]: "read" or "write"
  holders,  \* holders[g]: processes that hold g, the dead ones included
  live,     \* processes that run
  busy      \* GPUs with a compute process

vars == <<kind, holders, live, busy>>

Init == /\ kind \in [Procs -> {"read", "write"}]
        /\ holders = [g \in Gpus |-> {}]
        /\ live = Procs
        /\ busy = {}

\* Holders of g that may be dropped.
Abandoned(g) == {q \in holders[g] : q \notin live /\ g \notin busy}

Compatible(p, q) == kind[p] = "read" /\ kind[q] = "read"

\* Abandoned holders S are dropped.
Reclaim(g, S) ==
  /\ S \subseteq Abandoned(g)
  /\ holders' = [holders EXCEPT ![g] = @ \ S]
  /\ UNCHANGED <<kind, live, busy>>

\* p gets the lock; abandoned holders S may be dropped on the way.
Grant(p, g, S) ==
  /\ p \in live
  /\ p \notin holders[g]
  /\ S \subseteq Abandoned(g)
  /\ \A q \in holders[g] \ S : Compatible(p, q)
  /\ holders' = [holders EXCEPT ![g] = (@ \ S) \cup {p}]
  /\ UNCHANGED <<kind, live, busy>>

\* A holder gives its lock back.
Release(p, g) ==
  /\ p \in live
  /\ p \in holders[g]
  /\ holders' = [holders EXCEPT ![g] = @ \ {p}]
  /\ UNCHANGED <<kind, live, busy>>

\* Processes die and start, workloads come and go. Whoever starts holds nothing.
Environment ==
  /\ live' \subseteq Procs
  /\ busy' \subseteq Gpus
  /\ \A p \in live' \ live, g \in Gpus : p \notin holders[g]
  /\ UNCHANGED <<kind, holders>>

Next == \/ \E p \in Procs, g \in Gpus : \E S \in SUBSET Procs : Grant(p, g, S)
        \/ \E p \in Procs, g \in Gpus : Release(p, g)
        \/ \E g \in Gpus : \E S \in SUBSET Procs : Reclaim(g, S)
        \/ Environment

Spec == Init /\ [][Next]_vars

\* Readers share a GPU, a writer has it alone (lock.py _acquire_write_locked,
\* _acquire_read_locked), and a dead holder counts until it is dropped.
Exclusion ==
  \A g \in Gpus : \A p, q \in holders[g] : p # q => Compatible(p, q)
=============================================================================
