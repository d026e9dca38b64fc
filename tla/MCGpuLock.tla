----------------------------- MODULE MCGpuLock -----------------------------
(***************************************************************************)
(* Instances of GpuLock for TLC: which wrappers exist, what they ask for    *)
(* and which faults may strike.                                             *)
(***************************************************************************)
EXTENDS GpuLock, TLC

CONSTANTS p1, p2, p3

\* Sessions that ask for every GPU, in the modes TLC may choose.
AllGpus == \A p \in Procs : want[p] = Gpus

\* Interchangeable processes: Init and Next treat them alike.
Symmetry == Permutations(Procs)

EverywhereInit == Init /\ AllGpus

EverywhereSpec == EverywhereInit /\ [][Next]_vars

\* The modes up to a renaming of the processes: writers first.
WritersFirst ==
  /\ mode[p1] = "read" => mode[p2] = "read"
  /\ mode[p2] = "read" => mode[p3] = "read"

\* Everybody wants the same GPU.
OneGpu == WritersFirst /\ \A p \in Procs : want[p] = {0}

\* Every pair of perf wrappers shares a GPU, and no GPU is shared by all.
Chain ==
  /\ want = [p \in Procs |-> IF p = p1 THEN {0, 1} ELSE IF p = p2 THEN {1, 2} ELSE {0, 2}]
  /\ mode = [p \in Procs |-> "write"]

ContendedInit == Init /\ (OneGpu \/ Chain)

\* Both kinds of contention; faults strike only on the one GPU, which keeps
\* the chain small enough.
LiveSpec ==
  /\ ContendedInit
  /\ [][Next /\ (faults' # faults => OneGpu)]_vars
  /\ Fairness

\* One perf wrapper among check wrappers.
OneWriterSpec ==
  /\ Init
  /\ AllGpus
  /\ mode = [p \in Procs |-> IF p = p1 THEN "write" ELSE "read"]
  /\ [][Next]_vars
  /\ Fairness
=============================================================================
