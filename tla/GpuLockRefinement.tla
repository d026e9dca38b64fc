-------------------------- MODULE GpuLockRefinement --------------------------
(***************************************************************************)
(* The lock directory, with everything that may go wrong but a stalled      *)
(* heartbeat and a re-entered release, implements the abstract read/write   *)
(* lock RWLock under the mapping Promise of GpuLock.                        *)
(***************************************************************************)
EXTENDS GpuLockProofs

\* What the abstract lock sees of a step that leaves the lock files alone.
LEMMA QuietIsEnvironment ==
  ASSUME TypeOK, mode' = mode, files' = files,
         \A p \in Procs, g \in Gpus : Alive(p)' /\ ~Alive(p) => p \notin files[g]
  PROVE  Promise!Environment
<1>1. {p \in Procs : Alive(p)'} \subseteq Procs
  OBVIOUS
<1>2. {g \in Gpus : Computing(g)'} \subseteq Gpus
  OBVIOUS
<1> QED
  BY <1>1, <1>2 DEF Promise!Environment

\* The commands' modes are what the command lines say, once and for all.
LEMMA ModeConstant == [Next]_vars => mode' = mode
<1>1. ASSUME NEW p \in Procs, Acquiring(p) \/ Running(p) PROVE mode' = mode
  BY <1>1 DEF Acquiring, Running, Start, PrecheckIdle, PrecheckBusy, PollBlocked,
       PollCreate, Commit, Unregister, Launch, WorkReachesGpu, WorkEnds, Finish,
       procVars
<1>2. ASSUME NEW p \in Procs, Releasing(p) \/ Failing(p) PROVE mode' = mode
  BY <1>2 DEF Releasing, Failing, ReleaseUnlink, ReleaseClear, Exit, Restart,
       PrecheckTimeout, QueueTimeout, CommitFails, Interrupt, Signal,
       SignalInRelease, Crash
<1>3. ASSUME NEW p \in Procs, NEW g \in Gpus, Disk(p, g) PROVE mode' = mode
  BY <1>3 DEF Disk, HeartbeatTruncate, HeartbeatWrite, Age, procVars
<1>4. ASSUME NEW g \in Gpus, ForeignStart(g) \/ ForeignEnd(g) PROVE mode' = mode
  BY <1>4 DEF ForeignStart, ForeignEnd, procVars
<1> QED
  BY <1>1, <1>2, <1>3, <1>4 DEF Next, vars

\* The GPU that release() works on is one the session holds.
LEMMA TopIsHeld ==
  ASSUME TypeOK, NEW p \in Procs, locks[p] # <<>>
  PROVE  Top(p) \in Held(p) /\ Top(p) \in Gpus
<1>1. locks[p] \in Seq(Gpus)
  BY DEF TypeOK
<1>2. Len(locks[p]) \in 1..Len(locks[p])
  BY <1>1, FrontProperties
<1> QED
  BY <1>1, <1>2, LenProperties DEF Top, Held

\* Nobody but a new process comes to life, and a new process has no lock file.
LEMMA WhoStartsHoldsNothing ==
  ASSUME TypeOK, [Next]_vars, NEW p \in Procs, Alive(p)', ~Alive(p), NEW g \in Gpus
  PROVE  p \notin files[g]
<1>1. pc[p] \in {"done", "dead"} /\ pc'[p] \notin {"done", "dead"}
  BY DEF Alive
<1>2. ASSUME NEW q \in Procs, Acquiring(q) \/ Running(q) PROVE FALSE
  BY <1>1, <1>2 DEF TypeOK, Acquiring, Running, Start, PrecheckIdle, PrecheckBusy,
       PollBlocked, PollCreate, Commit, Unregister, Launch, WorkReachesGpu,
       WorkEnds, Finish, Goto, procVars
<1>3. ASSUME NEW q \in Procs, Releasing(q) PROVE p \notin files[g]
  <2>1. CASE Restart(q)
    BY <1>1, <2>1 DEF TypeOK, Restart, Goto
  <2>2. CASE ReleaseUnlink(q) \/ ReleaseClear(q) \/ Exit(q)
    BY <1>1, <2>2 DEF TypeOK, ReleaseUnlink, ReleaseClear, Exit, Goto
  <2> QED
    BY <1>3, <2>1, <2>2 DEF Releasing
<1>4. ASSUME NEW q \in Procs, Failing(q) PROVE FALSE
  BY <1>1, <1>4 DEF TypeOK, Failing, PrecheckTimeout, QueueTimeout, CommitFails,
       Interrupt, Signal, SignalInRelease, Crash, Goto
<1>5. ASSUME NEW q \in Procs, NEW h \in Gpus, Disk(q, h) PROVE FALSE
  BY <1>1, <1>5 DEF Disk, HeartbeatTruncate, HeartbeatWrite, Age, procVars
<1>6. ASSUME NEW h \in Gpus, ForeignStart(h) \/ ForeignEnd(h) PROVE FALSE
  BY <1>1, <1>6 DEF ForeignStart, ForeignEnd, procVars
<1>7. ASSUME UNCHANGED vars PROVE FALSE
  BY <1>1, <1>7 DEF vars
<1> QED
  BY <1>2, <1>3, <1>4, <1>5, <1>6, <1>7 DEF Next

\* The files that a pass drops are those of dead holders on a GPU where nothing
\* computes (_try_cleanup_stale_lock).
LEMMA StaleIsAbandoned ==
  ASSUME TypeOK, FileInv, NEW p \in Procs, NEW g \in Gpus
  PROVE  Stale(p, g) \in SUBSET Procs /\ Stale(p, g) \subseteq Promise!Abandoned(g)
<1>1. Stale(p, g) \subseteq files[g] /\ files[g] \subseteq Procs
  BY DEF TypeOK, Stale, Candidates
<1>2. \A q \in Stale(p, g) : ~Alive(q) /\ ~Computing(g)
  BY DEF FileInv, LiveFilesFresh, Stale, Candidates
<1> QED
  BY <1>1, <1>2 DEF Promise!Abandoned

\* Life and work stay as they are while only files, queue and flock change.
LEMMA SameLifeAndWork ==
  ASSUME TypeOK, want' = want, work' = work, foreign' = foreign,
         \A p \in Procs : Alive(p)' <=> Alive(p)
  PROVE  /\ {p \in Procs : Alive(p)'} = {p \in Procs : Alive(p)}
         /\ {g \in Gpus : Computing(g)'} = {g \in Gpus : Computing(g)}
<1>1. \A g \in Gpus : Computing(g)' <=> Computing(g)
  BY DEF Computing
<1> QED
  BY <1>1

\* Every step of the lock directory is a step of the abstract lock or none.
LEMMA StepRefines ==
  ASSUME TypeOK, SessionInv, FileInv, [Next]_vars
  PROVE  [Promise!Next]_(Promise!vars)
<1>1. CASE files' = files
  <2>1. mode' = mode
    BY ModeConstant
  <2> QED
    BY <1>1, <2>1, WhoStartsHoldsNothing, QuietIsEnvironment DEF Promise!Next
<1>2. CASE files' # files
  <2>1. PICK p \in Procs : PollBlocked(p) \/ PollCreate(p) \/ ReleaseUnlink(p)
    BY <1>2, FilesChangeBy
  <2>2. CASE PollBlocked(p)
    <3> DEFINE g == Cur(p)
    <3>1. g \in Gpus
      BY <2>2, CurIsNew DEF PollBlocked
    <3>2. files' = [files EXCEPT ![g] = @ \ Stale(p, g)] /\ mode' = mode
      BY <2>2 DEF PollBlocked, Unlink, procVars
    <3>3. /\ {q \in Procs : Alive(q)'} = {q \in Procs : Alive(q)}
          /\ {h \in Gpus : Computing(h)'} = {h \in Gpus : Computing(h)}
      BY <2>2, SameLifeAndWork DEF PollBlocked, procVars, Alive
    <3> HIDE DEF g
    <3>4. Promise!Reclaim(g, Stale(p, g))
      BY <3>1, <3>2, <3>3, StaleIsAbandoned DEF Promise!Reclaim
    <3> QED
      BY <3>1, <3>4, StaleIsAbandoned DEF Promise!Next
  <2>3. CASE PollCreate(p)
    <3> DEFINE g == Cur(p)
    <3>1. g \in Gpus
      BY <2>3, CurIsNew DEF PollCreate
    <3>2. /\ files' = [files EXCEPT ![g] = FilesLeft(p, g) \cup {p}]
          /\ mode' = mode /\ want' = want /\ work' = work /\ foreign' = foreign
          /\ ~MustWait(p, g)
          /\ pc[p] = "queue" /\ pc' = [pc EXCEPT ![p] = "created"]
      BY <2>3 DEF PollCreate, Goto
    <3>3. \A q \in Procs : Alive(q)' <=> Alive(q)
      BY <3>2 DEF Alive, TypeOK
    <3>4. /\ {q \in Procs : Alive(q)'} = {q \in Procs : Alive(q)}
          /\ {h \in Gpus : Computing(h)'} = {h \in Gpus : Computing(h)}
      BY <3>2, <3>3, SameLifeAndWork
    <3> HIDE DEF g
    <3>5. \A q \in FilesLeft(p, g) : Promise!Compatible(p, q)
      BY <3>1, <3>2 DEF MustWait, Writers, Promise!Compatible, TypeOK, FilesLeft
    <3>6. CASE p \notin files[g]
      <4>1. Promise!Grant(p, g, Stale(p, g))
        BY <3>1, <3>2, <3>4, <3>5, <3>6, StaleIsAbandoned
           DEF Promise!Grant, FilesLeft, Alive
      <4> QED
        BY <3>1, <4>1, StaleIsAbandoned DEF Promise!Next
    <3>7. CASE p \in files[g]
      <4>1. p \notin Stale(p, g)
        BY <3>1, <3>2, <3>7, LiveFileIsLeft DEF FileInv, Alive
      <4>2. FilesLeft(p, g) \cup {p} = files[g] \ Stale(p, g)
        BY <3>7, <4>1 DEF FilesLeft
      <4>3. Promise!Reclaim(g, Stale(p, g))
        BY <3>1, <3>2, <3>4, <4>2, StaleIsAbandoned DEF Promise!Reclaim
      <4> QED
        BY <3>1, <4>3, StaleIsAbandoned DEF Promise!Next
    <3> QED
      BY <3>6, <3>7
  <2>4. CASE ReleaseUnlink(p)
    <3> DEFINE g == Top(p)
    <3>1. locks[p] \in Seq(Gpus) /\ locks[p] # <<>> /\ g \in Gpus /\ g \in Held(p)
      BY <2>4, TopIsHeld DEF ReleaseUnlink, TypeOK
    <3>2. /\ files' = [files EXCEPT ![g] = @ \ {q \in files[g] : SamePath(p, q)}]
          /\ mode' = mode /\ pc' = pc
          /\ ~unlinked[p] /\ pc[p] \in {"rollback", "release"}
      BY <2>4 DEF ReleaseUnlink, Unlink
    <3>3. /\ {q \in Procs : Alive(q)'} = {q \in Procs : Alive(q)}
          /\ {h \in Gpus : Computing(h)'} = {h \in Gpus : Computing(h)}
      BY <2>4, SameLifeAndWork DEF ReleaseUnlink, Alive
    <3> HIDE DEF g
    <3>4. Alive(p) /\ p \in files[g]
      BY <3>1, <3>2 DEF FileInv, OwnerKeepsFile, Owns, Alive
    <3>5. {q \in files[g] : SamePath(p, q)} = {p}
      BY <3>1, <3>4 DEF FileInv, FilesExclude, SamePath
    <3>6. Promise!Release(p, g)
      BY <3>2, <3>3, <3>4, <3>5 DEF Promise!Release
    <3> QED
      BY <3>1, <3>6 DEF Promise!Next
  <2> QED
    BY <2>1, <2>2, <2>3, <2>4
<1> QED
  BY <1>1, <1>2

\* An empty lock directory is a free lock.
LEMMA InitRefines == Init => Promise!Init
<1> SUFFICES ASSUME Init PROVE Promise!Init
  OBVIOUS
<1>1. \A p \in Procs : Alive(p)
  BY DEF Init, Alive
<1>2. \A g \in Gpus : ~Computing(g)
  BY DEF Init, Computing
<1> QED
  BY <1>1, <1>2 DEF Init, Promise!Init

\* The lock directory is a read/write lock: with any number of processes and
\* GPUs, and whatever crashes, is interrupted, times out or fails to write its
\* first heartbeat, every step of lock.py and session.py is one that the
\* abstract lock allows. Excluded are a heartbeat that stalls and a
\* release that is re-entered.
THEOREM ImplementsRWLockHolds ==
  ASSUME "stall" \notin Faults, "resignal" \notin Faults
  PROVE  Spec => ImplementsRWLock
<1>1. Init => TypeOK /\ SessionInv /\ FileInv
  BY InitTypeOK, InitSessionInv, InitFileInv
<1>2. TypeOK /\ SessionInv /\ FileInv /\ [Next]_vars
        => TypeOK' /\ SessionInv' /\ FileInv'
  BY NextTypeOK, NextSessionInv, NextFileInv
<1>3. TypeOK /\ SessionInv /\ FileInv /\ [Next]_vars => [Promise!Next]_(Promise!vars)
  BY StepRefines
<1> QED
  BY <1>1, <1>2, <1>3, InitRefines, PTL DEF Spec, ImplementsRWLock, Promise!Spec
=============================================================================
