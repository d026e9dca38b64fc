------------------------ MODULE GpuLockSessionProofs ------------------------
(***************************************************************************)
(* What a session has in the lock directories of its GPUs, from its start to*)
(* its end, for every set of processes and GPUs and every choice of faults: *)
(* what it leaves behind, and whom it waits for.                            *)
(***************************************************************************)
EXTENDS GpuLockProofs, FiniteSetTheorems

\* A first heartbeat that failed has left its empty file.
Stray(p) == "writefail" \in Faults /\ pc[p] \in {"abort", "rollback", "done"}

\* Where p may have something in the directory of g: its file from the creation
\* to the unlink, its request while it acquires g's lock, and the flock only
\* between creation and commit. A wrapper that was killed or interrupted has no
\* such bounds.
Bounds(p) ==
  /\ \A g \in Gpus : p \in files[g] =>
       \/ pc[p] \in {"interrupt", "dead"} \/ Stray(p)
       \/ pc[p] = "created" /\ g = Cur(p)
       \/ g \in Held(p)
  /\ unlinked[p] => p \notin files[Top(p)]
  /\ \A g \in Gpus : p \in line[g][p] =>
       \/ pc[p] = "dead"
       \/ pc[p] \in {"queue", "created", "abort", "interrupt"} /\ g = Cur(p)
  /\ \A g \in Gpus : gate[g] = p => pc[p] = "created" /\ g = Cur(p)

BoundsInv == \A p \in Procs : Bounds(p)

\* What a step of another process may do to p: take its file away, and that only.
Bystander(p) ==
  /\ want' = want /\ pc'[p] = pc[p] /\ locks'[p] = locks[p] /\ unlinked'[p] = unlinked[p]
  /\ \A g \in Gpus : /\ p \in files'[g] => p \in files[g]
                     /\ p \in line'[g][p] => p \in line[g][p]
                     /\ gate'[g] = p => gate[g] = p

-----------------------------------------------------------------------------
\* The GPUs p holds, is at and releases depend on its own list.
LEMMA SameList ==
  ASSUME NEW p \in Procs, want' = want, locks'[p] = locks[p]
  PROVE  Held(p)' = Held(p) /\ Cur(p)' = Cur(p) /\ Top(p)' = Top(p)
<1>1. Held(p)' = Held(p) /\ Top(p)' = Top(p)
  BY DEF Held, Top
<1> QED
  BY <1>1 DEF Cur

\* The last GPU of a list is one of those held.
LEMMA TopIsHeld ==
  ASSUME TypeOK, NEW p \in Procs, locks[p] # <<>>
  PROVE  Top(p) \in Held(p) /\ Top(p) \in Gpus
<1>1. Len(locks[p]) \in 1..Len(locks[p]) /\ locks[p] \in Seq(Gpus)
  BY FrontProperties DEF TypeOK
<1> QED
  BY <1>1 DEF Held, Top

LEMMA BystanderKeeps ==
  ASSUME TypeOK, SessionInv, NEW p \in Procs, Bounds(p), Bystander(p)
  PROVE  Bounds(p)'
<1>1. Held(p)' = Held(p) /\ Cur(p)' = Cur(p) /\ Top(p)' = Top(p)
  BY SameList DEF Bystander
<1>2. unlinked[p] => Top(p) \in Gpus
  BY TopIsHeld DEF SessionInv
<1> QED
  BY <1>1, <1>2 DEF Bounds, Bystander, Stray

\* A pass gives nobody else a request.
LEMMA PassAddsOwnRequest ==
  ASSUME TypeOK, NEW g \in Gpus, NEW p \in Procs, NEW q \in Procs, p # q
  PROVE  p \in LineSeenBy(q, g)[p] => p \in line[g][p]
<1>1. line[g] \in [Procs -> SUBSET Procs]
  BY DEF TypeOK
<1> QED
  BY <1>1 DEF LineSeenBy, Register, Dequeue, Requests

\* Nobody but p touches what p leaves in the directories, except to remove it.
LEMMA OthersAreBystanders ==
  ASSUME TypeOK, SessionInv, NEW q \in Procs, NEW p \in Procs, p # q,
         Acquiring(q) \/ Running(q) \/ Releasing(q) \/ Failing(q)
  PROVE  Bystander(p)
<1> USE DEF TypeOK, Bystander, Goto, fileVars, procVars
<1>0. p # NoProc
  BY NoProcAssumption
<1>1. CASE Start(q) \/ PrecheckIdle(q) \/ PrecheckBusy(q)
  BY <1>1 DEF Start, PrecheckIdle, PrecheckBusy
<1>2. CASE PollBlocked(q)
  <2>1. Cur(q) \in Gpus
    BY <1>2, CurIsNew DEF PollBlocked
  <2> QED
    BY <1>2, <2>1, PassAddsOwnRequest DEF PollBlocked, Unlink
<1>3. CASE PollCreate(q)
  <2>1. Cur(q) \in Gpus
    BY <1>3, CurIsNew DEF PollCreate
  <2> QED
    BY <1>3, <2>1, PassAddsOwnRequest DEF PollCreate, FilesLeft
<1>4. CASE Commit(q)
  BY <1>0, <1>4 DEF Commit, Dequeue
<1>5. CASE Unregister(q)
  BY <1>5 DEF Unregister, Dequeue
<1>6. CASE Running(q)
  BY <1>6 DEF Running, Launch, WorkReachesGpu, WorkEnds, Finish
<1>7. CASE ReleaseUnlink(q)
  BY <1>7 DEF ReleaseUnlink, Unlink
<1>8. CASE ReleaseClear(q) \/ Exit(q) \/ Restart(q)
  BY <1>8 DEF ReleaseClear, Exit, Restart
<1>9. CASE PrecheckTimeout(q) \/ QueueTimeout(q) \/ Signal(q) \/ SignalInRelease(q)
  BY <1>9 DEF PrecheckTimeout, QueueTimeout, Signal, SignalInRelease
<1>10. CASE CommitFails(q)
  BY <1>0, <1>10 DEF CommitFails, GateFreed
<1>11. CASE Interrupt(q)
  BY <1>0, <1>11 DEF Interrupt, GateFreed
<1>12. CASE Crash(q)
  BY <1>0, <1>12 DEF Crash, GateFreed
<1> QED
  BY <1>1, <1>2, <1>3, <1>4, <1>5, <1>6, <1>7, <1>8, <1>9, <1>10, <1>11, <1>12
     DEF Acquiring, Releasing, Failing

\* Time, heartbeats and foreign jobs concern nobody's exit.
LEMMA DiskIsBystander ==
  ASSUME TypeOK, NEW p \in Procs,
         \/ \E q \in Procs, g \in Gpus : Disk(q, g)
         \/ \E g \in Gpus : ForeignStart(g) \/ ForeignEnd(g)
         \/ UNCHANGED vars
  PROVE  Bystander(p)
  BY DEF Disk, HeartbeatTruncate, HeartbeatWrite, Age, ForeignStart, ForeignEnd, vars,
         Bystander, procVars, fileVars

-----------------------------------------------------------------------------
\* p's own steps that touch neither directory nor list.
LEMMA OwnQuietStep ==
  ASSUME TypeOK, SessionInv, NEW p \in Procs, Bounds(p),
         \/ Start(p) \/ PrecheckIdle(p) \/ PrecheckBusy(p) \/ Running(p)
         \/ Exit(p)
         \/ PrecheckTimeout(p) \/ QueueTimeout(p) \/ Signal(p) \/ SignalInRelease(p)
  PROVE  Bounds(p)'
<1>1. /\ want' = want /\ locks' = locks /\ files' = files /\ line' = line /\ gate' = gate
      /\ unlinked'[p] => unlinked[p]
  BY DEF Start, PrecheckIdle, PrecheckBusy, Running, Launch, WorkReachesGpu, WorkEnds, Finish,
         Exit, PrecheckTimeout, QueueTimeout, Signal, SignalInRelease, fileVars, TypeOK
<1>2. \/ pc'[p] = pc[p]
      \/ pc[p] = "queue" /\ pc'[p] = "abort"
      \/ pc[p] = "rollback" /\ pc'[p] = "done"
      \/ pc[p] \notin {"queue", "created", "abort", "interrupt", "rollback", "done", "dead"}
  BY DEF Start, PrecheckIdle, PrecheckBusy, Running, Launch, WorkReachesGpu, WorkEnds, Finish,
         Exit, PrecheckTimeout, QueueTimeout, Signal, SignalInRelease, Goto, TypeOK
<1>3. Held(p)' = Held(p) /\ Cur(p)' = Cur(p) /\ Top(p)' = Top(p)
  BY <1>1, SameList
<1> QED
  BY <1>1, <1>2, <1>3 DEF Bounds, Stray

\* p's own steps that do.
LEMMA OwnStep ==
  ASSUME TypeOK, SessionInv, NEW p \in Procs, Bounds(p),
         Acquiring(p) \/ Running(p) \/ Releasing(p) \/ Failing(p)
  PROVE  Bounds(p)'
<1> USE DEF Goto, fileVars, procVars
<1>0. p # NoProc /\ pc \in [Procs -> PcStates] /\ locks \in [Procs -> Seq(Gpus)]
      /\ unlinked \in [Procs -> BOOLEAN]
      /\ files \in [Gpus -> SUBSET Procs] /\ line \in [Gpus -> [Procs -> SUBSET Procs]]
      /\ gate \in [Gpus -> Procs \cup {NoProc}]
  BY NoProcAssumption DEF TypeOK
<1>1. CASE PollBlocked(p) \/ PollCreate(p)
  <2>1. Cur(p) \in Gpus /\ pc[p] = "queue" /\ ~unlinked[p]
    BY <1>1, CurIsNew DEF PollBlocked, PollCreate, SessionInv
  <2>2. Held(p)' = Held(p) /\ Cur(p)' = Cur(p)
    BY <1>1, SameList DEF PollBlocked, PollCreate
  <2>3. CASE PollBlocked(p)
    BY <1>0, <2>1, <2>2, <2>3 DEF PollBlocked, Unlink, Bounds, Stray
  <2>4. CASE PollCreate(p)
    BY <1>0, <2>1, <2>2, <2>4 DEF PollCreate, FilesLeft, Bounds, Stray
  <2> QED
    BY <1>1, <2>3, <2>4
<1>2. CASE Commit(p)
  <2>1. Cur(p) \in Gpus /\ pc[p] = "created" /\ ~unlinked[p]
    BY <1>2, CurIsNew DEF Commit, SessionInv
  <2>2. Held(p)' = Held(p) \cup {Cur(p)}
    BY <1>2, <2>1, HeldAfterCommit DEF Commit
  <2>3. \A g \in Gpus : p \notin line'[g][p]
    BY <1>0, <1>2, <2>1 DEF Commit, Dequeue, Bounds
  <2>4. \A g \in Gpus : gate'[g] # p
    BY <1>0, <1>2, <2>1 DEF Commit, Bounds
  <2>5. files' = files /\ ~unlinked'[p]
    BY <1>2, <2>1 DEF Commit
  <2> QED
    BY <2>1, <2>2, <2>3, <2>4, <2>5 DEF Bounds, Stray
<1>3. CASE Unregister(p)
  <2>1. Cur(p) \in Gpus /\ pc[p] \in {"abort", "interrupt"} /\ ~unlinked[p]
    BY <1>3, CurIsNew DEF Unregister, SessionInv
  <2>2. \A g \in Gpus : p \notin line'[g][p]
    BY <1>0, <1>3, <2>1 DEF Unregister, Dequeue, Bounds
  <2>3. files' = files /\ gate' = gate /\ ~unlinked'[p]
    BY <1>3, <2>1 DEF Unregister
  <2>4. CASE pc[p] = "abort"
    <3>1. pc'[p] = "rollback" /\ Held(p)' = Held(p)
      BY <1>0, <1>3, <2>4, SameList DEF Unregister
    <3> QED
      BY <2>2, <2>3, <2>4, <3>1 DEF Bounds, Stray
  <2>5. CASE pc[p] # "abort"
    <3>1. pc'[p] = "dead"
      BY <1>0, <1>3, <2>5 DEF Unregister
    <3> QED
      BY <2>1, <2>2, <2>3, <3>1 DEF Bounds
  <2> QED
    BY <2>4, <2>5
<1>4. CASE ReleaseUnlink(p)
  <2>1. Top(p) \in Gpus /\ pc[p] \in {"rollback", "release"}
    BY <1>4, TopIsHeld DEF ReleaseUnlink
  <2>2. Held(p)' = Held(p) /\ Cur(p)' = Cur(p) /\ Top(p)' = Top(p)
    BY <1>4, SameList DEF ReleaseUnlink
  <2>3. p \notin files'[Top(p)] /\ \A g \in Gpus : p \in files'[g] => p \in files[g]
    BY <1>0, <1>4, <2>1 DEF ReleaseUnlink, Unlink, SamePath
  <2>4. pc' = pc /\ line' = line /\ gate' = gate
    BY <1>4 DEF ReleaseUnlink
  <2> QED
    BY <2>1, <2>2, <2>3, <2>4 DEF Bounds, Stray
<1>5. CASE ReleaseClear(p)
  <2>1. locks[p] # <<>> /\ pc[p] \in {"rollback", "release"} /\ p \notin files[Top(p)]
    BY <1>5 DEF ReleaseClear, SessionInv, Bounds
  <2>2. Held(p) \subseteq Held(p)' \cup {Top(p)}
    <3>1. locks'[p] = Front(locks[p]) /\ locks[p] \in Seq(Gpus)
      BY <1>0, <1>5 DEF ReleaseClear
    <3>2. /\ Len(Front(locks[p])) = Len(locks[p]) - 1
          /\ \A i \in 1..(Len(locks[p]) - 1) : Front(locks[p])[i] = locks[p][i]
          /\ Len(locks[p]) \in Nat \ {0}
      BY <2>1, <3>1, FrontProperties
    <3>3. \A i \in 1..Len(locks[p]) : i \in 1..(Len(locks[p]) - 1) \/ i = Len(locks[p])
      BY <3>2
    <3>4. Len(locks'[p]) = Len(locks[p]) - 1
          /\ \A i \in 1..(Len(locks[p]) - 1) : locks'[p][i] = locks[p][i]
      BY <3>1, <3>2
    <3> QED
      BY <3>3, <3>4 DEF Held, Top
  <2>3. ~unlinked'[p] /\ pc' = pc /\ files' = files /\ line' = line /\ gate' = gate
    BY <1>0, <1>5 DEF ReleaseClear
  <2> QED
    BY <2>1, <2>2, <2>3 DEF Bounds, Stray
<1>6. CASE Interrupt(p)
  <2>1. pc[p] \in {"precheck", "queue", "created"} /\ ~unlinked[p]
    BY <1>6 DEF Interrupt, SessionInv
  <2>2. \A g \in Gpus : gate'[g] # p
    BY <1>0, <1>6 DEF Interrupt, GateFreed
  <2>3. files' = files /\ line' = line /\ ~unlinked'[p] /\ want' = want
    BY <1>6, <2>1 DEF Interrupt
  <2>4. CASE pc[p] = "precheck"
    BY <1>0, <1>6, <2>2, <2>3, <2>4 DEF Interrupt, Bounds
  <2>5. CASE pc[p] # "precheck"
    <3>1. pc'[p] = "interrupt" /\ locks' = locks
      BY <1>0, <1>6, <2>5 DEF Interrupt
    <3>2. Cur(p)' = Cur(p)
      BY <2>3, <3>1, SameList
    <3> QED
      BY <2>1, <2>2, <2>3, <2>5, <3>1, <3>2 DEF Bounds
  <2> QED
    BY <2>4, <2>5
<1>7. CASE Crash(p)
  <2>1. pc'[p] = "dead" /\ ~unlinked'[p]
    BY <1>0, <1>7 DEF Crash
  <2>2. \A g \in Gpus : gate'[g] # p
    BY <1>0, <1>7 DEF Crash, GateFreed
  <2> QED
    BY <2>1, <2>2 DEF Bounds
<1>8. CASE CommitFails(p)
  <2>1. "writefail" \in Faults /\ pc[p] = "created" /\ pc'[p] = "abort" /\ ~unlinked[p]
    BY <1>0, <1>8 DEF CommitFails, Fault, SessionInv
  <2>2. Cur(p)' = Cur(p)
    BY <1>8, SameList DEF CommitFails
  <2>3. \A g \in Gpus : gate'[g] # p
    BY <1>0, <1>8 DEF CommitFails, GateFreed
  <2>4. line' = line /\ ~unlinked'[p]
    BY <1>8, <2>1 DEF CommitFails
  <2> QED
    BY <2>1, <2>2, <2>3, <2>4 DEF Bounds, Stray
<1>9. CASE Restart(p)
  <2>1. \A g \in Gpus : p \notin files'[g]
    BY <1>9 DEF Restart
  <2>2. pc[p] = "done" /\ line' = line /\ gate' = gate /\ unlinked' = unlinked
    BY <1>9 DEF Restart
  <2>3. ~unlinked[p]
    BY <2>2 DEF SessionInv
  <2> QED
    BY <2>1, <2>2, <2>3 DEF Bounds
<1> QED
  BY <1>1, <1>2, <1>3, <1>4, <1>5, <1>6, <1>7, <1>8, <1>9, OwnQuietStep
     DEF Acquiring, Releasing, Failing

LEMMA NextBoundsInv ==
  ASSUME TypeOK, SessionInv, BoundsInv, [Next]_vars
  PROVE  BoundsInv'
<1>1. SUFFICES ASSUME NEW p \in Procs PROVE Bounds(p)'
  BY DEF BoundsInv
<1>2. Bounds(p)
  BY DEF BoundsInv
<1>3. ASSUME NEW q \in Procs, Acquiring(q) \/ Running(q) \/ Releasing(q) \/ Failing(q)
      PROVE  Bounds(p)'
  <2>1. CASE p = q
    BY <1>2, <1>3, <2>1, OwnStep
  <2>2. CASE p # q
    BY <1>2, <1>3, <2>2, OthersAreBystanders, BystanderKeeps
  <2> QED
    BY <2>1, <2>2
<1> QED
  BY <1>2, <1>3, DiskIsBystander, BystanderKeeps DEF Next

\* A wrapper that ends by itself, after its command, a timeout or a signal, has left
\* neither a lock file nor a request behind and holds no flock (session.py acquire
\* and release, lock.py acquire's `finally`), whatever crashes, is interrupted or
\* stalls around it. Excluded is a first heartbeat that fails.
THEOREM ExitLeavesNothingHolds ==
  ASSUME "writefail" \notin Faults
  PROVE  Spec => []ExitLeavesNothing
<1>1. Init => TypeOK /\ SessionInv /\ BoundsInv
  <2>1. Init => BoundsInv
    BY NoProcAssumption DEF Init, BoundsInv, Bounds
  <2> QED
    BY <2>1, InitTypeOK, InitSessionInv
<1>2. TypeOK /\ SessionInv /\ BoundsInv /\ [Next]_vars => TypeOK' /\ SessionInv' /\ BoundsInv'
  BY NextTypeOK, NextSessionInv, NextBoundsInv
<1>3. TypeOK /\ SessionInv /\ BoundsInv => ExitLeavesNothing
  <2>1. Len(<<>>) = 0 /\ 1..0 = {}
    OBVIOUS
  <2>2. ASSUME SessionInv, NEW p \in Procs, pc[p] = "done" PROVE Held(p) = {}
    BY <2>1, <2>2 DEF SessionInv, Held
  <2> QED
    BY <2>2 DEF BoundsInv, Bounds, Stray, ExitLeavesNothing
<1> QED
  BY <1>1, <1>2, <1>3, PTL DEF Spec

-----------------------------------------------------------------------------
(* Whom a session waits for                                                 *)

\* While p acquires, every GPU it holds is below every one it still wants, and its
\* command has not run.
Ascending(p) ==
  pc[p] \in {"idle", "precheck", "queue", "created"} =>
    /\ \A h \in Held(p), k \in want[p] \ Held(p) : h < k
    /\ work[p] = "none"

\* The queue of a GPU is an order of the processes with a request in it.
Queued(l) ==
  /\ \A p, q \in Procs : q \in l[p] => q \in l[q] /\ p \in l[p]
  /\ \A p, q, r \in Procs : r \in l[q] /\ q \in l[p] => r \in l[p]
  /\ \A p, q \in Procs : q \in l[p] /\ p \in l[q] => p = q

WaitInv == (\A p \in Procs : Ascending(p)) /\ (\A g \in Gpus : Queued(line[g]))

\* A new request is the last, and requests that are taken out leave no gap.
LEMMA QueueStaysOrdered ==
  ASSUME NEW l \in [Procs -> SUBSET Procs], Queued(l), NEW p \in Procs, NEW S
  PROVE  Queued(Register(l, p)) /\ Queued(Dequeue(l, S))
<1>1. Queued(Dequeue(l, S))
  BY DEF Queued, Dequeue
<1>2. CASE p \in l[p]
  BY <1>1, <1>2 DEF Register
<1>3. ASSUME p \notin l[p] PROVE Queued(Register(l, p))
  <2>1. /\ Register(l, p)[p] = Requests(l) \cup {p}
        /\ \A q \in Procs \ {p} : Register(l, p)[q] = l[q] /\ p \notin l[q]
    BY <1>3 DEF Register, Queued
  <2>2. \A q \in Procs : q \in Requests(l) <=> q \in l[q]
    BY DEF Requests
  <2> DEFINE m == Register(l, p)
  <2>3. m[p] = Requests(l) \cup {p} /\ \A q \in Procs \ {p} : m[q] = l[q] /\ p \notin l[q]
    BY <2>1
  <2> HIDE DEF m
  <2>4. \A q, r \in Procs : r \in m[q] => r \in m[r] /\ q \in m[q]
    BY <1>3, <2>2, <2>3 DEF Queued
  <2>5. \A q, r, t \in Procs : t \in m[r] /\ r \in m[q] => t \in m[q]
    BY <1>3, <2>2, <2>3 DEF Queued
  <2>6. \A q, r \in Procs : r \in m[q] /\ q \in m[r] => q = r
    BY <1>3, <2>2, <2>3 DEF Queued
  <2>7. Queued(m)
    BY <2>4, <2>5, <2>6 DEF Queued
  <2> QED
    BY <2>7 DEF m
<1> QED
  BY <1>1, <1>2, <1>3

\* What a pass leaves of the queue is ordered, too.
LEMMA PassKeepsOrder ==
  ASSUME TypeOK, NEW g \in Gpus, Queued(line[g]), NEW p \in Procs
  PROVE  Queued(LineSeenBy(p, g))
<1>1. line[g] \in [Procs -> SUBSET Procs]
  BY DEF TypeOK
<1> DEFINE l == Register(line[g], p)
<1>2. l \in [Procs -> SUBSET Procs]
  BY <1>1 DEF Register, Requests
<1>3. Queued(l)
  BY <1>1, QueueStaysOrdered
<1>4. LineSeenBy(p, g) = Dequeue(l, {q \in Requests(l) : ~Alive(q)})
  BY DEF LineSeenBy
<1> HIDE DEF l
<1> QED
  BY <1>2, <1>3, <1>4, QueueStaysOrdered

\* Every step leaves the queues ordered.
LEMMA NextQueued ==
  ASSUME TypeOK, SessionInv, \A g \in Gpus : Queued(line[g]), [Next]_vars
  PROVE  \A g \in Gpus : Queued(line'[g])
<1>0. line \in [Gpus -> [Procs -> SUBSET Procs]]
  BY DEF TypeOK
<1>1. ASSUME NEW p \in Procs, PollBlocked(p) \/ PollCreate(p) PROVE \A g \in Gpus : Queued(line'[g])
  <2>1. line' = [line EXCEPT ![Cur(p)] = LineSeenBy(p, Cur(p))]
    BY <1>1 DEF PollBlocked, PollCreate
  <2> QED
    BY <1>0, <2>1, PassKeepsOrder
<1>2. ASSUME NEW p \in Procs, Commit(p) \/ Unregister(p) PROVE \A g \in Gpus : Queued(line'[g])
  <2>1. line' = [line EXCEPT ![Cur(p)] = Dequeue(line[Cur(p)], {p})]
    BY <1>2 DEF Commit, Unregister
  <2>2. \A g \in Gpus : Queued(Dequeue(line[g], {p}))
    BY <1>0, <1>2, QueueStaysOrdered
  <2> QED
    BY <1>0, <2>1, <2>2
<1>3. CASE line' = line
  BY <1>3
<1>4. \/ \E p \in Procs : PollBlocked(p) \/ PollCreate(p)
      \/ \E p \in Procs : Commit(p) \/ Unregister(p)
      \/ line' = line
  BY DEF Next, Acquiring, Running, Releasing, Failing, Disk, Start, PrecheckIdle, PrecheckBusy,
         Launch, WorkReachesGpu, WorkEnds, Finish, ReleaseUnlink, ReleaseClear, Exit, Restart,
         PrecheckTimeout, QueueTimeout, CommitFails, Interrupt, Signal, SignalInRelease, Crash,
         HeartbeatTruncate, HeartbeatWrite, Age, ForeignStart, ForeignEnd, vars
<1> QED
  BY <1>1, <1>2, <1>3, <1>4

\* Who is not p does nothing to what p wants, holds or runs.
LEMMA OthersKeepAscending ==
  ASSUME TypeOK, SessionInv, NEW p \in Procs, NEW q \in Procs, p # q, Ascending(p),
         Acquiring(q) \/ Running(q) \/ Releasing(q) \/ Failing(q)
  PROVE  Ascending(p)'
<1>1. Bystander(p)
  BY OthersAreBystanders
<1>2. work'[p] = work[p]
  BY DEF TypeOK, Acquiring, Running, Releasing, Failing, Start, PrecheckIdle, PrecheckBusy,
         PollBlocked, PollCreate, Commit, Unregister, Launch, WorkReachesGpu, WorkEnds, Finish,
         ReleaseUnlink, ReleaseClear, Exit, Restart, PrecheckTimeout, QueueTimeout, CommitFails,
         Interrupt, Signal, SignalInRelease, Crash, procVars
<1>3. Held(p)' = Held(p)
  BY <1>1, SameList DEF Bystander
<1> QED
  BY <1>1, <1>2, <1>3 DEF Ascending, Bystander

\* p itself takes the lowest of the GPUs it still wants.
LEMMA OwnAscending ==
  ASSUME TypeOK, SessionInv, NEW p \in Procs, Ascending(p),
         Acquiring(p) \/ Running(p) \/ Releasing(p) \/ Failing(p)
  PROVE  Ascending(p)'
<1>0. /\ pc \in [Procs -> PcStates] /\ work \in [Procs -> {"none", "cpu", "gpu"}]
      /\ want[p] \in SUBSET Gpus /\ locks \in [Procs -> Seq(Gpus)]
  BY DEF TypeOK
<1>1. CASE Commit(p)
  <2>1. Cur(p) \in want[p] \ Held(p) /\ \A k \in want[p] \ Held(p) : Cur(p) <= k
    <3>1. want[p] \ Held(p) \in SUBSET Gpus /\ want[p] \ Held(p) # {}
      BY <1>0, <1>1 DEF Commit, SessionInv
    <3> QED
      BY <3>1, LowestIsIn DEF Cur
  <2>2. Held(p)' = Held(p) \cup {Cur(p)} /\ want' = want /\ work' = work
    BY <1>0, <1>1, <2>1, HeldAfterCommit DEF Commit
  <2>3. \A h \in Held(p), k \in want[p] \ Held(p) : h < k
    BY <1>1 DEF Commit, Ascending
  <2>4. Held(p) \subseteq want[p] /\ want[p] \subseteq Nat
    BY <1>0, GpusAssumption DEF SessionInv
  <2>5. \A h \in Held(p) \cup {Cur(p)}, k \in want[p] \ (Held(p) \cup {Cur(p)}) : h < k
    BY <2>1, <2>3, <2>4
  <2>6. work[p] = "none"
    BY <1>1 DEF Commit, Ascending
  <2> QED
    BY <2>2, <2>5, <2>6 DEF Ascending
<1>2. CASE Start(p) \/ Restart(p)
  <2>1. locks[p] = <<>> /\ locks' = locks
    BY <1>2 DEF Start, Restart, SessionInv
  <2>2. Held(p)' = {}
    <3>1. Len(<<>>) = 0 /\ 1..0 = {}
      OBVIOUS
    <3> QED
      BY <2>1, <3>1 DEF Held
  <2>3. work'[p] = "none"
    BY <1>2 DEF Start, Restart, Ascending
  <2> QED
    BY <2>2, <2>3 DEF Ascending
<1>3. CASE PrecheckIdle(p) \/ PrecheckBusy(p) \/ PollBlocked(p) \/ PollCreate(p)
  <2>1. pc[p] \in {"precheck", "queue"} /\ want' = want /\ locks' = locks /\ work' = work
    BY <1>3 DEF PrecheckIdle, PrecheckBusy, PollBlocked, PollCreate, procVars
  <2>2. Held(p)' = Held(p)
    BY <2>1, SameList
  <2> QED
    BY <2>1, <2>2 DEF Ascending
<1>4. CASE Unregister(p) \/ Running(p) \/ ReleaseUnlink(p) \/ ReleaseClear(p) \/ Exit(p) \/ Failing(p)
  <2>1. \/ pc'[p] \notin {"idle", "precheck", "queue", "created"}
        \/ pc'[p] = pc[p] /\ work[p] # "none"
    BY <1>0, <1>4
       DEF Unregister, Running, Launch, WorkReachesGpu, WorkEnds, Finish, ReleaseUnlink,
           ReleaseClear, Exit, Failing, PrecheckTimeout, QueueTimeout, CommitFails, Interrupt,
           Signal, SignalInRelease, Crash, Goto
  <2> QED
    BY <2>1 DEF Ascending
<1> QED
  BY <1>1, <1>2, <1>3, <1>4 DEF Acquiring, Releasing

LEMMA NextWaitInv ==
  ASSUME TypeOK, SessionInv, WaitInv, [Next]_vars
  PROVE  WaitInv'
<1>1. \A g \in Gpus : Queued(line'[g])
  BY NextQueued DEF WaitInv
<1>2. ASSUME NEW p \in Procs PROVE Ascending(p)'
  <2>1. Ascending(p)
    BY DEF WaitInv
  <2>2. ASSUME NEW q \in Procs, Acquiring(q) \/ Running(q) \/ Releasing(q) \/ Failing(q)
        PROVE  Ascending(p)'
    BY <2>1, <2>2, OwnAscending, OthersKeepAscending
  <2>3. CASE \/ \E q \in Procs, g \in Gpus : Disk(q, g)
             \/ \E g \in Gpus : ForeignStart(g) \/ ForeignEnd(g)
             \/ UNCHANGED vars
    <3>1. UNCHANGED procVars
      BY <2>3 DEF Disk, HeartbeatTruncate, HeartbeatWrite, Age, ForeignStart, ForeignEnd, vars,
                  procVars
    <3>2. Held(p)' = Held(p)
      BY <3>1, SameList DEF procVars
    <3> QED
      BY <2>1, <3>1, <3>2 DEF Ascending, procVars
  <2> QED
    BY <2>2, <2>3 DEF Next
<1> QED
  BY <1>1, <1>2 DEF WaitInv, Queued

LEMMA InitWaitInv == Init => WaitInv
<1> SUFFICES ASSUME Init PROVE WaitInv
  OBVIOUS
<1>1. \A p \in Procs : Held(p) = {} /\ work[p] = "none"
  <2>1. Len(<<>>) = 0 /\ 1..0 = {}
    OBVIOUS
  <2> QED
    BY <2>1 DEF Init, Held
<1>2. \A g \in Gpus : \A p \in Procs : line[g][p] = {}
  BY DEF Init
<1> QED
  BY <1>1, <1>2 DEF WaitInv, Ascending, Queued

-----------------------------------------------------------------------------
\* A strict order has a minimal element in every finite set that is not empty.
LEMMA MinimalExists ==
  ASSUME NEW S, IsFiniteSet(S), S # {}, NEW R,
         \A x \in S : <<x, x>> \notin R,
         \A x, y, z \in S : <<x, y>> \in R /\ <<y, z>> \in R => <<x, z>> \in R
  PROVE  \E x \in S : \A y \in S : <<y, x>> \notin R
<1> DEFINE Below(x) == {y \in S : <<y, x>> \in R}
           N == {Cardinality(Below(x)) : x \in S}
<1>1. \A x \in S : IsFiniteSet(Below(x)) /\ Cardinality(Below(x)) \in Nat
  <2> TAKE x \in S
  <2>1. Below(x) \subseteq S
    OBVIOUS
  <2> HIDE DEF Below
  <2> QED
    BY <2>1, FS_Subset, FS_CardinalityType
<1>2. \A x, y \in S : <<y, x>> \in R => Cardinality(Below(y)) < Cardinality(Below(x))
  <2> TAKE x, y \in S
  <2> HAVE <<y, x>> \in R
  <2>1. Below(y) \subseteq Below(x) /\ y \in Below(x) /\ y \notin Below(y)
    OBVIOUS
  <2>2. IsFiniteSet(Below(x)) /\ Below(y) # Below(x)
    BY <1>1, <2>1
  <2> HIDE DEF Below
  <2>3. Cardinality(Below(y)) <= Cardinality(Below(x)) /\ Cardinality(Below(y)) # Cardinality(Below(x))
    BY <2>1, <2>2, FS_Subset
  <2> QED
    BY <1>1, <2>3
<1> HIDE DEF Below
<1>3. N \subseteq Nat /\ N # {}
  BY <1>1
<1>4. PICK n \in N : \A m \in N : n <= m
  <2> HIDE DEF N
  <2> QED
    BY <1>3, LeastExists
<1>5. PICK x \in S : n = Cardinality(Below(x))
  BY <1>4
<1>6. \A y \in S : Cardinality(Below(x)) <= Cardinality(Below(y))
  BY <1>4, <1>5
<1> HIDE DEF N
<1>7. ASSUME NEW y \in S, <<y, x>> \in R PROVE FALSE
  BY <1>1, <1>2, <1>6, <1>7
<1> QED
  BY <1>7

\* Who delays p in a queue is at a higher GPU already, or at the same one with an
\* earlier request.
Before(q, p) ==
  \/ Cur(p) < Cur(q)
  \/ /\ Cur(p) = Cur(q)
     /\ q \in line[Cur(p)][q]
     /\ p \in line[Cur(p)][p] => q \in Earlier(line[Cur(p)], p)

LEMMA DelaysIsBefore ==
  ASSUME TypeOK, SessionInv, BoundsInv, WaitInv,
         NEW p \in Procs, NEW q \in Procs, Waiting(p), Waiting(q), Delays(q, p)
  PROVE  Before(q, p)
<1>0. /\ Cur(p) \in Gpus /\ Cur(q) \in want[q] \ Held(q)
      /\ pc[q] \in {"precheck", "queue"} /\ Bounds(q) /\ Ascending(q)
  BY CurIsNew DEF Waiting, BoundsInv, WaitInv
<1>1. pc[p] = "queue" /\ q # p
  BY <1>0 DEF Delays, Ascending, Waiting
<1>2. CASE q \in FilesLeft(p, Cur(p))
  <2>1. q \in files[Cur(p)]
    BY <1>2 DEF FilesLeft
  <2>2. Cur(p) \in Held(q)
    BY <1>0, <2>1 DEF Bounds, Stray
  <2> QED
    BY <1>0, <2>2 DEF Ascending, Before
<1>3. CASE q \in Earlier(LineSeenBy(p, Cur(p)), p)
  <2> DEFINE l == line[Cur(p)]
  <2>1. l \in [Procs -> SUBSET Procs] /\ Queued(l)
    BY <1>0 DEF TypeOK, WaitInv
  <2>2. q \in Register(l, p)[p]
    BY <1>3, <2>1 DEF LineSeenBy, Dequeue, Earlier
  <2>3. IF p \in l[p] THEN q \in l[p] ELSE q \in Requests(l)
    BY <1>1, <2>1, <2>2 DEF Register
  <2>4. q \in l[q]
    BY <2>1, <2>3 DEF Queued, Requests
  <2>5. Cur(p) = Cur(q)
    BY <1>0, <2>4 DEF Bounds
  <2> QED
    BY <1>1, <2>3, <2>4, <2>5 DEF Before, Earlier
<1> QED
  BY <1>1, <1>2, <1>3 DEF Delays

LEMMA BeforeIsStrict ==
  ASSUME TypeOK, SessionInv, WaitInv
  PROVE  /\ \A p \in Procs : Waiting(p) => ~Before(p, p)
         /\ \A p, q, r \in Procs :
              Waiting(p) /\ Waiting(q) /\ Waiting(r) /\ Before(r, q) /\ Before(q, p) => Before(r, p)
<1>1. \A p \in Procs : Waiting(p) => Cur(p) \in Gpus /\ Cur(p) \in Nat
  BY CurIsNew, GpusAssumption DEF Waiting
<1>2. ASSUME NEW p \in Procs, Waiting(p) PROVE ~Before(p, p)
  BY <1>1, <1>2 DEF Before, Earlier
<1>3. ASSUME NEW p \in Procs, NEW q \in Procs, NEW r \in Procs,
             Waiting(p), Waiting(q), Waiting(r), Before(r, q), Before(q, p)
      PROVE  Before(r, p)
  <2>1. CASE Cur(p) = Cur(q) /\ Cur(q) = Cur(r)
    <3> DEFINE l == line[Cur(p)]
    <3>1. Queued(l)
      BY <1>1, <1>3 DEF WaitInv
    <3>2. r \in l[r] /\ q \in l[q] /\ r \in Earlier(l, q) /\ (p \in l[p] => q \in Earlier(l, p))
      BY <1>1, <1>3, <2>1 DEF Before
    <3>3. p \in l[p] => r \in Earlier(l, p)
      BY <3>1, <3>2 DEF Queued, Earlier
    <3> QED
      BY <2>1, <3>2, <3>3 DEF Before
  <2>2. CASE ~(Cur(p) = Cur(q) /\ Cur(q) = Cur(r))
    BY <1>1, <1>3, <2>2 DEF Before
  <2> QED
    BY <2>1, <2>2
<1> QED
  BY <1>2, <1>3

\* Among sessions that wait there is always one that waits for none of the others,
\* whatever they hold, crashes around them and leaves files and requests behind
\* (session.py acquire, lock.py _queue_wait_reason_locked).
THEOREM NoCircularWaitHolds ==
  ASSUME IsFiniteSet(Procs)
  PROVE  Spec => []NoCircularWait
<1> DEFINE I == TypeOK /\ SessionInv /\ BoundsInv /\ WaitInv
<1>1. Init => I
  <2>1. Init => BoundsInv
    BY NoProcAssumption DEF Init, BoundsInv, Bounds
  <2> QED
    BY <2>1, InitTypeOK, InitSessionInv, InitWaitInv
<1>2. I /\ [Next]_vars => I'
  BY NextTypeOK, NextSessionInv, NextBoundsInv, NextWaitInv
<1>3. I => NoCircularWait
  <2> SUFFICES ASSUME I, NEW S \in SUBSET {p \in Procs : Waiting(p)}, S # {}
               PROVE  \E p \in S : \A q \in S : ~Delays(q, p)
    BY DEF NoCircularWait
  <2> DEFINE R == {e \in S \X S : Before(e[1], e[2])}
  <2>1. IsFiniteSet(S) /\ S \subseteq Procs /\ \A p \in S : Waiting(p)
    BY FS_Subset
  <2>2. \A p, q \in S : <<q, p>> \in R <=> Before(q, p)
    OBVIOUS
  <2>3. \A p \in S : <<p, p>> \notin R
    BY <2>1, <2>2, BeforeIsStrict
  <2>4. \A r, q, p \in S : <<r, q>> \in R /\ <<q, p>> \in R => <<r, p>> \in R
    BY <2>1, <2>2, BeforeIsStrict
  <2> HIDE DEF R
  <2>5. PICK p \in S : \A q \in S : <<q, p>> \notin R
    BY <2>1, <2>3, <2>4, MinimalExists
  <2>6. \A q \in S : ~Delays(q, p)
    BY <2>1, <2>2, <2>5, DelaysIsBefore
  <2> QED
    BY <2>6
<1> QED
  BY <1>1, <1>2, <1>3, PTL DEF Spec
=============================================================================
