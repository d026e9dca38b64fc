--------------------------- MODULE GpuLockProofs ---------------------------
(***************************************************************************)
(* Theorems about GpuLock for every set of processes and GPUs, every bound  *)
(* and every choice of faults, except where a theorem says which faults it  *)
(* excludes.                                                                *)
(***************************************************************************)
EXTENDS GpuLock, TLAPS, SequenceTheorems, WellFoundedInduction

-----------------------------------------------------------------------------
(* The inductive invariants                                                 *)

\* The session's list against the wrapper's place in its life: ended and
\* unstarted processes hold nothing, an acquiring one has a GPU left to lock,
\* only a releasing one has a half-released lock, and no GPU is listed twice.
SessionInv ==
  \A p \in Procs :
    /\ pc[p] \in {"idle", "done", "dead"} => locks[p] = <<>>
    /\ Held(p) \subseteq want[p]
    /\ pc[p] \in {"precheck", "queue", "created", "abort", "interrupt"}
         => want[p] \ Held(p) # {}
    /\ unlinked[p] => pc[p] \in {"rollback", "release"} /\ locks[p] # <<>>
    /\ \A i, j \in 1..Len(locks[p]) : locks[p][i] = locks[p][j] => i = j

\* What the directory of a GPU looks like when no heartbeat stalls and no
\* release is re-entered: lock files exclude each other as their modes demand,
\* those of live processes are never old, and whoever owns or has just created
\* a lock finds its file in place.
FilesExclude == \A g \in Gpus : \A p, q \in files[g] :
                  p # q => mode[p] = "read" /\ mode[q] = "read"

LiveFilesFresh == \A g \in Gpus : \A q \in files[g] \cap old[g] : ~Alive(q)

CreatedFileThere == \A p \in Procs : pc[p] = "created" => p \in files[Cur(p)]

FileInv == FilesExclude /\ LiveFilesFresh /\ CreatedFileThere /\ OwnerKeepsFile

-----------------------------------------------------------------------------
(* Lemmas about the operators                                               *)

\* A non-empty set of natural numbers has a least element.
LEMMA LeastExists ==
  ASSUME NEW S, S \subseteq Nat, S # {}
  PROVE  \E g \in S : \A h \in S : g <= h
<1> DEFINE R == OpToRel(<, Nat)
<1>1. ASSUME NEW x \in Nat, NEW y \in Nat, y < x PROVE <<y, x>> \in R
  BY <1>1 DEF OpToRel
<1>2. IsWellFoundedOn(R, Nat)
  BY NatLessThanWellFounded
<1> HIDE DEF R
<1>3. PICK x \in S : \A y \in S : <<y, x>> \notin R
  BY <1>2, WFMin
<1>4. \A y \in S : ~(y < x)
  BY <1>1, <1>3
<1>5. \A y \in S : x <= y
  BY <1>4
<1> QED
  BY <1>5

\* A non-empty set of GPU ids has a lowest one (sorted() in _parse_gpu_ids).
LEMMA LowestIsIn ==
  ASSUME NEW S \in SUBSET Gpus, S # {}
  PROVE  Lowest(S) \in S /\ \A h \in S : Lowest(S) <= h
<1>1. \E g \in S : \A h \in S : g <= h
  BY GpusAssumption, LeastExists
<1> QED
  BY <1>1 DEF Lowest

\* The GPUs of a session's list after lock.acquire() appended one.
LEMMA HeldAfterAppend ==
  ASSUME NEW S, NEW s \in Seq(S), NEW e \in S
  PROVE  /\ Append(s, e) \in Seq(S)
         /\ {Append(s, e)[i] : i \in 1..Len(Append(s, e))}
              = {s[i] : i \in 1..Len(s)} \cup {e}
  BY AppendProperties

\* What a session holds after Commit.
LEMMA HeldAfterCommit ==
  ASSUME TypeOK, NEW p \in Procs, NEW g \in Gpus,
         locks' = [locks EXCEPT ![p] = Append(@, g)]
  PROVE  Held(p)' = Held(p) \cup {g}
<1>1. locks \in [Procs -> Seq(Gpus)]
  BY DEF TypeOK
<1>2. locks[p] \in Seq(Gpus) /\ locks'[p] = Append(locks[p], g)
  BY <1>1
<1> DEFINE s == locks[p]
           t == locks'[p]
<1>3. {t[i] : i \in 1..Len(t)} = {s[i] : i \in 1..Len(s)} \cup {g}
  <2> HIDE DEF s, t
  <2>1. s \in Seq(Gpus) /\ t = Append(s, g)
    BY <1>2 DEF s, t
  <2> QED
    BY <2>1, HeldAfterAppend
<1> QED
  BY <1>3 DEF Held

\* The list after the release of its last lock: still a list of GPUs, agreeing
\* with the old one below the last position.
LEMMA FrontProperties ==
  ASSUME NEW S, NEW s \in Seq(S), s # <<>>
  PROVE  /\ Front(s) \in Seq(S)
         /\ Len(Front(s)) = Len(s) - 1
         /\ \A i \in 1..(Len(s) - 1) : Front(s)[i] = s[i]
         /\ Len(s) \in Nat \ {0}
<1>1. Len(s) \in Nat /\ (\A i \in 1..Len(s) : s[i] \in S) /\ Len(s) # 0
  BY LenProperties, EmptySeq
<1>2. \A i \in 1..(Len(s) - 1) : s[i] \in S
  BY <1>1
<1>3. /\ SubSeq(s, 1, Len(s) - 1) \in Seq(S)
      /\ Len(SubSeq(s, 1, Len(s) - 1)) = IF 1 <= Len(s) - 1 THEN Len(s) - 1 - 1 + 1 ELSE 0
      /\ \A i \in 1..(Len(s) - 1 - 1 + 1) : SubSeq(s, 1, Len(s) - 1)[i] = s[1 + i - 1]
  BY <1>1, <1>2, SubSeqProperties
<1>4. \A i \in 1..(Len(s) - 1) : i \in 1..(Len(s) - 1 - 1 + 1) /\ 1 + i - 1 = i
  BY <1>1
<1>5. \A i \in 1..(Len(s) - 1) : SubSeq(s, 1, Len(s) - 1)[i] = s[i]
  BY <1>3, <1>4
<1>6. Len(s) \in Nat \ {0}
  BY <1>1
<1>7. \A n \in Nat \ {0} : (IF 1 <= n - 1 THEN n - 1 - 1 + 1 ELSE 0) = n - 1
  OBVIOUS
<1>8. Front(s) = SubSeq(s, 1, Len(s) - 1)
  BY DEF Front
<1> HIDE DEF Front
<1> QED
  BY <1>3, <1>5, <1>6, <1>7, <1>8
-----------------------------------------------------------------------------
(* Type correctness                                                         *)

\* The GPU an acquiring process works on is one it asked for and does not hold.
LEMMA CurIsNew ==
  ASSUME TypeOK, SessionInv, NEW p \in Procs,
         pc[p] \in {"precheck", "queue", "created", "abort", "interrupt"}
  PROVE  Cur(p) \in Gpus /\ Cur(p) \in want[p] /\ Cur(p) \notin Held(p)
<1>1. want[p] \ Held(p) \in SUBSET Gpus /\ want[p] \ Held(p) # {}
  BY DEF TypeOK, SessionInv
<1>2. Lowest(want[p] \ Held(p)) \in want[p] \ Held(p)
  BY <1>1, LowestIsIn
<1> QED
  BY <1>1, <1>2 DEF Cur

\* Taking requests out of the queue, and touching a file, keep the types.
LEMMA QueueTypes ==
  ASSUME TypeOK, NEW g \in Gpus, NEW S, NEW p \in Procs
  PROVE  /\ Dequeue(line[g], S) \in [Procs -> SUBSET Procs]
         /\ Touched(g, p) \in [Procs -> SUBSET Procs]
<1>1. line[g] \in [Procs -> SUBSET Procs] /\ probe[g] \in [Procs -> SUBSET Procs]
  BY DEF TypeOK
<1> QED
  BY <1>1 DEF Dequeue, Touched

\* So do the queue and the observations of a pass.
LEMMA PassTypes ==
  ASSUME TypeOK, NEW g \in Gpus, NEW p \in Procs
  PROVE  /\ LineSeenBy(p, g) \in [Procs -> SUBSET Procs]
         /\ Candidates(g) \in SUBSET Procs
<1>1. line[g] \in [Procs -> SUBSET Procs] /\ files[g] \in SUBSET Procs
  BY DEF TypeOK
<1>2. \A S : \A l \in [Procs -> SUBSET Procs] : Dequeue(l, S) \in [Procs -> SUBSET Procs]
  BY DEF Dequeue
<1>3. Register(line[g], p) \in [Procs -> SUBSET Procs]
  BY <1>1 DEF Register, Requests
<1> QED
  BY <1>1, <1>2, <1>3 DEF LineSeenBy, Candidates

LEMMA InitTypeOK == Init => TypeOK
<1>1. 0 \in 0..(IdleStreak - 1) /\ 0 \in 0..MaxFaults
  BY BoundsAssumption
<1> QED
  BY <1>1, EmptySeq DEF Init, TypeOK, PcStates

LEMMA NextTypeOK ==
  ASSUME TypeOK, SessionInv, [Next]_vars
  PROVE  TypeOK'
<1> USE BoundsAssumption
<1> USE DEF TypeOK
<1>1. ASSUME NEW p \in Procs, Start(p) PROVE TypeOK'
  BY <1>1 DEF Start, procVars, fileVars, Goto, Entry, PcStates
<1>2. ASSUME NEW p \in Procs, PrecheckIdle(p) PROVE TypeOK'
  <2>1. CASE streak[p] + 1 >= IdleStreak
    <3>1. 0 \in 0..(IdleStreak - 1)
      OBVIOUS
    <3>2. pc' \in [Procs -> PcStates] /\ streak' \in [Procs -> 0..(IdleStreak - 1)]
      <4>1. /\ pc' = [pc EXCEPT ![p] = "queue"]
            /\ streak' = [streak EXCEPT ![p] = 0]
        BY <1>2, <2>1 DEF PrecheckIdle, Goto
      <4> QED
        BY <3>1, <4>1 DEF PcStates
    <3> QED
      BY <1>2, <3>2 DEF PrecheckIdle, fileVars
  <2>2. CASE ~(streak[p] + 1 >= IdleStreak)
    <3>1. streak[p] + 1 \in 0..(IdleStreak - 1)
      BY <2>2
    <3>2. pc' = pc /\ streak' \in [Procs -> 0..(IdleStreak - 1)]
      <4>1. pc' = pc /\ streak' = [streak EXCEPT ![p] = streak[p] + 1]
        BY <1>2, <2>2 DEF PrecheckIdle
      <4> QED
        BY <3>1, <4>1
    <3> QED
      BY <1>2, <3>2 DEF PrecheckIdle, fileVars
  <2> QED
    BY <2>1, <2>2
<1>3. ASSUME NEW p \in Procs, PrecheckBusy(p) PROVE TypeOK'
  BY <1>3 DEF PrecheckBusy, procVars, fileVars
<1>4. ASSUME NEW p \in Procs, PollBlocked(p) PROVE TypeOK'
  <2> DEFINE g == Cur(p)
  <2>1. /\ files' = [files EXCEPT ![g] = @ \ Stale(p, g)]
        /\ blank' = [blank EXCEPT ![g] = @ \ Stale(p, g)]
        /\ old' = [old EXCEPT ![g] = @ \ Stale(p, g)]
        /\ line' = [line EXCEPT ![g] = LineSeenBy(p, g)]
        /\ probe' = [probe EXCEPT ![g][p] = Candidates(g) \ @]
    BY <1>4 DEF PollBlocked, Unlink
  <2>2. g \in Gpus => /\ LineSeenBy(p, g) \in [Procs -> SUBSET Procs]
                      /\ Candidates(g) \in SUBSET Procs
    BY PassTypes
  <2> HIDE DEF g
  <2>3. /\ files' \in [Gpus -> SUBSET Procs]
        /\ blank' \in [Gpus -> SUBSET Procs]
        /\ old' \in [Gpus -> SUBSET Procs]
    BY <2>1
  <2>4. line' \in [Gpus -> [Procs -> SUBSET Procs]]
    BY <2>1, <2>2
  <2>5. probe' \in [Gpus -> [Procs -> SUBSET Procs]]
    <3>1. probe \in [Gpus -> [Procs -> SUBSET Procs]]
      OBVIOUS
    <3>2. ASSUME NEW h \in Gpus PROVE probe'[h] \in [Procs -> SUBSET Procs]
      <4>1. CASE h = g
        <5>1. probe[h] \in [Procs -> SUBSET Procs] /\ Candidates(h) \in SUBSET Procs
          BY <2>2, <3>1, <4>1
        <5>2. probe'[h] = [probe[h] EXCEPT ![p] = Candidates(h) \ @]
          BY <2>1, <3>1, <4>1
        <5> HIDE DEF TypeOK
        <5> QED
          BY <5>1, <5>2
      <4>2. CASE h # g
        BY <2>1, <3>1, <4>2
      <4> QED
        BY <4>1, <4>2
    <3>3. probe' = [h \in Gpus |-> probe'[h]]
      BY <2>1, <3>1
    <3> HIDE DEF TypeOK
    <3> QED
      BY <3>2, <3>3
  <2> QED
    BY <1>4, <2>3, <2>4, <2>5 DEF PollBlocked, procVars
<1>5. ASSUME NEW p \in Procs, PollCreate(p) PROVE TypeOK'
  <2>1. /\ files' \in [Gpus -> SUBSET Procs]
        /\ blank' \in [Gpus -> SUBSET Procs]
        /\ old' \in [Gpus -> SUBSET Procs]
    <3> DEFINE g == Cur(p)
    <3>1. /\ files' = [files EXCEPT ![g] = FilesLeft(p, g) \cup {p}]
          /\ blank' = [blank EXCEPT ![g] = (@ \ Stale(p, g)) \cup {p}]
          /\ old' = [old EXCEPT ![g] = @ \ (Stale(p, g) \cup {p})]
      BY <1>5 DEF PollCreate
    <3>2. \A h \in Gpus : FilesLeft(p, h) \cup {p} \in SUBSET Procs
      BY DEF FilesLeft
    <3> HIDE DEF g
    <3> QED
      BY <3>1, <3>2
  <2>2. line' \in [Gpus -> [Procs -> SUBSET Procs]]
    <3>1. \A g \in Gpus : LineSeenBy(p, g) \in [Procs -> SUBSET Procs]
      BY PassTypes
    <3> QED
      BY <1>5, <3>1 DEF PollCreate
  <2>3. probe' \in [Gpus -> [Procs -> SUBSET Procs]]
    <3>1. \A g \in Gpus : [Touched(g, p) EXCEPT ![p] = {}] \in [Procs -> SUBSET Procs]
      BY QueueTypes
    <3> QED
      BY <1>5, <3>1 DEF PollCreate
  <2>4. pc' \in [Procs -> PcStates] /\ gate' \in [Gpus -> Procs \cup {NoProc}]
    BY <1>5 DEF PollCreate, Goto, PcStates
  <2> QED
    BY <1>5, <2>1, <2>2, <2>3, <2>4 DEF PollCreate
<1>6. ASSUME NEW p \in Procs, Commit(p) PROVE TypeOK'
  <2>1. Cur(p) \in Gpus
    BY <1>6, CurIsNew DEF Commit
  <2>2. Append(locks[p], Cur(p)) \in Seq(Gpus)
    BY <2>1, HeldAfterAppend
  <2>3. locks' \in [Procs -> Seq(Gpus)]
    BY <1>6, <2>2 DEF Commit
  <2>4. pc' \in [Procs -> PcStates]
    BY <1>6 DEF Commit, Goto, Entry, PcStates
  <2>5. line' \in [Gpus -> [Procs -> SUBSET Procs]]
    <3>1. \A g \in Gpus : Dequeue(line[g], {p}) \in [Procs -> SUBSET Procs]
      BY QueueTypes
    <3> QED
      BY <1>6, <3>1 DEF Commit
  <2>6. /\ blank' \in [Gpus -> SUBSET Procs]
        /\ gate' \in [Gpus -> Procs \cup {NoProc}]
    BY <1>6 DEF Commit
  <2> QED
    BY <1>6, <2>3, <2>4, <2>5, <2>6 DEF Commit
<1>7. ASSUME NEW p \in Procs, Unregister(p) PROVE TypeOK'
  <2>1. pc' \in [Procs -> PcStates] /\ locks' \in [Procs -> Seq(Gpus)]
    <3>1. <<>> \in Seq(Gpus)
      BY EmptySeq
    <3>2. CASE pc[p] = "abort"
      BY <1>7, <3>2 DEF Unregister, Goto, PcStates
    <3>3. CASE pc[p] # "abort"
      <4>1. /\ pc' = [pc EXCEPT ![p] = "dead"]
            /\ locks' = [locks EXCEPT ![p] = <<>>]
        BY <1>7, <3>3 DEF Unregister, Goto
      <4> QED
        BY <3>1, <4>1 DEF PcStates
    <3> QED
      BY <3>2, <3>3
  <2>2. line' \in [Gpus -> [Procs -> SUBSET Procs]]
    <3>1. \A g \in Gpus : Dequeue(line[g], {p}) \in [Procs -> SUBSET Procs]
      BY QueueTypes
    <3> QED
      BY <1>7, <3>1 DEF Unregister
  <2>3. probe' \in [Gpus -> [Procs -> SUBSET Procs]]
    BY <1>7 DEF Unregister
  <2> QED
    BY <1>7, <2>1, <2>2, <2>3 DEF Unregister, fileVars
<1>8. ASSUME NEW p \in Procs, Launch(p) PROVE TypeOK'
  BY <1>8 DEF Launch, procVars, fileVars, Goto, PcStates
<1>9. ASSUME NEW p \in Procs, WorkReachesGpu(p) PROVE TypeOK'
  BY <1>9 DEF WorkReachesGpu, procVars, fileVars
<1>10. ASSUME NEW p \in Procs, WorkEnds(p) PROVE TypeOK'
  BY <1>10 DEF WorkEnds, procVars, fileVars
<1>11. ASSUME NEW p \in Procs, Finish(p) PROVE TypeOK'
  BY <1>11 DEF Finish, procVars, fileVars, Goto, PcStates
<1>12. ASSUME NEW p \in Procs, ReleaseUnlink(p) PROVE TypeOK'
  BY <1>12 DEF ReleaseUnlink, procVars, fileVars, Unlink
<1>13. ASSUME NEW p \in Procs, ReleaseClear(p) PROVE TypeOK'
  <2>1. locks[p] # <<>>
    BY <1>13 DEF ReleaseClear, SessionInv
  <2>2. Front(locks[p]) \in Seq(Gpus)
    BY <2>1, FrontProperties
  <2>3. locks' \in [Procs -> Seq(Gpus)]
    BY <1>13, <2>2 DEF ReleaseClear
  <2> QED
    BY <1>13, <2>3 DEF ReleaseClear, fileVars
<1>14. ASSUME NEW p \in Procs, Exit(p) PROVE TypeOK'
  BY <1>14 DEF Exit, procVars, fileVars, Goto, PcStates
<1>15. ASSUME NEW p \in Procs, Restart(p) PROVE TypeOK'
  BY <1>15 DEF Restart, procVars, fileVars, Goto, PcStates
<1>16. ASSUME NEW p \in Procs, PrecheckTimeout(p) PROVE TypeOK'
  BY <1>16 DEF PrecheckTimeout, procVars, fileVars, Goto, PcStates, Fault
<1>17. ASSUME NEW p \in Procs, QueueTimeout(p) PROVE TypeOK'
  BY <1>17 DEF QueueTimeout, procVars, fileVars, Goto, PcStates, Fault
<1>18. ASSUME NEW p \in Procs, CommitFails(p) PROVE TypeOK'
  BY <1>18 DEF CommitFails, procVars, fileVars, Goto, PcStates, Fault, GateFreed
<1>19. ASSUME NEW p \in Procs, Interrupt(p) PROVE TypeOK'
  <2>1. pc' \in [Procs -> PcStates] /\ locks' \in [Procs -> Seq(Gpus)]
    <3>1. <<>> \in Seq(Gpus)
      BY EmptySeq
    <3>2. CASE pc[p] = "precheck"
      <4>1. /\ pc' = [pc EXCEPT ![p] = "dead"]
            /\ locks' = [locks EXCEPT ![p] = <<>>]
        BY <1>19, <3>2 DEF Interrupt, Goto
      <4> QED
        BY <3>1, <4>1 DEF PcStates
    <3>3. CASE pc[p] # "precheck"
      BY <1>19, <3>3 DEF Interrupt, Goto, PcStates
    <3> QED
      BY <3>2, <3>3
  <2>2. gate' \in [Gpus -> Procs \cup {NoProc}] /\ faults' \in 0..MaxFaults
    BY <1>19 DEF Interrupt, GateFreed, Fault
  <2>3. streak' \in [Procs -> 0..(IdleStreak - 1)]
    BY <1>19 DEF Interrupt
  <2> QED
    BY <1>19, <2>1, <2>2, <2>3 DEF Interrupt, fileVars
<1>20. ASSUME NEW p \in Procs, Signal(p) PROVE TypeOK'
  BY <1>20 DEF Signal, procVars, fileVars, Goto, PcStates, Fault
<1>21. ASSUME NEW p \in Procs, SignalInRelease(p) PROVE TypeOK'
  BY <1>21 DEF SignalInRelease, procVars, fileVars, Fault
<1>22. ASSUME NEW p \in Procs, Crash(p) PROVE TypeOK'
  BY <1>22 DEF Crash, procVars, fileVars, Goto, PcStates, Fault, GateFreed
<1>23. ASSUME NEW p \in Procs, NEW g \in Gpus, HeartbeatTruncate(p, g) PROVE TypeOK'
  BY <1>23 DEF HeartbeatTruncate, procVars, Touched
<1>24. ASSUME NEW p \in Procs, NEW g \in Gpus, HeartbeatWrite(p, g) PROVE TypeOK'
  BY <1>24 DEF HeartbeatWrite, procVars, Touched
<1>25. ASSUME NEW p \in Procs, NEW g \in Gpus, Age(p, g) PROVE TypeOK'
  BY <1>25 DEF Age, procVars, Fault
<1>26. ASSUME NEW g \in Gpus, ForeignStart(g) PROVE TypeOK'
  BY <1>26 DEF ForeignStart, procVars, fileVars, Fault
<1>27. ASSUME NEW g \in Gpus, ForeignEnd(g) PROVE TypeOK'
  BY <1>27 DEF ForeignEnd, procVars, fileVars
<1>28. CASE UNCHANGED vars
  BY <1>28 DEF vars
<1> QED
  BY <1>1, <1>2, <1>3, <1>4, <1>5, <1>6, <1>7, <1>8, <1>9, <1>10, <1>11, <1>12, <1>13, <1>14,
     <1>15, <1>16, <1>17, <1>18, <1>19, <1>20, <1>21, <1>22, <1>23, <1>24, <1>25, <1>26, <1>27,
     <1>28 DEF Next, Acquiring, Running, Releasing, Failing, Disk

-----------------------------------------------------------------------------
(* The session invariant                                                    *)

LEMMA InitSessionInv == Init => SessionInv
  BY DEF Init, SessionInv, Held

LEMMA NextSessionInv ==
  ASSUME TypeOK, SessionInv, [Next]_vars
  PROVE  SessionInv'
<1> USE DEF TypeOK, SessionInv, Held
<1>1. ASSUME NEW p \in Procs, Start(p) PROVE SessionInv'
  BY <1>1 DEF Start, Goto, Entry
<1>2. ASSUME NEW p \in Procs, PrecheckIdle(p) PROVE SessionInv'
  <2>1. CASE streak[p] + 1 >= IdleStreak
    <3>1. pc' = [pc EXCEPT ![p] = "queue"]
      BY <1>2, <2>1 DEF PrecheckIdle, Goto
    <3> QED
      BY <1>2, <3>1 DEF PrecheckIdle
  <2>2. CASE ~(streak[p] + 1 >= IdleStreak)
    <3>1. pc' = pc
      BY <1>2, <2>2 DEF PrecheckIdle
    <3> QED
      BY <1>2, <3>1 DEF PrecheckIdle
  <2> QED
    BY <2>1, <2>2
<1>3. ASSUME NEW p \in Procs, PrecheckBusy(p) PROVE SessionInv'
  BY <1>3 DEF PrecheckBusy
<1>4. ASSUME NEW p \in Procs, PollBlocked(p) PROVE SessionInv'
  BY <1>4 DEF PollBlocked, procVars
<1>5. ASSUME NEW p \in Procs, PollCreate(p) PROVE SessionInv'
  BY <1>5 DEF PollCreate, Goto
<1>6. ASSUME NEW p \in Procs, Commit(p) PROVE SessionInv'
  <2> DEFINE g == Cur(p)
  <2>1. g \in Gpus /\ g \in want[p] /\ g \notin Held(p)
    BY <1>6, CurIsNew DEF Commit
  <2> HIDE DEF g
  <2>2. /\ locks' = [locks EXCEPT ![p] = Append(@, g)]
        /\ pc' = [pc EXCEPT ![p] = IF want[p] = Held(p) \cup {g} THEN "locked" ELSE Entry(p)]
        /\ want' = want /\ unlinked' = unlinked /\ pc[p] = "created"
    BY <1>6 DEF Commit, Goto, g
  <2>3. Held(p)' = Held(p) \cup {g}
    <3> HIDE DEF TypeOK, SessionInv, Held
    <3> QED
      BY <2>1, <2>2, HeldAfterCommit
  <2>4. /\ Len(locks'[p]) = Len(locks[p]) + 1
        /\ \A i \in 1..Len(locks[p]) : locks'[p][i] = locks[p][i]
        /\ locks'[p][Len(locks[p]) + 1] = g
    BY <2>1, <2>2, AppendProperties
  <2>5. \A i, j \in 1..Len(locks'[p]) : locks'[p][i] = locks'[p][j] => i = j
    <3>1. Len(locks[p]) \in Nat
      BY LenProperties
    <3>2. \A i \in 1..Len(locks[p]) : locks[p][i] # g
      BY <2>1
    <3>3. \A i \in 1..Len(locks'[p]) : i \in 1..Len(locks[p]) \/ i = Len(locks[p]) + 1
      BY <2>4, <3>1
    <3>4. \A i, j \in 1..Len(locks[p]) : locks[p][i] = locks[p][j] => i = j
      OBVIOUS
    <3> HIDE DEF TypeOK, SessionInv, Held
    <3> QED
      BY <2>4, <3>2, <3>3, <3>4
  <2>6. pc'[p] \in {"precheck", "queue", "locked"}
    BY <2>2 DEF Entry
  <2>7. pc'[p] # "locked" => want[p] # Held(p) \cup {g}
    BY <2>2
  <2>8. Held(p) \cup {g} \subseteq want[p]
    BY <2>1
  <2>9. ~unlinked[p]
    BY <2>2
  <2>10. ASSUME NEW q \in Procs, q # p
         PROVE  locks'[q] = locks[q] /\ pc'[q] = pc[q]
    BY <2>2, <2>10
  <2> HIDE DEF Held
  <2>11. ASSUME NEW q \in Procs, q # p PROVE Held(q)' = Held(q)
    BY <2>10, <2>11 DEF Held
  <2>12. ASSUME NEW q \in Procs
         PROVE  /\ pc'[q] \in {"idle", "done", "dead"} => locks'[q] = <<>>
                /\ Held(q)' \subseteq want'[q]
                /\ pc'[q] \in {"precheck", "queue", "created", "abort", "interrupt"}
                     => want'[q] \ Held(q)' # {}
                /\ unlinked'[q] => pc'[q] \in {"rollback", "release"} /\ locks'[q] # <<>>
                /\ \A i, j \in 1..Len(locks'[q]) : locks'[q][i] = locks'[q][j] => i = j
    <3>1. CASE q = p
      BY <3>1, <2>2, <2>3, <2>5, <2>6, <2>7, <2>8, <2>9
    <3>2. CASE q # p
      BY <3>2, <2>2, <2>10, <2>11
    <3> QED
      BY <3>1, <3>2
  <2> QED
    BY <2>12
<1>7. ASSUME NEW p \in Procs, Unregister(p) PROVE SessionInv'
  <2>1. CASE pc[p] = "abort"
    <3>1. pc' = [pc EXCEPT ![p] = "rollback"] /\ locks' = locks
      BY <1>7, <2>1 DEF Unregister, Goto
    <3> QED
      BY <1>7, <3>1 DEF Unregister
  <2>2. CASE pc[p] # "abort"
    <3>1. /\ pc' = [pc EXCEPT ![p] = "dead"]
          /\ locks' = [locks EXCEPT ![p] = <<>>]
          /\ pc[p] = "interrupt"
      BY <1>7, <2>2 DEF Unregister, Goto
    <3> QED
      BY <1>7, <3>1 DEF Unregister
  <2> QED
    BY <2>1, <2>2
<1>8. ASSUME NEW p \in Procs, Launch(p) PROVE SessionInv'
  BY <1>8 DEF Launch, Goto
<1>9. ASSUME NEW p \in Procs, WorkReachesGpu(p) PROVE SessionInv'
  BY <1>9 DEF WorkReachesGpu
<1>10. ASSUME NEW p \in Procs, WorkEnds(p) PROVE SessionInv'
  BY <1>10 DEF WorkEnds
<1>11. ASSUME NEW p \in Procs, Finish(p) PROVE SessionInv'
  BY <1>11 DEF Finish, Goto
<1>12. ASSUME NEW p \in Procs, ReleaseUnlink(p) PROVE SessionInv'
  BY <1>12 DEF ReleaseUnlink
<1>13. ASSUME NEW p \in Procs, ReleaseClear(p) PROVE SessionInv'
  <2>1. locks[p] # <<>>
    BY <1>13 DEF ReleaseClear
  <2>2. /\ Front(locks[p]) \in Seq(Gpus)
        /\ Len(Front(locks[p])) = Len(locks[p]) - 1
        /\ \A i \in 1..(Len(locks[p]) - 1) : Front(locks[p])[i] = locks[p][i]
        /\ Len(locks[p]) \in Nat \ {0}
    BY <2>1, FrontProperties
  <2>3. /\ locks' = [locks EXCEPT ![p] = Front(@)]
        /\ unlinked' = [unlinked EXCEPT ![p] = FALSE]
        /\ pc' = pc /\ want' = want /\ pc[p] \in {"rollback", "release"}
    BY <1>13 DEF ReleaseClear
  <2>4. /\ Len(locks'[p]) = Len(locks[p]) - 1
        /\ \A i \in 1..(Len(locks[p]) - 1) : locks'[p][i] = locks[p][i]
    BY <2>2, <2>3
  <2>5. Held(p)' \subseteq Held(p)
    <3>1. \A i \in 1..(Len(locks[p]) - 1) : i \in 1..Len(locks[p])
      BY <2>2
    <3> HIDE DEF TypeOK, SessionInv
    <3> QED
      BY <2>4, <3>1
  <2>6. \A i, j \in 1..Len(locks'[p]) : locks'[p][i] = locks'[p][j] => i = j
    <3>1. \A i \in 1..(Len(locks[p]) - 1) : i \in 1..Len(locks[p])
      BY <2>2
    <3> QED
      BY <2>4, <3>1
  <2>7. ASSUME NEW q \in Procs, q # p PROVE locks'[q] = locks[q] /\ unlinked'[q] = unlinked[q]
    BY <2>3, <2>7
  <2> HIDE DEF Held
  <2>8. ASSUME NEW q \in Procs, q # p PROVE Held(q)' = Held(q)
    BY <2>7, <2>8 DEF Held
  <2>9. ASSUME NEW q \in Procs
        PROVE  /\ pc'[q] \in {"idle", "done", "dead"} => locks'[q] = <<>>
               /\ Held(q)' \subseteq want'[q]
               /\ pc'[q] \in {"precheck", "queue", "created", "abort", "interrupt"}
                    => want'[q] \ Held(q)' # {}
               /\ unlinked'[q] => pc'[q] \in {"rollback", "release"} /\ locks'[q] # <<>>
               /\ \A i, j \in 1..Len(locks'[q]) : locks'[q][i] = locks'[q][j] => i = j
    <3>1. CASE q = p
      BY <3>1, <2>3, <2>5, <2>6
    <3>2. CASE q # p
      BY <3>2, <2>3, <2>7, <2>8
    <3> QED
      BY <3>1, <3>2
  <2> QED
    BY <2>9
<1>14. ASSUME NEW p \in Procs, Exit(p) PROVE SessionInv'
  BY <1>14 DEF Exit, Goto
<1>15. ASSUME NEW p \in Procs, Restart(p) PROVE SessionInv'
  BY <1>15 DEF Restart, Goto
<1>16. ASSUME NEW p \in Procs, PrecheckTimeout(p) PROVE SessionInv'
  BY <1>16 DEF PrecheckTimeout, Goto
<1>17. ASSUME NEW p \in Procs, QueueTimeout(p) PROVE SessionInv'
  BY <1>17 DEF QueueTimeout, Goto
<1>18. ASSUME NEW p \in Procs, CommitFails(p) PROVE SessionInv'
  BY <1>18 DEF CommitFails, Goto
<1>19. ASSUME NEW p \in Procs, Interrupt(p) PROVE SessionInv'
  <2>1. CASE pc[p] = "precheck"
    <3>1. /\ pc' = [pc EXCEPT ![p] = "dead"]
          /\ locks' = [locks EXCEPT ![p] = <<>>]
      BY <1>19, <2>1 DEF Interrupt, Goto
    <3> QED
      BY <1>19, <2>1, <3>1 DEF Interrupt
  <2>2. CASE pc[p] # "precheck"
    <3>1. /\ pc' = [pc EXCEPT ![p] = "interrupt"] /\ locks' = locks
          /\ pc[p] \in {"queue", "created"}
      BY <1>19, <2>2 DEF Interrupt, Goto
    <3> QED
      BY <1>19, <3>1 DEF Interrupt
  <2> QED
    BY <2>1, <2>2
<1>20. ASSUME NEW p \in Procs, Signal(p) PROVE SessionInv'
  BY <1>20 DEF Signal, Goto
<1>21. ASSUME NEW p \in Procs, SignalInRelease(p) PROVE SessionInv'
  BY <1>21 DEF SignalInRelease
<1>22. ASSUME NEW p \in Procs, Crash(p) PROVE SessionInv'
  BY <1>22 DEF Crash, Goto
<1>23. ASSUME NEW p \in Procs, NEW g \in Gpus, HeartbeatTruncate(p, g) PROVE SessionInv'
  BY <1>23 DEF HeartbeatTruncate, procVars
<1>24. ASSUME NEW p \in Procs, NEW g \in Gpus, HeartbeatWrite(p, g) PROVE SessionInv'
  BY <1>24 DEF HeartbeatWrite, procVars
<1>25. ASSUME NEW p \in Procs, NEW g \in Gpus, Age(p, g) PROVE SessionInv'
  BY <1>25 DEF Age, procVars
<1>26. ASSUME NEW g \in Gpus, ForeignStart(g) PROVE SessionInv'
  BY <1>26 DEF ForeignStart, procVars
<1>27. ASSUME NEW g \in Gpus, ForeignEnd(g) PROVE SessionInv'
  BY <1>27 DEF ForeignEnd, procVars
<1>28. CASE UNCHANGED vars
  BY <1>28 DEF vars
<1> QED
  BY <1>1, <1>2, <1>3, <1>4, <1>5, <1>6, <1>7, <1>8, <1>9, <1>10, <1>11, <1>12, <1>13, <1>14,
     <1>15, <1>16, <1>17, <1>18, <1>19, <1>20, <1>21, <1>22, <1>23, <1>24, <1>25, <1>26, <1>27,
     <1>28 DEF Next, Acquiring, Running, Releasing, Failing, Disk

-----------------------------------------------------------------------------
(* Exclusion                                                                *)

LEMMA InitFileInv == Init => FileInv
  BY DEF Init, FileInv, FilesExclude, LiveFilesFresh, CreatedFileThere,
         OwnerKeepsFile, Owns, Held

\* The cleanup never takes the file of a live process.
LEMMA LiveFileIsLeft ==
  ASSUME LiveFilesFresh, NEW g \in Gpus, NEW p, NEW q \in files[g], Alive(q)
  PROVE  q \in FilesLeft(p, g) /\ q \notin Stale(p, g)
  BY DEF LiveFilesFresh, FilesLeft, Stale, Candidates

\* What a process owns, and where it stands, depends on its own state only.
LEMMA SameOwner ==
  ASSUME NEW q \in Procs, want' = want, locks'[q] = locks[q],
         unlinked'[q] = unlinked[q]
  PROVE  /\ Held(q)' = Held(q)
         /\ Cur(q)' = Cur(q)
         /\ \A g \in Gpus : (Alive(q)' => Alive(q)) => (Owns(q, g)' => Owns(q, g))
<1>1. Held(q)' = Held(q) /\ Top(q)' = Top(q)
  BY DEF Held, Top
<1> QED
  BY <1>1 DEF Cur, Owns

\* A step that leaves the lock files alone, lets none of a live process get old,
\* brings nobody to life and nobody to "created" keeps the invariant.
LEMMA QuietStep ==
  ASSUME TypeOK, FileInv, mode' = mode, want' = want, files' = files,
         \A g \in Gpus : \A q \in old'[g] : q \in old[g] \/ ~Alive(q)',
         \A q \in Procs : Alive(q)' =>
            /\ Alive(q)
            /\ locks'[q] = locks[q] /\ unlinked'[q] = unlinked[q]
            /\ pc'[q] = "created" => pc[q] = "created"
  PROVE  FileInv'
<1>1. FilesExclude'
  BY DEF FileInv, FilesExclude
<1>2. LiveFilesFresh'
  <2>1. SUFFICES ASSUME NEW g \in Gpus, NEW q \in files[g], q \in old'[g], Alive(q)'
                 PROVE  FALSE
    BY DEF LiveFilesFresh
  <2>2. q \in Procs
    BY DEF TypeOK
  <2> QED
    BY <2>1, <2>2 DEF FileInv, LiveFilesFresh
<1>3. CreatedFileThere'
  <2>1. SUFFICES ASSUME NEW q \in Procs, pc'[q] = "created" PROVE q \in files[Cur(q)']
    BY DEF CreatedFileThere
  <2>2. Alive(q)'
    BY <2>1 DEF Alive
  <2>3. Cur(q)' = Cur(q)
    BY <2>2, SameOwner
  <2> QED
    BY <2>1, <2>2, <2>3 DEF FileInv, CreatedFileThere
<1>4. OwnerKeepsFile'
  <2>1. SUFFICES ASSUME NEW q \in Procs, NEW g \in Gpus, Owns(q, g)' PROVE q \in files[g]
    BY DEF OwnerKeepsFile
  <2>2. Alive(q)'
    BY <2>1 DEF Owns
  <2>3. Owns(q, g)
    BY <2>1, <2>2, SameOwner
  <2> QED
    BY <2>3 DEF FileInv, OwnerKeepsFile
<1> QED
  BY <1>1, <1>2, <1>3, <1>4 DEF FileInv

\* So does a step that only removes files, none of an owner or a creator.
LEMMA RemovalStep ==
  ASSUME TypeOK, FileInv, mode' = mode, want' = want, locks' = locks, pc' = pc,
         \A g \in Gpus : files'[g] \subseteq files[g] /\ old'[g] \subseteq old[g],
         \A q \in Procs, g \in Gpus :
            Owns(q, g)' => Owns(q, g) /\ (q \in files[g] => q \in files'[g]),
         \A q \in Procs : pc[q] = "created" /\ q \in files[Cur(q)]
                            => q \in files'[Cur(q)]
  PROVE  FileInv'
<1>1. FilesExclude' /\ LiveFilesFresh'
  BY DEF FileInv, FilesExclude, LiveFilesFresh, Alive
<1>2. CreatedFileThere'
  BY DEF FileInv, CreatedFileThere, Cur, Held
<1>3. OwnerKeepsFile'
  BY DEF FileInv, OwnerKeepsFile
<1> QED
  BY <1>1, <1>2, <1>3 DEF FileInv

LEMMA NextFileInv ==
  ASSUME TypeOK, SessionInv, FileInv, [Next]_vars,
         "stall" \notin Faults, "resignal" \notin Faults
  PROVE  FileInv'
<1>1. ASSUME NEW p \in Procs, Start(p) PROVE FileInv'
  BY <1>1, QuietStep DEF Start, Goto, Entry, fileVars, TypeOK, Alive
<1>2. ASSUME NEW p \in Procs, PrecheckIdle(p) PROVE FileInv'
  BY <1>2, QuietStep DEF PrecheckIdle, Goto, fileVars, TypeOK, Alive
<1>3. ASSUME NEW p \in Procs, PrecheckBusy(p) PROVE FileInv'
  BY <1>3, QuietStep DEF PrecheckBusy, fileVars, TypeOK, Alive
<1>4. ASSUME NEW p \in Procs, PollBlocked(p) PROVE FileInv'
  <2> DEFINE g == Cur(p)
  <2>1. g \in Gpus
    BY <1>4, CurIsNew DEF PollBlocked
  <2> HIDE DEF g
  <2>2. /\ files' = [files EXCEPT ![g] = @ \ Stale(p, g)]
        /\ old' = [old EXCEPT ![g] = @ \ Stale(p, g)]
        /\ UNCHANGED procVars
    BY <1>4 DEF PollBlocked, Unlink, g
  <2>3. ASSUME NEW q \in Procs, NEW h \in Gpus, Alive(q), q \in files[h]
        PROVE  q \in files'[h]
    BY <2>1, <2>2, <2>3, LiveFileIsLeft DEF FileInv, TypeOK
  <2>4. \A q \in Procs, h \in Gpus : Owns(q, h)' => Owns(q, h) /\ Alive(q)
    BY <2>2 DEF Owns, Alive, Held, Top, procVars
  <2>5. \A q \in Procs : pc[q] = "created" => Alive(q) /\ Cur(q) \in Gpus
    BY CurIsNew DEF Alive
  <2>6. \A h \in Gpus : files'[h] \subseteq files[h] /\ old'[h] \subseteq old[h]
    BY <2>2 DEF TypeOK
  <2> QED
    BY <2>2, <2>3, <2>4, <2>5, <2>6, RemovalStep DEF procVars
<1>5. ASSUME NEW p \in Procs, PollCreate(p) PROVE FileInv'
  <2> DEFINE g == Cur(p)
  <2>1. g \in Gpus /\ g \in want[p] /\ g \notin Held(p)
    BY <1>5, CurIsNew DEF PollCreate
  <2> HIDE DEF g
  <2>2. /\ files' = [files EXCEPT ![g] = FilesLeft(p, g) \cup {p}]
        /\ old' = [old EXCEPT ![g] = @ \ (Stale(p, g) \cup {p})]
        /\ pc' = [pc EXCEPT ![p] = "created"]
        /\ UNCHANGED <<mode, want, locks, unlinked>>
        /\ ~MustWait(p, g) /\ pc[p] = "queue"
    BY <1>5 DEF PollCreate, Goto, g
  <2>3. FilesLeft(p, g) \subseteq files[g] /\ files[g] \subseteq Procs
    BY <2>1 DEF FilesLeft, TypeOK
  <2>4. \A q \in Procs : /\ Held(q)' = Held(q) /\ Cur(q)' = Cur(q)
                         /\ Alive(q)' = Alive(q)
                         /\ \A h \in Gpus : Owns(q, h)' = Owns(q, h)
    BY <2>2 DEF Held, Cur, Alive, Owns, Top, TypeOK
  <2>5. ASSUME NEW q \in Procs, NEW h \in Gpus, Alive(q), q \in files[h]
        PROVE  q \in files'[h]
    BY <2>1, <2>2, <2>5, LiveFileIsLeft DEF FileInv, TypeOK
  <2>6. FilesExclude'
    <3>1. ASSUME NEW q \in FilesLeft(p, g), q # p
          PROVE  mode[p] = "read" /\ mode[q] = "read"
      BY <2>2, <2>3, <3>1 DEF MustWait, Writers, TypeOK
    <3>2. \A h \in Gpus : files'[h] = IF h = g THEN FilesLeft(p, g) \cup {p} ELSE files[h]
      BY <2>1, <2>2 DEF TypeOK
    <3> QED
      BY <2>2, <2>3, <3>1, <3>2 DEF FileInv, FilesExclude
  <2>7. LiveFilesFresh'
    <3>1. \A h \in Gpus : \A q \in files'[h] \cap old'[h] : q \in files[h] \cap old[h]
      BY <2>1, <2>2, <2>3 DEF TypeOK
    <3>2. \A h \in Gpus : files'[h] \subseteq Procs
      BY <2>1, <2>2, <2>3 DEF TypeOK
    <3> QED
      BY <2>4, <3>1, <3>2 DEF FileInv, LiveFilesFresh
  <2>8. CreatedFileThere'
    <3>1. SUFFICES ASSUME NEW q \in Procs, pc'[q] = "created" PROVE q \in files'[Cur(q)]
      BY <2>4 DEF CreatedFileThere
    <3>2. CASE q = p
      BY <2>1, <2>2, <3>2 DEF TypeOK, g
    <3>3. CASE q # p
      <4>1. pc[q] = "created"
        BY <2>2, <3>1, <3>3 DEF TypeOK
      <4>2. Alive(q) /\ Cur(q) \in Gpus /\ q \in files[Cur(q)]
        BY <4>1, CurIsNew DEF Alive, FileInv, CreatedFileThere
      <4> QED
        BY <4>2, <2>5
    <3> QED
      BY <3>2, <3>3
  <2>9. OwnerKeepsFile'
    BY <2>4, <2>5 DEF FileInv, OwnerKeepsFile, Owns
  <2> QED
    BY <2>6, <2>7, <2>8, <2>9 DEF FileInv
<1>6. ASSUME NEW p \in Procs, Commit(p) PROVE FileInv'
  <2> DEFINE g == Cur(p)
  <2>1. g \in Gpus /\ p \in files[g]
    BY <1>6, CurIsNew DEF Commit, FileInv, CreatedFileThere
  <2> HIDE DEF g
  <2>2. /\ locks' = [locks EXCEPT ![p] = Append(@, g)]
        /\ pc' = [pc EXCEPT ![p] = IF want[p] = Held(p) \cup {g} THEN "locked" ELSE Entry(p)]
        /\ UNCHANGED <<mode, want, unlinked, files, old>>
        /\ pc[p] = "created"
    BY <1>6 DEF Commit, Goto, g
  <2>3. pc'[p] \notin {"created", "done", "dead"}
    BY <2>2 DEF Entry, TypeOK
  <2>4. \A q \in Procs : Alive(q)' = Alive(q)
    BY <2>2, <2>3 DEF Alive, TypeOK
  <2>5. \A q \in Procs \ {p} : locks'[q] = locks[q] /\ pc'[q] = pc[q]
    BY <2>2 DEF TypeOK
  <2>6. FilesExclude' /\ LiveFilesFresh'
    BY <2>2, <2>4 DEF FileInv, FilesExclude, LiveFilesFresh, TypeOK
  <2>7. CreatedFileThere'
    <3>1. SUFFICES ASSUME NEW q \in Procs, pc'[q] = "created" PROVE q \in files[Cur(q)']
      BY <2>2 DEF CreatedFileThere
    <3>2. q \in Procs \ {p}
      BY <2>3, <3>1
    <3> QED
      BY <2>2, <2>5, <3>1, <3>2, SameOwner DEF FileInv, CreatedFileThere
  <2>8. OwnerKeepsFile'
    <3>1. SUFFICES ASSUME NEW q \in Procs, NEW h \in Gpus, Owns(q, h)'
                   PROVE  q \in files[h]
      BY <2>2 DEF OwnerKeepsFile
    <3>2. CASE q # p
      BY <2>2, <2>4, <2>5, <3>1, <3>2, SameOwner DEF FileInv, OwnerKeepsFile
    <3>3. CASE q = p /\ h = g
      BY <2>1, <3>3
    <3>4. CASE q = p /\ h # g
      <4>1. Held(p)' = Held(p) \cup {g}
        BY <2>1, <2>2, HeldAfterCommit
      <4>2. Alive(p) /\ ~unlinked[p]
        BY <2>2 DEF Alive, SessionInv
      <4> QED
        BY <3>1, <3>4, <4>1, <4>2 DEF FileInv, OwnerKeepsFile, Owns
    <3> QED
      BY <3>2, <3>3, <3>4
  <2> QED
    BY <2>6, <2>7, <2>8 DEF FileInv
<1>7. ASSUME NEW p \in Procs, Unregister(p) PROVE FileInv'
  BY <1>7, QuietStep DEF Unregister, Goto, fileVars, TypeOK, Alive
<1>8. ASSUME NEW p \in Procs, Launch(p) PROVE FileInv'
  BY <1>8, QuietStep DEF Launch, Goto, fileVars, TypeOK, Alive
<1>9. ASSUME NEW p \in Procs, WorkReachesGpu(p) PROVE FileInv'
  BY <1>9, QuietStep DEF WorkReachesGpu, fileVars, TypeOK, Alive
<1>10. ASSUME NEW p \in Procs, WorkEnds(p) PROVE FileInv'
  BY <1>10, QuietStep DEF WorkEnds, fileVars, TypeOK, Alive
<1>11. ASSUME NEW p \in Procs, Finish(p) PROVE FileInv'
  BY <1>11, QuietStep DEF Finish, Goto, fileVars, TypeOK, Alive
<1>12. ASSUME NEW p \in Procs, ReleaseUnlink(p) PROVE FileInv'
  <2> DEFINE g == Top(p)
  <2>1. g \in Gpus /\ g \in Held(p)
    <3>1. Len(locks[p]) \in 1..Len(locks[p])
      BY <1>12, FrontProperties DEF ReleaseUnlink, TypeOK
    <3> QED
      BY <3>1 DEF Held, Top, TypeOK
  <2>2. /\ files' = [files EXCEPT ![g] = @ \ {q \in files[g] : SamePath(p, q)}]
        /\ old' = [old EXCEPT ![g] = @ \ {q \in files[g] : SamePath(p, q)}]
        /\ unlinked' = [unlinked EXCEPT ![p] = TRUE]
        /\ UNCHANGED <<mode, want, pc, locks>>
        /\ ~unlinked[p] /\ pc[p] \in {"rollback", "release"}
    BY <1>12 DEF ReleaseUnlink, Unlink, g
  <2>3. p \in files[g]
    BY <2>1, <2>2 DEF FileInv, OwnerKeepsFile, Owns, Alive
  <2>4. \A q \in files[g] : SamePath(p, q) => q = p
    BY <2>1, <2>3 DEF FileInv, FilesExclude, SamePath
  <2>5. ASSUME NEW q \in Procs, NEW h \in Gpus, q \in files[h], q # p \/ h # g
        PROVE  q \in files'[h]
    BY <2>1, <2>2, <2>4, <2>5 DEF TypeOK
  <2>6. ASSUME NEW q \in Procs, NEW h \in Gpus, Owns(q, h)'
        PROVE  Owns(q, h) /\ (q # p \/ h # g)
    <3>1. Alive(q)' = Alive(q) /\ Held(q)' = Held(q) /\ Top(q)' = Top(q)
      BY <2>2 DEF Alive, Held, Top
    <3>2. unlinked'[p] /\ (q # p => unlinked'[q] = unlinked[q])
      BY <2>2 DEF TypeOK
    <3> QED
      BY <2>2, <2>6, <3>1, <3>2 DEF Owns, g
  <2>7. \A q \in Procs : pc[q] = "created" => q # p /\ Cur(q) \in Gpus
    BY <2>2, CurIsNew
  <2>8. \A h \in Gpus : files'[h] \subseteq files[h] /\ old'[h] \subseteq old[h]
    BY <2>2 DEF TypeOK
  <2> QED
    BY <2>2, <2>5, <2>6, <2>7, <2>8, RemovalStep
<1>13. ASSUME NEW p \in Procs, ReleaseClear(p) PROVE FileInv'
  <2>1. /\ locks' = [locks EXCEPT ![p] = Front(@)]
        /\ unlinked' = [unlinked EXCEPT ![p] = FALSE]
        /\ UNCHANGED <<mode, want, pc, files, old>>
        /\ unlinked[p] /\ pc[p] \in {"rollback", "release"} /\ locks[p] # <<>>
    BY <1>13 DEF ReleaseClear, fileVars, SessionInv
  <2>2. \A q \in Procs : q # p => locks'[q] = locks[q] /\ unlinked'[q] = unlinked[q]
    BY <2>1 DEF TypeOK
  <2>3. Held(p)' \subseteq Held(p) \ {Top(p)}
    <3>1. /\ Len(Front(locks[p])) = Len(locks[p]) - 1
          /\ \A i \in 1..(Len(locks[p]) - 1) : Front(locks[p])[i] = locks[p][i]
          /\ Len(locks[p]) \in Nat \ {0}
      BY <2>1, FrontProperties DEF TypeOK
    <3>2. locks'[p] = Front(locks[p])
      BY <2>1 DEF TypeOK
    <3>3. \A i \in 1..(Len(locks[p]) - 1) : i \in 1..Len(locks[p]) /\ i # Len(locks[p])
      BY <3>1
    <3>4. Len(locks[p]) \in 1..Len(locks[p])
      BY <3>1
    <3>5. \A i \in 1..(Len(locks[p]) - 1) : locks[p][i] # Top(p)
      BY <3>3, <3>4 DEF SessionInv, Top
    <3>6. Held(p)' = {locks'[p][i] : i \in 1..Len(locks'[p])}
      BY DEF Held
    <3> QED
      BY <3>1, <3>2, <3>3, <3>5, <3>6 DEF Held
  <2>4. \A q \in Procs : Alive(q)' = Alive(q)
    BY <2>1 DEF Alive
  <2>5. FilesExclude' /\ LiveFilesFresh'
    BY <2>1, <2>4 DEF FileInv, FilesExclude, LiveFilesFresh, TypeOK
  <2>6. CreatedFileThere'
    <3>1. SUFFICES ASSUME NEW q \in Procs, pc'[q] = "created" PROVE q \in files[Cur(q)']
      BY <2>1 DEF CreatedFileThere
    <3> QED
      BY <2>1, <2>2, <3>1, SameOwner DEF FileInv, CreatedFileThere
  <2>7. OwnerKeepsFile'
    <3>1. SUFFICES ASSUME NEW q \in Procs, NEW h \in Gpus, Owns(q, h)'
                   PROVE  q \in files[h]
      BY <2>1 DEF OwnerKeepsFile
    <3>2. CASE q # p
      BY <2>1, <2>2, <2>4, <3>1, <3>2, SameOwner DEF FileInv, OwnerKeepsFile
    <3>3. CASE q = p
      BY <2>3, <2>4, <3>1, <3>3 DEF FileInv, OwnerKeepsFile, Owns
    <3> QED
      BY <3>2, <3>3
  <2> QED
    BY <2>5, <2>6, <2>7 DEF FileInv
<1>14. ASSUME NEW p \in Procs, Exit(p) PROVE FileInv'
  BY <1>14, QuietStep DEF Exit, Goto, fileVars, TypeOK, Alive
<1>15. ASSUME NEW p \in Procs, Restart(p) PROVE FileInv'
  <2>1. /\ pc' = [pc EXCEPT ![p] = "idle"]
        /\ UNCHANGED <<mode, want, locks, unlinked, files, old>>
        /\ pc[p] = "done" /\ \A g \in Gpus : p \notin files[g]
    BY <1>15 DEF Restart, Goto, fileVars
  <2>2. Held(p) = {}
    BY <2>1 DEF SessionInv, Held
  <2>3. \A q \in Procs : q # p => pc'[q] = pc[q] /\ Alive(q)' = Alive(q)
    BY <2>1 DEF TypeOK, Alive
  <2>4. \A q \in Procs : Held(q)' = Held(q) /\ Cur(q)' = Cur(q) /\ Top(q)' = Top(q)
    BY <2>1 DEF Held, Cur, Top
  <2>5. FilesExclude'
    BY <2>1 DEF FileInv, FilesExclude
  <2>6. LiveFilesFresh'
    <3>1. \A g \in Gpus : \A q \in files[g] : q \in Procs /\ q # p
      BY <2>1 DEF TypeOK
    <3> QED
      BY <2>1, <2>3, <3>1 DEF FileInv, LiveFilesFresh
  <2>7. CreatedFileThere'
    BY <2>1, <2>3, <2>4 DEF FileInv, CreatedFileThere, TypeOK
  <2>8. OwnerKeepsFile'
    BY <2>1, <2>2, <2>3, <2>4 DEF FileInv, OwnerKeepsFile, Owns
  <2> QED
    BY <2>5, <2>6, <2>7, <2>8 DEF FileInv
<1>16. ASSUME NEW p \in Procs, PrecheckTimeout(p) PROVE FileInv'
  BY <1>16, QuietStep DEF PrecheckTimeout, Goto, fileVars, TypeOK, Alive
<1>17. ASSUME NEW p \in Procs, QueueTimeout(p) PROVE FileInv'
  BY <1>17, QuietStep DEF QueueTimeout, Goto, fileVars, TypeOK, Alive
<1>18. ASSUME NEW p \in Procs, CommitFails(p) PROVE FileInv'
  BY <1>18, QuietStep DEF CommitFails, Goto, fileVars, TypeOK, Alive
<1>19. ASSUME NEW p \in Procs, Interrupt(p) PROVE FileInv'
  BY <1>19, QuietStep DEF Interrupt, Goto, fileVars, TypeOK, Alive
<1>20. ASSUME NEW p \in Procs, Signal(p) PROVE FileInv'
  BY <1>20, QuietStep DEF Signal, Goto, fileVars, TypeOK, Alive
<1>21. ASSUME NEW p \in Procs, SignalInRelease(p) PROVE FileInv'
  BY <1>21, QuietStep DEF SignalInRelease, Fault
<1>22. ASSUME NEW p \in Procs, Crash(p) PROVE FileInv'
  BY <1>22, QuietStep DEF Crash, Goto, fileVars, TypeOK, Alive
<1>23. ASSUME NEW p \in Procs, NEW g \in Gpus, HeartbeatTruncate(p, g) PROVE FileInv'
  BY <1>23, QuietStep DEF HeartbeatTruncate, procVars, fileVars, TypeOK, Alive
<1>24. ASSUME NEW p \in Procs, NEW g \in Gpus, HeartbeatWrite(p, g) PROVE FileInv'
  BY <1>24, QuietStep DEF HeartbeatWrite, procVars, fileVars, TypeOK, Alive
<1>25. ASSUME NEW p \in Procs, NEW g \in Gpus, Age(p, g) PROVE FileInv'
  BY <1>25, QuietStep DEF Age, procVars, fileVars, TypeOK, Alive, Fault
<1>26. ASSUME NEW g \in Gpus, ForeignStart(g) PROVE FileInv'
  BY <1>26, QuietStep DEF ForeignStart, procVars, fileVars, TypeOK, Alive
<1>27. ASSUME NEW g \in Gpus, ForeignEnd(g) PROVE FileInv'
  BY <1>27, QuietStep DEF ForeignEnd, procVars, fileVars, TypeOK, Alive
<1>28. CASE UNCHANGED vars
  BY <1>28, QuietStep DEF vars, TypeOK, Alive
<1> QED
  BY <1>1, <1>2, <1>3, <1>4, <1>5, <1>6, <1>7, <1>8, <1>9, <1>10, <1>11, <1>12, <1>13, <1>14,
     <1>15, <1>16, <1>17, <1>18, <1>19, <1>20, <1>21, <1>22, <1>23, <1>24, <1>25, <1>26, <1>27,
     <1>28 DEF Next, Acquiring, Running, Releasing, Failing, Disk

-----------------------------------------------------------------------------
(* Theorems                                                                 *)

\* Every variable keeps its type, and the session's list its shape, in every
\* behaviour, with any faults (the state of GpuLock and MultiGpuLock objects).
THEOREM TypeCorrect == Spec => []TypeOK
<1>1. Init => TypeOK /\ SessionInv
  BY InitTypeOK, InitSessionInv
<1>2. TypeOK /\ SessionInv /\ [Next]_vars => TypeOK' /\ SessionInv'
  BY NextTypeOK, NextSessionInv
<1> QED
  BY <1>1, <1>2, PTL DEF Spec

\* Exclusion holds wherever files exclude each other and owners keep theirs.
LEMMA FilesGiveExclusion == TypeOK /\ FileInv => Exclusive
  BY DEF FileInv, FilesExclude, OwnerKeepsFile, Exclusive

\* Whatever crashes, is killed, times out, is interrupted or fails to write its
\* first heartbeat: a write lock is held alone (lock.py _acquire_write_locked,
\* _acquire_read_locked). Under the two faults excluded, a heartbeat that
\* stalls and a release that is re-entered, the code does lose exclusion.
THEOREM ExclusiveHolds ==
  ASSUME "stall" \notin Faults, "resignal" \notin Faults
  PROVE  Spec => []Exclusive
<1>1. Init => TypeOK /\ SessionInv /\ FileInv
  BY InitTypeOK, InitSessionInv, InitFileInv
<1>2. TypeOK /\ SessionInv /\ FileInv /\ [Next]_vars
        => TypeOK' /\ SessionInv' /\ FileInv'
  BY NextTypeOK, NextSessionInv, NextFileInv
<1>3. TypeOK /\ FileInv => Exclusive
  BY FilesGiveExclusion
<1> QED
  BY <1>1, <1>2, <1>3, PTL DEF Spec

\* Under the same conditions the file of a lock's owner is never taken away by
\* a stale-lock cleanup or by somebody else's release (lock.py
\* _try_cleanup_stale_lock, release).
THEOREM OwnerKeepsFileHolds ==
  ASSUME "stall" \notin Faults, "resignal" \notin Faults
  PROVE  Spec => []OwnerKeepsFile
<1>1. Init => TypeOK /\ SessionInv /\ FileInv
  BY InitTypeOK, InitSessionInv, InitFileInv
<1>2. TypeOK /\ SessionInv /\ FileInv /\ [Next]_vars
        => TypeOK' /\ SessionInv' /\ FileInv'
  BY NextTypeOK, NextSessionInv, NextFileInv
<1>3. FileInv => OwnerKeepsFile
  BY DEF FileInv
<1> QED
  BY <1>1, <1>2, <1>3, PTL DEF Spec

-----------------------------------------------------------------------------
(* Which steps touch the lock files                                         *)

LEMMA FilesChangeBy ==
  ASSUME TypeOK, [Next]_vars, files' # files
  PROVE  \E p \in Procs : PollBlocked(p) \/ PollCreate(p) \/ ReleaseUnlink(p)
<1>1. ASSUME NEW p \in Procs, Acquiring(p), ~PollBlocked(p), ~PollCreate(p)
      PROVE  FALSE
  BY <1>1 DEF Acquiring, Start, PrecheckIdle, PrecheckBusy, Commit, Unregister, fileVars
<1>2. ASSUME NEW p \in Procs, Running(p) PROVE FALSE
  BY <1>2 DEF Running, Launch, WorkReachesGpu, WorkEnds, Finish, fileVars
<1>3. ASSUME NEW p \in Procs, Releasing(p), ~ReleaseUnlink(p) PROVE FALSE
  BY <1>3 DEF Releasing, ReleaseClear, Exit, Restart, fileVars
<1>4. ASSUME NEW p \in Procs, Failing(p) PROVE FALSE
  BY <1>4 DEF Failing, PrecheckTimeout, QueueTimeout, CommitFails, Interrupt,
              Signal, SignalInRelease, Crash, fileVars
<1>5. ASSUME NEW p \in Procs, NEW g \in Gpus, Disk(p, g) PROVE FALSE
  BY <1>5 DEF Disk, HeartbeatTruncate, HeartbeatWrite, Age
<1>6. ASSUME NEW g \in Gpus, ForeignStart(g) \/ ForeignEnd(g) PROVE FALSE
  BY <1>6 DEF ForeignStart, ForeignEnd, fileVars
<1> QED
  BY <1>1, <1>2, <1>3, <1>4, <1>5, <1>6 DEF Next, vars

\* A pass that may go ahead has no older live request of the other kind before
\* it: the older request is still in the line the pass looks at.
LEMMA PassRespectsLine ==
  ASSUME TypeOK, SessionInv, NEW q \in Procs, PollCreate(q),
         NEW p \in Procs, Older(p, q, Cur(q)), Alive(p)
  PROVE  mode[p] = "read" /\ mode[q] = "read"
<1> DEFINE g == Cur(q)
           l == Register(line[g], q)
<1>1. g \in Gpus /\ line[g] \in [Procs -> SUBSET Procs]
  BY CurIsNew DEF PollCreate, TypeOK
<1>2. p # q /\ p \in line[g][p] /\ (q \in line[g][q] => p \in line[g][q]) /\ ~MustWait(q, g)
  BY DEF Older, PollCreate
<1>3. p \in l[q]
  BY <1>1, <1>2 DEF Register, Requests
<1>4. Alive(q) /\ q \in Procs
  BY DEF PollCreate, Alive
<1>5. p \in Earlier(LineSeenBy(q, g), q)
  BY <1>2, <1>3, <1>4 DEF Earlier, LineSeenBy, Dequeue
<1> QED
  BY <1>2, <1>5 DEF MustWait, Writers, TypeOK

\* First come, first served in the queue, whatever crashes and times out
\* (lock.py _queue_wait_reason_locked under the gate).
THEOREM NoOvertakingHolds == Spec => NoOvertaking
<1> DEFINE Step == \A g \in Gpus : \A q \in files'[g] \ files[g], p \in Procs :
                     Older(p, q, g) /\ Alive(p) => mode[p] = "read" /\ mode[q] = "read"
<1>1. Init => TypeOK /\ SessionInv
  BY InitTypeOK, InitSessionInv
<1>2. TypeOK /\ SessionInv /\ [Next]_vars => TypeOK' /\ SessionInv'
  BY NextTypeOK, NextSessionInv
<1>3. TypeOK /\ SessionInv /\ [Next]_vars => [Step]_vars
  <2>1. SUFFICES ASSUME TypeOK, SessionInv, [Next]_vars, NEW g \in Gpus,
                        NEW q \in files'[g] \ files[g], NEW p \in Procs,
                        Older(p, q, g), Alive(p)
                 PROVE  mode[p] = "read" /\ mode[q] = "read"
    OBVIOUS
  <2>2. PICK r \in Procs : PollBlocked(r) \/ PollCreate(r) \/ ReleaseUnlink(r)
    BY <2>1, FilesChangeBy
  <2>3. files'[g] \subseteq files[g] \/ PollCreate(r)
    <3>1. CASE PollBlocked(r)
      <4>1. files' = [files EXCEPT ![Cur(r)] = @ \ Stale(r, Cur(r))]
        BY <3>1 DEF PollBlocked, Unlink
      <4> QED
        BY <2>1, <4>1 DEF TypeOK
    <3>2. CASE ReleaseUnlink(r)
      <4>1. \E S : files' = [files EXCEPT ![Top(r)] = @ \ S]
        BY <3>2 DEF ReleaseUnlink, Unlink
      <4> QED
        BY <2>1, <4>1 DEF TypeOK
    <3> QED
      BY <2>2, <3>1, <3>2
  <2>4. PollCreate(r) /\ q = r /\ g = Cur(r)
    BY <2>1, <2>3 DEF PollCreate, FilesLeft, TypeOK
  <2> QED
    BY <2>1, <2>4, PassRespectsLine
<1> QED
  BY <1>1, <1>2, <1>3, PTL DEF Spec, NoOvertaking

\* A lock file goes by its owner's hand, or when the owner is dead and nothing
\* computes on the GPU (lock.py _try_cleanup_stale_lock, release).
THEOREM ReclaimOnlyAbandonedHolds ==
  ASSUME "stall" \notin Faults, "resignal" \notin Faults
  PROVE  Spec => ReclaimOnlyAbandoned
<1> DEFINE Step == \A g \in Gpus : \A q \in files[g] \ files'[g] :
                     \/ Owns(q, g) /\ unlinked'[q]
                     \/ ~Alive(q) /\ ~Computing(g)
<1>1. Init => TypeOK /\ SessionInv /\ FileInv
  BY InitTypeOK, InitSessionInv, InitFileInv
<1>2. TypeOK /\ SessionInv /\ FileInv /\ [Next]_vars
        => TypeOK' /\ SessionInv' /\ FileInv'
  BY NextTypeOK, NextSessionInv, NextFileInv
<1>3. TypeOK /\ SessionInv /\ FileInv /\ [Next]_vars => [Step]_vars
  <2>1. SUFFICES ASSUME TypeOK, SessionInv, FileInv, [Next]_vars, NEW g \in Gpus,
                        NEW q \in files[g] \ files'[g]
                 PROVE  \/ Owns(q, g) /\ unlinked'[q]
                        \/ ~Alive(q) /\ ~Computing(g)
    OBVIOUS
  <2>2. PICK p \in Procs : PollBlocked(p) \/ PollCreate(p) \/ ReleaseUnlink(p)
    BY <2>1, FilesChangeBy
  <2>3. CASE PollBlocked(p) \/ PollCreate(p)
    <3>1. q \in Stale(p, g)
      <4>1. \/ files' = [files EXCEPT ![Cur(p)] = @ \ Stale(p, Cur(p))]
            \/ files' = [files EXCEPT ![Cur(p)] = FilesLeft(p, Cur(p)) \cup {p}]
        BY <2>3 DEF PollBlocked, PollCreate, Unlink
      <4>2. g = Cur(p)
        BY <2>1, <4>1 DEF TypeOK
      <4> QED
        BY <2>1, <4>1, <4>2 DEF FilesLeft, TypeOK
    <3> QED
      BY <2>1, <3>1, LiveFileIsLeft DEF FileInv, Stale, Candidates
  <2>4. CASE ReleaseUnlink(p)
    <3>1. Top(p) \in Held(p) /\ Top(p) \in Gpus
      <4>1. Len(locks[p]) \in 1..Len(locks[p])
        BY <2>1, <2>4, FrontProperties DEF ReleaseUnlink, TypeOK
      <4> QED
        BY <2>1, <4>1 DEF Held, Top, TypeOK
    <3>2. Owns(p, Top(p)) /\ p \in files[Top(p)]
      BY <2>1, <2>4, <3>1 DEF ReleaseUnlink, Owns, Alive, FileInv, OwnerKeepsFile
    <3>3. g = Top(p) /\ SamePath(p, q)
      BY <2>1, <2>4 DEF ReleaseUnlink, Unlink, TypeOK
    <3>4. q = p
      BY <2>1, <3>2, <3>3 DEF FileInv, FilesExclude, SamePath
    <3>5. unlinked'[p]
      BY <2>1, <2>4 DEF ReleaseUnlink, TypeOK
    <3> QED
      BY <3>2, <3>3, <3>4, <3>5
  <2> QED
    BY <2>2, <2>3, <2>4
<1> QED
  BY <1>1, <1>2, <1>3, PTL DEF Spec, ReclaimOnlyAbandoned
=============================================================================
