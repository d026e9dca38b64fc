---------------------------- MODULE RWLockProofs ----------------------------
(***************************************************************************)
(* The abstract read/write lock keeps what it is there for.                 *)
(***************************************************************************)
EXTENDS RWLock, TLAPS

\* Whoever holds a GPU as a writer holds it alone, dead holders included, for
\* any processes and GPUs (lock.py _acquire_write_locked, _acquire_read_locked).
THEOREM ExclusionHolds == Spec => []Exclusion
<1> DEFINE IInv == /\ kind \in [Procs -> {"read", "write"}]
                   /\ holders \in [Gpus -> SUBSET Procs]
                   /\ Exclusion
<1>1. Init => IInv
  BY DEF Init, Exclusion
<1>2. IInv /\ [Next]_vars => IInv'
  <2> SUFFICES ASSUME IInv, [Next]_vars PROVE IInv'
    OBVIOUS
  <2>1. ASSUME NEW p \in Procs, NEW g \in Gpus, NEW S \in SUBSET Procs, Grant(p, g, S)
        PROVE  IInv'
    <3>1. holders' \in [Gpus -> SUBSET Procs] /\ kind' = kind
      BY <2>1 DEF Grant
    <3>2. ASSUME NEW h \in Gpus, NEW q \in holders'[h], NEW r \in holders'[h], q # r
          PROVE  Compatible(q, r)'
      <4>1. CASE h = g
        <5>1. q \in (holders[g] \ S) \cup {p} /\ r \in (holders[g] \ S) \cup {p}
          BY <2>1, <3>2, <4>1 DEF Grant
        <5> QED
          BY <2>1, <3>1, <3>2, <5>1 DEF Grant, Compatible, Exclusion
      <4>2. CASE h # g
        BY <2>1, <3>1, <3>2, <4>2 DEF Grant, Compatible, Exclusion
      <4> QED
        BY <4>1, <4>2
    <3> QED
      BY <3>1, <3>2 DEF Exclusion, Compatible
  <2>2. ASSUME NEW g \in Gpus, NEW S, kind' = kind,
               holders' = [holders EXCEPT ![g] = @ \ S]
        PROVE  IInv'
    BY <2>2 DEF Exclusion, Compatible
  <2>3. ASSUME NEW p \in Procs, NEW g \in Gpus, Release(p, g) PROVE IInv'
    BY <2>2, <2>3 DEF Release
  <2>4. ASSUME NEW g \in Gpus, NEW S \in SUBSET Procs, Reclaim(g, S) PROVE IInv'
    BY <2>2, <2>4 DEF Reclaim
  <2>5. ASSUME Environment \/ UNCHANGED vars PROVE IInv'
    BY <2>5 DEF Environment, vars, Exclusion, Compatible
  <2> QED
    BY <2>1, <2>3, <2>4, <2>5 DEF Next
<1> QED
  BY <1>1, <1>2, PTL DEF Spec
=============================================================================
