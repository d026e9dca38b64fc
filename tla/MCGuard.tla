------------------------------ MODULE MCGuard ------------------------------
(***************************************************************************)
(* Instances of Guard for TLC.                                              *)
(***************************************************************************)
EXTENDS Guard

CONSTANTS
  r, s,   \* wrappers
  w1, w2  \* workers

\* Process ids are alike: a new worker is w2 only while w1 runs.
LowestFree == worker[w2] = "none" /\ worker'[w2] = "loading" => Live(w1)

\* Two wrappers, one of which only runs commands, and no event, or one wrapper
\* and events: either kind of interplay, within TLC's reach.
LoopSpec ==
  /\ Init
  /\ [][/\ Next
        /\ LowestFree
        /\ jpc'[s] \in IF struck' = {} THEN JobStates \ Session ELSE {"new"}]_<<vars, lost>>
  /\ Fairness

\* No wrapper at all: the guard and a process outside gpulock.
UserSpec == Init /\ [][Next /\ UNCHANGED jpc]_<<vars, lost>> /\ Fairness
=============================================================================
