SPECIFICATION Spec
CONSTANTS
  p1 = p1
  p2 = p2
  p3 = p3
  Procs = {p1, p2}
  Gpus = {0}
  NoProc = NoProc
  SkipIdleCheck = TRUE
  IdleStreak = 1
  Faults = {"signal"}
  MaxFaults = 1
INVARIANTS RunningWorkKeepsLock
CHECK_DEADLOCK FALSE
