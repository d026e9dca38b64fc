SPECIFICATION EverywhereSpec
CONSTANTS
  p1 = p1
  p2 = p2
  p3 = p3
  Procs = {p1, p2}
  Gpus = {0, 1}
  NoProc = NoProc
  SkipIdleCheck = FALSE
  IdleStreak = 2
  Faults = {"signal", "timeout", "foreign", "stall", "resignal"}
  MaxFaults = 2
SYMMETRY Symmetry
INVARIANTS TypeOK ExitLeavesNothing NoCircularWait
CHECK_DEADLOCK FALSE
