SPECIFICATION LiveSpec
CONSTANTS
  p1 = p1
  p2 = p2
  p3 = p3
  Procs = {p1, p2, p3}
  Gpus = {0, 1, 2}
  NoProc = NoProc
  SkipIdleCheck = TRUE
  IdleStreak = 1
  Faults = {"crash"}
  MaxFaults = 1
PROPERTIES QueuedIsServed
CHECK_DEADLOCK FALSE
