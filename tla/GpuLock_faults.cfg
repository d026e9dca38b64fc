SPECIFICATION Spec
CONSTANTS
  p1 = p1
  p2 = p2
  p3 = p3
  Procs = {p1, p2, p3}
  Gpus = {0}
  NoProc = NoProc
  SkipIdleCheck = TRUE
  IdleStreak = 1
  Faults = {"crash", "interrupt", "writefail", "signal", "timeout"}
  MaxFaults = 2
SYMMETRY Symmetry
INVARIANTS Exclusive OwnerKeepsFile
PROPERTIES ReclaimOnlyAbandoned NoOvertaking ImplementsRWLock
CHECK_DEADLOCK FALSE
