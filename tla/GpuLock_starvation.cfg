SPECIFICATION OneWriterSpec
CONSTANTS
  p1 = p1
  p2 = p2
  p3 = p3
  Procs = {p1, p2, p3}
  Gpus = {0}
  NoProc = NoProc
  SkipIdleCheck = FALSE
  IdleStreak = 2
  Faults = {}
  MaxFaults = 0
PROPERTIES WriterIsServed
CHECK_DEADLOCK FALSE
