SPECIFICATION Spec
CONSTANTS
  Requests = {r1}
  Prober = r1
  OneLoop = TRUE
  Debounce = 1
  MaxFails = 0
  Calls <- ProbeCall
  Added <- ProbeRule
  Reset = FALSE
  Options <- Default
  MaxSignals = 0
INVARIANT ConfiguredProbesStayQuiet
CHECK_DEADLOCK FALSE
