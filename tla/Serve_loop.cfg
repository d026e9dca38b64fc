SPECIFICATION ChatSpec
CONSTANTS
  Requests = {r1, r2, r3}
  Prober = r3
  OneLoop = TRUE
  Debounce = 2
  MaxFails = 1
  Calls <- AllCalls
  Added <- NoRules
  Reset = FALSE
  Options <- AllOptions
  MaxSignals = 2
INVARIANTS TypeOK CountIsInFlight BusyWhileServing SignalsWithinLock LockCoversBackend HeldUntilReady
PROPERTIES IdleIsDebounced SessionEnds QuietServiceIsIdle ImplementsCardWork
CHECK_DEADLOCK FALSE
