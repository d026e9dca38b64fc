SPECIFICATION LoopSpec
CONSTANTS
  Workers = {w1, w2}
  w1 = w1
  w2 = w2
  NoWorker = none
  Gone = gone
  Jobs = {r, s}
  r = r
  s = s
  User = u
  UserKinds = {"own", "other"}
  Modes = {"stop", "park"}
  MaxFailures = 2
  Events = {"kill", "hangup", "die", "loadfails", "slowstart",
            "nomemory", "guardstop", "guardkill", "user", "tired"}
  MaxEvents = 1
INVARIANTS TypeOK EveryWorkerIsOwned OneWorker
PROPERTIES ReleaseClears WorkIsCleared StartupIsClean ResumesWhenIdle FillsServeIdle
CHECK_DEADLOCK FALSE
