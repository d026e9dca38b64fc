SPECIFICATION FairSpec
CONSTANTS
  Gpus = {0, 1}
  Configs = {{0}, {1}}
  Daemons = {1, 2}
  Slots = {1, 2}
  NoDaemon = 0
  NoWorker = NoWorker
  Events = {"bootdeath", "crash", "noboot", "slowstop", "orphan", "slowguard", "guardkill", "killstart"}
  MaxEvents = 2
  Alone = {"crash"}
INVARIANTS TypeOK OneService Reachable StopLeavesNothing
PROPERTIES RestartApplies UpdateKeepsService ServiceFills
