SPECIFICATION Spec
CONSTANTS
  Workers = {w1, w2}
  w1 = w1
  w2 = w2
  NoWorker = none
  Gone = gone
  Jobs = {r}
  r = r
  s = s
  User = u
  UserKinds = {"own"}
  Modes = {"stop"}
  MaxFailures = 2
  Events = {}
  MaxEvents = 0
PROPERTIES AlwaysResumes
CHECK_DEADLOCK FALSE
