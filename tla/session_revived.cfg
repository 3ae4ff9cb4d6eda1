SPECIFICATION Spec
CONSTANTS
  Ids = {s1, s2}
  NoSession = NoSession
  Requests = {r1, r2}
  MaxActive = 2
  Idle = 2
  TouchAfter = 1
  Lifetimes = {3}
  MaxClock = 3
  MaxLatency = 1
CHECK_DEADLOCK FALSE
PROPERTIES
  NeverResurrects
