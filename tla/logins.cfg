SPECIFICATION ScenarioSpec
CONSTANTS
  Ids = {s1, s2, s3}
  NoSession = NoSession
  Requests = {r1, r2}
  MaxActive = 2
  Idle = 2
  TouchAfter = 1
  Lifetimes = {2, 3}
  MaxClock = 3
  MaxLatency = 2
  PromptLifetime = 3
SYMMETRY Symmetry
CHECK_DEADLOCK FALSE
INVARIANTS
  NoFalseRefusal
  LiveCarriesRole
  AtMostMaxActivePrompt
PROPERTIES
  RevokedForGood
  SeenNeverGoesBack
