SPECIFICATION AllSpec
CONSTANTS
  Bodies = {b1, b2}
  SaveKeys = {s1}
  PayKeys = {k1, k2}
  None = None
  MaxPolls = 1
  MaxReloads = 2
  Switches = {TRUE, FALSE}
  Products = {p1, p2}
  DraftCarts = {c1}
  Tabs = {t1, t2}
  User = User
  Guest = Guest
  Gone = Gone
  MaxAmount = 2
  MaxCalls = 4
  Lifetime = 2
  BatchSize = 1
  MaxClock = 3
  MaxLatency = 1
SYMMETRY Symmetry
CHECK_DEADLOCK FALSE
INVARIANTS
  OneLiveAttempt
  SuccessIsReal
  CapabilityRecoverable
  ShownIsCurrent
  LastUpdateWins
PROPERTIES
  RetryNeverOverwrites
