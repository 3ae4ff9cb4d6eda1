SPECIFICATION AllSpec
CONSTANTS
  Attempts = {a1, a2, a3}
  Limit = 2
  MaxLost = 1
  Guest = Guest
  Bodies = {b1}
  PayKeys = {k1}
  None = None
  Carts = {c1, c2}
  User = User
  Gone = Gone
  Tabs = {t1}
  Versions = {1, 2, 3}
  Schema <- Migrations
INVARIANTS
  RunsOnItsSchema
  Resumable
PROPERTIES
  ExpiredSessionIsReconciled
  NeverChecksForEver
  ExpiredDraftsPurged
CHECK_DEADLOCK FALSE
