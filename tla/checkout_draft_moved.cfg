SPECIFICATION FairSpec
CONSTANTS
  Bodies = {b1, b2}
  SaveKeys = {s1}
  PayKeys = {k1}
  None = None
  MaxPolls = 0
  MaxReloads = 1
  Switches = {}
CHECK_DEADLOCK FALSE
PROPERTIES
  DraftStillUnderPayment
