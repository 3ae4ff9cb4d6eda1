SPECIFICATION Spec
CONSTANTS
  Attempts = {a1, a2, a3}
  Limit = 2
  MaxLost = 2
PROPERTY ExpiredSessionIsReconciled
CHECK_DEADLOCK FALSE
