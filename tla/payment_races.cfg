SPECIFICATION Spec
CONSTANTS
  a1 = a1
  a2 = a2
  c1 = c1
  c2 = c2
  u1 = u1
  p1 = p1
  Attempts = {a1}
  Users = {u1}
  Guest = Guest
  NotCreated = NotCreated
  NoCart = NoCart
  Carts = {c1}
  Products = {p1}
  DraftOwner <- OwnedByAccount
  InitialStock <- OneOfEach
  Limited = {p1}
  Subscribed = {"capturable", "succeeded", "canceled", "reported", "session_completed", "session_expired"}
  MaxAmount = 2
  MaxTasks = 2
INVARIANTS
  AllocationMatchesAttempt
  SettledAsProvided
PROPERTY OutcomeIsFinal
CHECK_DEADLOCK FALSE
