SPECIFICATION Spec
CONSTANTS
  a1 = a1
  a2 = a2
  c1 = c1
  c2 = c2
  u1 = u1
  p1 = p1
  Attempts = {a1, a2}
  Users = {u1}
  Guest = Guest
  NotCreated = NotCreated
  NoCart = NoCart
  Carts = {c1, c2}
  Products = {p1}
  DraftOwner <- AllOwnedByAccount
  InitialStock <- TwoOfEach
  Limited = {}
  Subscribed = {"capturable", "succeeded", "canceled", "session_expired"}
  MaxAmount = 1
  MaxTasks = 1
SYMMETRY AttemptSymmetry
INVARIANTS
  OneDiscountPerAccount
  ChargedOncePerCart
PROPERTY ImplementsSettlement
CHECK_DEADLOCK FALSE
