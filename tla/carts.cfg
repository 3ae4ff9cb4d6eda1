SPECIFICATION ScenarioSpec
CONSTANTS
  c1 = c1
  c2 = c2
  u1 = u1
  u2 = u2
  t1 = t1
  t2 = t2
  p1 = p1
  p2 = p2
  Carts = {c1, c2}
  Users = {u1, u2}
  Tabs = {t1, t2}
  Products = {p1, p2}
  Guest = Guest
  Absent = Absent
  Gone = Gone
  None = None
  Limited = {p1}
  Payable = {c1, c2}
  MaxAmount = 2
  MaxItems = 1
  MaxAttempts = 1
SYMMETRY Symmetry
INVARIANTS
  OneCartPerAccount
  ReferredCartsKept
PROPERTIES
  MergeLosesNothing
  OrderedCartNotEdited
