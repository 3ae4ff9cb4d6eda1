SPECIFICATION ShopSpec
CONSTANTS
  Users = {u1, u2}
  Carts = {c1, c2, c3}
  Products = {p1, p2}
  Keys = {k1, k2}
  Tabs = {t1, t2}
  Absent = Absent
  Nobody = Nobody
  InitialStock = 2
  MaxAmount = 1
  Spellings = {"mail", "typo"}
  Mailbox <- Typed
  MaxActive = 1
  MaxTracked = 1
  Minute = 1
  Hour = 4
  PerMinute = 1
  PerHour = 2
  ShelfProducts = {"product"}
  ShelfSlugs = {"slug"}
  ShelfImages = {}
  MaxStock = 1
  MaxWrites = 2
  MaxAssetStock = 0
  MaxAssetWrites = 1
  Purchases = {"purchase"}
  MaxPresses = 2
  WeightStep = 2
  MaxWeight = 4
  MaxQuantity = 6
  MaxSafe = 8
  MaxMoney = 12
  MaxPrice = 3
  MaxBasis = 4
  Shipping = 3
  Rate = 1
  Whole = 4
  Texts = {"text"}
  Photos = {}
  MaxForms = 2
CHECK_DEADLOCK FALSE
SYMMETRY Symmetry
INVARIANTS
  OrdersAsReviewed
  OrdersAnswered
  OrderedCartsClosed
  AdmittedWithinLimits
  FormIsTrue
  StockAccounted
  ImageKept
  EveryPressCounted
  QuotedAsShown
  SavedTogether
