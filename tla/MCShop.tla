------------------------------- MODULE MCShop -------------------------------
(***************************************************************************)
(* CashOrders for TLC, and five parts of the shop that are checked alone:  *)
(* access, the administration of products, likes, prices and the account   *)
(* page.  An initial state picks the subject.  Only one part moves in a    *)
(* behaviour, so the parts take turns with the variables of CashOrders,    *)
(* and with its sets, so that one symmetry serves them all; a state of     *)
(* another subject has nothing else in common with an order.               *)
(***************************************************************************)
EXTENDS CashOrders, TLC

CONSTANTS
  Spellings, Mailbox, MaxActive,                      \* Access
  MaxTracked, Minute, Hour, PerMinute, PerHour,       \* Access, for its limiters
  ShelfProducts, ShelfSlugs, ShelfImages,             \* ProductAdmin, for its stock
  MaxStock, MaxWrites,
  MaxAssetStock, MaxAssetWrites,                      \* ProductAdmin, for its images
  Purchases, MaxPresses,                              \* Likes
  WeightStep, MaxWeight, MaxQuantity, MaxSafe,        \* Pricing
  MaxMoney, MaxPrice, MaxBasis, Shipping, Rate, Whole,
  Texts, Photos, MaxForms                             \* Profiles

VARIABLES subject, extra

shopVars == <<vars, subject, extra>>

\* Two spellings, one of which is no address.
Typed == [s \in {"mail", "typo"} |-> IF s = "mail" THEN "inbox" ELSE Nobody]

\* Logins from several addresses.
Limits == INSTANCE Access WITH
  Passwords <- {Nobody}, Addresses <- Users, Tabs <- {"form"},
  None <- Nobody,
  attempts <- owner, admitted <- lines, users <- stock, active <- onSale,
  requests <- request, form <- orders

LimitsWithin ==
  LET q == request["form"] IN
  /\ q = Idle \/ q.kind = "login"
  /\ orders["form"].status \notin {"invalid", "signedIn"}

\* Two passwords typed into two forms, without limits.
Accounts == INSTANCE Access WITH
  Passwords <- Keys, Addresses <- {Nobody},
  None <- Nobody, MaxTracked <- 1, Minute <- 0, Hour <- 0, PerMinute <- 1, PerHour <- 1,
  attempts <- owner, admitted <- lines, users <- stock, active <- onSale,
  requests <- request, form <- orders

AccountsWithin ==
  \A t \in Tabs : request[t] = Idle \/ request[t].spelling = "mail" \/ request[t].kind = "register"

\* The stock of a product that two editors save while it is sold.
Shelf == INSTANCE ProductAdmin WITH
  Products <- ShelfProducts, Slugs <- ShelfSlugs, Images <- ShelfImages, Editors <- Tabs,
  None <- Nobody,
  rows <- lines, files <- stock, used <- onSale, doubtful <- orders, due <- owner,
  editor <- extra

\* Two products, two images, two editors.
Assets == INSTANCE ProductAdmin WITH
  Slugs <- Keys, Images <- Users, Editors <- Tabs,
  None <- Nobody, MaxStock <- MaxAssetStock, MaxWrites <- MaxAssetWrites,
  rows <- lines, files <- stock, used <- onSale, doubtful <- orders, due <- owner,
  editor <- extra

\* Two pages that press for one purchase.
Hearts == INSTANCE Likes WITH
  Pages <- Tabs, Requests <- Keys,
  rows <- lines, eligible <- onSale, pressed <- stock, requests <- request, page <- orders

\* Every product of a scaled-down catalogue.
Prices == INSTANCE Pricing WITH
  MaxAmount <- MaxQuantity,
  rules <- lines, amount <- stock, others <- onSale, page <- orders

\* Two tabs save names and addresses; one tab saves a photo.
Names == INSTANCE Profiles WITH
  Requests <- Keys, None <- Nobody,
  rows <- lines, active <- stock, kept <- onSale, requests <- request, page <- orders

Portrait == INSTANCE Profiles WITH
  Texts <- {}, Photos <- {"photo"}, Tabs <- {"form"}, Requests <- Keys, None <- Nobody,
  MaxForms <- 1,
  rows <- lines, active <- stock, kept <- onSale, requests <- request, page <- orders

\* Finitely many requests run at once, Nobody is also no password, no product and no
\* row of a product, an hour is longer than a minute, the bounds of amounts are
\* ordered, and a discount is a part of what it reduces.
ASSUME ShopAssumption ==
  /\ IsFiniteSet(Tabs) /\ IsFiniteSet(Keys)
  /\ Nobody \notin Keys \cup Products \cup ShelfProducts
  /\ Nobody \notin [slug : ShelfSlugs, image : ShelfImages \cup {Nobody}, stock : Int,
                    updatedAt : Int]
  /\ Nobody \notin [slug : Keys, image : Users \cup {Nobody}, stock : Int, updatedAt : Int]
  /\ Hour \in Nat \ {0} /\ Minute \in 0..Hour /\ {PerMinute, PerHour} \subseteq Nat
  /\ WeightStep \in Nat \ {0} /\ {MaxWeight, MaxQuantity, MaxSafe, MaxMoney, Shipping} \subseteq Nat
  /\ MaxWeight <= MaxQuantity /\ MaxQuantity <= MaxSafe
  /\ Whole \in Nat \ {0} /\ Rate \in 0..Whole

-----------------------------------------------------------------------------
ShopInit ==
  \/ subject = "orders"   /\ Init          /\ extra = Nobody
  \/ subject = "limits"   /\ Limits!Init   /\ extra = Nobody
  \/ subject = "accounts" /\ Accounts!Init /\ extra = Nobody
  \/ subject = "shelf"    /\ Shelf!Init
  \/ subject = "assets"   /\ Assets!Init
  \/ subject = "likes"    /\ Hearts!Init   /\ owner = Nobody /\ extra = Nobody
  \/ subject = "prices"   /\ Prices!Init   /\ owner = Nobody /\ extra = Nobody /\ request = Nobody
  \/ subject = "names"    /\ Names!Init    /\ owner = Nobody /\ extra = Nobody
  \/ subject = "portrait" /\ Portrait!Init /\ owner = Nobody /\ extra = Nobody

ShopNext ==
  /\ UNCHANGED subject
  /\ \/ subject = "orders"   /\ Next          /\ UNCHANGED extra
     \/ subject = "limits"   /\ Limits!Next   /\ UNCHANGED extra /\ LimitsWithin'
     \/ subject = "accounts" /\ Accounts!Next /\ UNCHANGED extra /\ AccountsWithin'
     \/ subject = "shelf"    /\ Shelf!Next
     \/ subject = "assets"   /\ Assets!Next
     \/ subject = "likes"    /\ Hearts!Next   /\ UNCHANGED <<owner, extra>>
     \/ subject = "prices"   /\ Prices!Next   /\ UNCHANGED <<owner, request, extra>>
     \/ subject = "names"    /\ Names!Next    /\ UNCHANGED <<owner, extra>>
     \/ subject = "portrait" /\ Portrait!Next /\ UNCHANGED <<owner, extra>>

ShopSpec == ShopInit /\ [][ShopNext]_shopVars

-----------------------------------------------------------------------------
\* See CashOrders, Access, ProductAdmin, Likes, Pricing and Profiles.
OrdersAsReviewed     == subject = "orders" => OrderedAsReviewed
OrdersAnswered       == subject = "orders" => AnsweredWithOwnOrder
OrderedCartsClosed   == subject = "orders" => OrderedCartClosed
AdmittedWithinLimits == subject = "limits" => Limits!AdmittedWithinLimits
FormIsTrue           == subject = "accounts" => Accounts!FormIsTrue
StockAccounted       == subject = "shelf" => Shelf!StockAccounted
ImageKept            == subject = "assets" => Assets!ImageKept
EveryPressCounted    == subject = "likes" => Hearts!EveryPressCounted
QuotedAsShown        == subject = "prices" => Prices!QuotedAsShown
SavedTogether        == subject = "names" => Names!SavedTogether

Symmetry == Permutations(Users) \cup Permutations(Carts) \cup Permutations(Products)
              \cup Permutations(Keys) \cup Permutations(Tabs)
=============================================================================
