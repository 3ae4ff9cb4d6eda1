----------------------------- MODULE CashOrders -----------------------------
(***************************************************************************)
(* Cash-on-delivery orders: OrdersController and OrdersService with the    *)
(* guard that finds the account's cart (apps/api/src/orders,               *)
(* apps/api/src/cart/cart-capability.guard.ts).                            *)
(*                                                                         *)
(* The guard runs before the transaction: it resolves the one cart of the  *)
(* account, and creates one if the account has none.  The transaction is   *)
(* SERIALIZABLE and locks the user, the cart and its products, so it is    *)
(* one action.  A browser whose answer was lost sends the request again.   *)
(***************************************************************************)
EXTENDS Integers, FiniteSets

CONSTANTS
  Users,         \* active accounts
  Carts,         \* identities Cart rows can get
  Products,
  Keys,          \* idempotency keys
  Tabs,          \* requests that can be in flight at once
  Absent,        \* the cart was not created yet
  Nobody,        \* userId of the cart is null
  InitialStock,  \* stockAmount of every product
  MaxAmount      \* bound: the amounts shoppers ask for

ASSUME OrdersAssumption ==
  /\ Absent \notin Users /\ Nobody \notin Users /\ Absent # Nobody
  /\ InitialStock \in Nat
  /\ MaxAmount \in Nat \ {0}

VARIABLES
  owner,    \* Cart.userId
  lines,    \* CartItem.amount, 0 without a row
  stock,    \* Product.stockAmount
  onSale,   \* products that are eligible, priced in EUR
  orders,   \* the Order rows with their items
  request   \* what each tab is doing

vars == <<owner, lines, stock, onSale, orders, request>>

-----------------------------------------------------------------------------
Items == [Products -> 0..MaxAmount]
NoItems == [p \in Products |-> 0]
Idle == [phase |-> "idle"]

Init ==
  /\ owner   = [c \in Carts |-> Absent]
  /\ lines   = [c \in Carts |-> NoItems]
  /\ stock   = [p \in Products |-> InitialStock]
  /\ onSale  = Products
  /\ orders  = {}
  /\ request = [t \in Tabs |-> Idle]

\* findIdempotentOrder, and the order of the cart that is not cancelled.
OrdersOf(u, k) == {o \in orders : o.user = u /\ o.key = k}
OrdersIn(c) == {o \in orders : o.cart = c}

\* CartCapabilityGuard: the account's cart, or a new one.
Resolves(u, c) ==
  \/ owner[c] = u /\ UNCHANGED owner
  \/ /\ u \notin {owner[d] : d \in Carts}
     /\ owner[c] = Absent
     /\ owner' = [owner EXCEPT ![c] = u]

-----------------------------------------------------------------------------
(* Requests                                                                *)

\* The guards let a request with an order pass; its items are what the shopper
\* reviewed, whatever the cart holds by now.
Send(t, u, c, k, items) ==
  /\ request[t] = Idle
  /\ items # NoItems
  /\ Resolves(u, c)
  /\ request' = [request EXCEPT ![t] =
       [phase |-> "sent", user |-> u, cart |-> c, key |-> k, items |-> items]]
  /\ UNCHANGED <<lines, stock, onSale, orders>>

\* A request with another amount for a line of the cart.
SendLine(t, u, c, p, n) ==
  /\ request[t] = Idle
  /\ Resolves(u, c)
  /\ request' = [request EXCEPT ![t] =
       [phase |-> "line", user |-> u, cart |-> c, product |-> p, amount |-> n]]
  /\ UNCHANGED <<lines, stock, onSale, orders>>

Answered(t, phase, o) ==
  request' = [request EXCEPT ![t] =
    [phase |-> phase, user |-> @.user, cart |-> @.cart, key |-> @.key,
     items |-> @.items, order |-> o]]

\* The order a request repeats: that of its key, else that of its cart.
Earlier(q) == IF OrdersOf(q.user, q.key) # {} THEN OrdersOf(q.user, q.key)
              ELSE OrdersIn(q.cart)

\* Mutant: sameOutcome compares nothing but the key.
SameKey(o, q) == o.user = q.user /\ o.key = q.key

\* sameOutcome: the hash of the account, the cart and what was asked for.
SameOutcome(o, q) == o.user = q.user /\ o.cart = q.cart /\ o.items = q.items

Replay(t) ==
  LET q == request[t] IN
  /\ q.phase = "sent"
  /\ \E o \in Earlier(q) :
       Answered(t, IF SameOutcome(o, q) THEN "answered" ELSE "conflict", o)
  /\ UNCHANGED <<owner, lines, stock, onSale, orders>>

\* Mutant: what the shopper reviewed may be a part of the cart.
AllocatesPart(q) ==
  \A p \in Products :
    /\ q.items[p] \in {0, lines[q.cart][p]}
    /\ lines[q.cart][p] > 0 => p \in onSale /\ lines[q.cart][p] <= stock[p]

\* allocationOutcomes and the guarded decrements: every line of the cart is
\* what the shopper reviewed, on sale and in stock.
Allocates(q) ==
  /\ q.items = lines[q.cart]
  /\ \A p \in Products : q.items[p] > 0 => p \in onSale /\ q.items[p] <= stock[p]

\* A request that repeats no order and whose cart nobody else took.
New(q) ==
  /\ q.phase = "sent" /\ Earlier(q) = {}
  /\ owner[q.cart] \in {q.user, Nobody}

\* Mutant: the cart stays the account's.
PlaceKeepingCart(t) ==
  LET q == request[t]
      o == [user |-> q.user, key |-> q.key, cart |-> q.cart, items |-> q.items,
            lines |-> lines[q.cart]]
  IN
  /\ New(q) /\ Allocates(q)
  /\ stock'  = [p \in Products |-> stock[p] - lines[q.cart][p]]
  /\ orders' = orders \cup {o}
  /\ lines'  = [lines EXCEPT ![q.cart] = NoItems]
  /\ Answered(t, "answered", o)
  /\ UNCHANGED <<owner, onSale>>

\* The order takes the stock, and the cart's lines; the cart is nobody's any more.
Place(t) ==
  LET q == request[t]
      o == [user |-> q.user, key |-> q.key, cart |-> q.cart, items |-> q.items,
            lines |-> lines[q.cart]]
  IN
  /\ New(q) /\ Allocates(q)
  /\ stock'  = [p \in Products |-> stock[p] - lines[q.cart][p]]
  /\ orders' = orders \cup {o}
  /\ lines'  = [lines EXCEPT ![q.cart] = NoItems]
  /\ owner'  = [owner EXCEPT ![q.cart] = Nobody]
  /\ Answered(t, "answered", o)
  /\ UNCHANGED onSale

\* allocationUnavailable: the transaction is rolled back with every decrement.
Refuse(t) ==
  /\ New(request[t]) /\ ~ Allocates(request[t])
  /\ request' = [request EXCEPT ![t] = Idle]
  /\ UNCHANGED <<owner, lines, stock, onSale, orders>>

\* The answer arrives or is lost; a request fails before its transaction commits
\* (the eighth serialization failure, a timeout, an account no longer active).
End(t) ==
  /\ request[t] # Idle
  /\ request' = [request EXCEPT ![t] = Idle]
  /\ UNCHANGED <<owner, lines, stock, onSale, orders>>

-----------------------------------------------------------------------------
(* The cart, and the catalogue                                             *)

\* CartService: a line of a cart that is still the account's and has no order.
Edit(t) ==
  LET q == request[t] IN
  /\ q.phase = "line"
  /\ owner[q.cart] = q.user /\ OrdersIn(q.cart) = {}
  /\ lines' = [lines EXCEPT ![q.cart][q.product] = q.amount]
  /\ request' = [request EXCEPT ![t] = Idle]
  /\ UNCHANGED <<owner, stock, onSale, orders>>

Withdraw(p) ==
  /\ onSale' = onSale \ {p}
  /\ p \in onSale
  /\ UNCHANGED <<owner, lines, stock, orders, request>>

-----------------------------------------------------------------------------
Step(t) ==
  \/ \E u \in Users, c \in Carts :
       \/ \E k \in Keys, i \in Items : Send(t, u, c, k, i)
       \/ \E p \in Products, n \in 0..MaxAmount : SendLine(t, u, c, p, n)
  \/ Replay(t)
  \/ Place(t)
  \/ Refuse(t)
  \/ End(t)
  \/ Edit(t)

Next ==
  \/ \E t \in Tabs : Step(t)
  \/ \E p \in Products : Withdraw(p)

Spec == Init /\ [][Next]_vars

-----------------------------------------------------------------------------
(* Properties                                                              *)

OrderRows == [user : Users, key : Keys, cart : Carts, items : Items, lines : Items]

\* The types.
TypeOK ==
  /\ owner \in [Carts -> Users \cup {Nobody, Absent}]
  /\ lines \in [Carts -> Items]
  /\ stock \in [Products -> 0..InitialStock]
  /\ onSale \subseteq Products
  /\ orders \subseteq OrderRows

\* A shopper gets what the review showed, all of it and nothing more, even when
\* another tab changes the cart meanwhile.
OrderedAsReviewed == \A o \in orders : o.lines = o.items

\* A key gives an account one order, however often and however late it is sent,
\* and an order returned to a request is the one that was placed for it: a
\* reused key never answers with an order of another account or of other goods.
AnsweredWithOwnOrder ==
  /\ \A u \in Users, k \in Keys : Cardinality(OrdersOf(u, k)) <= 1
  /\ \A t \in Tabs : request[t].phase = "answered" =>
       /\ request[t].order.user = request[t].user
       /\ request[t].order.items = request[t].items

\* A cart is ordered once and then closed: requests that found it before the
\* order neither fill it nor order it again, and the account goes on with
\* another one.
OrderedCartClosed ==
  \A c \in Carts : OrdersIn(c) # {} =>
    /\ Cardinality(OrdersIn(c)) = 1
    /\ lines[c] = NoItems
    /\ owner[c] = Nobody

=============================================================================
