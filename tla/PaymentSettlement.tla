-------------------------- MODULE PaymentSettlement --------------------------
(***************************************************************************)
(* What card payments promise, without saying how: a deal about the goods  *)
(* of a cart is offered, its goods are reserved, the card is charged, the  *)
(* deal is settled.  A deal is charged only while its goods are reserved,  *)
(* at most one deal holds goods for a cart, and only a deal that was never *)
(* charged is called off, with its goods back on the shelf.                *)
(* Payments implements this specification.                                 *)
(***************************************************************************)
EXTENDS Integers

CONSTANTS Deals, Carts, NoCart, Products, InitialStock, MaxAmount

VARIABLES
  deal,    \* state of each deal
  terms,   \* its cart and goods, fixed when it is offered
  shelf,   \* goods nobody holds
  sold     \* goods each cart bought for cash

vars == <<deal, terms, shelf, sold>>

Goods   == [Products -> 0..MaxAmount]
Nothing == [p \in Products |-> 0]
Holding == {"reserved", "charged", "settled"}

\* Nobody holds or bought goods for cart c.
Free(c) == /\ sold[c] = Nothing
           /\ \A e \in Deals : deal[e] \in Holding => terms[e].cart # c

OnShelf(goods) == \A p \in Products : goods[p] <= shelf[p]

Init ==
  /\ deal  = [d \in Deals |-> "idle"]
  /\ terms = [d \in Deals |-> [cart |-> NoCart, items |-> Nothing]]
  /\ shelf = InitialStock
  /\ sold  = [c \in Carts |-> Nothing]

Offer(d) ==
  /\ deal[d] = "idle"
  /\ deal' = [deal EXCEPT ![d] = "open"]
  /\ \E c \in Carts, goods \in Goods \ {Nothing} :
       terms' = [terms EXCEPT ![d] = [cart |-> c, items |-> goods]]
  /\ UNCHANGED <<shelf, sold>>

Reserve(d) ==
  /\ deal[d] = "open"
  /\ Free(terms[d].cart)
  /\ OnShelf(terms[d].items)
  /\ deal'  = [deal EXCEPT ![d] = "reserved"]
  /\ shelf' = [p \in Products |-> shelf[p] - terms[d].items[p]]
  /\ UNCHANGED <<terms, sold>>

Charge(d) ==
  /\ deal[d] = "reserved"
  /\ deal' = [deal EXCEPT ![d] = "charged"]
  /\ UNCHANGED <<terms, shelf, sold>>

Settle(d) ==
  /\ deal[d] = "charged"
  /\ deal' = [deal EXCEPT ![d] = "settled"]
  /\ UNCHANGED <<terms, shelf, sold>>

CallOff(d) ==
  /\ deal[d] \in {"open", "reserved"}
  /\ deal'  = [deal EXCEPT ![d] = "off"]
  /\ shelf' = IF deal[d] = "reserved"
                THEN [p \in Products |-> shelf[p] + terms[d].items[p]]
                ELSE shelf
  /\ UNCHANGED <<terms, sold>>

\* A cart is bought for cash on delivery.
SellForCash(c) ==
  \E goods \in Goods \ {Nothing} :
    /\ Free(c)
    /\ OnShelf(goods)
    /\ shelf' = [p \in Products |-> shelf[p] - goods[p]]
    /\ sold'  = [sold EXCEPT ![c] = goods]
    /\ UNCHANGED <<deal, terms>>

Next ==
  \/ \E d \in Deals : Offer(d) \/ Reserve(d) \/ Charge(d) \/ Settle(d) \/ CallOff(d)
  \/ \E c \in Carts : SellForCash(c)

Spec == Init /\ [][Next]_vars

-----------------------------------------------------------------------------
\* The goods of a cart are held by one deal at most, and by none once the cart
\* was bought for cash.
Exclusive ==
  \A d \in Deals : deal[d] \in Holding =>
    /\ sold[terms[d].cart] = Nothing
    /\ \A e \in Deals \ {d} : deal[e] \in Holding => terms[e].cart # terms[d].cart

=============================================================================
