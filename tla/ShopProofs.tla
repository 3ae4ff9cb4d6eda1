----------------------------- MODULE ShopProofs -----------------------------
(***************************************************************************)
(* Theorems about CashOrders and about the parts of the shop that MCShop   *)
(* checks with it, for every value of the constants.                       *)
(***************************************************************************)
EXTENDS MCShop, FiniteSetTheorems, TLAPS

SentRequests == [phase : {"sent"}, user : Users, cart : Carts, key : Keys, items : Items]
LineRequests == [phase : {"line"}, user : Users, cart : Carts, product : Products,
                 amount : 0..MaxAmount]
AnsweredRequests == [phase : {"answered", "conflict"}, user : Users, cart : Carts,
                     key : Keys, items : Items, order : OrderRows]

Requests == {Idle} \cup SentRequests \cup LineRequests \cup AnsweredRequests

\* Two orders differ in their cart, and in their account or their key.
Unrepeated ==
  \A o, r \in orders : o.cart = r.cart \/ (o.user = r.user /\ o.key = r.key) => o = r

\* The cart of an order is empty and nobody's.
Closed == \A o \in orders : lines[o.cart] = NoItems /\ owner[o.cart] = Nobody

OwnAnswer(q) ==
  q.phase = "answered" => q.order.user = q.user /\ q.order.items = q.items

\* The inductive invariant.
IInv ==
  /\ TypeOK
  /\ request \in [Tabs -> Requests]
  /\ OrderedAsReviewed
  /\ Unrepeated
  /\ Closed
  /\ \A t \in Tabs : OwnAnswer(request[t])

LEMMA InitInv == Init => IInv
BY OrdersAssumption DEF Init, IInv, TypeOK, Items, NoItems, Requests, OrderedAsReviewed, Unrepeated,
   Closed, OwnAnswer, Idle

\* The phase of a request says what it carries.
LEMMA RequestType ==
  ASSUME IInv, NEW t \in Tabs
  PROVE  /\ request[t].phase = "sent" => request[t] \in SentRequests
         /\ request[t].phase = "line" => request[t] \in LineRequests
BY DEF IInv, Requests, Idle, SentRequests, LineRequests, AnsweredRequests

\* A step that ends a request or sends one, and leaves orders and lines alone.
LEMMA RequestKeeps ==
  ASSUME IInv, NEW t \in Tabs, NEW q \in Requests, OwnAnswer(q),
         request' = [request EXCEPT ![t] = q],
         UNCHANGED <<lines, stock, onSale, orders>>,
         owner' \in [Carts -> Users \cup {Nobody, Absent}],
         \A c \in Carts : owner[c] = Nobody => owner'[c] = Nobody
  PROVE  IInv'
<1>1. TypeOK' /\ Closed'
  BY DEF IInv, TypeOK, Closed, OrderRows
<1> QED BY <1>1 DEF IInv, OrderedAsReviewed, Unrepeated, OwnAnswer

LEMMA ResolvesType ==
  ASSUME IInv, NEW u \in Users, NEW c \in Carts, Resolves(u, c)
  PROVE  /\ owner' \in [Carts -> Users \cup {Nobody, Absent}]
         /\ \A d \in Carts : owner[d] = Nobody => owner'[d] = Nobody
BY OrdersAssumption DEF IInv, TypeOK, Resolves

LEMMA SendKeeps ==
  ASSUME IInv, NEW t \in Tabs, NEW u \in Users, NEW c \in Carts, NEW k \in Keys,
         NEW items \in Items, Send(t, u, c, k, items)
  PROVE  IInv'
<1>1. PICK q : q = [phase |-> "sent", user |-> u, cart |-> c, key |-> k, items |-> items]
  OBVIOUS
<1>2. q \in Requests /\ OwnAnswer(q)
  <2>1. q \in SentRequests
    BY <1>1 DEF SentRequests
  <2> QED BY <1>1, <2>1 DEF Requests, OwnAnswer
<1>3. /\ owner' \in [Carts -> Users \cup {Nobody, Absent}]
      /\ \A d \in Carts : owner[d] = Nobody => owner'[d] = Nobody
  BY ResolvesType DEF Send
<1>4. request' = [request EXCEPT ![t] = q] /\ UNCHANGED <<lines, stock, onSale, orders>>
  BY <1>1 DEF Send
<1> QED BY <1>2, <1>3, <1>4, RequestKeeps

LEMMA SendLineKeeps ==
  ASSUME IInv, NEW t \in Tabs, NEW u \in Users, NEW c \in Carts, NEW p \in Products,
         NEW n \in 0..MaxAmount, SendLine(t, u, c, p, n)
  PROVE  IInv'
<1>1. PICK q : q = [phase |-> "line", user |-> u, cart |-> c, product |-> p, amount |-> n]
  OBVIOUS
<1>2. q \in Requests /\ OwnAnswer(q)
  <2>1. q \in LineRequests
    BY <1>1 DEF LineRequests
  <2> QED BY <1>1, <2>1 DEF Requests, OwnAnswer
<1>3. /\ owner' \in [Carts -> Users \cup {Nobody, Absent}]
      /\ \A d \in Carts : owner[d] = Nobody => owner'[d] = Nobody
  BY ResolvesType DEF SendLine
<1>4. request' = [request EXCEPT ![t] = q] /\ UNCHANGED <<lines, stock, onSale, orders>>
  BY <1>1 DEF SendLine
<1> QED BY <1>2, <1>3, <1>4, RequestKeeps

LEMMA ReplayKeeps ==
  ASSUME IInv, NEW t \in Tabs, Replay(t)
  PROVE  IInv'
<1>1. request[t] \in SentRequests
  BY RequestType DEF Replay
<1>2. PICK o \in orders :
        Answered(t, IF SameOutcome(o, request[t]) THEN "answered" ELSE "conflict", o)
  BY DEF Replay, Earlier, OrdersOf, OrdersIn
<1>3. o \in OrderRows
  BY DEF IInv, TypeOK
<1>4. PICK q : q = [phase |-> IF SameOutcome(o, request[t]) THEN "answered" ELSE "conflict",
                    user |-> request[t].user, cart |-> request[t].cart,
                    key |-> request[t].key, items |-> request[t].items, order |-> o]
  OBVIOUS
<1>5. q \in Requests
  BY <1>1, <1>3, <1>4 DEF Requests, SentRequests, AnsweredRequests
<1>6. OwnAnswer(q)
  BY <1>4 DEF OwnAnswer, SameOutcome
<1>7. request' = [request EXCEPT ![t] = q]
  BY <1>2, <1>4 DEF IInv, Answered
<1> QED BY <1>5, <1>6, <1>7, RequestKeeps DEF IInv, TypeOK, Replay

\* The request ends and nothing else happens.
LEMMA EndKeeps ==
  ASSUME IInv, NEW t \in Tabs, Refuse(t) \/ End(t)
  PROVE  IInv'
<1>1. Idle \in Requests /\ OwnAnswer(Idle)
  BY DEF Requests, OwnAnswer, Idle
<1> QED BY <1>1, RequestKeeps DEF IInv, TypeOK, Refuse, End

\* The order that is placed is the only one of its cart and of its key, and the
\* cart is closed with it.
LEMMA PlaceKeeps ==
  ASSUME IInv, NEW t \in Tabs, Place(t)
  PROVE  IInv'
<1>1. PICK q \in SentRequests : q = request[t]
  BY RequestType DEF Place, New
<1>2. /\ q.user \in Users /\ q.cart \in Carts /\ q.key \in Keys /\ q.items \in Items
      /\ lines[q.cart] = q.items
      /\ \A p \in Products : q.items[p] > 0 => q.items[p] <= stock[p]
  BY <1>1 DEF Place, Allocates, SentRequests
<1>3. PICK o \in OrderRows :
        o = [user |-> q.user, key |-> q.key, cart |-> q.cart, items |-> q.items,
             lines |-> lines[q.cart]]
  BY <1>2 DEF OrderRows
<1>4. /\ orders' = orders \cup {o}
      /\ lines' = [lines EXCEPT ![q.cart] = NoItems]
      /\ owner' = [owner EXCEPT ![q.cart] = Nobody]
      /\ onSale' = onSale
      /\ stock' = [p \in Products |-> stock[p] - lines[q.cart][p]]
      /\ Answered(t, "answered", o)
  BY <1>1, <1>3 DEF Place
<1>5. \A r \in orders : r.cart # q.cart /\ ~ (r.user = q.user /\ r.key = q.key)
  BY <1>1 DEF Place, New, Earlier, OrdersOf, OrdersIn
<1>6. TypeOK'
  <2>1. stock' \in [Products -> 0..InitialStock]
    <3> SUFFICES ASSUME NEW p \in Products PROVE stock[p] - lines[q.cart][p] \in 0..InitialStock
      BY <1>4
    <3>1. q.items[p] \in 0..MaxAmount /\ stock[p] \in 0..InitialStock
      BY <1>2 DEF IInv, TypeOK, Items
    <3> QED BY <1>2, <3>1, OrdersAssumption
  <2>2. lines' \in [Carts -> Items]
    BY <1>2, <1>4, OrdersAssumption DEF IInv, TypeOK, Items, NoItems
  <2>3. owner' \in [Carts -> Users \cup {Nobody, Absent}]
    BY <1>2, <1>4 DEF IInv, TypeOK
  <2> QED BY <1>3, <1>4, <2>1, <2>2, <2>3 DEF IInv, TypeOK
<1>7. PICK r : r = [phase |-> "answered", user |-> q.user, cart |-> q.cart, key |-> q.key,
                    items |-> q.items, order |-> o]
  OBVIOUS
<1>8. r \in Requests /\ OwnAnswer(r)
  BY <1>2, <1>3, <1>7 DEF Requests, AnsweredRequests, OwnAnswer
<1>9. request' = [request EXCEPT ![t] = r]
  BY <1>1, <1>4, <1>7 DEF IInv, Answered
<1>10. request' \in [Tabs -> Requests] /\ \A s \in Tabs : OwnAnswer(request'[s])
  BY <1>8, <1>9 DEF IInv
<1>11. OrderedAsReviewed'
  BY <1>2, <1>3, <1>4 DEF IInv, OrderedAsReviewed
<1>12. Unrepeated'
  BY <1>3, <1>4, <1>5 DEF IInv, Unrepeated
<1>13. Closed'
  <2>1. o.cart = q.cart
    BY <1>3
  <2>2. \A s \in orders : s.cart \in Carts
    BY DEF IInv, TypeOK, OrderRows
  <2> QED BY <1>2, <1>4, <2>1, <2>2 DEF IInv, TypeOK, Closed
<1> QED BY <1>6, <1>10, <1>11, <1>12, <1>13 DEF IInv, OwnAnswer

LEMMA EditKeeps ==
  ASSUME IInv, NEW t \in Tabs, Edit(t)
  PROVE  IInv'
<1>1. PICK q \in LineRequests : q = request[t]
  BY RequestType DEF Edit
<1>2. /\ q.cart \in Carts /\ q.product \in Products /\ q.amount \in 0..MaxAmount
      /\ OrdersIn(q.cart) = {}
      /\ lines' = [lines EXCEPT ![q.cart][q.product] = q.amount]
      /\ UNCHANGED <<owner, stock, onSale, orders>>
  BY <1>1 DEF Edit, LineRequests
<1>3. lines' \in [Carts -> Items]
  <2>1. [lines[q.cart] EXCEPT ![q.product] = q.amount] \in Items
    BY <1>2 DEF IInv, TypeOK, Items
  <2> QED BY <1>2, <2>1 DEF IInv, TypeOK
<1>4. Closed'
  BY <1>2 DEF IInv, TypeOK, Closed, OrdersIn
<1>5. request' \in [Tabs -> Requests] /\ \A s \in Tabs : OwnAnswer(request'[s])
  BY DEF IInv, Edit, Requests, OwnAnswer, Idle
<1> QED BY <1>2, <1>3, <1>4, <1>5 DEF IInv, TypeOK, OrderedAsReviewed, Unrepeated, OwnAnswer

LEMMA StepKeeps == IInv /\ [Next]_vars => IInv'
<1> SUFFICES ASSUME IInv, [Next]_vars PROVE IInv'
  OBVIOUS
<1>1. CASE UNCHANGED vars
  BY <1>1 DEF IInv, TypeOK, OrderedAsReviewed, Unrepeated, Closed, OwnAnswer, vars
<1>2. ASSUME NEW p \in Products, Withdraw(p) PROVE IInv'
  BY <1>2 DEF IInv, TypeOK, OrderedAsReviewed, Unrepeated, Closed, OwnAnswer, Withdraw
<1>3. ASSUME NEW t \in Tabs, Step(t) PROVE IInv'
  <2>1. ASSUME NEW u \in Users, NEW c \in Carts, NEW k \in Keys, NEW items \in Items,
               Send(t, u, c, k, items)
        PROVE IInv'
    BY <2>1, SendKeeps
  <2>2. ASSUME NEW u \in Users, NEW c \in Carts, NEW p \in Products, NEW n \in 0..MaxAmount,
               SendLine(t, u, c, p, n)
        PROVE IInv'
    BY <2>2, SendLineKeeps
  <2>3. CASE Replay(t)
    BY <2>3, ReplayKeeps
  <2>4. CASE Place(t)
    BY <2>4, PlaceKeeps
  <2>5. CASE Refuse(t) \/ End(t)
    BY <2>5, EndKeeps
  <2>6. CASE Edit(t)
    BY <2>6, EditKeeps
  <2> QED BY <1>3, <2>1, <2>2, <2>3, <2>4, <2>5, <2>6 DEF Step
<1> QED BY <1>1, <1>2, <1>3 DEF Next

\* Sets of orders in which no two differ have one element at most.
LEMMA AtMostOne ==
  ASSUME NEW S, \A o, r \in S : o = r
  PROVE  /\ Cardinality(S) <= 1
         /\ S # {} => Cardinality(S) = 1
<1>1. CASE S = {}
  BY <1>1, FS_EmptySet
<1>2. ASSUME NEW o \in S PROVE Cardinality(S) = 1
  <2>1. S = {o}
    BY <1>2
  <2> QED BY <2>1, FS_Singleton
<1> QED BY <1>1, <1>2

LEMMA AnswersHold == ASSUME IInv PROVE AnsweredWithOwnOrder
<1>1. ASSUME NEW u \in Users, NEW k \in Keys PROVE Cardinality(OrdersOf(u, k)) <= 1
  BY AtMostOne DEF IInv, Unrepeated, OrdersOf
<1> QED BY <1>1 DEF IInv, OwnAnswer, AnsweredWithOwnOrder

LEMMA ClosedHolds == ASSUME IInv PROVE OrderedCartClosed
<1> SUFFICES ASSUME NEW c \in Carts, OrdersIn(c) # {}
             PROVE  Cardinality(OrdersIn(c)) = 1 /\ lines[c] = NoItems /\ owner[c] = Nobody
  BY DEF OrderedCartClosed
<1>1. Cardinality(OrdersIn(c)) = 1
  BY AtMostOne DEF IInv, Unrepeated, OrdersIn
<1> QED BY <1>1 DEF IInv, Closed, OrdersIn

\* The types, and that no order takes more than the stock.
THEOREM TypeCorrect == Spec => []TypeOK
<1>1. IInv => TypeOK
  BY DEF IInv
<1> QED BY <1>1, InitInv, StepKeeps, PTL DEF Spec

\* In MCShop the orders have the variables for themselves while they are the subject.
LEMMA OrdersInv == ShopSpec => [](subject = "orders" => IInv)
<1>1. ShopInit => (subject = "orders" => IInv)
  BY InitInv DEF ShopInit
<1>2. (subject = "orders" => IInv) /\ [ShopNext]_shopVars => (subject = "orders" => IInv)'
  BY StepKeeps DEF ShopNext, shopVars
<1> QED BY <1>1, <1>2, PTL DEF ShopSpec

\* Every order is what its shopper reviewed.
THEOREM Reviewed == ShopSpec => []OrdersAsReviewed
<1>1. (subject = "orders" => IInv) => OrdersAsReviewed
  BY DEF IInv, OrdersAsReviewed
<1> QED BY <1>1, OrdersInv, PTL

\* One order of a key, and every answer is the order that was asked for.
THEOREM Answers == ShopSpec => []OrdersAnswered
<1>1. (subject = "orders" => IInv) => OrdersAnswered
  BY AnswersHold DEF OrdersAnswered
<1> QED BY <1>1, OrdersInv, PTL

\* One order of a cart, which is then empty and nobody's.
THEOREM CartsClosed == ShopSpec => []OrderedCartsClosed
<1>1. (subject = "orders" => IInv) => OrderedCartsClosed
  BY ClosedHolds DEF OrderedCartsClosed
<1> QED BY <1>1, OrdersInv, PTL

-----------------------------------------------------------------------------
(* The account page: the theorem of ProfilesProofs, for the part of MCShop.*)

Saving == INSTANCE ProfilesProofs WITH
  Requests <- Keys, None <- Nobody,
  rows <- lines, active <- stock, kept <- onSale, requests <- request, page <- orders

\* The name and the address that are stored were sent together.
THEOREM ProfilesSavedTogether == Saving!Spec => []SavedTogether
<1>1. Saving!SavedTogether => SavedTogether
  BY DEF Saving!SavedTogether, SavedTogether, Names!SavedTogether
<1> QED BY <1>1, Saving!SavesStayWhole, PTL

-----------------------------------------------------------------------------
(* Registration and login.                                                 *)

WaitingAttempts == [phase : {"sent", "admitted", "queued"}, kind : {"register", "login"},
                    spelling : Spellings, password : Keys, address : {Nobody}]
FoundAttempts == [phase : {"hashing", "storing"}, kind : {"register", "login"},
                  spelling : Spellings, password : Keys, address : {Nobody},
                  found : Keys \cup {Nobody}]
Attempts == {Accounts!Idle} \cup WaitingAttempts \cup FoundAttempts

Refusals == [status : {"idle", "pending", "invalid", "unavailable"}]
Successes == [status : {"accepted", "signedIn"}, spelling : Spellings, password : Keys]

Hashing == {t \in Tabs : request[t].phase = "hashing"}

\* A registration that is past its validation has an address, and a login that is
\* past the query holds the password that was stored, if one was.
Informed(q) ==
  /\ q.phase \in {"queued", "hashing", "storing"} /\ q.kind = "register" =>
       Mailbox[q.spelling] # Nobody
  /\ q.phase \in {"hashing", "storing"} /\ q.kind = "login" /\ q.found # Nobody =>
       Mailbox[q.spelling] # Nobody /\ stock[Mailbox[q.spelling]] = q.found
  /\ q.phase = "storing" /\ q.kind = "login" => q.found = q.password

FormOK(f) ==
  /\ f.status = "accepted" =>
       Mailbox[f.spelling] # Nobody /\ stock[Mailbox[f.spelling]] # Nobody
  /\ f.status = "signedIn" =>
       Mailbox[f.spelling] # Nobody /\ stock[Mailbox[f.spelling]] = f.password

\* The inductive invariant of the forms.
FormsInv ==
  /\ stock \in [Accounts!Mailboxes -> Keys \cup {Nobody}]
  /\ request \in [Tabs -> Attempts]
  /\ orders \in [Tabs -> Refusals \cup Successes]
  /\ \A t \in Tabs : Informed(request[t]) /\ FormOK(orders[t])
  /\ onSale = Cardinality(Hashing)

LEMMA FormsInit == Accounts!Init => FormsInv
<1> SUFFICES ASSUME Accounts!Init PROVE FormsInv
  OBVIOUS
<1>1. Hashing = {}
  BY DEF Accounts!Init, Accounts!Idle, Hashing
<1>2. \A t \in Tabs : Informed(request[t]) /\ FormOK(orders[t])
  BY DEF Accounts!Init, Accounts!Idle, Informed, FormOK
<1> QED BY <1>1, <1>2, FS_EmptySet
     DEF Accounts!Init, Accounts!Idle, FormsInv, Attempts, Refusals

\* A step that changes one request and one form, and keeps the accounts there are.
LEMMA FormsKeep ==
  ASSUME FormsInv, NEW t \in Tabs, NEW q \in Attempts, NEW f \in Refusals \cup Successes,
         request' = [request EXCEPT ![t] = q], orders' = [orders EXCEPT ![t] = f],
         stock' \in [Accounts!Mailboxes -> Keys \cup {Nobody}],
         \A m \in Accounts!Mailboxes : stock[m] # Nobody => stock'[m] = stock[m],
         Informed(q)', FormOK(f)',
         onSale' = IF q.phase = "hashing"
                   THEN IF request[t].phase = "hashing" THEN onSale ELSE onSale + 1
                   ELSE IF request[t].phase = "hashing" THEN onSale - 1 ELSE onSale
  PROVE  FormsInv'
<1>1. \A u \in Tabs \ {t} : request'[u] = request[u] /\ orders'[u] = orders[u]
  BY DEF FormsInv
<1>2. request'[t] = q /\ orders'[t] = f
  BY DEF FormsInv
<1>3. ASSUME NEW s \in Spellings, Mailbox[s] # Nobody PROVE Mailbox[s] \in Accounts!Mailboxes
  BY <1>3 DEF Accounts!Mailboxes
<1>4. ASSUME NEW u \in Tabs PROVE Informed(request[u])' /\ FormOK(orders[u])'
  <2>1. CASE u = t
    BY <2>1, <1>2 DEF Informed, FormOK
  <2>2. CASE u # t
    <3>1. request[u] \in Attempts /\ orders[u] \in Refusals \cup Successes
      BY DEF FormsInv
    <3>2. Informed(request[u])'
      BY <1>1, <1>3, <2>2, <3>1 DEF FormsInv, Informed, Attempts, WaitingAttempts, FoundAttempts,
         Accounts!Idle
    <3>3. FormOK(orders[u])'
      BY <1>1, <1>3, <2>2, <3>1, ShopAssumption DEF FormsInv, FormOK, Refusals, Successes
    <3> QED BY <3>2, <3>3
  <2> QED BY <2>1, <2>2
<1>5. IsFiniteSet(Hashing)
  BY FS_Subset, ShopAssumption DEF Hashing
<1>6. Hashing' = IF q.phase = "hashing" THEN Hashing \cup {t} ELSE Hashing \ {t}
  BY <1>1, <1>2 DEF Hashing
<1>7. t \in Hashing <=> request[t].phase = "hashing"
  BY DEF Hashing
<1>8. Cardinality(Hashing') = onSale'
  <2>1. onSale = Cardinality(Hashing) /\ Cardinality(Hashing) \in Nat
    BY <1>5, FS_CardinalityType DEF FormsInv
  <2>2. CASE q.phase = "hashing"
    BY <1>5, <1>6, <1>7, <2>1, <2>2, FS_AddElement
  <2>3. CASE q.phase # "hashing"
    BY <1>5, <1>6, <1>7, <2>1, <2>3, FS_RemoveElement
  <2> QED BY <2>2, <2>3
<1> QED BY <1>2, <1>4, <1>8 DEF FormsInv

\* A request that is answered, or goes on, and leaves the accounts alone.
LEMMA EndsKeep ==
  ASSUME FormsInv, NEW t \in Tabs, NEW status \in {"invalid", "unavailable"},
         Accounts!Ends(t, status), stock' = stock,
         onSale' = IF request[t].phase = "hashing" THEN onSale - 1 ELSE onSale
  PROVE  FormsInv'
<1>1. PICK f \in Refusals \cup Successes :
        orders' = [orders EXCEPT ![t] = f] /\ (f = orders[t] \/ f = [status |-> status])
  <2>1. [status |-> status] \in Refusals
    BY DEF Refusals
  <2>2. orders = [orders EXCEPT ![t] = orders[t]]
    BY DEF FormsInv
  <2> QED BY <2>1, <2>2 DEF FormsInv, Accounts!Ends
<1>2. Informed(Accounts!Idle)'
  BY DEF Informed, Accounts!Idle
<1>3. FormOK(f)'
  BY <1>1 DEF FormOK, FormsInv
<1>4. Accounts!Idle \in Attempts /\ Accounts!Idle.phase # "hashing"
  BY DEF Attempts, Accounts!Idle
<1>5. request' = [request EXCEPT ![t] = Accounts!Idle]
  BY DEF Accounts!Ends
<1> QED BY <1>1, <1>2, <1>3, <1>4, <1>5, FormsKeep DEF FormsInv

LEMMA GoesKeep ==
  ASSUME FormsInv, NEW t \in Tabs, NEW q \in Attempts,
         request' = [request EXCEPT ![t] = q], UNCHANGED <<orders, stock>>, Informed(q),
         onSale' = IF q.phase = "hashing"
                   THEN IF request[t].phase = "hashing" THEN onSale ELSE onSale + 1
                   ELSE IF request[t].phase = "hashing" THEN onSale - 1 ELSE onSale
  PROVE  FormsInv'
<1>1. orders' = [orders EXCEPT ![t] = orders[t]] /\ orders[t] \in Refusals \cup Successes
  BY DEF FormsInv
<1>2. Informed(q)' /\ FormOK(orders[t])
  BY DEF FormsInv, Informed
<1>3. PICK f \in Refusals \cup Successes : f = orders[t]
  BY <1>1
<1>4. FormOK(f)'
  BY <1>2, <1>3 DEF FormOK
<1> QED BY <1>1, <1>2, <1>3, <1>4, FormsKeep DEF FormsInv

\* The phase of a request says what it carries.
LEMMA AttemptType ==
  ASSUME FormsInv, NEW t \in Tabs
  PROVE  /\ request[t].phase \in {"sent", "admitted", "queued"} => request[t] \in WaitingAttempts
         /\ request[t].phase \in {"hashing", "storing"} => request[t] \in FoundAttempts
BY DEF FormsInv, Attempts, WaitingAttempts, FoundAttempts, Accounts!Idle

LEMMA SubmitKeeps ==
  ASSUME FormsInv, NEW t \in Tabs, NEW s \in Spellings, NEW w \in Keys, NEW a \in {Nobody},
         NEW kind \in {"register", "login"}, Accounts!Submit(t, kind, s, w, a)
  PROVE  FormsInv'
<1>1. PICK q : q = [phase |-> "sent", kind |-> kind, spelling |-> s, password |-> w,
                    address |-> a]
  OBVIOUS
<1>2. PICK f : f = [status |-> "pending"]
  OBVIOUS
<1>3. q \in WaitingAttempts /\ f \in Refusals
  BY <1>1, <1>2 DEF WaitingAttempts, Refusals
<1>4. Informed(q)' /\ FormOK(f)'
  BY <1>1, <1>2 DEF Informed, FormOK
<1>5. /\ request' = [request EXCEPT ![t] = q] /\ orders' = [orders EXCEPT ![t] = f]
      /\ UNCHANGED <<stock, onSale>> /\ request[t].phase # "hashing"
  BY <1>1, <1>2 DEF Accounts!Submit, Accounts!Idle
<1> QED BY <1>1, <1>3, <1>4, <1>5, FormsKeep DEF FormsInv, Attempts

\* Steps of the page alone.
LEMMA PageKeeps ==
  ASSUME FormsInv, NEW t \in Tabs, Accounts!SubmitInvalid(t) \/ Accounts!GiveUp(t)
  PROVE  FormsInv'
<1>1. PICK f \in Refusals : orders' = [orders EXCEPT ![t] = f] /\ FormOK(f)'
  <2>1. /\ [status |-> "invalid"] \in Refusals
        /\ [status |-> "unavailable"] \in Refusals
    BY DEF Refusals
  <2> QED BY <2>1 DEF Accounts!SubmitInvalid, Accounts!GiveUp, FormOK
<1>2. UNCHANGED <<request, stock, onSale>>
  BY DEF Accounts!SubmitInvalid, Accounts!GiveUp
<1>3. request' = [request EXCEPT ![t] = request[t]] /\ request[t] \in Attempts
  BY <1>2 DEF FormsInv
<1>4. PICK q \in Attempts : q = request[t]
  BY <1>3
<1>5. Informed(q)'
  BY <1>2, <1>4 DEF FormsInv, Informed
<1> QED BY <1>1, <1>2, <1>3, <1>4, <1>5, FormsKeep DEF FormsInv

LEMMA GuardKeeps ==
  ASSUME FormsInv, NEW t \in Tabs, Accounts!Guard(t)
  PROVE  FormsInv'
<1>1. request[t] \in WaitingAttempts /\ request[t].phase = "sent"
  BY AttemptType DEF Accounts!Guard, Accounts!At
<1>2. UNCHANGED <<stock, onSale>>
  BY DEF Accounts!Guard
<1>3. CASE Accounts!Goes(t, "admitted")
  <2>1. PICK q : q = [request[t] EXCEPT !.phase = "admitted"]
    OBVIOUS
  <2>2. q \in WaitingAttempts /\ q.phase = "admitted"
    BY <1>1, <2>1 DEF WaitingAttempts
  <2>3. request' = [request EXCEPT ![t] = q] /\ orders' = orders
    BY <1>3, <2>1 DEF Accounts!Goes
  <2> QED BY <1>1, <1>2, <2>2, <2>3, GoesKeep DEF Attempts, Informed
<1>4. CASE Accounts!Ends(t, "unavailable")
  BY <1>1, <1>2, <1>4, EndsKeep
<1> QED BY <1>3, <1>4 DEF Accounts!Guard

LEMMA BeginKeeps ==
  ASSUME FormsInv, NEW t \in Tabs, Accounts!Begin(t)
  PROVE  FormsInv'
<1>1. request[t] \in WaitingAttempts /\ request[t].phase = "admitted"
  BY AttemptType DEF Accounts!Begin, Accounts!At
<1>2. UNCHANGED <<stock, onSale>>
  BY DEF Accounts!Begin
<1>3. ASSUME Accounts!Goes(t, "queued"),
             request[t].kind = "login" \/ Mailbox[request[t].spelling] # Nobody
      PROVE  FormsInv'
  <2>1. PICK q : q = [request[t] EXCEPT !.phase = "queued"]
    OBVIOUS
  <2>2. q \in WaitingAttempts /\ q.phase = "queued" /\ Informed(q)
    BY <1>1, <1>3, <2>1 DEF WaitingAttempts, Informed
  <2>3. request' = [request EXCEPT ![t] = q] /\ orders' = orders
    BY <1>3, <2>1 DEF Accounts!Goes
  <2> QED BY <1>1, <1>2, <2>2, <2>3, GoesKeep DEF Attempts
<1>4. ASSUME NEW status \in {"invalid", "unavailable"}, Accounts!Ends(t, status)
      PROVE  FormsInv'
  BY <1>1, <1>2, <1>4, EndsKeep
<1> QED BY <1>3, <1>4 DEF Accounts!Begin

LEMMA HashKeeps ==
  ASSUME FormsInv, NEW t \in Tabs, Accounts!Hash(t)
  PROVE  FormsInv'
<1>1. request[t] \in WaitingAttempts /\ request[t].phase = "queued" /\ Informed(request[t])
  BY AttemptType DEF FormsInv, Accounts!Hash, Accounts!At
<1>2. stock' = stock
  BY DEF Accounts!Hash
<1>3. PICK found :
        /\ Accounts!Acquire(t, found)
        /\ found = IF request[t].kind = "login" /\ Mailbox[request[t].spelling] # Nobody
                   THEN stock[Mailbox[request[t].spelling]] ELSE Nobody
  BY DEF Accounts!Hash
<1>4. found \in Keys \cup {Nobody}
  BY <1>1, <1>3 DEF FormsInv, WaitingAttempts, Accounts!Mailboxes
<1>5. CASE onSale < MaxActive
  <2>1. PICK q : q = [phase |-> "hashing", kind |-> request[t].kind,
                      spelling |-> request[t].spelling, password |-> request[t].password,
                      address |-> request[t].address, found |-> found]
    OBVIOUS
  <2>2. q \in FoundAttempts
    BY <1>1, <1>4, <2>1 DEF WaitingAttempts, FoundAttempts
  <2>3. Informed(q) /\ q.phase = "hashing"
    BY <1>1, <1>3, <2>1 DEF Informed
  <2>4. request' = [request EXCEPT ![t] = q] /\ orders' = orders /\ onSale' = onSale + 1
    BY <1>3, <1>5, <2>1 DEF Accounts!Acquire, FormsInv
  <2> QED BY <1>1, <1>2, <2>2, <2>3, <2>4, GoesKeep DEF Attempts
<1>6. CASE ~ (onSale < MaxActive)
  BY <1>1, <1>2, <1>3, <1>6, EndsKeep DEF Accounts!Acquire
<1> QED BY <1>5, <1>6

LEMMA HashedKeeps ==
  ASSUME FormsInv, NEW t \in Tabs, Accounts!Hashed(t)
  PROVE  FormsInv'
<1>1. request[t] \in FoundAttempts /\ request[t].phase = "hashing" /\ Informed(request[t])
  BY AttemptType DEF FormsInv, Accounts!Hashed, Accounts!At
<1>2. stock' = stock /\ onSale' = onSale - 1
  BY DEF Accounts!Hashed
<1>3. ASSUME Accounts!Goes(t, "storing"),
             request[t].kind = "register" \/ request[t].found = request[t].password
      PROVE  FormsInv'
  <2>1. PICK q : q = [request[t] EXCEPT !.phase = "storing"]
    OBVIOUS
  <2>2. q \in FoundAttempts /\ q.phase = "storing" /\ Informed(q)
    BY <1>1, <1>3, <2>1 DEF FoundAttempts, Informed
  <2>3. request' = [request EXCEPT ![t] = q] /\ orders' = orders
    BY <1>3, <2>1 DEF Accounts!Goes
  <2> QED BY <1>1, <1>2, <2>2, <2>3, GoesKeep DEF Attempts
<1>4. ASSUME NEW status \in {"invalid", "unavailable"}, Accounts!Ends(t, status)
      PROVE  FormsInv'
  BY <1>1, <1>2, <1>4, EndsKeep
<1> QED BY <1>3, <1>4 DEF Accounts!Hashed

\* An account is made, or a session is issued, and the form is told.
LEMMA SucceedKeeps ==
  ASSUME FormsInv, NEW t \in Tabs, Accounts!Store(t) \/ Accounts!Issue(t)
  PROVE  FormsInv'
<1>1. request[t] \in FoundAttempts /\ request[t].phase = "storing" /\ Informed(request[t])
  BY AttemptType DEF FormsInv, Accounts!Store, Accounts!Issue, Accounts!At
<1>2. PICK m : m = Mailbox[request[t].spelling]
  OBVIOUS
<1>3. /\ request[t].password \in Keys /\ request[t].password # Nobody
      /\ request[t].spelling \in Spellings
  BY <1>1, ShopAssumption DEF FoundAttempts
<1>4. m # Nobody /\ m \in Accounts!Mailboxes
  <2>1. m # Nobody
    BY <1>1, <1>2, <1>3 DEF Informed, Accounts!Store, Accounts!Issue
  <2> QED BY <1>2, <1>3, <2>1 DEF Accounts!Mailboxes
<1>5. /\ stock' \in [Accounts!Mailboxes -> Keys \cup {Nobody}]
      /\ \A n \in Accounts!Mailboxes : stock[n] # Nobody => stock'[n] = stock[n]
  BY <1>2, <1>3, <1>4 DEF FormsInv, Accounts!Store, Accounts!Issue
<1>6. PICK status \in {"accepted", "signedIn"} :
        /\ Accounts!Ends(t, status)
        /\ status = "accepted" => stock'[m] # Nobody
        /\ status = "signedIn" => stock'[m] = request[t].password
  <2>1. CASE Accounts!Store(t)
    BY <1>2, <1>3, <1>4, <2>1 DEF FormsInv, Accounts!Store
  <2>2. CASE Accounts!Issue(t)
    BY <1>1, <1>2, <1>3, <2>2 DEF Accounts!Issue, Informed
  <2> QED BY <2>1, <2>2
<1>7. PICK f \in Refusals \cup Successes : orders' = [orders EXCEPT ![t] = f] /\ FormOK(f)'
  <2>1. CASE Accounts!Pending(t)
    <3>1. PICK f : f = [status |-> status, spelling |-> request[t].spelling,
                        password |-> request[t].password]
      OBVIOUS
    <3>2. f \in Successes
      BY <1>3, <3>1 DEF Successes
    <3>3. FormOK(f)'
      BY <1>2, <1>4, <1>6, <3>1 DEF FormOK
    <3>4. orders' = [orders EXCEPT ![t] = f]
      BY <1>6, <2>1, <3>1 DEF Accounts!Ends
    <3> QED BY <3>2, <3>3, <3>4
  <2>2. CASE ~ Accounts!Pending(t)
    <3>1. PICK f \in Refusals \cup Successes : f = orders[t]
      BY DEF FormsInv
    <3>2. orders' = [orders EXCEPT ![t] = f]
      BY <1>6, <2>2, <3>1 DEF FormsInv, Accounts!Ends
    <3>3. f.status \in {"accepted", "signedIn"} =>
            f.spelling \in Spellings /\ f.password \in Keys
      BY DEF Refusals, Successes
    <3>4. FormOK(f)
      BY <3>1 DEF FormsInv
    <3>5. FormOK(f)'
      BY <1>5, <3>3, <3>4, ShopAssumption DEF FormOK, Accounts!Mailboxes
    <3> QED BY <3>2, <3>5
  <2> QED BY <2>1, <2>2
<1>8. /\ Informed(Accounts!Idle)' /\ Accounts!Idle \in Attempts
      /\ Accounts!Idle.phase # "hashing"
  BY DEF Informed, Attempts, Accounts!Idle
<1>9. request' = [request EXCEPT ![t] = Accounts!Idle] /\ onSale' = onSale
  BY <1>6 DEF Accounts!Ends, Accounts!Store, Accounts!Issue
<1> QED BY <1>1, <1>5, <1>7, <1>8, <1>9, FormsKeep

LEMMA RestartKeeps == ASSUME FormsInv, Accounts!Restart PROVE FormsInv'
<1>1. Hashing' = {}
  BY DEF Accounts!Restart, Accounts!Idle, Hashing
<1>2. onSale' = Cardinality(Hashing)'
  BY <1>1, FS_EmptySet DEF Accounts!Restart
<1>3. orders' \in [Tabs -> Refusals \cup Successes]
  <2>1. [status |-> "unavailable"] \in Refusals
    BY DEF Refusals
  <2> QED BY <2>1 DEF FormsInv, Accounts!Restart
<1>4. \A t \in Tabs : Informed(request[t])' /\ FormOK(orders[t])'
  BY DEF FormsInv, Accounts!Restart, Accounts!Idle, Informed, FormOK
<1> QED BY <1>2, <1>3, <1>4 DEF FormsInv, Accounts!Restart, Attempts

LEMMA FormsStep == FormsInv /\ [Accounts!Next]_(Accounts!vars) => FormsInv'
<1> SUFFICES ASSUME FormsInv, [Accounts!Next]_(Accounts!vars) PROVE FormsInv'
  OBVIOUS
<1>1. CASE UNCHANGED <<stock, onSale, request, orders>>
  BY <1>1 DEF FormsInv, Informed, FormOK, Hashing
<1>2. ASSUME NEW t \in Tabs, Accounts!Step(t) PROVE FormsInv'
  <2>1. ASSUME Accounts!Fail(t) PROVE FormsInv'
    <3>1. request[t].phase # "hashing" /\ UNCHANGED <<stock, onSale>>
      BY <2>1 DEF Accounts!Fail
    <3> QED BY <2>1, <3>1, EndsKeep DEF Accounts!Fail
  <2> QED BY <1>2, <2>1, SubmitKeeps, PageKeeps, GuardKeeps, BeginKeeps, HashKeeps, HashedKeeps,
       SucceedKeeps DEF Accounts!Step
<1> QED BY <1>1, <1>2, RestartKeeps DEF Accounts!Next, Accounts!vars, Accounts!Tick

\* What a form shows is so: its account is there, its password is the stored one,
\* and the places of the password operations are counted right.
THEOREM FormsTrue == Accounts!Spec => []FormIsTrue
<1>1. FormsInv => FormIsTrue
  <2>1. Hashing = {t \in Tabs : Accounts!At(t, "hashing")}
    BY DEF Hashing, Accounts!At
  <2>2. Accounts!Cardinality(Hashing) = Cardinality(Hashing)
    BY DEF Accounts!Cardinality, Cardinality
  <2> QED BY <2>1, <2>2 DEF FormsInv, FormOK, FormIsTrue, Accounts!FormIsTrue
<1> QED BY <1>1, FormsInit, FormsStep, PTL DEF Accounts!Spec

-----------------------------------------------------------------------------
(* The limiters: owner holds what they remember, lines what they admitted.  *)

Tried == [age : 0..Hour, number : Nat]

\* Attempts made at one time bear different numbers.
Numbered(tried) ==
  \A a \in tried : a.age = 0 => a.number < Cardinality(Limits!Within(tried, 1))

\* An attempt that counts is remembered, and no limit was exceeded.
CountsOK(remembered, tried) ==
  /\ remembered \subseteq Tried
  /\ tried = Limits!Within(remembered, Hour)
  /\ IsFiniteSet(tried)
  /\ Numbered(tried)
  /\ Cardinality(tried) <= PerHour
  /\ Cardinality(Limits!Within(tried, Minute)) <= PerMinute

\* A table has an entry for each identity of each limiter.
Tables(table) ==
  /\ DOMAIN table = Limits!Limiters
  /\ \A l \in Limits!Limiters : DOMAIN table[l] = Limits!Identities(l)

\* A request that is not past its limits carries what they count by.
Askings == [phase : {"sent", "admitted", "queued"}, kind : {"register", "login"},
            spelling : Spellings, password : {Nobody}, address : Users]

AsksOK ==
  /\ DOMAIN request = {"form"}
  /\ "phase" \in DOMAIN request["form"]
  /\ request["form"].phase \in {"sent", "admitted", "queued"} => request["form"] \in Askings

\* The inductive invariant of the limiters.
LimitsInv ==
  /\ AsksOK
  /\ Tables(owner) /\ Tables(lines)
  /\ \A l \in Limits!Limiters : \A i \in Limits!Identities(l) : CountsOK(owner[l][i], lines[l][i])

LEMMA WithinPart ==
  ASSUME NEW tried, NEW w
  PROVE  /\ Limits!Within(tried, w) \subseteq tried
         /\ IsFiniteSet(tried) =>
              /\ IsFiniteSet(Limits!Within(tried, w))
              /\ Cardinality(Limits!Within(tried, w)) \in Nat
              /\ Cardinality(Limits!Within(tried, w)) <= Cardinality(tried)
<1>1. Limits!Within(tried, w) \subseteq tried
  BY DEF Limits!Within
<1> QED BY <1>1, FS_Subset, FS_CardinalityType

LEMMA WithinTwice ==
  ASSUME NEW tried
  PROVE  Limits!Within(Limits!Within(tried, Hour), Hour) = Limits!Within(tried, Hour)
BY DEF Limits!Within

LEMMA SameCardinality ==
  ASSUME NEW S PROVE Limits!Cardinality(S) = Cardinality(S)
BY DEF Limits!Cardinality, Cardinality

LEMMA NoneTried == CountsOK({}, {})
<1>1. \A w : Limits!Within({}, w) = {}
  BY DEF Limits!Within
<1> QED BY <1>1, FS_EmptySet, ShopAssumption DEF CountsOK, Numbered

LEMMA LimitsInit == Limits!Init => LimitsInv
BY NoneTried DEF Limits!Init, Limits!NoAttempts, LimitsInv, Tables, AsksOK, Limits!Idle

\* What counts of what is remembered is what was admitted.
LEMMA PrunedCounts ==
  ASSUME NEW x, NEW y, CountsOK(x, y)
  PROVE  CountsOK(y, y) /\ y = Limits!Within(x, Hour) /\ y = Limits!Within(y, Hour)
BY WithinTwice, WithinPart DEF CountsOK

\* One more attempt, while there is room for it.
LEMMA NotedCounts ==
  ASSUME NEW y, CountsOK(y, y),
         Cardinality(y) < PerHour, Cardinality(Limits!Within(y, Minute)) < PerMinute
  PROVE  CountsOK(Limits!Noted(y), Limits!Noted(y))
<1> DEFINE n == Cardinality(Limits!Within(y, 1))
           new == [age |-> 0, number |-> n]
<1>1. Limits!Noted(y) = y \cup {new}
  BY SameCardinality DEF Limits!Noted
<1>2. IsFiniteSet(y) /\ n \in Nat /\ Cardinality(y) \in Nat
  BY WithinPart, FS_CardinalityType DEF CountsOK
<1>3. new \notin y
  BY <1>2 DEF CountsOK, Numbered
<1>4. ASSUME NEW w \in Int PROVE
        /\ 0 < w => Limits!Within(y \cup {new}, w) = Limits!Within(y, w) \cup {new}
        /\ ~ 0 < w => Limits!Within(y \cup {new}, w) = Limits!Within(y, w)
  BY DEF Limits!Within
<1>5. IsFiniteSet(y \cup {new}) /\ Cardinality(y \cup {new}) = Cardinality(y) + 1
  BY <1>2, <1>3, FS_AddElement
<1>6. ASSUME NEW w PROVE
        /\ IsFiniteSet(Limits!Within(y, w)) /\ Cardinality(Limits!Within(y, w)) \in Nat
        /\ Cardinality(Limits!Within(y, w) \cup {new}) = Cardinality(Limits!Within(y, w)) + 1
  <2>1. new \notin Limits!Within(y, w)
    BY <1>3, WithinPart
  <2>2. IsFiniteSet(Limits!Within(y, w)) /\ Cardinality(Limits!Within(y, w)) \in Nat
    BY <1>2, WithinPart
  <2> QED BY <2>1, <2>2, FS_AddElement
<1>7. Cardinality(y \cup {new}) <= PerHour
  BY <1>2, <1>5, ShopAssumption DEF CountsOK
<1>8. Cardinality(Limits!Within(y \cup {new}, Minute)) <= PerMinute
  <2> DEFINE m == Limits!Within(y, Minute)
             later == Limits!Within(y \cup {new}, Minute)
  <2>1. PerMinute \in Nat /\ Minute \in Int
    BY ShopAssumption
  <2>2. Cardinality(m) \in Nat /\ Cardinality(m \cup {new}) = Cardinality(m) + 1
    BY <1>6
  <2>3. later = m \/ later = m \cup {new}
    BY <1>4, <2>1
  <2>4. Cardinality(m) < PerMinute
    OBVIOUS
  <2>5. Cardinality(later) <= PerMinute
    <3> HIDE DEF m, later, new
    <3>1. CASE later = m
      BY <2>1, <2>2, <2>4, <3>1
    <3>2. CASE later = m \cup {new}
      BY <2>1, <2>2, <2>4, <3>2
    <3> QED BY <2>3, <3>1, <3>2
  <2> QED BY <2>5
<1>9. Numbered(y \cup {new})
  <2>1. Cardinality(Limits!Within(y \cup {new}, 1)) = n + 1
    <3>1. Limits!Within(y \cup {new}, 1) = Limits!Within(y, 1) \cup {new}
      BY <1>4
    <3> QED BY <3>1, <1>6
  <2>2. \A a \in y : a.age = 0 => a.number < n
    BY DEF CountsOK, Numbered
  <2>3. y \subseteq Tried
    BY DEF CountsOK
  <2>4. ASSUME NEW a \in y \cup {new}, a.age = 0 PROVE a.number < n + 1
    <3>1. CASE a \in y
      <4>1. a.number < n /\ a.number \in Nat
        BY <2>2, <2>3, <2>4, <3>1 DEF Tried
      <4> QED BY <4>1, <1>2
    <3>2. CASE a = new
      BY <3>2, <1>2
    <3> QED BY <2>4, <3>1, <3>2
  <2> HIDE DEF new, n
  <2> QED BY <2>1, <2>4 DEF Numbered
<1>10. /\ y \cup {new} \subseteq Tried
       /\ y \cup {new} = Limits!Within(y \cup {new}, Hour)
  <2>1. new \in Tried /\ Hour \in Int /\ 0 < Hour
    BY <1>2, ShopAssumption DEF Tried
  <2> QED BY <2>1, <1>4 DEF CountsOK
<1> QED BY <1>1, <1>5, <1>7, <1>8, <1>9, <1>10 DEF CountsOK

Older(tried) == {Limits!Aged(a) : a \in tried}

\* A set that does not grow by getting older.
LEMMA OlderCounts ==
  ASSUME NEW S, IsFiniteSet(S)
  PROVE  /\ IsFiniteSet(Older(S)) /\ Cardinality(Older(S)) \in Nat
         /\ Cardinality(Older(S)) <= Cardinality(S)
<1> DEFINE f == [a \in S |-> Limits!Aged(a)]
<1>1. f \in Surjection(S, Older(S))
  BY DEF Surjection, Older
<1> QED BY <1>1, FS_Surjection, FS_CardinalityType

\* An hour and a minute later.
LEMMA AgedCounts ==
  ASSUME NEW x, NEW y, CountsOK(x, y)
  PROVE  CountsOK(Older(x), Limits!Within(Older(y), Hour))
<1> DEFINE z == Limits!Within(Older(y), Hour)
<1>1. x \subseteq Tried /\ y = Limits!Within(x, Hour) /\ y \subseteq x
  BY WithinPart DEF CountsOK
<1>2. Hour \in Nat \ {0} /\ Minute \in 0..Hour /\ PerMinute \in Nat /\ PerHour \in Nat
  BY ShopAssumption
<1>3. ASSUME NEW a \in Tried PROVE
        /\ Limits!Aged(a) \in Tried
        /\ Limits!Aged(a).age = IF a.age < Hour THEN a.age + 1 ELSE Hour
  BY <1>2, <1>3 DEF Tried, Limits!Aged
<1>4. Older(x) \subseteq Tried
  BY <1>1, <1>3 DEF Older
<1>5. z = Limits!Within(Older(x), Hour)
  <2>1. \A a \in x : Limits!Aged(a).age < Hour => a \in y
    BY <1>1, <1>2, <1>3 DEF Limits!Within, Tried
  <2> QED BY <1>1, <2>1 DEF Limits!Within, Older
<1>6. /\ IsFiniteSet(z) /\ Cardinality(z) \in Nat /\ Cardinality(z) <= PerHour
  <2>1. IsFiniteSet(y) /\ Cardinality(y) \in Nat /\ Cardinality(y) <= PerHour
    BY FS_CardinalityType DEF CountsOK
  <2>2. /\ IsFiniteSet(Older(y)) /\ Cardinality(Older(y)) \in Nat
        /\ Cardinality(Older(y)) <= Cardinality(y)
    BY <2>1, OlderCounts
  <2>3. /\ IsFiniteSet(z) /\ Cardinality(z) \in Nat
        /\ Cardinality(z) <= Cardinality(Older(y))
    BY <2>2, WithinPart
  <2> QED BY <2>1, <2>2, <2>3, <1>2
<1>7. Cardinality(Limits!Within(z, Minute)) <= PerMinute
  <2> DEFINE m == Limits!Within(y, Minute)
  <2>1. IsFiniteSet(m) /\ Cardinality(m) \in Nat /\ Cardinality(m) <= PerMinute
    BY WithinPart DEF CountsOK
  <2>2. /\ IsFiniteSet(Older(m)) /\ Cardinality(Older(m)) \in Nat
        /\ Cardinality(Older(m)) <= Cardinality(m)
    BY <2>1, OlderCounts
  <2>3. Limits!Within(z, Minute) \subseteq Older(m)
    <3>1. \A a \in y : Limits!Aged(a).age < Minute => a.age < Minute
      BY <1>1, <1>2, <1>3 DEF Tried
    <3> QED BY <3>1 DEF Limits!Within, Older
  <2>4. Cardinality(Limits!Within(z, Minute)) \in Nat
    BY <1>6, WithinPart
  <2>5. Cardinality(Limits!Within(z, Minute)) <= Cardinality(Older(m))
    BY <2>2, <2>3, FS_Subset
  <2> QED BY <2>1, <2>2, <2>4, <2>5, <1>2
<1>8. Numbered(z)
  <2>1. \A a \in Older(y) : a.age # 0
    BY <1>1, <1>2, <1>3 DEF Older, Tried
  <2> QED BY <2>1 DEF Numbered, Limits!Within
<1> QED BY <1>4, <1>5, <1>6, <1>7, <1>8 DEF CountsOK

LEMMA ConsumeKeepsLimits ==
  ASSUME LimitsInv, NEW l \in Limits!Limiters, NEW i \in Limits!Identities(l), NEW ok,
         Limits!Consume(l, i, ok), AsksOK'
  PROVE  LimitsInv'
<1> DEFINE Crowded(tab) == tab[i] = {} /\ Limits!Cardinality(Limits!Tracked(tab)) >= MaxTracked
           table    == IF Crowded(owner[l]) THEN Limits!Pruned(owner[l]) ELSE owner[l]
           retained == Limits!Within(table[i], Hour)
           over     == \/ Cardinality(Limits!Within(retained, Minute)) >= PerMinute
                       \/ Cardinality(retained) >= PerHour
<1>1. /\ ok = (~ Crowded(table) /\ ~ over)
      /\ owner' = [owner EXCEPT ![l] =
           IF Crowded(table) THEN table
           ELSE [table EXCEPT ![i] = IF over THEN retained ELSE Limits!Noted(retained)]]
      /\ lines' = IF ok THEN [lines EXCEPT ![l][i] = Limits!Noted(Limits!Within(@, Hour))]
                 ELSE lines
  BY SameCardinality DEF Limits!Consume
<1>2. /\ DOMAIN table = Limits!Identities(l)
      /\ \A j \in Limits!Identities(l) : CountsOK(table[j], lines[l][j])
  <2>1. \A j \in Limits!Identities(l) :
          /\ CountsOK(owner[l][j], lines[l][j])
          /\ CountsOK(Limits!Within(owner[l][j], Hour), lines[l][j])
    BY PrunedCounts DEF LimitsInv
  <2> QED BY <2>1 DEF LimitsInv, Tables, Limits!Pruned
<1>3. CountsOK(lines[l][i], lines[l][i]) /\ retained = lines[l][i]
      /\ Limits!Within(lines[l][i], Hour) = lines[l][i]
  BY <1>2, PrunedCounts
<1>4. ~ over => CountsOK(Limits!Noted(lines[l][i]), Limits!Noted(lines[l][i]))
  <2> SUFFICES ASSUME ~ over PROVE CountsOK(Limits!Noted(lines[l][i]), Limits!Noted(lines[l][i]))
    OBVIOUS
  <2>1. IsFiniteSet(lines[l][i]) /\ PerHour \in Nat /\ PerMinute \in Nat
    BY <1>3, ShopAssumption DEF CountsOK
  <2>2. /\ Cardinality(lines[l][i]) \in Nat
        /\ Cardinality(Limits!Within(lines[l][i], Minute)) \in Nat
    BY <2>1, WithinPart, FS_CardinalityType
  <2>3. /\ ~ (Cardinality(Limits!Within(lines[l][i], Minute)) >= PerMinute)
        /\ ~ (Cardinality(lines[l][i]) >= PerHour)
    BY <1>3
  <2>4. /\ Cardinality(lines[l][i]) < PerHour
        /\ Cardinality(Limits!Within(lines[l][i], Minute)) < PerMinute
    BY <2>1, <2>2, <2>3
  <2> QED BY <1>3, <2>4, NotedCounts
<1> HIDE DEF table, retained, over, Crowded
<1>5. /\ Tables(owner') /\ Tables(lines')
      /\ \A k \in Limits!Limiters \ {l} : owner'[k] = owner[k] /\ lines'[k] = lines[k]
  BY <1>1, <1>2 DEF LimitsInv, Tables
<1>6. ASSUME NEW j \in Limits!Identities(l) PROVE CountsOK(owner'[l][j], lines'[l][j])
  <2>1. CASE Crowded(table)
    BY <1>1, <1>2, <2>1 DEF LimitsInv, Tables
  <2>2. CASE ~ Crowded(table) /\ over
    BY <1>1, <1>2, <1>3, <2>2 DEF LimitsInv, Tables
  <2>3. CASE ~ Crowded(table) /\ ~ over
    BY <1>1, <1>2, <1>3, <1>4, <2>3 DEF LimitsInv, Tables
  <2> QED BY <2>1, <2>2, <2>3
<1> QED BY <1>5, <1>6 DEF LimitsInv

LEMMA TickKeepsLimits ==
  ASSUME LimitsInv, Limits!Tick PROVE LimitsInv'
<1>1. /\ owner' = [l \in Limits!Limiters |-> [i \in Limits!Identities(l) |-> Older(owner[l][i])]]
      /\ lines' = [l \in Limits!Limiters |->
           [i \in Limits!Identities(l) |-> Limits!Within(Older(lines[l][i]), Hour)]]
      /\ request' = request
  BY DEF Limits!Tick, Older
<1> QED BY <1>1, AgedCounts DEF LimitsInv, Tables, AsksOK

LEMMA GoesAsks ==
  ASSUME AsksOK, NEW phase, Limits!Goes("form", phase), request["form"] \in Askings
  PROVE  phase \in {"admitted", "queued"} => AsksOK'
<1>1. request' = [request EXCEPT !["form"] = [request["form"] EXCEPT !.phase = phase]]
  BY DEF Limits!Goes
<1>2. request'["form"] = [request["form"] EXCEPT !.phase = phase] /\ DOMAIN request' = {"form"}
  BY <1>1 DEF AsksOK
<1>3. phase \in {"admitted", "queued"} => request'["form"] \in Askings
  BY <1>2 DEF Askings
<1> QED BY <1>2, <1>3 DEF AsksOK, Askings

LEMMA EndsAsks ==
  ASSUME AsksOK, NEW status, Limits!Ends("form", status) PROVE AsksOK'
<1>1. request' = [request EXCEPT !["form"] = Limits!Idle]
  BY DEF Limits!Ends
<1> QED BY <1>1 DEF AsksOK, Limits!Idle

LEMMA StepAsks ==
  ASSUME AsksOK, Limits!Step("form") PROVE AsksOK'
<1>1. CASE UNCHANGED request
  BY <1>1 DEF AsksOK
<1>2. CASE Limits!Guard("form")
  <2>1. request["form"] \in Askings
    BY <1>2 DEF AsksOK, Limits!Guard, Limits!At
  <2> QED BY <1>2, <2>1, GoesAsks, EndsAsks DEF Limits!Guard
<1>3. CASE Limits!Begin("form")
  <2>1. request["form"] \in Askings
    BY <1>3 DEF AsksOK, Limits!Begin, Limits!At
  <2> QED BY <1>3, <2>1, GoesAsks, EndsAsks DEF Limits!Begin
<1>4. CASE Limits!Hash("form")
  <2>1. PICK found : Limits!Acquire("form", found)
    BY <1>4 DEF Limits!Hash
  <2>2. CASE onSale < MaxActive
    <3>1. PICK q : /\ q = [phase |-> "hashing", kind |-> request["form"].kind,
                           spelling |-> request["form"].spelling,
                           password |-> request["form"].password,
                           address |-> request["form"].address, found |-> found]
                   /\ request' = [request EXCEPT !["form"] = q]
      BY <2>1, <2>2 DEF Limits!Acquire
    <3>2. "phase" \in DOMAIN q /\ q.phase = "hashing"
      BY <3>1
    <3> QED BY <3>1, <3>2 DEF AsksOK
  <2>3. CASE ~ (onSale < MaxActive)
    BY <2>1, <2>3, EndsAsks DEF Limits!Acquire
  <2> QED BY <2>2, <2>3
<1>5. CASE Limits!Hashed("form")
  <2>1. CASE Limits!Goes("form", "storing")
    <3>1. /\ DOMAIN request' = {"form"}
          /\ request'["form"] = [request["form"] EXCEPT !.phase = "storing"]
      BY <2>1 DEF AsksOK, Limits!Goes
    <3>2. "phase" \in DOMAIN request'["form"] /\ request'["form"].phase = "storing"
      BY <3>1 DEF AsksOK
    <3> QED BY <3>1, <3>2 DEF AsksOK
  <2> QED BY <1>5, <2>1, EndsAsks DEF Limits!Hashed
<1>6. CASE Limits!Store("form") \/ Limits!Issue("form") \/ Limits!Fail("form")
  BY <1>6, EndsAsks DEF Limits!Store, Limits!Issue, Limits!Fail
<1>7. ASSUME NEW s \in Spellings, NEW w \in {Nobody}, NEW a \in Users,
             NEW kind \in {"register", "login"}, Limits!Submit("form", kind, s, w, a)
      PROVE  AsksOK'
  <2>1. PICK q : q = [phase |-> "sent", kind |-> kind, spelling |-> s, password |-> w,
                      address |-> a]
    OBVIOUS
  <2>2. q \in Askings
    BY <2>1 DEF Askings
  <2>3. request' = [request EXCEPT !["form"] = q]
    BY <1>7, <2>1 DEF Limits!Submit
  <2> QED BY <2>1, <2>2, <2>3 DEF AsksOK
<1> QED
  BY <1>1, <1>2, <1>3, <1>4, <1>5, <1>6, <1>7
     DEF Limits!Step, Limits!SubmitInvalid, Limits!GiveUp

LEMMA LimitsStep == LimitsInv /\ [Limits!Next]_Limits!vars => LimitsInv'
<1> SUFFICES ASSUME LimitsInv, [Limits!Next]_Limits!vars PROVE LimitsInv'
  OBVIOUS
<1>1. CASE Limits!Tick
  BY <1>1, TickKeepsLimits
<1>2. CASE Limits!Restart
  BY <1>2, NoneTried
     DEF Limits!Restart, Limits!NoAttempts, LimitsInv, Tables, AsksOK, Limits!Idle
<1>3. CASE Limits!Step("form")
  <2>1. AsksOK'
    BY <1>3, StepAsks DEF LimitsInv
  <2>2. CASE UNCHANGED <<owner, lines>>
    BY <2>1, <2>2 DEF LimitsInv, Tables
  <2>3. CASE Limits!Guard("form")
    <3>1. request["form"].address \in Users
      BY <2>3 DEF LimitsInv, AsksOK, Askings, Limits!Guard, Limits!At
    <3>2. PICK ok \in BOOLEAN, l \in {"register", "loginIp"} :
            Limits!Consume(l, request["form"].address, ok)
      BY <2>3 DEF Limits!Guard
    <3> QED BY <2>1, <3>1, <3>2, ConsumeKeepsLimits DEF Limits!Limiters, Limits!Identities
  <2>4. CASE Limits!Begin("form") /\ request["form"].kind = "login"
    <3>1. request["form"].spelling \in Spellings
      BY <2>4 DEF LimitsInv, AsksOK, Askings, Limits!Begin, Limits!At
    <3>2. PICK ok \in BOOLEAN :
            Limits!Consume("loginAccount", Limits!AccountKey(request["form"].spelling), ok)
      BY <2>4 DEF Limits!Begin
    <3> QED BY <2>1, <3>1, <3>2, ConsumeKeepsLimits DEF Limits!Limiters, Limits!Identities
  <2> QED
    BY <1>3, <2>2, <2>3, <2>4
       DEF Limits!Step, Limits!SubmitInvalid, Limits!Submit, Limits!GiveUp, Limits!Begin,
           Limits!Hash, Limits!Hashed, Limits!Store, Limits!Issue, Limits!Fail, Limits!limiters
<1>4. CASE UNCHANGED Limits!vars
  BY <1>4 DEF Limits!vars, LimitsInv, Tables, AsksOK
<1> QED BY <1>1, <1>2, <1>3, <1>4 DEF Limits!Next

\* No limiter admits more attempts of an identity in a minute or in an hour than it
\* may, whatever fills its table and is pruned from it.
THEOREM LimitsHold == Limits!Spec => []AdmittedWithinLimits
<1>1. LimitsInv => AdmittedWithinLimits
  BY SameCardinality DEF LimitsInv, CountsOK, AdmittedWithinLimits, Limits!AdmittedWithinLimits
<1> QED BY <1>1, LimitsInit, LimitsStep, PTL DEF Limits!Spec

-----------------------------------------------------------------------------
(* The administration of products: rows, editors and saves.                *)

RowsOf(slugs, images) ==
  [slug : slugs, image : images \cup {Nobody}, stock : Int, updatedAt : Int]

EditorsOf(products) ==
  [kind : {"closed"}] \cup [kind : {"editing", "submitting"}, product : {Nobody}]
    \cup [kind : {"editing", "submitting"}, product : products, stock : Int, updatedAt : Int]

SavesOf(products, slugs, images) ==
  [phase : {"sent", "storing", "writing", "written", "failed"},
   product : products \cup {Nobody}, slug : slugs, stock : Int, loaded : Int, expected : Int,
   withImage : BOOLEAN, image : images \cup {Nobody}]

ShelfRows == RowsOf(ShelfSlugs, ShelfImages)
ShelfSaves == SavesOf(ShelfProducts, ShelfSlugs, ShelfImages)

\* A version of a row that was read: if it is still the row's, so is its stock.
Version(p, updatedAt, amount) ==
  /\ lines[p] \in ShelfRows
  /\ updatedAt <= lines[p].updatedAt
  /\ updatedAt = lines[p].updatedAt => amount = lines[p].stock

EditorReads(f) ==
  f.kind \in {"editing", "submitting"} /\ f.product # Nobody =>
    Version(f.product, f.updatedAt, f.stock)

SaveReads(q) ==
  q.phase \in {"sent", "storing", "writing"} =>
    IF q.product = Nobody THEN q.loaded = 0 ELSE Version(q.product, q.expected, q.loaded)

\* The inductive invariant of the stock.
ShelfInv ==
  /\ lines \in [ShelfProducts -> ShelfRows \cup {Nobody}]
  /\ owner \in [ShelfProducts -> Int]
  /\ extra \in [Tabs -> EditorsOf(ShelfProducts)]
  /\ request \in [Tabs -> {Shelf!Idle} \cup ShelfSaves]
  /\ \A p \in ShelfProducts :
       IF lines[p] = Nobody THEN owner[p] = 0 ELSE lines[p].stock = owner[p]
  /\ \A e \in Tabs : EditorReads(extra[e]) /\ SaveReads(request[e])

LEMMA ShelfInit == Shelf!Init => ShelfInv
<1> SUFFICES ASSUME Shelf!Init PROVE ShelfInv
  OBVIOUS
<1>1. PICK p \in ShelfProducts, s \in ShelfSlugs :
        lines = [[r \in ShelfProducts |-> Nobody] EXCEPT ![p] =
                   [slug |-> s, image |-> Nobody, stock |-> 1, updatedAt |-> 0]]
  BY DEF Shelf!Init
<1>2. [slug |-> s, image |-> Nobody, stock |-> 1, updatedAt |-> 0] \in ShelfRows
  BY DEF ShelfRows, RowsOf
<1>3. /\ lines \in [ShelfProducts -> ShelfRows \cup {Nobody}]
      /\ \A r \in ShelfProducts : lines[r] # Nobody => lines[r].stock = 1
  BY <1>1, <1>2
<1>4. /\ extra = [e \in Tabs |-> [kind |-> "closed"]]
      /\ request = [e \in Tabs |-> Shelf!Idle]
      /\ owner = [r \in ShelfProducts |-> IF lines[r] = Nobody THEN 0 ELSE 1]
  BY DEF Shelf!Init, Shelf!Closed
<1>5. \A e \in Tabs : EditorReads(extra[e]) /\ SaveReads(request[e])
  BY <1>4 DEF EditorReads, SaveReads, Shelf!Idle
<1> QED BY <1>3, <1>4, <1>5 DEF ShelfInv, EditorsOf

\* A step of one editor or of the save it sent.
LEMMA EditorKeeps ==
  ASSUME ShelfInv, NEW e \in Tabs, NEW f \in EditorsOf(ShelfProducts),
         NEW q \in {Shelf!Idle} \cup ShelfSaves,
         extra' = [extra EXCEPT ![e] = f], request' = [request EXCEPT ![e] = q],
         UNCHANGED <<lines, owner>>, EditorReads(f), SaveReads(q)
  PROVE  ShelfInv'
<1>1. \A d \in Tabs : EditorReads(extra'[d]) /\ SaveReads(request'[d])
  BY DEF ShelfInv
<1>2. \A d \in Tabs : EditorReads(extra[d])' /\ SaveReads(request[d])'
  BY <1>1 DEF EditorReads, SaveReads, Version
<1> QED BY <1>2 DEF ShelfInv

LEMMA OpenShelfKeeps ==
  ASSUME ShelfInv, NEW e \in Tabs, Shelf!Open(e)
  PROVE  ShelfInv'
<1>1. PICK f \in EditorsOf(ShelfProducts) : extra' = [extra EXCEPT ![e] = f] /\ EditorReads(f)
  <2>1. CASE extra' = [extra EXCEPT ![e] = [kind |-> "editing", product |-> Nobody]]
    <3>1. PICK f : f = [kind |-> "editing", product |-> Nobody]
      OBVIOUS
    <3>2. f \in EditorsOf(ShelfProducts) /\ EditorReads(f)
      BY <3>1 DEF EditorsOf, EditorReads
    <3> QED BY <2>1, <3>1, <3>2
  <2>2. ASSUME NEW p \in ShelfProducts, lines[p] # Nobody,
               extra' = [extra EXCEPT ![e] =
                 [kind |-> "editing", product |-> p, stock |-> lines[p].stock,
                  updatedAt |-> lines[p].updatedAt]]
        PROVE  \E f \in EditorsOf(ShelfProducts) :
                 extra' = [extra EXCEPT ![e] = f] /\ EditorReads(f)
    <3>1. lines[p] \in ShelfRows
      BY <2>2 DEF ShelfInv
    <3>2. lines[p].stock \in Int /\ lines[p].updatedAt \in Int
      BY <3>1 DEF ShelfRows, RowsOf
    <3>3. PICK f : f = [kind |-> "editing", product |-> p, stock |-> lines[p].stock,
                        updatedAt |-> lines[p].updatedAt]
      OBVIOUS
    <3>4. f \in EditorsOf(ShelfProducts)
      BY <3>2, <3>3 DEF EditorsOf
    <3>5. EditorReads(f)
      BY <3>1, <3>2, <3>3 DEF EditorReads, Version
    <3> QED BY <2>2, <3>3, <3>4, <3>5
  <2> QED BY <2>1, <2>2 DEF Shelf!Open, Shelf!Exists
<1>2. request' = [request EXCEPT ![e] = request[e]]
  BY DEF ShelfInv, Shelf!Open
<1> QED BY <1>1, <1>2, EditorKeeps DEF ShelfInv, Shelf!Open

LEMMA EditorType ==
  ASSUME ShelfInv, NEW e \in Tabs, extra[e].kind \in {"editing", "submitting"}
  PROVE  /\ extra[e].product \in ShelfProducts \cup {Nobody}
         /\ extra[e].product # Nobody => extra[e].stock \in Int /\ extra[e].updatedAt \in Int
         /\ \A kind \in {"editing", "submitting"} :
              LET f == [extra[e] EXCEPT !.kind = kind] IN
              f \in EditorsOf(ShelfProducts) /\ EditorReads(f)
<1>1. extra[e] \in EditorsOf(ShelfProducts) /\ EditorReads(extra[e])
  BY DEF ShelfInv
<1>2. CASE extra[e] \in [kind : {"editing", "submitting"}, product : {Nobody}]
  BY <1>2 DEF EditorsOf, EditorReads
<1>3. CASE extra[e] \in [kind : {"editing", "submitting"}, product : ShelfProducts,
                         stock : Int, updatedAt : Int]
  BY <1>1, <1>3, ShopAssumption DEF EditorsOf, EditorReads
<1> QED BY <1>1, <1>2, <1>3 DEF EditorsOf

LEMMA SubmitShelfKeeps ==
  ASSUME ShelfInv, NEW e \in Tabs, NEW s \in ShelfSlugs, NEW n \in 0..MaxStock, NEW b \in BOOLEAN,
         Shelf!Submit(e, s, n, b)
  PROVE  ShelfInv'
<1>1. extra[e].kind = "editing"
  BY DEF Shelf!Submit
<1>2. PICK f : f = [extra[e] EXCEPT !.kind = "submitting"]
  OBVIOUS
<1>3. f \in EditorsOf(ShelfProducts) /\ EditorReads(f) /\ EditorReads(extra[e])
  BY <1>1, <1>2, EditorType DEF ShelfInv
<1>4. PICK q : q =
        [phase |-> "sent", product |-> extra[e].product, slug |-> s, stock |-> n,
         loaded |-> IF extra[e].product = Nobody THEN 0 ELSE extra[e].stock,
         expected |-> IF extra[e].product = Nobody THEN 0 ELSE extra[e].updatedAt,
         withImage |-> b, image |-> Nobody]
  OBVIOUS
<1>5. q \in ShelfSaves
  <2>1. /\ q.product \in ShelfProducts \cup {Nobody} /\ q.loaded \in Int /\ q.expected \in Int
        /\ n \in Int
    <3>1. /\ extra[e].product \in ShelfProducts \cup {Nobody}
          /\ extra[e].product # Nobody => extra[e].stock \in Int /\ extra[e].updatedAt \in Int
      BY <1>1, EditorType
    <3>2. n \in Int
      OBVIOUS
    <3> QED BY <1>4, <3>1, <3>2
  <2> QED BY <1>4, <2>1 DEF ShelfSaves, SavesOf
<1>6. SaveReads(q)
  BY <1>1, <1>3, <1>4 DEF SaveReads, EditorReads
<1>7. /\ extra' = [extra EXCEPT ![e] = f] /\ request' = [request EXCEPT ![e] = q]
      /\ UNCHANGED <<lines, owner>>
  BY <1>2, <1>4 DEF Shelf!Submit
<1> QED BY <1>3, <1>5, <1>6, <1>7, EditorKeeps

\* The editor waits no more.
LEMMA GiveUpShelfKeeps ==
  ASSUME ShelfInv, NEW e \in Tabs, Shelf!GiveUp(e)
  PROVE  ShelfInv'
<1>1. PICK f : f = [extra[e] EXCEPT !.kind = "editing"]
  OBVIOUS
<1>2. f \in EditorsOf(ShelfProducts) /\ EditorReads(f)
  BY <1>1, EditorType DEF Shelf!GiveUp, Shelf!Submitting
<1>3. extra' = [extra EXCEPT ![e] = f] /\ request' = [request EXCEPT ![e] = request[e]]
  BY <1>1 DEF ShelfInv, Shelf!GiveUp
<1> QED BY <1>2, <1>3, EditorKeeps DEF ShelfInv, Shelf!GiveUp

LEMMA AnswersShelfKeep ==
  ASSUME ShelfInv, NEW e \in Tabs, NEW saved \in BOOLEAN, Shelf!Answers(e, saved),
         UNCHANGED <<lines, owner>>
  PROVE  ShelfInv'
<1>1. SaveReads(Shelf!Idle)
  BY DEF SaveReads, Shelf!Idle
<1>2. PICK f \in EditorsOf(ShelfProducts) : extra' = [extra EXCEPT ![e] = f] /\ EditorReads(f)
  <2>1. CASE extra[e].kind # "submitting"
    <3>1. extra' = [extra EXCEPT ![e] = extra[e]]
      BY <2>1 DEF ShelfInv, Shelf!Answers, Shelf!Submitting
    <3> QED BY <3>1 DEF ShelfInv
  <2>2. CASE extra[e].kind = "submitting" /\ saved
    <3>1. PICK f : f = [kind |-> "closed"]
      OBVIOUS
    <3>2. f \in EditorsOf(ShelfProducts) /\ EditorReads(f)
      BY <3>1 DEF EditorsOf, EditorReads
    <3> QED BY <2>2, <3>1, <3>2 DEF Shelf!Answers, Shelf!Submitting, Shelf!Closed
  <2>3. CASE extra[e].kind = "submitting" /\ ~ saved
    <3>1. PICK f : f = [extra[e] EXCEPT !.kind = "editing"]
      OBVIOUS
    <3>2. f \in EditorsOf(ShelfProducts) /\ EditorReads(f)
      BY <2>3, <3>1, EditorType
    <3> QED BY <2>3, <3>1, <3>2 DEF Shelf!Answers, Shelf!Submitting
  <2> QED BY <2>1, <2>2, <2>3
<1>3. request' = [request EXCEPT ![e] = Shelf!Idle]
  BY DEF Shelf!Answers
<1> QED BY <1>1, <1>2, <1>3, EditorKeeps

\* The save goes on.
LEMMA GoesShelfKeep ==
  ASSUME ShelfInv, NEW e \in Tabs, request[e] \in ShelfSaves,
         NEW phase \in {"storing", "writing", "written", "failed"},
         NEW image \in ShelfImages \cup {Nobody},
         request' = [request EXCEPT ![e].phase = phase, ![e].image = image],
         phase \in {"storing", "writing"} => request[e].phase \in {"sent", "storing"},
         UNCHANGED <<extra, lines, owner>>
  PROVE  ShelfInv'
<1>1. PICK q : q = [request[e] EXCEPT !.phase = phase, !.image = image]
  OBVIOUS
<1>2. q \in ShelfSaves
  BY <1>1 DEF ShelfSaves, SavesOf
<1>3. /\ q.phase = phase /\ q.product = request[e].product /\ q.loaded = request[e].loaded
      /\ q.expected = request[e].expected
  BY <1>1 DEF ShelfSaves, SavesOf
<1>4. SaveReads(request[e])
  BY DEF ShelfInv
<1>5. SaveReads(q)
  BY <1>3, <1>4 DEF SaveReads
<1>6. /\ request' = [request EXCEPT ![e] = q]
      /\ extra' = [extra EXCEPT ![e] = extra[e]]
  BY <1>1 DEF ShelfInv
<1> QED BY <1>2, <1>5, <1>6, EditorKeeps DEF ShelfInv

LEMMA SaveType ==
  ASSUME ShelfInv, NEW e \in Tabs, request[e].phase # "idle"
  PROVE  request[e] \in ShelfSaves
BY DEF ShelfInv, Shelf!Idle

LEMMA ReadShelfKeeps ==
  ASSUME ShelfInv, NEW e \in Tabs, Shelf!ReadRow(e) \/ Shelf!StoreImage(e) \/ Shelf!WriteFails(e)
  PROVE  ShelfInv'
<1>1. UNCHANGED <<lines, owner>>
  BY DEF Shelf!ReadRow, Shelf!StoreImage, Shelf!WriteFails
<1>2. request[e] \in ShelfSaves
  BY SaveType DEF Shelf!ReadRow, Shelf!StoreImage, Shelf!WriteFails, Shelf!At
<1>3. CASE Shelf!Answers(e, FALSE)
  BY <1>1, <1>3, AnswersShelfKeep
<1>4. ASSUME NEW phase \in {"storing", "writing", "failed"}, Shelf!Goes(e, phase),
             phase # "failed" => request[e].phase \in {"sent", "storing"}
      PROVE  ShelfInv'
  <2>1. request' = [request EXCEPT ![e].phase = phase, ![e].image = request[e].image]
    BY <1>4, SaveType, <1>2 DEF Shelf!Goes, ShelfSaves, SavesOf
  <2>2. request[e].image \in ShelfImages \cup {Nobody}
    BY <1>2 DEF ShelfSaves, SavesOf
  <2> QED BY <1>1, <1>2, <1>4, <2>1, <2>2, GoesShelfKeep DEF Shelf!Goes
<1>5. CASE Shelf!ReadRow(e)
  BY <1>3, <1>4, <1>5 DEF Shelf!ReadRow, Shelf!At
<1>6. CASE Shelf!WriteFails(e)
  BY <1>4, <1>6 DEF Shelf!WriteFails
<1>7. CASE Shelf!StoreImage(e)
  BY <1>1, <1>2, <1>3, <1>7, GoesShelfKeep DEF Shelf!StoreImage, Shelf!At
<1> QED BY <1>5, <1>6, <1>7

LEMMA ShelfRowsAre == Nobody \notin ShelfRows
BY ShopAssumption DEF ShelfRows, RowsOf

\* A row is written: its stock is accounted for, and its version is none that was read.
LEMMA RowKeeps ==
  ASSUME ShelfInv, NEW e \in Tabs, NEW p \in ShelfProducts, NEW r \in ShelfRows,
         NEW q \in {Shelf!Idle} \cup ShelfSaves,
         lines[p] # Nobody => r.updatedAt = lines[p].updatedAt + 1,
         lines' = [lines EXCEPT ![p] = r], owner' = [owner EXCEPT ![p] = r.stock],
         request' = [request EXCEPT ![e] = q],
         q = request[e] \/ q.phase \in {"written", "failed"}, extra' = extra
  PROVE  ShelfInv'
<1>1. ASSUME NEW s \in ShelfProducts, NEW u \in Int, NEW m \in Int, Version(s, u, m)
      PROVE  Version(s, u, m)'
  <2>1. lines[s] \in ShelfRows
    BY <1>1 DEF Version
  <2>2. CASE s # p
    BY <1>1, <2>2 DEF ShelfInv, Version
  <2>3. CASE s = p
    <3>1. lines'[s] = r
      BY <2>3 DEF ShelfInv
    <3>2. r.updatedAt = lines[s].updatedAt + 1 /\ lines[s].updatedAt \in Int
      BY <2>1, <2>3, ShelfRowsAre DEF ShelfRows, RowsOf
    <3> QED BY <1>1, <3>1, <3>2 DEF Version
  <2> QED BY <2>2, <2>3
<1>2. ASSUME NEW d \in Tabs PROVE EditorReads(extra[d])'
  <2> SUFFICES ASSUME extra[d].kind \in {"editing", "submitting"}, extra[d].product # Nobody
               PROVE  Version(extra[d].product, extra[d].updatedAt, extra[d].stock)'
    BY DEF EditorReads
  <2>1. /\ extra[d].product \in ShelfProducts /\ extra[d].updatedAt \in Int
        /\ extra[d].stock \in Int
        /\ Version(extra[d].product, extra[d].updatedAt, extra[d].stock)
    BY EditorType DEF ShelfInv, EditorReads
  <2>2. PICK s \in ShelfProducts, u \in Int, m \in Int :
          s = extra[d].product /\ u = extra[d].updatedAt /\ m = extra[d].stock
    BY <2>1
  <2>3. Version(s, u, m)'
    BY <1>1, <2>1, <2>2
  <2> QED BY <2>2, <2>3 DEF Version
<1>3. ASSUME NEW d \in Tabs PROVE SaveReads(request[d])'
  <2> SUFFICES ASSUME request'[d].phase \in {"sent", "storing", "writing"}
               PROVE  SaveReads(request[d])'
    BY DEF SaveReads
  <2>1. request'[d] = request[d]
    BY DEF ShelfInv
  <2>2. request[d] \in ShelfSaves /\ SaveReads(request[d])
    BY <2>1, SaveType DEF ShelfInv
  <2>3. CASE request[d].product = Nobody
    BY <2>1, <2>2, <2>3 DEF SaveReads
  <2>4. CASE request[d].product # Nobody
    <3>1. PICK s \in ShelfProducts, u \in Int, m \in Int :
            s = request[d].product /\ u = request[d].expected /\ m = request[d].loaded
      BY <2>2, <2>4 DEF ShelfSaves, SavesOf
    <3>2. Version(s, u, m)
      BY <2>1, <2>2, <2>4, <3>1 DEF SaveReads
    <3>3. Version(s, u, m)'
      BY <1>1, <3>2
    <3> QED BY <2>1, <2>4, <3>1, <3>3 DEF SaveReads, Version
  <2> QED BY <2>3, <2>4
<1>4. r.stock \in Int
  BY DEF ShelfRows, RowsOf
<1> QED BY <1>2, <1>3, <1>4, ShelfRowsAre DEF ShelfInv

LEMMA WriteShelfKeeps ==
  ASSUME ShelfInv, NEW e \in Tabs, Shelf!Write(e)
  PROVE  ShelfInv'
<1>1. /\ request[e] \in ShelfSaves /\ request[e].phase = "writing" /\ SaveReads(request[e])
      /\ Shelf!Applies(request[e])
  BY SaveType DEF ShelfInv, Shelf!Write, Shelf!At
<1>2. PICK q : q = request[e]
  OBVIOUS
<1>3. PICK p \in ShelfProducts :
        /\ IF q.product = Nobody THEN lines[p] = Nobody ELSE p = q.product
        /\ lines' = [lines EXCEPT ![p] =
             IF q.product = Nobody
             THEN [slug |-> q.slug, image |-> q.image, stock |-> q.stock, updatedAt |-> 0]
             ELSE [slug |-> q.slug, stock |-> q.stock, updatedAt |-> @.updatedAt + 1,
                   image |-> IF q.image = Nobody THEN @.image ELSE q.image]]
        /\ owner' = [owner EXCEPT ![p] = @ + q.stock - q.loaded]
  BY <1>2 DEF Shelf!Write, Shelf!Exists
<1>4. PICK r :
        r = IF q.product = Nobody
            THEN [slug |-> q.slug, image |-> q.image, stock |-> q.stock, updatedAt |-> 0]
            ELSE [slug |-> q.slug, stock |-> q.stock, updatedAt |-> lines[p].updatedAt + 1,
                  image |-> IF q.image = Nobody THEN lines[p].image ELSE q.image]
  OBVIOUS
<1>5. /\ q.slug \in ShelfSlugs /\ q.stock \in Int /\ q.image \in ShelfImages \cup {Nobody}
      /\ q.loaded \in Int /\ q.product \in ShelfProducts \cup {Nobody}
  BY <1>1, <1>2 DEF ShelfSaves, SavesOf
<1>6. q.product # Nobody =>
        /\ lines[p] \in ShelfRows /\ q.expected = lines[p].updatedAt /\ q.loaded = lines[p].stock
        /\ lines[p] # Nobody
  BY <1>1, <1>2, <1>3, ShelfRowsAre DEF SaveReads, Version, Shelf!Applies
<1>7. r \in ShelfRows /\ r.stock = q.stock
  <2>1. CASE q.product = Nobody
    BY <1>4, <1>5, <2>1 DEF ShelfRows, RowsOf
  <2>2. CASE q.product # Nobody
    <3>1. lines[p].updatedAt \in Int /\ lines[p].image \in ShelfImages \cup {Nobody}
      BY <1>6, <2>2 DEF ShelfRows, RowsOf
    <3>2. PICK n \in Int : n = lines[p].updatedAt + 1
      BY <3>1
    <3>3. PICK i \in ShelfImages \cup {Nobody} :
            i = IF q.image = Nobody THEN lines[p].image ELSE q.image
      BY <1>5, <3>1
    <3>4. r = [slug |-> q.slug, stock |-> q.stock, updatedAt |-> n, image |-> i]
      BY <1>4, <2>2, <3>2, <3>3
    <3> QED BY <1>5, <3>4 DEF ShelfRows, RowsOf
  <2> QED BY <2>1, <2>2
<1>8. lines[p] # Nobody => r.updatedAt = lines[p].updatedAt + 1
  BY <1>3, <1>4
<1>9. owner[p] + q.stock - q.loaded = q.stock
  <2>1. owner[p] = q.loaded
    BY <1>1, <1>2, <1>3, <1>6 DEF ShelfInv, SaveReads
  <2> QED BY <1>5, <2>1
<1>10. PICK d : d \in ShelfSaves /\ d.phase \in {"written", "failed"}
                  /\ request' = [request EXCEPT ![e] = d]
  <2>1. PICK phase \in {"written", "failed"} : request' = [request EXCEPT ![e].phase = phase]
    BY DEF Shelf!Write, Shelf!Goes
  <2>2. PICK d : d = [request[e] EXCEPT !.phase = phase]
    OBVIOUS
  <2>3. d \in ShelfSaves /\ d.phase = phase
    BY <1>1, <2>2 DEF ShelfSaves, SavesOf
  <2> QED BY <2>1, <2>2, <2>3
<1>11. /\ lines' = [lines EXCEPT ![p] = r] /\ owner' = [owner EXCEPT ![p] = r.stock]
       /\ extra' = extra
  BY <1>3, <1>4, <1>7, <1>9 DEF Shelf!Write, Shelf!Goes
<1> QED BY <1>7, <1>8, <1>10, <1>11, RowKeeps

LEMMA SellShelfKeeps ==
  ASSUME ShelfInv, NEW p \in ShelfProducts, NEW n \in {-1, 1}, Shelf!Sell(p, n)
  PROVE  ShelfInv'
<1>1. lines[p] \in ShelfRows /\ lines[p] # Nobody /\ owner[p] = lines[p].stock
  BY DEF ShelfInv, Shelf!Sell, Shelf!Exists
<1>2. PICK r : r = [lines[p] EXCEPT !.stock = @ - n, !.updatedAt = @ + 1]
  OBVIOUS
<1>3. /\ r \in ShelfRows /\ r.stock = lines[p].stock - n
      /\ r.updatedAt = lines[p].updatedAt + 1
  <2>1. lines[p].stock \in Int /\ lines[p].updatedAt \in Int
    BY <1>1 DEF ShelfRows, RowsOf
  <2>2. PICK m \in Int : m = lines[p].stock - n
    BY <2>1
  <2>3. PICK v \in Int : v = lines[p].updatedAt + 1
    BY <2>1
  <2>4. r = [[lines[p] EXCEPT !.stock = m] EXCEPT !.updatedAt = v]
    BY <1>1, <1>2, <2>2, <2>3 DEF ShelfRows, RowsOf
  <2> QED BY <1>1, <2>2, <2>3, <2>4 DEF ShelfRows, RowsOf
<1>4. lines' = [lines EXCEPT ![p] = r] /\ owner' = [owner EXCEPT ![p] = r.stock]
  <2>1. lines' = [lines EXCEPT ![p] = r]
    BY <1>2 DEF ShelfInv, Shelf!Sell
  <2>2. owner' = [owner EXCEPT ![p] = r.stock]
    BY <1>1, <1>3 DEF Shelf!Sell
  <2> QED BY <2>1, <2>2
<1>5. UNCHANGED <<extra, request>>
  BY DEF Shelf!Sell
<1>6. CASE Tabs = {}
  BY <1>3, <1>4, <1>5, <1>6, ShelfRowsAre DEF ShelfInv, ShelfRows, RowsOf
<1>7. ASSUME NEW e \in Tabs PROVE ShelfInv'
  <2>1. request' = [request EXCEPT ![e] = request[e]]
    BY <1>5 DEF ShelfInv
  <2> QED BY <1>3, <1>4, <1>5, <2>1, RowKeeps DEF ShelfInv
<1> QED BY <1>6, <1>7

LEMMA CrashShelfKeeps == ASSUME ShelfInv, Shelf!Crash PROVE ShelfInv'
<1>1. UNCHANGED <<lines, owner>>
  BY DEF Shelf!Crash
<1>2. ASSUME NEW e \in Tabs
      PROVE  extra'[e] \in EditorsOf(ShelfProducts) /\ EditorReads(extra'[e])
  <2>1. CASE extra[e].kind = "submitting"
    BY <2>1, EditorType DEF Shelf!Crash, Shelf!Submitting
  <2>2. CASE extra[e].kind # "submitting"
    BY <2>2 DEF ShelfInv, Shelf!Crash, Shelf!Submitting
  <2> QED BY <2>1, <2>2
<1>3. /\ extra' \in [Tabs -> EditorsOf(ShelfProducts)]
      /\ request' \in [Tabs -> {Shelf!Idle} \cup ShelfSaves]
  BY <1>2 DEF Shelf!Crash
<1>4. \A e \in Tabs : SaveReads(request'[e])
  BY DEF Shelf!Crash, Shelf!Idle, SaveReads
<1>5. \A e \in Tabs : EditorReads(extra[e])' /\ SaveReads(request[e])'
  BY <1>1, <1>2, <1>4 DEF EditorReads, SaveReads, Version
<1> QED BY <1>1, <1>3, <1>5 DEF ShelfInv

LEMMA ShelfStep == ShelfInv /\ [Shelf!Next]_(Shelf!vars) => ShelfInv'
<1> SUFFICES ASSUME ShelfInv, [Shelf!Next]_(Shelf!vars) PROVE ShelfInv'
  OBVIOUS
<1>1. CASE UNCHANGED Shelf!vars
  BY <1>1 DEF ShelfInv, EditorReads, SaveReads, Version, Shelf!vars
<1>2. ASSUME NEW e \in Tabs, Shelf!Step(e) PROVE ShelfInv'
  <2>1. ASSUME Shelf!Refuse(e) \/ Shelf!Respond(e) \/ Shelf!CleanUp(e) PROVE ShelfInv'
    BY <2>1, AnswersShelfKeep DEF Shelf!Refuse, Shelf!Respond, Shelf!CleanUp
  <2> QED BY <1>2, <2>1, OpenShelfKeeps, SubmitShelfKeeps, GiveUpShelfKeeps, ReadShelfKeeps,
       WriteShelfKeeps DEF Shelf!Step
<1>3. CASE Shelf!Next
  BY <1>2, <1>3, SellShelfKeeps, CrashShelfKeeps DEF Shelf!Next
<1> QED BY <1>1, <1>3

\* No save undoes an order or a save that it did not read.
THEOREM StockIsAccounted == Shelf!Spec => []StockAccounted
<1>1. ShelfInv => StockAccounted
  BY DEF ShelfInv, StockAccounted, Shelf!StockAccounted, Shelf!Exists
<1> QED BY <1>1, ShelfInit, ShelfStep, PTL DEF Shelf!Spec

-----------------------------------------------------------------------------
(* The images of products.                                                 *)

AssetRows == RowsOf(Keys, Users)
AssetSaves == SavesOf(Products, Keys, Users)

LEMMA AssetRowsAre == Nobody \notin AssetRows
BY ShopAssumption DEF AssetRows, RowsOf

Named(i) == \E p \in Products : lines[p] # Nobody /\ lines[p].image = i

\* A product that was read is there.
EditorKnows(f) ==
  f.kind \in {"editing", "submitting"} /\ f.product # Nobody => lines[f.product] # Nobody

\* An image that is stored and not written yet is nobody's; one whose row may have
\* been written is removed only if the answer was lost or it is nobody's still.
Holds(q) ==
  /\ q.phase # "idle" /\ q.product # Nobody => lines[q.product] # Nobody
  /\ q.phase # "idle" /\ q.image # Nobody => q.image \in onSale
  /\ q.phase \in {"sent", "storing"} => q.image = Nobody
  /\ q.phase = "writing" /\ q.image # Nobody => q.image \in stock /\ ~ Named(q.image)
  /\ q.phase = "failed" /\ q.image # Nobody => q.image \in orders \/ ~ Named(q.image)

\* The inductive invariant of the images.
AssetsInv ==
  /\ lines \in [Products -> AssetRows \cup {Nobody}]
  /\ extra \in [Tabs -> EditorsOf(Products)]
  /\ request \in [Tabs -> {Assets!Idle} \cup AssetSaves]
  /\ \A e \in Tabs : EditorKnows(extra[e]) /\ Holds(request[e])
  /\ \A d, e \in Tabs :
       request[d].phase # "idle" /\ request[e].phase # "idle" /\ d # e =>
         request[d].image = Nobody \/ request[d].image # request[e].image
  /\ \A p \in Products : lines[p] # Nobody /\ lines[p].image # Nobody =>
       /\ lines[p].image \in onSale
       /\ lines[p].image \in stock \cup orders
       /\ \A q \in Products \ {p} : lines[q] # Nobody => lines[q].image # lines[p].image

LEMMA AssetsInit == Assets!Init => AssetsInv
<1> SUFFICES ASSUME Assets!Init PROVE AssetsInv
  OBVIOUS
<1>1. PICK p \in Products, s \in Keys :
        lines = [[r \in Products |-> Nobody] EXCEPT ![p] =
                   [slug |-> s, image |-> Nobody, stock |-> 1, updatedAt |-> 0]]
  BY DEF Assets!Init
<1>2. [slug |-> s, image |-> Nobody, stock |-> 1, updatedAt |-> 0] \in AssetRows
  BY DEF AssetRows, RowsOf
<1>3. /\ lines \in [Products -> AssetRows \cup {Nobody}]
      /\ \A r \in Products : lines[r] # Nobody => lines[r].image = Nobody
  BY <1>1, <1>2
<1>4. /\ extra = [e \in Tabs |-> [kind |-> "closed"]]
      /\ request = [e \in Tabs |-> Assets!Idle]
  BY DEF Assets!Init, Assets!Closed
<1>5. \A e \in Tabs : EditorKnows(extra[e]) /\ Holds(request[e]) /\ request[e].phase = "idle"
  BY <1>4 DEF EditorKnows, Holds, Assets!Idle
<1> QED BY <1>3, <1>4, <1>5 DEF AssetsInv, EditorsOf

AssetSaveOK(e, q) ==
  /\ q \in {Assets!Idle} \cup AssetSaves
  /\ Holds(q)
  /\ \A d \in Tabs \ {e} :
       q.phase # "idle" /\ request[d].phase # "idle" =>
         q.image = Nobody \/ request[d].image # q.image

\* A step of one editor, or of the save it sent, that leaves the rows alone.
LEMMA AssetKeeps ==
  ASSUME AssetsInv, NEW e \in Tabs, NEW f \in EditorsOf(Products), NEW q,
         extra' = [extra EXCEPT ![e] = f], request' = [request EXCEPT ![e] = q],
         UNCHANGED <<lines, stock, onSale, orders>>, EditorKnows(f), AssetSaveOK(e, q)
  PROVE  AssetsInv'
<1>1. \A d \in Tabs : EditorKnows(extra'[d]) /\ Holds(request'[d])
  BY DEF AssetsInv, AssetSaveOK
<1>2. \A d \in Tabs : EditorKnows(extra[d])' /\ Holds(request[d])'
  BY <1>1 DEF EditorKnows, Holds, Named
<1>3. request'[e] = q /\ \A d \in Tabs \ {e} : request'[d] = request[d]
  BY DEF AssetsInv
<1>4. ASSUME NEW c \in Tabs, NEW d \in Tabs, request'[c].phase # "idle",
             request'[d].phase # "idle", c # d
      PROVE  request'[c].image = Nobody \/ request'[c].image # request'[d].image
  BY <1>3, <1>4 DEF AssetsInv, AssetSaveOK
<1> QED BY <1>2, <1>4 DEF AssetsInv, AssetSaveOK

LEMMA AssetSaveType ==
  ASSUME AssetsInv, NEW e \in Tabs
  PROVE  /\ AssetSaveOK(e, request[e]) /\ AssetSaveOK(e, Assets!Idle)
         /\ request[e].phase # "idle" => request[e] \in AssetSaves
<1>1. AssetSaveOK(e, request[e])
  BY DEF AssetsInv, AssetSaveOK
<1> QED BY <1>1 DEF AssetsInv, AssetSaveOK, Holds, Assets!Idle, AssetSaves, SavesOf

LEMMA AssetEditorType ==
  ASSUME AssetsInv, NEW e \in Tabs, extra[e].kind \in {"editing", "submitting"}
  PROVE  /\ extra[e].product \in Products \cup {Nobody}
         /\ extra[e].product # Nobody =>
              /\ extra[e].stock \in Int /\ extra[e].updatedAt \in Int
              /\ lines[extra[e].product] # Nobody
         /\ \A kind \in {"editing", "submitting"} :
              LET f == [extra[e] EXCEPT !.kind = kind] IN
              f \in EditorsOf(Products) /\ EditorKnows(f)
<1>1. extra[e] \in EditorsOf(Products) /\ EditorKnows(extra[e])
  BY DEF AssetsInv
<1>2. CASE extra[e] \in [kind : {"editing", "submitting"}, product : {Nobody}]
  BY <1>2 DEF EditorsOf, EditorKnows
<1>3. CASE extra[e] \in [kind : {"editing", "submitting"}, product : Products,
                         stock : Int, updatedAt : Int]
  BY <1>1, <1>3, ShopAssumption DEF EditorsOf, EditorKnows
<1> QED BY <1>1, <1>2, <1>3 DEF EditorsOf

LEMMA OpenAssetKeeps ==
  ASSUME AssetsInv, NEW e \in Tabs, Assets!Open(e)
  PROVE  AssetsInv'
<1>1. PICK f \in EditorsOf(Products) : extra' = [extra EXCEPT ![e] = f] /\ EditorKnows(f)
  <2>1. CASE extra' = [extra EXCEPT ![e] = [kind |-> "editing", product |-> Nobody]]
    <3>1. PICK f : f = [kind |-> "editing", product |-> Nobody]
      OBVIOUS
    <3>2. f \in EditorsOf(Products) /\ EditorKnows(f)
      BY <3>1 DEF EditorsOf, EditorKnows
    <3> QED BY <2>1, <3>1, <3>2
  <2>2. ASSUME NEW p \in Products, lines[p] # Nobody,
               extra' = [extra EXCEPT ![e] =
                 [kind |-> "editing", product |-> p, stock |-> lines[p].stock,
                  updatedAt |-> lines[p].updatedAt]]
        PROVE  \E f \in EditorsOf(Products) :
                 extra' = [extra EXCEPT ![e] = f] /\ EditorKnows(f)
    <3>1. lines[p] \in AssetRows
      BY <2>2 DEF AssetsInv
    <3>2. lines[p].stock \in Int /\ lines[p].updatedAt \in Int
      BY <3>1 DEF AssetRows, RowsOf
    <3>3. PICK f : f = [kind |-> "editing", product |-> p, stock |-> lines[p].stock,
                        updatedAt |-> lines[p].updatedAt]
      OBVIOUS
    <3>4. f \in EditorsOf(Products) /\ EditorKnows(f)
      BY <2>2, <3>2, <3>3 DEF EditorsOf, EditorKnows
    <3> QED BY <2>2, <3>3, <3>4
  <2> QED BY <2>1, <2>2 DEF Assets!Open, Assets!Exists
<1>2. request' = [request EXCEPT ![e] = request[e]] /\ UNCHANGED <<lines, stock, onSale, orders>>
  BY DEF AssetsInv, Assets!Open, Assets!assets
<1> QED BY <1>1, <1>2, AssetKeeps, AssetSaveType

LEMMA SubmitAssetKeeps ==
  ASSUME AssetsInv, NEW e \in Tabs, NEW s \in Keys, NEW n \in 0..MaxAssetStock,
         NEW b \in BOOLEAN, Assets!Submit(e, s, n, b)
  PROVE  AssetsInv'
<1>1. extra[e].kind = "editing"
  BY DEF Assets!Submit
<1>2. PICK f : f = [extra[e] EXCEPT !.kind = "submitting"]
  OBVIOUS
<1>3. f \in EditorsOf(Products) /\ EditorKnows(f)
  BY <1>1, <1>2, AssetEditorType
<1>4. PICK q : q =
        [phase |-> "sent", product |-> extra[e].product, slug |-> s, stock |-> n,
         loaded |-> IF extra[e].product = Nobody THEN 0 ELSE extra[e].stock,
         expected |-> IF extra[e].product = Nobody THEN 0 ELSE extra[e].updatedAt,
         withImage |-> b, image |-> Nobody]
  OBVIOUS
<1>5. AssetSaveOK(e, q)
  <2>1. /\ q.product \in Products \cup {Nobody} /\ q.loaded \in Int /\ q.expected \in Int
        /\ n \in Int /\ q.product # Nobody => lines[q.product] # Nobody
    <3>1. /\ extra[e].product \in Products \cup {Nobody}
          /\ extra[e].product # Nobody =>
               /\ extra[e].stock \in Int /\ extra[e].updatedAt \in Int
               /\ lines[extra[e].product] # Nobody
      BY <1>1, AssetEditorType
    <3>2. n \in Int
      OBVIOUS
    <3> QED BY <1>4, <3>1, <3>2
  <2>2. q \in AssetSaves
    BY <1>4, <2>1 DEF AssetSaves, SavesOf
  <2> QED BY <1>4, <2>1, <2>2 DEF AssetSaveOK, Holds
<1>6. /\ extra' = [extra EXCEPT ![e] = f] /\ request' = [request EXCEPT ![e] = q]
      /\ UNCHANGED <<lines, stock, onSale, orders>>
  BY <1>2, <1>4 DEF Assets!Submit, Assets!assets
<1> QED BY <1>3, <1>5, <1>6, AssetKeeps

\* What the editor becomes when it waits no more.
LEMMA AssetEditor ==
  ASSUME AssetsInv, NEW e \in Tabs, NEW saved \in BOOLEAN,
         Assets!GiveUp(e) \/ Assets!Answers(e, saved)
  PROVE  \E f \in EditorsOf(Products) : extra' = [extra EXCEPT ![e] = f] /\ EditorKnows(f)
<1>1. CASE extra[e].kind # "submitting"
  <2>1. extra' = [extra EXCEPT ![e] = extra[e]]
    BY <1>1 DEF AssetsInv, Assets!Answers, Assets!Submitting, Assets!GiveUp
  <2> QED BY <2>1 DEF AssetsInv
<1>2. CASE extra[e].kind = "submitting"
  <2>1. PICK f : f = [extra[e] EXCEPT !.kind = "editing"]
    OBVIOUS
  <2>2. f \in EditorsOf(Products) /\ EditorKnows(f)
    BY <1>2, <2>1, AssetEditorType
  <2>3. PICK g : g = [kind |-> "closed"]
    OBVIOUS
  <2>4. g \in EditorsOf(Products) /\ EditorKnows(g)
    BY <2>3 DEF EditorsOf, EditorKnows
  <2>5. extra' = [extra EXCEPT ![e] = f] \/ extra' = [extra EXCEPT ![e] = g]
    BY <1>2, <2>1, <2>3 DEF Assets!Answers, Assets!Submitting, Assets!GiveUp, Assets!Closed
  <2> QED BY <2>2, <2>4, <2>5
<1> QED BY <1>1, <1>2

LEMMA GiveUpAssetKeeps ==
  ASSUME AssetsInv, NEW e \in Tabs, Assets!GiveUp(e)
  PROVE  AssetsInv'
<1>1. request' = [request EXCEPT ![e] = request[e]] /\ UNCHANGED <<lines, stock, onSale, orders>>
  BY DEF AssetsInv, Assets!GiveUp, Assets!assets
<1>2. PICK f \in EditorsOf(Products) : extra' = [extra EXCEPT ![e] = f] /\ EditorKnows(f)
  BY AssetEditor
<1> QED BY <1>1, <1>2, AssetKeeps, AssetSaveType

LEMMA AnswersAssetKeep ==
  ASSUME AssetsInv, NEW e \in Tabs, NEW saved \in BOOLEAN, Assets!Answers(e, saved),
         UNCHANGED <<lines, stock, onSale, orders>>
  PROVE  AssetsInv'
<1>1. request' = [request EXCEPT ![e] = Assets!Idle]
  BY DEF Assets!Answers
<1>2. PICK f \in EditorsOf(Products) : extra' = [extra EXCEPT ![e] = f] /\ EditorKnows(f)
  BY AssetEditor
<1> QED BY <1>1, <1>2, AssetKeeps, AssetSaveType

LEMMA ReadAssetKeeps ==
  ASSUME AssetsInv, NEW e \in Tabs, Assets!ReadRow(e) \/ Assets!WriteFails(e)
  PROVE  AssetsInv'
<1>1. UNCHANGED <<lines, stock, onSale, orders>>
  BY DEF Assets!ReadRow, Assets!WriteFails, Assets!assets
<1>2. request[e] \in AssetSaves /\ AssetSaveOK(e, request[e])
  BY AssetSaveType DEF Assets!ReadRow, Assets!WriteFails, Assets!At
<1>3. CASE Assets!Answers(e, FALSE)
  BY <1>1, <1>3, AnswersAssetKeep
<1>4. ASSUME NEW phase \in {"storing", "writing", "failed"}, Assets!Goes(e, phase),
             IF phase = "failed" THEN request[e].phase = "writing" ELSE request[e].phase = "sent"
      PROVE  AssetsInv'
  <2>1. PICK q : q = [request[e] EXCEPT !.phase = phase]
    OBVIOUS
  <2>2. /\ q \in AssetSaves /\ q.phase = phase /\ q.image = request[e].image
        /\ q.product = request[e].product
    BY <1>2, <2>1 DEF AssetSaves, SavesOf
  <2>3. AssetSaveOK(e, q)
    BY <1>2, <1>4, <2>2 DEF AssetSaveOK, Holds
  <2>4. request' = [request EXCEPT ![e] = q] /\ extra' = [extra EXCEPT ![e] = extra[e]]
    BY <1>4, <2>1 DEF AssetsInv, Assets!Goes
  <2> QED BY <1>1, <2>3, <2>4, AssetKeeps DEF AssetsInv
<1>5. CASE Assets!ReadRow(e)
  BY <1>3, <1>4, <1>5 DEF Assets!ReadRow, Assets!At
<1>6. CASE Assets!WriteFails(e)
  BY <1>4, <1>6 DEF Assets!WriteFails, Assets!At
<1> QED BY <1>5, <1>6

\* A new image is nobody's.
LEMMA StoreAssetKeeps ==
  ASSUME AssetsInv, NEW e \in Tabs, Assets!StoreImage(e)
  PROVE  AssetsInv'
<1>1. UNCHANGED <<lines, orders>>
  BY DEF Assets!StoreImage
<1>2. request[e] \in AssetSaves /\ AssetSaveOK(e, request[e]) /\ request[e].phase = "storing"
  BY AssetSaveType DEF Assets!StoreImage, Assets!At
<1>3. CASE Assets!Answers(e, FALSE) /\ UNCHANGED <<stock, onSale>>
  BY <1>1, <1>3, AnswersAssetKeep
<1>4. ASSUME NEW i \in Users \ onSale, stock' = stock \cup {i}, onSale' = onSale \cup {i},
             request' = [request EXCEPT ![e].phase = "writing", ![e].image = i], extra' = extra
      PROVE  AssetsInv'
  <2>1. PICK q : q = [request[e] EXCEPT !.phase = "writing", !.image = i]
    OBVIOUS
  <2>2. /\ q \in AssetSaves /\ q.phase = "writing" /\ q.image = i
        /\ q.product = request[e].product
    BY <1>2, <2>1 DEF AssetSaves, SavesOf
  <2>3. ~ Named(i) /\ ~ Named(i)'
    BY <1>1, <1>4, OrdersAssumption DEF AssetsInv, Named
  <2>4. /\ request' = [request EXCEPT ![e] = q]
    BY <1>4, <2>1 DEF AssetsInv
  <2>5. request'[e] = q /\ \A d \in Tabs \ {e} : request'[d] = request[d]
    BY <2>4 DEF AssetsInv
  <2>6. ASSUME NEW d \in Tabs PROVE EditorKnows(extra[d])' /\ Holds(request[d])'
    <3>1. EditorKnows(extra[d])'
      BY <1>1, <1>4 DEF AssetsInv, EditorKnows
    <3>2. CASE d = e
      <4>1. Holds(q)'
        BY <1>1, <1>2, <1>4, <2>2, <2>3 DEF AssetSaveOK, Holds, Named
      <4> QED BY <2>5, <3>1, <3>2, <4>1 DEF Holds
    <3>3. CASE d # e
      <4>1. Holds(request[d]) /\ request'[d] = request[d]
        BY <2>5, <3>3 DEF AssetsInv
      <4>2. ~ Named(request[d].image) => ~ Named(request[d].image)'
        BY <1>1, <4>1 DEF Named
      <4>3. stock \subseteq stock' /\ onSale \subseteq onSale'
        BY <1>4
      <4>4. Holds(request[d])'
        BY <1>1, <4>1, <4>2, <4>3 DEF Holds
      <4> QED BY <3>1, <4>4
    <3> QED BY <3>2, <3>3
  <2>7. ASSUME NEW c \in Tabs, NEW d \in Tabs, request'[c].phase # "idle",
               request'[d].phase # "idle", c # d
        PROVE  request'[c].image = Nobody \/ request'[c].image # request'[d].image
    <3>1. \A x \in Tabs \ {e} : request[x].phase # "idle" => request[x].image # i
      BY <1>4, OrdersAssumption DEF AssetsInv, Holds
    <3> QED BY <2>2, <2>5, <2>7, <3>1 DEF AssetsInv
  <2>8. request' \in [Tabs -> {Assets!Idle} \cup AssetSaves]
    BY <2>2, <2>4 DEF AssetsInv
  <2> QED BY <1>1, <1>4, <2>6, <2>7, <2>8 DEF AssetsInv
<1> QED BY <1>3, <1>4 DEF Assets!StoreImage

\* The file of a failed save is removed: its row was not written, or the answer lost.
LEMMA CleanUpAssetKeeps ==
  ASSUME AssetsInv, NEW e \in Tabs, Assets!CleanUp(e)
  PROVE  AssetsInv'
<1>1. UNCHANGED <<lines, onSale, orders>> /\ stock' \in {stock, stock \ {request[e].image}}
  BY DEF Assets!CleanUp
<1>2. request[e].phase = "failed" /\ Holds(request[e])
  BY DEF AssetsInv, Assets!CleanUp, Assets!At
<1>3. PICK f \in EditorsOf(Products) : extra' = [extra EXCEPT ![e] = f] /\ EditorKnows(f)
  BY AssetEditor DEF Assets!CleanUp
<1>4. request' = [request EXCEPT ![e] = Assets!Idle]
  BY DEF Assets!CleanUp, Assets!Answers
<1>5. request'[e] = Assets!Idle /\ \A d \in Tabs \ {e} : request'[d] = request[d]
  BY <1>4 DEF AssetsInv
<1>6. ASSUME NEW d \in Tabs PROVE EditorKnows(extra[d])' /\ Holds(request[d])'
  <2>1. EditorKnows(extra'[d])
    BY <1>3 DEF AssetsInv
  <2>2. EditorKnows(extra[d])'
    BY <1>1, <2>1 DEF EditorKnows
  <2>3. CASE d = e
    BY <1>5, <2>2, <2>3 DEF Holds, Assets!Idle
  <2>4. CASE d # e
    <3>1. Holds(request[d]) /\ request'[d] = request[d]
      BY <1>5, <2>4 DEF AssetsInv
    <3>2. request[d].phase # "idle" /\ request[d].image # Nobody =>
            request[d].image # request[e].image
      BY <1>2, <2>4 DEF AssetsInv
    <3> QED BY <1>1, <2>2, <3>1, <3>2 DEF Holds, Named
  <2> QED BY <2>3, <2>4
<1>7. \A p \in Products : lines[p] # Nobody /\ lines[p].image # Nobody =>
        lines[p].image \in stock' \cup orders
  BY <1>1, <1>2 DEF AssetsInv, Holds, Named
<1>8. ASSUME NEW c \in Tabs, NEW d \in Tabs, request'[c].phase # "idle",
             request'[d].phase # "idle", c # d
      PROVE  request'[c].image = Nobody \/ request'[c].image # request'[d].image
  BY <1>5, <1>8 DEF AssetsInv, Assets!Idle
<1> QED BY <1>1, <1>3, <1>4, <1>6, <1>7, <1>8 DEF AssetsInv

\* A row is written: its image is the one of the save, or the one it had.
LEMMA WriteAssetKeeps ==
  ASSUME AssetsInv, NEW e \in Tabs, Assets!Write(e)
  PROVE  AssetsInv'
<1>1. /\ request[e] \in AssetSaves /\ request[e].phase = "writing" /\ Holds(request[e])
  BY AssetSaveType DEF AssetsInv, Assets!Write, Assets!At
<1>2. PICK q : q = request[e]
  OBVIOUS
<1>3. PICK p \in Products :
        /\ IF q.product = Nobody THEN lines[p] = Nobody ELSE p = q.product
        /\ lines' = [lines EXCEPT ![p] =
             IF q.product = Nobody
             THEN [slug |-> q.slug, image |-> q.image, stock |-> q.stock, updatedAt |-> 0]
             ELSE [slug |-> q.slug, stock |-> q.stock, updatedAt |-> @.updatedAt + 1,
                   image |-> IF q.image = Nobody THEN @.image ELSE q.image]]
  BY <1>2 DEF Assets!Write, Assets!Exists
<1>4. PICK r :
        r = IF q.product = Nobody
            THEN [slug |-> q.slug, image |-> q.image, stock |-> q.stock, updatedAt |-> 0]
            ELSE [slug |-> q.slug, stock |-> q.stock, updatedAt |-> lines[p].updatedAt + 1,
                  image |-> IF q.image = Nobody THEN lines[p].image ELSE q.image]
  OBVIOUS
<1>5. /\ q.slug \in Keys /\ q.stock \in Int /\ q.image \in Users \cup {Nobody}
      /\ q.product \in Products \cup {Nobody}
  BY <1>1, <1>2 DEF AssetSaves, SavesOf
<1>6. q.product # Nobody => lines[p] \in AssetRows /\ lines[p] # Nobody
  BY <1>1, <1>2, <1>3 DEF AssetsInv, Holds
<1>7. /\ r \in AssetRows
      /\ \/ r.image = q.image
         \/ r.image = lines[p].image /\ lines[p] # Nobody
  <2>1. CASE q.product = Nobody
    BY <1>4, <1>5, <2>1 DEF AssetRows, RowsOf
  <2>2. CASE q.product # Nobody
    <3>1. lines[p].updatedAt \in Int /\ lines[p].image \in Users \cup {Nobody}
      BY <1>6, <2>2 DEF AssetRows, RowsOf
    <3>2. PICK n \in Int : n = lines[p].updatedAt + 1
      BY <3>1
    <3>3. PICK i \in Users \cup {Nobody} : i = IF q.image = Nobody THEN lines[p].image ELSE q.image
      BY <1>5, <3>1
    <3>4. r = [slug |-> q.slug, stock |-> q.stock, updatedAt |-> n, image |-> i]
      BY <1>4, <2>2, <3>2, <3>3
    <3> QED BY <1>5, <1>6, <2>2, <3>3, <3>4 DEF AssetRows, RowsOf
  <2> QED BY <2>1, <2>2
<1>8. PICK d \in AssetSaves :
        /\ d.phase \in {"written", "failed"}
        /\ d.phase = "failed" /\ q.image # Nobody => q.image \in orders'
        /\ d.image = q.image /\ d.product = q.product
        /\ request' = [request EXCEPT ![e] = d]
  <2>1. PICK phase \in {"written", "failed"} :
          /\ request' = [request EXCEPT ![e].phase = phase]
          /\ phase = "failed" /\ q.image # Nobody => q.image \in orders'
    <3>1. CASE Assets!Goes(e, "written")
      BY <3>1 DEF Assets!Goes
    <3>2. CASE Assets!Goes(e, "failed") /\ orders' = orders \cup ({q.image} \ {Nobody})
      BY <3>2 DEF Assets!Goes
    <3> QED BY <1>2, <3>1, <3>2 DEF Assets!Write
  <2>2. PICK d : d = [request[e] EXCEPT !.phase = phase]
    OBVIOUS
  <2>3. d \in AssetSaves /\ d.phase = phase /\ d.image = q.image /\ d.product = q.product
    BY <1>1, <1>2, <2>2 DEF AssetSaves, SavesOf
  <2> QED BY <2>1, <2>2, <2>3
<1>9. /\ UNCHANGED <<stock, onSale, extra>> /\ orders \subseteq orders'
  BY DEF Assets!Write, Assets!Goes
<1>10. /\ lines' = [lines EXCEPT ![p] = r] /\ lines'[p] = r /\ r # Nobody
       /\ \A s \in Products \ {p} : lines'[s] = lines[s]
  BY <1>3, <1>4, <1>7, AssetRowsAre DEF AssetsInv
<1>11. request'[e] = d /\ \A c \in Tabs \ {e} : request'[c] = request[c]
  BY <1>8 DEF AssetsInv
<1>12. \A s \in Products : lines[s] # Nobody => lines'[s] # Nobody
  BY <1>10
<1>13. \A i : i # q.image /\ Named(i)' => Named(i)
  BY <1>7, <1>10 DEF Named
<1>14. ASSUME NEW c \in Tabs PROVE EditorKnows(extra[c])' /\ Holds(request[c])'
  <2>1. EditorKnows(extra[c])'
    <3>1. extra[c].kind \in {"editing", "submitting"} /\ extra[c].product # Nobody =>
            extra[c].product \in Products /\ lines[extra[c].product] # Nobody
      BY AssetEditorType
    <3> QED BY <1>9, <1>12, <3>1 DEF EditorKnows
  <2>2. CASE c = e
    <3>1. q.product # Nobody => lines'[q.product] # Nobody
      BY <1>1, <1>2, <1>5, <1>12 DEF Holds
    <3> QED BY <1>1, <1>2, <1>8, <1>9, <1>11, <2>1, <2>2, <3>1 DEF Holds
  <2>3. CASE c # e
    <3>1. Holds(request[c]) /\ request'[c] = request[c] /\
          (request[c].phase # "idle" => request[c] \in AssetSaves)
      BY <1>11, <2>3, AssetSaveType DEF AssetsInv
    <3>2. request[c].phase # "idle" => request[c].product \in Products \cup {Nobody}
      BY <3>1 DEF AssetSaves, SavesOf
    <3>3. request[c].phase # "idle" /\ request[c].image # Nobody => request[c].image # q.image
      BY <1>1, <1>2, <2>3 DEF AssetsInv
    <3>4. request[c].phase # "idle" /\ request[c].image # Nobody /\ ~ Named(request[c].image) =>
            ~ (\E s \in Products : lines'[s] # Nobody /\ lines'[s].image = request[c].image)
      BY <1>13, <3>3 DEF Named
    <3> QED BY <1>9, <1>12, <2>1, <3>1, <3>2, <3>4 DEF Holds, Named
  <2> QED BY <2>2, <2>3
<1>15. ASSUME NEW b \in Tabs, NEW c \in Tabs, request'[b].phase # "idle",
              request'[c].phase # "idle", b # c
       PROVE  request'[b].image = Nobody \/ request'[b].image # request'[c].image
  BY <1>1, <1>2, <1>8, <1>11, <1>15 DEF AssetsInv
<1>16. r.image # Nobody =>
         /\ r.image \in onSale /\ r.image \in stock \cup orders
         /\ \A s \in Products \ {p} : lines[s] # Nobody => lines[s].image # r.image
  BY <1>1, <1>2, <1>7 DEF AssetsInv, Holds, Named
<1>17. ASSUME NEW s \in Products, lines'[s] # Nobody, lines'[s].image # Nobody
       PROVE  /\ lines'[s].image \in onSale' /\ lines'[s].image \in stock' \cup orders'
              /\ \A u \in Products \ {s} : lines'[u] # Nobody => lines'[u].image # lines'[s].image
  BY <1>9, <1>10, <1>16, <1>17 DEF AssetsInv
<1>18. /\ lines' \in [Products -> AssetRows \cup {Nobody}]
       /\ request' \in [Tabs -> {Assets!Idle} \cup AssetSaves]
  BY <1>7, <1>8, <1>10 DEF AssetsInv
<1> QED BY <1>9, <1>14, <1>15, <1>17, <1>18 DEF AssetsInv

LEMMA SellAssetKeeps ==
  ASSUME AssetsInv, NEW p \in Products, NEW n \in {-1, 1}, Assets!Sell(p, n)
  PROVE  AssetsInv'
<1>1. lines[p] \in AssetRows /\ lines[p] # Nobody
  BY DEF AssetsInv, Assets!Sell, Assets!Exists
<1>2. PICK r : r = [lines[p] EXCEPT !.stock = @ - n, !.updatedAt = @ + 1]
  OBVIOUS
<1>3. r \in AssetRows /\ r.image = lines[p].image
  <2>1. lines[p].stock \in Int /\ lines[p].updatedAt \in Int
    BY <1>1 DEF AssetRows, RowsOf
  <2>2. PICK m \in Int : m = lines[p].stock - n
    BY <2>1
  <2>3. PICK v \in Int : v = lines[p].updatedAt + 1
    BY <2>1
  <2>4. r = [[lines[p] EXCEPT !.stock = m] EXCEPT !.updatedAt = v]
    BY <1>1, <1>2, <2>2, <2>3 DEF AssetRows, RowsOf
  <2> QED BY <1>1, <2>2, <2>3, <2>4 DEF AssetRows, RowsOf
<1>4. lines' = [lines EXCEPT ![p] = r]
  BY <1>2 DEF AssetsInv, Assets!Sell
<1>5. UNCHANGED <<stock, onSale, orders, extra, request>>
  BY DEF Assets!Sell, Assets!assets
<1>6. lines' \in [Products -> AssetRows \cup {Nobody}]
  BY <1>3, <1>4 DEF AssetsInv
<1>7. \A s \in Products : /\ lines'[s] = Nobody <=> lines[s] = Nobody
                          /\ lines[s] # Nobody => lines'[s].image = lines[s].image
  BY <1>1, <1>3, <1>4, AssetRowsAre DEF AssetsInv
<1>8. ASSUME NEW c \in Tabs PROVE EditorKnows(extra[c])' /\ Holds(request[c])'
  <2>1. extra[c].kind \in {"editing", "submitting"} /\ extra[c].product # Nobody =>
          extra[c].product \in Products /\ lines[extra[c].product] # Nobody
    BY AssetEditorType
  <2>2. EditorKnows(extra[c])'
    BY <1>5, <1>7, <2>1 DEF EditorKnows
  <2>3. Holds(request[c]) /\ (request[c].phase # "idle" => request[c] \in AssetSaves)
    BY AssetSaveType DEF AssetsInv
  <2>4. request[c].phase # "idle" => request[c].product \in Products \cup {Nobody}
    BY <2>3 DEF AssetSaves, SavesOf
  <2>5. \A i : Named(i)' => Named(i)
    BY <1>7 DEF Named
  <2>6. ~ Named(request[c].image) => ~ Named(request[c].image)'
    BY <1>5, <2>5 DEF Named
  <2> QED BY <1>5, <1>7, <2>2, <2>3, <2>4, <2>6 DEF Holds
<1> QED BY <1>5, <1>6, <1>7, <1>8 DEF AssetsInv

LEMMA CrashAssetKeeps == ASSUME AssetsInv, Assets!Crash PROVE AssetsInv'
<1>1. UNCHANGED <<lines, stock, onSale, orders>>
  BY DEF Assets!Crash, Assets!assets
<1>2. ASSUME NEW e \in Tabs
      PROVE  extra'[e] \in EditorsOf(Products) /\ EditorKnows(extra'[e])
  <2>1. CASE extra[e].kind = "submitting"
    BY <2>1, AssetEditorType DEF Assets!Crash, Assets!Submitting
  <2>2. CASE extra[e].kind # "submitting"
    BY <2>2 DEF AssetsInv, Assets!Crash, Assets!Submitting
  <2> QED BY <2>1, <2>2
<1>3. /\ extra' \in [Tabs -> EditorsOf(Products)]
      /\ request' \in [Tabs -> {Assets!Idle} \cup AssetSaves]
  BY <1>2 DEF Assets!Crash
<1>4. \A e \in Tabs : Holds(request'[e]) /\ request'[e].phase = "idle"
  BY DEF Assets!Crash, Assets!Idle, Holds
<1>5. \A e \in Tabs : EditorKnows(extra[e])' /\ Holds(request[e])'
  BY <1>1, <1>2, <1>4 DEF EditorKnows, Holds, Named
<1> QED BY <1>1, <1>3, <1>4, <1>5 DEF AssetsInv

LEMMA AssetsStep == AssetsInv /\ [Assets!Next]_(Assets!vars) => AssetsInv'
<1> SUFFICES ASSUME AssetsInv, [Assets!Next]_(Assets!vars) PROVE AssetsInv'
  OBVIOUS
<1>1. CASE UNCHANGED Assets!vars
  BY <1>1 DEF AssetsInv, EditorKnows, Holds, Named, Assets!vars
<1>2. ASSUME NEW e \in Tabs, Assets!Step(e) PROVE AssetsInv'
  <2>1. ASSUME Assets!Refuse(e) \/ Assets!Respond(e) PROVE AssetsInv'
    BY <2>1, AnswersAssetKeep DEF Assets!Refuse, Assets!Respond, Assets!assets
  <2> QED BY <1>2, <2>1, OpenAssetKeeps, SubmitAssetKeeps, GiveUpAssetKeeps, ReadAssetKeeps,
       StoreAssetKeeps, WriteAssetKeeps, CleanUpAssetKeeps DEF Assets!Step
<1>3. CASE Assets!Next
  BY <1>2, <1>3, SellAssetKeeps, CrashAssetKeeps DEF Assets!Next
<1> QED BY <1>1, <1>3

\* The image of a product is there and its alone.
THEOREM ImagesKept == Assets!Spec => []ImageKept
<1>1. AssetsInv => ImageKept
  BY DEF AssetsInv, ImageKept, Assets!ImageKept, Assets!Exists
<1> QED BY <1>1, AssetsInit, AssetsStep, PTL DEF Assets!Spec

-----------------------------------------------------------------------------
(* Likes.                                                                  *)

\* A request that works on a press, with any count.
IsPress(r) ==
  \E count : r \in [phase : {"sent", "look", "insert", "update", "count", "counted"},
                    page : Tabs, purchase : Purchases, retried : BOOLEAN, count : {count},
                    live : BOOLEAN]

\* A page with any counts; it shows the one its last press was answered with.
IsPage(x) ==
  \E shown, read, accepted :
    /\ x \in [shown : {shown}, load : {"asked", "read", "done"}, read : {read},
              accepted : {accepted}, button : {"idle", "pending", "error", "sent"}]
    /\ accepted # 0 => shown = accepted

\* The press of a purchase that is accepted and not counted yet.
Owed(r, p) == r.phase \in {"look", "insert", "update"} /\ r.purchase = p

\* The inductive invariant of the likes.
HeartsInv ==
  /\ lines \in [Purchases -> Int]
  /\ stock \in [Purchases -> Int]
  /\ DOMAIN request = Keys /\ request = [q \in Keys |-> request[q]]
  /\ DOMAIN orders = Tabs /\ orders = [t \in Tabs |-> orders[t]]
  /\ \A q \in Keys : request[q] = Hearts!Idle \/ IsPress(request[q])
  /\ \A t \in Tabs : IsPage(orders[t])
  /\ \A p \in Purchases : lines[p] + Cardinality(Hearts!Working(p)) = stock[p]

LEMMA HeartsInit == Hearts!Init => HeartsInv
<1> SUFFICES ASSUME Hearts!Init PROVE HeartsInv
  OBVIOUS
<1>1. \A p \in Purchases : Hearts!Working(p) = {}
  BY DEF Hearts!Init, Hearts!Idle, Hearts!Working
<1>2. PICK x : x = [shown |-> 0, load |-> "asked", read |-> 0, accepted |-> 0, button |-> "idle"]
  OBVIOUS
<1>3. IsPage(x)
  BY <1>2 DEF IsPage
<1>4. orders = [t \in Tabs |-> x]
  BY <1>2 DEF Hearts!Init
<1> QED BY <1>1, <1>3, <1>4, FS_EmptySet DEF Hearts!Init, HeartsInv

\* A step of one request, that counts a press when it ends to owe it.
LEMMA HeartsKeep ==
  ASSUME HeartsInv, NEW q \in Keys, NEW r, r = Hearts!Idle \/ IsPress(r),
         request' = [request EXCEPT ![q] = r],
         lines' \in [Purchases -> Int], stock' \in [Purchases -> Int],
         DOMAIN orders' = Tabs, orders' = [t \in Tabs |-> orders'[t]],
         \A t \in Tabs : IsPage(orders'[t]),
         \A p \in Purchases :
           /\ Owed(r, p) /\ ~ Owed(request[q], p) =>
                stock'[p] - lines'[p] = stock[p] - lines[p] + 1
           /\ ~ Owed(r, p) /\ Owed(request[q], p) =>
                stock'[p] - lines'[p] = stock[p] - lines[p] - 1
           /\ (Owed(r, p) <=> Owed(request[q], p)) =>
                stock'[p] - lines'[p] = stock[p] - lines[p]
  PROVE  HeartsInv'
<1>1. request'[q] = r /\ \A s \in Keys \ {q} : request'[s] = request[s]
  BY DEF HeartsInv
<1>2. ASSUME NEW p \in Purchases PROVE lines'[p] + Cardinality(Hearts!Working(p)') = stock'[p]
  <2>1. PICK old : old = Hearts!Working(p)
    OBVIOUS
  <2>2. IsFiniteSet(old) /\ Cardinality(old) \in Nat
    BY <2>1, FS_Subset, FS_CardinalityType, ShopAssumption DEF Hearts!Working
  <2>3. q \in old <=> Owed(request[q], p)
    BY <2>1 DEF Hearts!Working, Owed
  <2>4. Hearts!Working(p)' = IF Owed(r, p) THEN old \cup {q} ELSE old \ {q}
    BY <1>1, <2>1 DEF Hearts!Working, Owed
  <2>5. lines[p] + Cardinality(old) = stock[p]
    BY <2>1 DEF HeartsInv
  <2>6. lines[p] \in Int /\ stock[p] \in Int /\ lines'[p] \in Int /\ stock'[p] \in Int
    BY DEF HeartsInv
  <2>7. PICK n \in Nat : n = Cardinality(old)
    BY <2>2
  <2>8. Cardinality(Hearts!Working(p)') =
          IF Owed(r, p) THEN IF Owed(request[q], p) THEN n ELSE n + 1
          ELSE IF Owed(request[q], p) THEN n - 1 ELSE n
    <3>1. CASE Owed(r, p)
      <4>1. Cardinality(old \cup {q}) = IF q \in old THEN n ELSE n + 1
        BY <2>2, <2>7, FS_AddElement
      <4> QED BY <2>3, <2>4, <3>1, <4>1
    <3>2. CASE ~ Owed(r, p)
      BY <2>2, <2>3, <2>4, <2>7, <3>2, FS_RemoveElement
    <3> QED BY <3>1, <3>2
  <2>9. PICK k : k = Cardinality(Hearts!Working(p)')
    OBVIOUS
  <2>10. lines'[p] + k = stock'[p]
    BY <2>5, <2>6, <2>7, <2>8, <2>9
  <2> QED BY <2>9, <2>10
<1>3. \A s \in Keys : request'[s] = Hearts!Idle \/ IsPress(request'[s])
  BY <1>1 DEF HeartsInv
<1>4. \A s \in Keys : request[s]' = Hearts!Idle \/ IsPress(request[s])'
  BY <1>3 DEF IsPress
<1>5. \A t \in Tabs : IsPage(orders[t])'
  BY DEF IsPage
<1>6. DOMAIN request' = Keys /\ request' = [s \in Keys |-> request'[s]]
  BY DEF HeartsInv
<1> QED BY <1>2, <1>4, <1>5, <1>6 DEF HeartsInv

\* A step of the counts that a page shows.
LEMMA PageCounts ==
  ASSUME HeartsInv, NEW t \in Tabs, NEW x, IsPage(x), orders' = [orders EXCEPT ![t] = x]
  PROVE  /\ DOMAIN orders' = Tabs /\ orders' = [u \in Tabs |-> orders'[u]]
         /\ \A u \in Tabs : IsPage(orders'[u])
<1>1. orders'[t] = x /\ \A u \in Tabs \ {t} : orders'[u] = orders[u]
  BY DEF HeartsInv
<1>2. \A u \in Tabs : IsPage(orders[u])
  BY DEF HeartsInv
<1> QED BY <1>1, <1>2 DEF HeartsInv

\* What the shown fields of a page become.
LEMMA PageFields ==
  ASSUME HeartsInv, NEW t \in Tabs
  PROVE  /\ \A n : IsPage([orders[t] EXCEPT !.load = "read", !.read = n])
         /\ \A b \in {"pending", "error"} : IsPage([orders[t] EXCEPT !.button = b])
         /\ \A n : IsPage([orders[t] EXCEPT !.button = "sent", !.shown = n, !.accepted = n])
         /\ IsPage([orders[t] EXCEPT !.load = "done",
                    !.shown = IF orders[t].accepted = 0 THEN orders[t].read ELSE @])
<1>1. PICK a, b, c :
        /\ orders[t] \in [shown : {a}, load : {"asked", "read", "done"}, read : {b},
                          accepted : {c}, button : {"idle", "pending", "error", "sent"}]
        /\ c # 0 => a = c
  BY DEF HeartsInv, IsPage
<1>2. ASSUME NEW n PROVE IsPage([orders[t] EXCEPT !.load = "read", !.read = n])
  <2>1. PICK x : x = [orders[t] EXCEPT !.load = "read", !.read = n]
    OBVIOUS
  <2>2. x \in [shown : {a}, load : {"asked", "read", "done"}, read : {n},
               accepted : {c}, button : {"idle", "pending", "error", "sent"}]
    BY <1>1, <2>1
  <2> QED BY <1>1, <2>1, <2>2 DEF IsPage
<1>3. ASSUME NEW d \in {"pending", "error"} PROVE IsPage([orders[t] EXCEPT !.button = d])
  <2>1. PICK x : x = [orders[t] EXCEPT !.button = d]
    OBVIOUS
  <2>2. x \in [shown : {a}, load : {"asked", "read", "done"}, read : {b},
               accepted : {c}, button : {"idle", "pending", "error", "sent"}]
    BY <1>1, <2>1
  <2> QED BY <1>1, <2>1, <2>2 DEF IsPage
<1>4. ASSUME NEW n
      PROVE  IsPage([orders[t] EXCEPT !.button = "sent", !.shown = n, !.accepted = n])
  <2>1. PICK x : x = [orders[t] EXCEPT !.button = "sent", !.shown = n, !.accepted = n]
    OBVIOUS
  <2>2. x \in [shown : {n}, load : {"asked", "read", "done"}, read : {b},
               accepted : {n}, button : {"idle", "pending", "error", "sent"}]
    BY <1>1, <2>1
  <2> QED BY <2>1, <2>2 DEF IsPage
<1>5. IsPage([orders[t] EXCEPT !.load = "done",
              !.shown = IF orders[t].accepted = 0 THEN orders[t].read ELSE @])
  <2>1. PICK n : n = IF orders[t].accepted = 0 THEN orders[t].read ELSE orders[t].shown
    OBVIOUS
  <2>2. PICK x : x = [orders[t] EXCEPT !.load = "done", !.shown = n]
    OBVIOUS
  <2>3. x \in [shown : {n}, load : {"asked", "read", "done"}, read : {b},
               accepted : {c}, button : {"idle", "pending", "error", "sent"}]
    BY <1>1, <2>2
  <2>4. c # 0 => n = c
    BY <1>1, <2>1
  <2>5. IsPage(x)
    BY <2>3, <2>4 DEF IsPage
  <2>6. x = [orders[t] EXCEPT !.load = "done",
             !.shown = IF orders[t].accepted = 0 THEN orders[t].read ELSE @]
    BY <1>1, <2>1, <2>2
  <2> QED BY <2>5, <2>6
<1> QED BY <1>2, <1>3, <1>4, <1>5

\* The shape of a request, and of what it becomes.
LEMMA PressFields ==
  ASSUME HeartsInv, NEW q \in Keys, request[q].phase # "idle"
  PROVE  /\ IsPress(request[q])
         /\ request[q].page \in Tabs /\ request[q].purchase \in Purchases
         /\ \A phase \in {"look", "insert", "update", "count"} :
              LET r == [request[q] EXCEPT !.phase = phase] IN
              IsPress(r) /\ r.phase = phase /\ r.purchase = request[q].purchase
         /\ LET r == [request[q] EXCEPT !.phase = "look", !.retried = TRUE] IN
            IsPress(r) /\ r.phase = "look" /\ r.purchase = request[q].purchase
         /\ LET r == [request[q] EXCEPT !.live = FALSE] IN
            IsPress(r) /\ r.phase = request[q].phase /\ r.purchase = request[q].purchase
         /\ \A n : LET r == [request[q] EXCEPT !.phase = "counted", !.count = n] IN
                   IsPress(r) /\ r.phase = "counted"
<1>1. IsPress(request[q])
  BY DEF HeartsInv, Hearts!Idle
<1>2. PICK c : request[q] \in
        [phase : {"sent", "look", "insert", "update", "count", "counted"}, page : Tabs,
         purchase : Purchases, retried : BOOLEAN, count : {c}, live : BOOLEAN]
  BY <1>1 DEF IsPress
<1>3. request[q].page \in Tabs /\ request[q].purchase \in Purchases
  BY <1>2
<1>4. ASSUME NEW r, NEW n,
             r \in [phase : {"sent", "look", "insert", "update", "count", "counted"}, page : Tabs,
                    purchase : Purchases, retried : BOOLEAN, count : {n}, live : BOOLEAN]
      PROVE  IsPress(r)
  BY <1>4 DEF IsPress
<1>5. ASSUME NEW phase \in {"look", "insert", "update", "count"}
      PROVE  LET r == [request[q] EXCEPT !.phase = phase] IN
             IsPress(r) /\ r.phase = phase /\ r.purchase = request[q].purchase
  BY <1>2, <1>4
<1>6. LET r == [request[q] EXCEPT !.phase = "look", !.retried = TRUE] IN
      IsPress(r) /\ r.phase = "look" /\ r.purchase = request[q].purchase
  BY <1>2, <1>4
<1>7. LET r == [request[q] EXCEPT !.live = FALSE] IN
      IsPress(r) /\ r.phase = request[q].phase /\ r.purchase = request[q].purchase
  BY <1>2, <1>4
<1>8. ASSUME NEW n
      PROVE  LET r == [request[q] EXCEPT !.phase = "counted", !.count = n] IN
             IsPress(r) /\ r.phase = "counted"
  BY <1>2, <1>4
<1> QED BY <1>1, <1>3, <1>5, <1>6, <1>7, <1>8

\* Steps of the page that no request takes part in.
LEMMA CountArrivesKeeps ==
  ASSUME HeartsInv, NEW t \in Tabs, Hearts!ReadCount(t) \/ Hearts!Loaded(t)
  PROVE  HeartsInv'
<1>1. PICK x : IsPage(x) /\ orders' = [orders EXCEPT ![t] = x]
  <2>1. CASE Hearts!ReadCount(t)
    <3>1. PICK x : x = [orders[t] EXCEPT !.load = "read", !.read = Hearts!Sum]
      OBVIOUS
    <3>2. orders' = [orders EXCEPT ![t] = x]
      BY <2>1, <3>1 DEF HeartsInv, Hearts!ReadCount
    <3> QED BY <3>1, <3>2, PageFields
  <2>2. CASE Hearts!Loaded(t)
    <3>1. PICK x : x = [orders[t] EXCEPT !.load = "done",
                        !.shown = IF orders[t].accepted = 0 THEN orders[t].read ELSE @]
      OBVIOUS
    <3>2. orders' = [orders EXCEPT ![t] = x]
      BY <2>2, <3>1 DEF HeartsInv, Hearts!Loaded
    <3> QED BY <3>1, <3>2, PageFields
  <2> QED BY <2>1, <2>2
<1>2. UNCHANGED <<lines, stock, request>>
  BY DEF Hearts!ReadCount, Hearts!Loaded
<1>3. /\ DOMAIN orders' = Tabs /\ orders' = [u \in Tabs |-> orders'[u]]
      /\ \A u \in Tabs : IsPage(orders'[u])
  BY <1>1, PageCounts
<1>4. \A u \in Tabs : IsPage(orders[u])'
  BY <1>3 DEF IsPage
<1>5. \A q \in Keys : request'[q] = Hearts!Idle \/ IsPress(request[q])'
  BY <1>2 DEF HeartsInv, IsPress
<1>6. \A p \in Purchases : Hearts!Working(p)' = Hearts!Working(p)
  BY <1>2 DEF Hearts!Working
<1> QED BY <1>2, <1>3, <1>4, <1>5, <1>6 DEF HeartsInv

\* The pages as they are.
LEMMA PagesStay ==
  ASSUME HeartsInv, orders' = orders
  PROVE  /\ DOMAIN orders' = Tabs /\ orders' = [u \in Tabs |-> orders'[u]]
         /\ \A u \in Tabs : IsPage(orders'[u])
BY DEF HeartsInv

LEMMA PressKeeps ==
  ASSUME HeartsInv, NEW t \in Tabs, NEW p \in Purchases, NEW q \in Keys, Hearts!Press(t, p, q)
  PROVE  HeartsInv'
<1>1. PICK r : r = [phase |-> "sent", page |-> t, purchase |-> p, retried |-> FALSE,
                    count |-> 0, live |-> TRUE]
  OBVIOUS
<1>2. r \in [phase : {"sent", "look", "insert", "update", "count", "counted"}, page : Tabs,
             purchase : Purchases, retried : BOOLEAN, count : {0}, live : BOOLEAN]
  BY <1>1
<1>3. IsPress(r)
  BY <1>2 DEF IsPress
<1>4. PICK x : IsPage(x) /\ orders' = [orders EXCEPT ![t] = x]
  <2>1. PICK x : x = [orders[t] EXCEPT !.button = "pending"]
    OBVIOUS
  <2>2. orders' = [orders EXCEPT ![t] = x]
    BY <2>1 DEF HeartsInv, Hearts!Press
  <2> QED BY <2>1, <2>2, PageFields
<1>5. /\ DOMAIN orders' = Tabs /\ orders' = [u \in Tabs |-> orders'[u]]
      /\ \A u \in Tabs : IsPage(orders'[u])
  BY <1>4, PageCounts
<1>6. \A s \in Purchases : ~ Owed(r, s) /\ ~ Owed(request[q], s)
  BY <1>1 DEF Owed, Hearts!Press, Hearts!Idle
<1>7. request' = [request EXCEPT ![q] = r] /\ UNCHANGED <<lines, stock>>
  BY <1>1 DEF Hearts!Press
<1>8. lines' \in [Purchases -> Int] /\ stock' \in [Purchases -> Int]
  BY <1>7 DEF HeartsInv
<1> QED BY <1>3, <1>5, <1>6, <1>7, <1>8, HeartsKeep

\* A request that ends without an answer, or with a refusal.
LEMMA HeartEnds ==
  ASSUME HeartsInv, NEW q \in Keys, request[q].phase # "idle", Hearts!Ends(q, "error")
  PROVE  /\ request' = [request EXCEPT ![q] = Hearts!Idle]
         /\ DOMAIN orders' = Tabs /\ orders' = [u \in Tabs |-> orders'[u]]
         /\ \A u \in Tabs : IsPage(orders'[u])
<1>1. request[q].page \in Tabs
  BY PressFields
<1>2. CASE request[q].live
  <2>1. PICK t \in Tabs : t = request[q].page
    BY <1>1
  <2>2. PICK x : x = [orders[t] EXCEPT !.button = "error"]
    OBVIOUS
  <2>3. orders' = [orders EXCEPT ![t] = x]
    BY <1>2, <2>1, <2>2 DEF HeartsInv, Hearts!Ends
  <2> QED BY <2>2, <2>3, PageFields, PageCounts DEF Hearts!Ends
<1>3. CASE ~ request[q].live
  BY <1>3, PagesStay DEF Hearts!Ends
<1> QED BY <1>2, <1>3

LEMMA GiveUpHeartKeeps ==
  ASSUME HeartsInv, NEW q \in Keys, Hearts!GiveUp(q)
  PROVE  HeartsInv'
<1>1. request[q].phase # "idle" /\ request[q].page \in Tabs
  <2>1. IsPress(request[q])
    BY DEF HeartsInv, Hearts!GiveUp
  <2> QED BY <2>1 DEF IsPress
<1>2. PICK t \in Tabs : t = request[q].page
  BY <1>1
<1>3. PICK x : x = [orders[t] EXCEPT !.button = "error"]
  OBVIOUS
<1>4. orders' = [orders EXCEPT ![t] = x]
  BY <1>2, <1>3 DEF HeartsInv, Hearts!GiveUp
<1>5. /\ DOMAIN orders' = Tabs /\ orders' = [u \in Tabs |-> orders'[u]]
      /\ \A u \in Tabs : IsPage(orders'[u])
  BY <1>3, <1>4, PageFields, PageCounts
<1>6. PICK r : r = [request[q] EXCEPT !.live = FALSE]
  OBVIOUS
<1>7. IsPress(r) /\ r.phase = request[q].phase /\ r.purchase = request[q].purchase
  BY <1>1, <1>6, PressFields
<1>8. \A s \in Purchases : Owed(r, s) <=> Owed(request[q], s)
  BY <1>7 DEF Owed
<1>9. request' = [request EXCEPT ![q] = r] /\ UNCHANGED <<lines, stock>>
  BY <1>6 DEF HeartsInv, Hearts!GiveUp
<1>10. lines' \in [Purchases -> Int] /\ stock' \in [Purchases -> Int]
  BY <1>9 DEF HeartsInv
<1> QED BY <1>5, <1>7, <1>8, <1>9, <1>10, HeartsKeep

LEMMA AnswerHeartKeeps ==
  ASSUME HeartsInv, NEW q \in Keys, Hearts!Answer(q)
  PROVE  HeartsInv'
<1>1. request[q].phase = "counted" /\ request[q].page \in Tabs
  BY PressFields DEF Hearts!Answer
<1>2. /\ DOMAIN orders' = Tabs /\ orders' = [u \in Tabs |-> orders'[u]]
      /\ \A u \in Tabs : IsPage(orders'[u])
  <2>1. CASE request[q].live
    <3>1. PICK t \in Tabs : t = request[q].page
      BY <1>1
    <3>2. PICK n : n = request[q].count
      OBVIOUS
    <3>3. PICK x : x = [orders[t] EXCEPT !.button = "sent", !.shown = n, !.accepted = n]
      OBVIOUS
    <3>4. orders' = [orders EXCEPT ![t] = x]
      BY <2>1, <3>1, <3>2, <3>3 DEF HeartsInv, Hearts!Answer
    <3> QED BY <3>3, <3>4, PageFields, PageCounts
  <2>2. CASE ~ request[q].live
    BY <2>2, PagesStay DEF Hearts!Answer
  <2> QED BY <2>1, <2>2
<1>3. \A s \in Purchases : ~ Owed(Hearts!Idle, s) /\ ~ Owed(request[q], s)
  BY <1>1 DEF Owed, Hearts!Idle
<1>4. request' = [request EXCEPT ![q] = Hearts!Idle] /\ UNCHANGED <<lines, stock>>
  BY DEF Hearts!Answer
<1>5. lines' \in [Purchases -> Int] /\ stock' \in [Purchases -> Int]
  BY <1>4 DEF HeartsInv
<1> QED BY <1>2, <1>3, <1>4, <1>5, HeartsKeep

\* The press is accepted, or the API refuses it.
LEMMA CheckHeartKeeps ==
  ASSUME HeartsInv, NEW q \in Keys, Hearts!Check(q)
  PROVE  HeartsInv'
<1>1. /\ request[q].phase = "sent" /\ request[q].purchase \in Purchases /\ lines' = lines
      /\ lines' \in [Purchases -> Int]
  BY PressFields DEF HeartsInv, Hearts!Check
<1>2. ASSUME Hearts!Goes(q, "look"),
             stock' = [stock EXCEPT ![request[q].purchase] = @ + 1]
      PROVE  HeartsInv'
  <2>1. PICK r : r = [request[q] EXCEPT !.phase = "look"]
    OBVIOUS
  <2>2. IsPress(r) /\ r.phase = "look" /\ r.purchase = request[q].purchase
    BY <1>1, <2>1, PressFields
  <2>3. request' = [request EXCEPT ![q] = r] /\ orders' = orders
    BY <1>2, <2>1 DEF HeartsInv, Hearts!Goes
  <2>4. stock' \in [Purchases -> Int]
    BY <1>1, <1>2 DEF HeartsInv
  <2>5. \A s \in Purchases :
          /\ ~ Owed(request[q], s)
          /\ Owed(r, s) <=> s = request[q].purchase
    BY <1>1, <2>2 DEF Owed
  <2>6. \A s \in Purchases :
          /\ stock[s] \in Int /\ lines[s] \in Int
          /\ stock'[s] = IF s = request[q].purchase THEN stock[s] + 1 ELSE stock[s]
    BY <1>2 DEF HeartsInv
  <2>7. \A s \in Purchases :
          stock'[s] - lines'[s] =
            IF Owed(r, s) THEN stock[s] - lines[s] + 1 ELSE stock[s] - lines[s]
    BY <1>1, <2>5, <2>6
  <2> QED BY <1>1, <2>2, <2>3, <2>4, <2>5, <2>7, PagesStay, HeartsKeep
<1>3. ASSUME Hearts!Ends(q, "error"), stock' = stock PROVE HeartsInv'
  <2>1. \A s \in Purchases : ~ Owed(Hearts!Idle, s) /\ ~ Owed(request[q], s)
    BY <1>1 DEF Owed, Hearts!Idle
  <2>2. stock' \in [Purchases -> Int]
    BY <1>3 DEF HeartsInv
  <2>3. \A s \in Purchases : stock'[s] - lines'[s] = stock[s] - lines[s]
    BY <1>1, <1>3
  <2> QED BY <1>1, <1>3, <2>1, <2>2, <2>3, HeartEnds, HeartsKeep
<1> QED BY <1>2, <1>3 DEF Hearts!Check

\* The upsert finds its row or not, or loses the race for it.
LEMMA LookHeartKeeps ==
  ASSUME HeartsInv, NEW q \in Keys,
         \/ Hearts!Look(q)
         \/ /\ request[q].phase = "insert" /\ UNCHANGED <<lines, stock, orders>>
            /\ request' = [request EXCEPT ![q].phase = "look", ![q].retried = TRUE]
  PROVE  HeartsInv'
<1>1. request[q].phase \in {"look", "insert"} /\ UNCHANGED <<lines, stock, orders>>
  BY DEF Hearts!Look, Hearts!Goes
<1>2. PICK r : /\ IsPress(r) /\ r.phase \in {"look", "insert", "update"}
               /\ r.purchase = request[q].purchase
               /\ request' = [request EXCEPT ![q] = r]
  <2>1. CASE Hearts!Look(q)
    <3>1. PICK phase \in {"insert", "update"} : request' = [request EXCEPT ![q].phase = phase]
      BY <2>1 DEF Hearts!Look, Hearts!Goes
    <3>2. PICK r : r = [request[q] EXCEPT !.phase = phase]
      OBVIOUS
    <3>3. IsPress(r) /\ r.phase = phase /\ r.purchase = request[q].purchase
      <4>1. \A f \in {"look", "insert", "update", "count"} :
              LET x == [request[q] EXCEPT !.phase = f] IN
              IsPress(x) /\ x.phase = f /\ x.purchase = request[q].purchase
        BY <1>1, PressFields
      <4> QED BY <3>2, <4>1
    <3>4. request' = [request EXCEPT ![q] = r]
      BY <3>1, <3>2 DEF HeartsInv
    <3> QED BY <3>3, <3>4
  <2>2. CASE request' = [request EXCEPT ![q].phase = "look", ![q].retried = TRUE]
    <3>1. PICK r : r = [request[q] EXCEPT !.phase = "look", !.retried = TRUE]
      OBVIOUS
    <3>2. IsPress(r) /\ r.phase = "look" /\ r.purchase = request[q].purchase
      BY <1>1, <3>1, PressFields
    <3>3. request' = [request EXCEPT ![q] = r]
      BY <2>2, <3>1 DEF HeartsInv
    <3> QED BY <3>2, <3>3
  <2> QED BY <2>1, <2>2
<1>3. \A s \in Purchases : Owed(r, s) <=> Owed(request[q], s)
  BY <1>1, <1>2 DEF Owed
<1>4. lines' \in [Purchases -> Int] /\ stock' \in [Purchases -> Int]
  BY <1>1 DEF HeartsInv
<1> QED BY <1>1, <1>2, <1>3, <1>4, PagesStay, HeartsKeep

\* The row is inserted or incremented.
LEMMA WriteHeartKeeps ==
  ASSUME HeartsInv, NEW q \in Keys, request[q].phase \in {"insert", "update"},
         lines' = [lines EXCEPT ![request[q].purchase] = lines[request[q].purchase] + 1],
         Hearts!Goes(q, "count"), stock' = stock
  PROVE  HeartsInv'
<1>1. PICK r : r = [request[q] EXCEPT !.phase = "count"]
  OBVIOUS
<1>2. /\ IsPress(r) /\ r.phase = "count" /\ r.purchase = request[q].purchase
      /\ request[q].purchase \in Purchases
  BY <1>1, PressFields
<1>3. request' = [request EXCEPT ![q] = r] /\ orders' = orders
  BY <1>1 DEF HeartsInv, Hearts!Goes
<1>4. lines' \in [Purchases -> Int] /\ stock' \in [Purchases -> Int]
  BY <1>2 DEF HeartsInv
<1>5. \A s \in Purchases :
        /\ ~ Owed(r, s)
        /\ Owed(request[q], s) <=> s = request[q].purchase
  BY <1>2 DEF Owed
<1>6. \A s \in Purchases :
        /\ stock[s] \in Int /\ lines[s] \in Int
        /\ lines'[s] = IF s = request[q].purchase THEN lines[s] + 1 ELSE lines[s]
  BY DEF HeartsInv
<1>7. \A s \in Purchases :
        stock'[s] - lines'[s] =
          IF Owed(request[q], s) THEN stock[s] - lines[s] - 1 ELSE stock[s] - lines[s]
  BY <1>5, <1>6
<1> QED BY <1>2, <1>3, <1>4, <1>5, <1>7, PagesStay, HeartsKeep

\* The database refuses a statement.
LEMMA FailHeartKeeps ==
  ASSUME HeartsInv, NEW q \in Keys, Hearts!Fail(q)
  PROVE  HeartsInv'
<1>1. /\ request[q].phase \in {"look", "insert", "update"}
      /\ request[q].purchase \in Purchases /\ lines' = lines
  BY PressFields DEF Hearts!Fail
<1>2. lines' \in [Purchases -> Int] /\ stock' \in [Purchases -> Int]
  BY <1>1 DEF HeartsInv, Hearts!Fail
<1>3. \A s \in Purchases :
        /\ ~ Owed(Hearts!Idle, s)
        /\ Owed(request[q], s) <=> s = request[q].purchase
  BY <1>1 DEF Owed, Hearts!Idle
<1>4. \A s \in Purchases :
        /\ stock[s] \in Int /\ lines[s] \in Int
        /\ stock'[s] = IF s = request[q].purchase THEN stock[s] - 1 ELSE stock[s]
  BY DEF HeartsInv, Hearts!Fail
<1>5. \A s \in Purchases :
        stock'[s] - lines'[s] =
          IF Owed(request[q], s) THEN stock[s] - lines[s] - 1 ELSE stock[s] - lines[s]
  BY <1>1, <1>3, <1>4
<1> QED BY <1>1, <1>2, <1>3, <1>5, HeartEnds, HeartsKeep DEF Hearts!Fail

LEMMA CountHeartKeeps ==
  ASSUME HeartsInv, NEW q \in Keys, Hearts!Count(q)
  PROVE  HeartsInv'
<1>1. request[q].phase = "count" /\ UNCHANGED <<lines, stock, orders>>
  BY DEF Hearts!Count
<1>2. PICK r : r = [request[q] EXCEPT !.phase = "counted", !.count = Hearts!Sum]
  OBVIOUS
<1>3. IsPress(r) /\ r.phase = "counted"
  <2>1. \A n : LET x == [request[q] EXCEPT !.phase = "counted", !.count = n] IN
               IsPress(x) /\ x.phase = "counted"
    BY <1>1, PressFields
  <2> QED BY <1>2, <2>1
<1>4. request' = [request EXCEPT ![q] = r]
  BY <1>2 DEF HeartsInv, Hearts!Count
<1>5. \A s \in Purchases : ~ Owed(r, s) /\ ~ Owed(request[q], s)
  BY <1>1, <1>3 DEF Owed
<1>6. lines' \in [Purchases -> Int] /\ stock' \in [Purchases -> Int]
  BY <1>1 DEF HeartsInv
<1> QED BY <1>1, <1>3, <1>4, <1>5, <1>6, PagesStay, HeartsKeep

LEMMA HeartsStep == HeartsInv /\ [Hearts!Next]_(Hearts!vars) => HeartsInv'
<1> SUFFICES ASSUME HeartsInv, [Hearts!Next]_(Hearts!vars) PROVE HeartsInv'
  OBVIOUS
<1>1. ASSUME UNCHANGED <<lines, stock, request, orders>> PROVE HeartsInv'
  <2>1. \A q \in Keys : request[q]' = Hearts!Idle \/ IsPress(request[q])'
    BY <1>1 DEF HeartsInv, IsPress
  <2>2. \A t \in Tabs : IsPage(orders[t])'
    BY <1>1 DEF HeartsInv, IsPage
  <2>3. \A p \in Purchases : Hearts!Working(p)' = Hearts!Working(p)
    BY <1>1 DEF Hearts!Working
  <2> QED BY <1>1, <2>1, <2>2, <2>3 DEF HeartsInv
<1>2. ASSUME NEW q \in Keys, Hearts!Insert(q) \/ Hearts!Update(q) PROVE HeartsInv'
  <2>1. CASE Hearts!Update(q)
    BY <2>1, WriteHeartKeeps DEF Hearts!Update
  <2>2. CASE Hearts!Insert(q)
    <3>1. request[q].phase = "insert" /\ request[q].purchase \in Purchases
      BY <2>2, PressFields DEF Hearts!Insert
    <3>2. ASSUME lines[request[q].purchase] = 0, Hearts!Goes(q, "count"), stock' = stock,
                 lines' = [lines EXCEPT ![request[q].purchase] = 1]
          PROVE  HeartsInv'
      <4>1. 1 = lines[request[q].purchase] + 1
        BY <3>2
      <4>2. lines' = [lines EXCEPT ![request[q].purchase] = lines[request[q].purchase] + 1]
        BY <3>2, <4>1
      <4> QED BY <3>1, <3>2, <4>2, WriteHeartKeeps
    <3> QED BY <2>2, <3>1, <3>2, LookHeartKeeps DEF Hearts!Insert
  <2> QED BY <1>2, <2>1, <2>2
<1>3. CASE UNCHANGED Hearts!vars
  BY <1>1, <1>3 DEF Hearts!vars
<1>4. CASE Hearts!Next
  BY <1>1, <1>2, <1>4, CountArrivesKeeps, PressKeeps, GiveUpHeartKeeps, CheckHeartKeeps,
     LookHeartKeeps, FailHeartKeeps, CountHeartKeeps, AnswerHeartKeeps
     DEF Hearts!Next, Hearts!Change
<1> QED BY <1>3, <1>4

\* Every accepted press is counted once, and a page keeps what its own was answered with.
THEOREM PressesCounted == Hearts!Spec => []EveryPressCounted
<1>1. HeartsInv => EveryPressCounted
  <2> SUFFICES ASSUME HeartsInv PROVE EveryPressCounted
    OBVIOUS
  <2>1. \A p \in Purchases :
          Hearts!Cardinality(Hearts!Working(p)) = Cardinality(Hearts!Working(p))
    BY DEF Hearts!Cardinality, Cardinality
  <2>2. \A t \in Tabs : orders[t].accepted # 0 => orders[t].shown = orders[t].accepted
    BY DEF HeartsInv, IsPage
  <2> QED BY <2>1, <2>2 DEF HeartsInv, EveryPressCounted, Hearts!EveryPressCounted
<1> QED BY <1>1, HeartsInit, HeartsStep, PTL DEF Hearts!Spec

-----------------------------------------------------------------------------
(* Division.                                                               *)

LEMMA DivMod ==
  ASSUME NEW a \in Int, NEW d \in Nat \ {0}
  PROVE  /\ a \div d \in Int /\ a % d \in 0..(d - 1)
         /\ a = d * (a \div d) + (a % d)
<1>1. a \div d \in Int /\ a % d \in 0..(d - 1)
  OBVIOUS
<1>2. a = d * (a \div d) + (a % d)
  OBVIOUS
<1> QED BY <1>1, <1>2

LEMMA Times ==
  ASSUME NEW a \in Int, NEW b \in Int, NEW d \in Nat, a <= b
  PROVE  d * a <= d * b
OBVIOUS

\* A quotient and a remainder are the only ones.
LEMMA Quotient ==
  ASSUME NEW a \in Int, NEW d \in Nat \ {0}, NEW k \in Int, NEW r \in 0..(d - 1), a = d * k + r
  PROVE  a \div d = k /\ a % d = r
<1>1. PICK q \in Int, m \in 0..(d - 1) : q = a \div d /\ m = a % d /\ a = d * q + m
  BY DivMod
<1>2. q <= k
  <2> SUFFICES ASSUME q >= k + 1 PROVE FALSE
    OBVIOUS
  <2>1. d * (k + 1) <= d * q
    BY Times
  <2>2. d * (k + 1) = d * k + d
    OBVIOUS
  <2>3. PICK x \in Int, y \in Int : x = d * k /\ y = d * q
    OBVIOUS
  <2> QED BY <1>1, <2>1, <2>2, <2>3
<1>3. k <= q
  <2> SUFFICES ASSUME k >= q + 1 PROVE FALSE
    OBVIOUS
  <2>1. d * (q + 1) <= d * k
    BY Times
  <2>2. d * (q + 1) = d * q + d
    OBVIOUS
  <2>3. PICK x \in Int, y \in Int : x = d * k /\ y = d * q
    OBVIOUS
  <2> QED BY <1>1, <2>1, <2>2, <2>3
<1> QED BY <1>1, <1>2, <1>3

\* Division does not turn the order round.
LEMMA DivMonotone ==
  ASSUME NEW a \in Int, NEW b \in Int, NEW d \in Nat \ {0}, a <= b
  PROVE  a \div d <= b \div d
<1>1. PICK q \in Int, m \in 0..(d - 1) : q = a \div d /\ a = d * q + m
  BY DivMod
<1>2. PICK p \in Int, n \in 0..(d - 1) : p = b \div d /\ b = d * p + n
  BY DivMod
<1> SUFFICES ASSUME q >= p + 1 PROVE FALSE
  BY <1>1, <1>2
<1>3. d * (p + 1) <= d * q
  BY Times
<1>4. d * (p + 1) = d * p + d
  OBVIOUS
<1>5. PICK x \in Int, y \in Int : x = d * p /\ y = d * q
  OBVIOUS
<1> QED BY <1>1, <1>2, <1>3, <1>4, <1>5

LEMMA DivShift ==
  ASSUME NEW a \in Int, NEW k \in Int, NEW d \in Nat \ {0}
  PROVE  /\ (a + d * k) \div d = a \div d + k
         /\ (a + d * k) % d = a % d
<1>1. PICK q \in Int, m \in 0..(d - 1) : q = a \div d /\ m = a % d /\ a = d * q + m
  BY DivMod
<1>2. d * (q + k) = d * q + d * k
  OBVIOUS
<1>3. PICK x \in Int, y \in Int : x = d * q /\ y = d * k
  OBVIOUS
<1>4. a + d * k = d * (q + k) + m
  BY <1>1, <1>2, <1>3
<1>5. PICK z \in Int : z = a + d * k
  BY <1>3
<1>6. z \div d = q + k /\ z % d = m
  BY <1>4, <1>5, Quotient
<1> QED BY <1>1, <1>5, <1>6

\* A step more or less leaves a remainder as it is.
LEMMA ModStep ==
  ASSUME NEW a \in Int, NEW d \in Nat \ {0}
  PROVE  /\ (a + d) % d = a % d
         /\ (a - d) % d = a % d
         /\ a % d = 0 /\ a > 0 => a >= d
<1>1. \A k \in Int : (a + d * k) % d = a % d
  BY DivShift
<1>2. PICK i \in Int : i = 1
  OBVIOUS
<1>3. PICK j \in Int : j = -1
  OBVIOUS
<1>4. (a + d * i) % d = a % d /\ (a + d * j) % d = a % d
  BY <1>1
<1>5. a + d * i = a + d /\ a + d * j = a - d
  BY <1>2, <1>3
<1>6. ASSUME a % d = 0, a > 0 PROVE a >= d
  <2>1. PICK q \in Int : a = d * q
    BY <1>6, DivMod
  <2>2. q >= 1
    <3> SUFFICES ASSUME q <= 0 PROVE FALSE
      OBVIOUS
    <3>1. d * q <= d * 0
      BY Times
    <3> QED BY <1>6, <2>1, <3>1
  <2>3. d * 1 <= d * q
    BY <2>2, Times
  <2> QED BY <2>1, <2>3
<1> QED BY <1>4, <1>5, <1>6

-----------------------------------------------------------------------------
(* Prices.                                                                 *)

\* Rows that are sold: by weight in steps of WeightStep, or counted.
SoldRows ==
  {r \in [kind : {"WEIGHT", "COUNT"}, min : Nat \ {0}, step : Nat \ {0}, max : 0..MaxQuantity,
          price : Nat, basis : Nat \ {0}] :
     r.kind = "WEIGHT" => r.min = WeightStep /\ r.step = WeightStep}

\* The inductive invariant of the prices.
PricesInv ==
  /\ lines \in SoldRows
  /\ stock \in Nat
  /\ onSale \in Int
  /\ orders \in [rules : SoldRows, amount : Nat, subtotal : Int, edit : Nat]
  /\ orders.subtotal = Prices!CartSubtotal(orders.rules, orders.amount)
  /\ orders.edit # 0 => Prices!PageAccepts(orders.edit, orders.rules)

LEMMA LineTotalMonotone ==
  ASSUME NEW price \in Nat, NEW basis \in Nat \ {0}, NEW m \in Nat, NEW n \in Nat, m <= n
  PROVE  /\ Prices!LineTotal(price, m, basis) \in Nat
         /\ Prices!LineTotal(price, m, basis) <= Prices!LineTotal(price, n, basis)
<1>1. PICK c \in Nat : c = 2 * price
  OBVIOUS
<1>2. c * m <= c * n /\ c * 0 <= c * m
  BY Times
<1>3. PICK x \in Nat : x = c * m
  OBVIOUS
<1>4. PICK y \in Nat : y = c * n
  OBVIOUS
<1>5. PICK d \in Nat \ {0} : d = 2 * basis
  OBVIOUS
<1>6. PICK a \in Nat : a = x + basis
  OBVIOUS
<1>7. PICK b \in Nat : b = y + basis
  OBVIOUS
<1>8. a <= b
  BY <1>2, <1>3, <1>4, <1>6, <1>7
<1>9. a \div d <= b \div d /\ 0 \div d <= a \div d /\ a \div d \in Int
  BY <1>8, DivMonotone, DivMod
<1>10. 0 \div d = 0
  <2>1. 0 = d * 0 + 0 /\ 0 \in 0..(d - 1)
    OBVIOUS
  <2> QED BY <2>1, Quotient
<1>11. /\ Prices!LineTotal(price, m, basis) = a \div d
       /\ Prices!LineTotal(price, n, basis) = b \div d
  BY <1>1, <1>3, <1>4, <1>5, <1>6, <1>7 DEF Prices!LineTotal
<1> QED BY <1>9, <1>10, <1>11

\* Less of a product costs no more.
LEMMA LinesMonotone ==
  ASSUME NEW r \in SoldRows, NEW m \in Nat, NEW n \in Nat, m <= n
  PROVE  /\ Prices!LineTotalOf(r, m) \in Nat
         /\ Prices!LineTotalOf(r, m) <= Prices!LineTotalOf(r, n)
<1>1. r.price \in Nat /\ r.basis \in Nat \ {0}
  BY DEF SoldRows
<1>2. /\ Prices!LineTotal(r.price, m, r.basis) \in Nat
      /\ Prices!LineTotal(r.price, m, r.basis) <= Prices!LineTotal(r.price, n, r.basis)
  BY <1>1, LineTotalMonotone
<1>3. Prices!LineTotal(r.price, n, r.basis) \in Nat
  BY <1>1, LineTotalMonotone
<1> QED BY <1>2, <1>3 DEF Prices!LineTotalOf

\* The discount does not turn the order of totals round.
LEMMA TotalMonotone ==
  ASSUME NEW x \in Int, NEW y \in Int, x <= y, NEW discounted \in BOOLEAN
  PROVE  Prices!Total(x, discounted) <= Prices!Total(y, discounted)
<1>1. CASE ~ discounted
  BY <1>1, ShopAssumption DEF Prices!Total
<1>2. CASE discounted
  <2>1. Rate \in Nat /\ Whole \in Nat \ {0} /\ Rate <= Whole /\ Shipping \in Int
    BY ShopAssumption
  <2>2. PICK k \in Nat : k = y - x
    OBVIOUS
  <2>3. k * Rate <= k * Whole
    BY <2>1, Times
  <2>4. PICK h \in Int : h = Whole \div 2
    BY <2>1
  <2>5. PICK xr \in Int : xr = x * Rate
    BY <2>1
  <2>6. PICK kr \in Int : kr = k * Rate
    BY <2>1
  <2>7. PICK kw \in Int : kw = Whole * k
    BY <2>1
  <2>8. y * Rate = xr + kr
    <3>1. y = x + k
      BY <2>2
    <3>2. (x + k) * Rate = x * Rate + k * Rate
      BY <2>1
    <3> QED BY <2>5, <2>6, <3>1, <3>2
  <2>9. kr <= kw
    <3>1. k * Whole = Whole * k
      BY <2>1
    <3> QED BY <2>3, <2>6, <2>7, <3>1
  <2>10. PICK a \in Int : a = xr + h
    OBVIOUS
  <2>11. PICK b \in Int : b = xr + kr + h
    OBVIOUS
  <2>12. b <= a + Whole * k
    BY <2>7, <2>9, <2>10, <2>11
  <2>13. /\ (a + Whole * k) \div Whole = a \div Whole + k
         /\ b \div Whole <= (a + Whole * k) \div Whole
         /\ a \div Whole \in Int /\ b \div Whole \in Int
    <3>1. PICK w \in Int : w = a + Whole * k
      BY <2>7
    <3>2. w \div Whole = a \div Whole + k
      <4>1. (a + Whole * k) \div Whole = a \div Whole + k
        <5>1. k \in Int
          OBVIOUS
        <5> QED BY <2>1, <5>1, DivShift, Zenon
      <4> QED BY <3>1, <4>1
    <3>3. b \div Whole <= w \div Whole
      BY <2>1, <2>12, <3>1, DivMonotone
    <3>4. a \div Whole \in Int /\ b \div Whole \in Int
      BY <2>1, DivMod
    <3> QED BY <3>1, <3>2, <3>3, <3>4
  <2>14. b \div Whole <= a \div Whole + k
    BY <2>13
  <2>15. /\ Prices!Discount(x) = a \div Whole
         /\ Prices!Discount(y) = b \div Whole
    BY <2>4, <2>5, <2>8, <2>10, <2>11 DEF Prices!Discount
  <2> QED BY <1>2, <2>1, <2>2, <2>13, <2>14, <2>15 DEF Prices!Total
<1> QED BY <1>1, <1>2

\* The API accepts nothing above its bound.
LEMMA ValidIsBounded ==
  ASSUME NEW r \in SoldRows, NEW n \in Nat, Prices!IsValidOrderAmount(n, r)
  PROVE  n <= MaxQuantity
BY ShopAssumption DEF SoldRows, Prices!IsValidOrderAmount, Prices!Least, Prices!Null

\* What the page accepts up to that bound the API accepts.
LEMMA AcceptedIsValid ==
  ASSUME NEW r \in SoldRows, NEW n \in Nat, Prices!PageAccepts(n, r)
  PROVE  Prices!IsValidOrderAmount(n, r) <=> n <= MaxQuantity
<1> SUFFICES ASSUME n <= MaxQuantity PROVE Prices!IsValidOrderAmount(n, r)
  BY ValidIsBounded
<1>1. CASE r.kind = "WEIGHT"
  <2>1. r.min = WeightStep /\ r.step = WeightStep /\ WeightStep \in Nat \ {0}
    BY <1>1, ShopAssumption DEF SoldRows
  <2>2. n % WeightStep = 0
    BY <1>1 DEF Prices!PageAccepts
  <2>3. (n - WeightStep) % WeightStep = 0
    BY <2>1, <2>2, ModStep
  <2> QED BY <1>1, <2>1, <2>3 DEF Prices!PageAccepts, Prices!IsValidOrderAmount
<1>2. CASE r.kind # "WEIGHT"
  BY <1>2 DEF Prices!PageAccepts, Prices!IsValidOrderAmount, Prices!Null
<1> QED BY <1>1, <1>2

\* A button leads from an amount that the API accepts to another one, or above the
\* bound.
LEMMA PressedIsValid ==
  ASSUME NEW r \in SoldRows, NEW n \in Nat, Prices!IsValidOrderAmount(n, r),
         NEW m \in Prices!Pressed(n, r)
  PROVE  Prices!IsValidOrderAmount(m, r) <=> m <= MaxQuantity
<1>1. r.min \in Nat \ {0} /\ r.step \in Nat \ {0} /\ r.max \in Nat
  BY DEF SoldRows
<1>2. r.kind = "WEIGHT" => r.min = WeightStep /\ r.step = WeightStep
  BY DEF SoldRows
<1>3. PICK top :
        top = IF r.kind = "WEIGHT"
              THEN Prices!Least(IF r.max = Prices!Null THEN MaxWeight ELSE r.max, MaxWeight)
              ELSE IF r.max = Prices!Null THEN MaxQuantity ELSE r.max
  OBVIOUS
<1>13. PICK last :
        last = IF r.kind = "WEIGHT"
               THEN Prices!Least(IF r.max = Prices!Null THEN MaxWeight ELSE r.max, MaxWeight)
               ELSE IF r.max = Prices!Null THEN MaxSafe ELSE r.max
  OBVIOUS
<1>4. /\ n >= r.min /\ n <= top /\ (n - r.min) % r.step = 0 /\ top \in Int
      /\ top <= last /\ last \in Int /\ last <= MaxSafe
  BY <1>1, <1>3, <1>13, ShopAssumption DEF SoldRows, Prices!IsValidOrderAmount, Prices!Least
<1>14. \A k \in Int : k <= last /\ k <= MaxQuantity => k <= top
  BY <1>1, <1>3, <1>13
<1>5. PICK low \in Nat \ {0}, step \in Nat \ {0} : low = r.min /\ step = r.step
  BY <1>1
<1>6. ASSUME NEW k \in Int, k >= low, k <= top, (k - low) % step = 0
      PROVE  Prices!IsValidOrderAmount(k, r)
  BY <1>2, <1>3, <1>5, <1>6 DEF Prices!IsValidOrderAmount
<1>7. PICK a \in Int : a = n - low
  OBVIOUS
<1>8. (a + step) % step = 0 /\ (a - step) % step = 0
  BY <1>4, <1>5, <1>7, ModStep
<1>9. Prices!Pressed(n, r) =
        {Prices!Most(low, n - step) : k \in {n} \cap (low + 1)..MaxSafe}
          \cup {Prices!Least(last, n + step) : k \in {n} \cap 0..(last - step)}
  BY <1>2, <1>5, <1>13 DEF Prices!Pressed
<1>10. \/ m = Prices!Most(low, n - step)
       \/ m = Prices!Least(last, n + step) /\ n + step <= last
  BY <1>4, <1>9
<1>11. CASE m = Prices!Most(low, n - step)
  <2>1. CASE low < n - step
    <3>1. m = n - step
      BY <1>11, <2>1 DEF Prices!Most
    <3>2. m - low = a - step /\ m \in Nat /\ m >= low /\ m <= top
      BY <1>4, <1>7, <2>1, <3>1
    <3> QED BY <1>6, <1>8, <3>2, ValidIsBounded
  <2>2. CASE ~ (low < n - step)
    <3>1. m = low
      BY <1>11, <2>2 DEF Prices!Most
    <3>2. PICK z \in Int : z = 0
      OBVIOUS
    <3>3. z = step * 0 + 0 /\ 0 \in 0..(step - 1)
      BY <3>2
    <3>4. z % step = 0
      BY <3>3, Quotient
    <3>5. m - low = z /\ m \in Nat /\ m >= low /\ m <= top
      BY <1>4, <1>5, <3>1, <3>2
    <3> QED BY <1>6, <3>4, <3>5, ValidIsBounded
  <2> QED BY <2>1, <2>2
<1>12. CASE m = Prices!Least(last, n + step) /\ n + step <= last
  <2>1. m = n + step /\ m <= last
    BY <1>4, <1>12 DEF Prices!Least
  <2>2. m - low = a + step /\ m \in Nat /\ m >= low /\ m <= last
    <3>1. n >= low
      BY <1>4, <1>5
    <3> QED BY <1>5, <1>7, <2>1, <3>1
  <2>3. m <= MaxQuantity => m <= top
    BY <1>14, <2>2
  <2>4. m <= MaxQuantity => Prices!IsValidOrderAmount(m, r)
    BY <1>6, <1>8, <2>2, <2>3
  <2> QED BY <2>2, <2>4, ValidIsBounded
<1> QED BY <1>10, <1>11, <1>12

LEMMA SubtotalType ==
  ASSUME onSale \in Int, NEW r \in SoldRows, NEW n \in Nat
  PROVE  Prices!CartSubtotal(r, n) \in Int
<1>1. Prices!LineTotalOf(r, n) \in Nat
  BY LinesMonotone
<1> QED BY <1>1 DEF Prices!CartSubtotal

\* The page receives a cart.
LEMMA ReceivedKeeps ==
  ASSUME PricesInv, stock' \in Nat, orders' = Prices!Received(lines, stock'),
         lines' = lines, onSale' = onSale
  PROVE  PricesInv'
<1>1. PICK x : x = orders'
  OBVIOUS
<1>2. x = [rules |-> lines, amount |-> stock', subtotal |-> Prices!CartSubtotal(lines, stock'),
           edit |-> 0]
  BY <1>1 DEF Prices!Received
<1>3. Prices!CartSubtotal(lines, stock') \in Int
  BY SubtotalType DEF PricesInv
<1>4. /\ x \in [rules : SoldRows, amount : Nat, subtotal : Int, edit : Nat]
      /\ x.edit = 0 /\ x.subtotal = Prices!CartSubtotal(x.rules, x.amount)
  BY <1>2, <1>3 DEF PricesInv
<1>5. orders'.subtotal = Prices!CartSubtotal(orders.rules, orders.amount)'
  BY <1>1, <1>4 DEF Prices!CartSubtotal
<1> QED BY <1>1, <1>4, <1>5 DEF PricesInv

\* The page sends an edit, or drops it.
LEMMA EditedKeeps ==
  ASSUME PricesInv, NEW n \in Nat,
         n # 0 => Prices!PageAccepts(n, orders.rules),
         orders' = [orders EXCEPT !.edit = n], UNCHANGED <<lines, stock, onSale>>
  PROVE  PricesInv'
<1>1. PICK x : x = orders'
  OBVIOUS
<1>2. /\ x \in [rules : SoldRows, amount : Nat, subtotal : Int, edit : Nat]
      /\ x.edit = n /\ x.subtotal = orders.subtotal /\ x.rules = orders.rules
      /\ x.amount = orders.amount
  BY <1>1 DEF PricesInv
<1>3. Prices!CartSubtotal(orders.rules, orders.amount)' =
        Prices!CartSubtotal(orders.rules, orders.amount)
  BY <1>1, <1>2 DEF Prices!CartSubtotal
<1>4. n # 0 => Prices!PageAccepts(orders.edit, orders.rules)'
  BY <1>1, <1>2 DEF Prices!PageAccepts
<1> QED BY <1>1, <1>2, <1>3, <1>4 DEF PricesInv

LEMMA SaveKeeps ==
  ASSUME PricesInv, NEW kind \in {"WEIGHT", "COUNT"}, NEW price \in 1..MaxPrice,
         Prices!Save(kind, price)
  PROVE  PricesInv'
<1>1. PICK r : r = Prices!Saved(kind, price)
  OBVIOUS
<1>2. r \in SoldRows
  BY <1>1, ShopAssumption DEF Prices!Saved, Prices!Null, SoldRows
<1>3. lines' = r /\ UNCHANGED <<stock, onSale, orders>>
  BY <1>1 DEF Prices!Save
<1>4. Prices!CartSubtotal(orders.rules, orders.amount)' =
        Prices!CartSubtotal(orders.rules, orders.amount)
  BY <1>3 DEF Prices!CartSubtotal
<1>5. orders.edit # 0 => Prices!PageAccepts(orders.edit, orders.rules)'
  BY <1>3 DEF PricesInv
<1> QED BY <1>2, <1>3, <1>4, <1>5 DEF PricesInv

LEMMA PricesInit == Prices!Init => PricesInv
<1> SUFFICES ASSUME Prices!Init PROVE PricesInv
  OBVIOUS
<1>1. lines \in SoldRows /\ stock = 0 /\ onSale \in Int
  BY ShopAssumption DEF Prices!Init, Prices!Rules, Prices!Legal, Prices!Null, SoldRows
<1>2. orders = [rules |-> lines, amount |-> 0, subtotal |-> Prices!CartSubtotal(lines, 0),
                edit |-> 0]
  BY DEF Prices!Init, Prices!Received
<1>3. Prices!CartSubtotal(lines, 0) \in Int
  BY <1>1, SubtotalType
<1> QED BY <1>1, <1>2, <1>3 DEF PricesInv

LEMMA PricesStep == PricesInv /\ [Prices!Next]_(Prices!vars) => PricesInv'
<1> SUFFICES ASSUME PricesInv, [Prices!Next]_(Prices!vars) PROVE PricesInv'
  OBVIOUS
<1>1. CASE UNCHANGED Prices!vars
  BY <1>1 DEF PricesInv, Prices!vars, Prices!CartSubtotal, Prices!LineTotalOf, Prices!PageAccepts
<1>2. ASSUME NEW n \in 1..MaxSafe, Prices!Add(n) PROVE PricesInv'
  BY <1>2, ReceivedKeeps DEF PricesInv, Prices!Add
<1>3. ASSUME NEW n \in 1..MaxSafe, Prices!Edit(n) PROVE PricesInv'
  BY <1>3, EditedKeeps DEF PricesInv, Prices!Edit
<1>4. CASE Prices!Answer
  <2>1. stock' \in Nat /\ UNCHANGED <<lines, onSale>>
    BY <1>4 DEF PricesInv, Prices!Answer
  <2>2. CASE orders' = Prices!Received(lines, stock')
    BY <2>1, <2>2, ReceivedKeeps
  <2>3. CASE orders' = [orders EXCEPT !.edit = 0] /\ stock' # orders.edit
    <3>1. stock' = stock
      BY <1>4, <2>3 DEF Prices!Answer
    <3> QED BY <2>1, <2>3, <3>1, EditedKeeps
  <2> QED BY <1>4, <2>2, <2>3 DEF Prices!Answer
<1>5. CASE Prices!Load
  BY <1>5, ReceivedKeeps DEF PricesInv, Prices!Load
<1> QED BY <1>1, <1>2, <1>3, <1>4, <1>5, SaveKeeps DEF Prices!Next

LEMMA QuotedHolds == ASSUME PricesInv, orders.rules = lines PROVE Prices!QuotedAsShown
<1>1. /\ lines \in SoldRows /\ orders.amount \in Nat /\ orders.edit \in Nat /\ onSale \in Int
  BY DEF PricesInv
<1>2. orders.edit # 0 =>
        (Prices!IsValidOrderAmount(orders.edit, lines) <=> orders.edit <= MaxQuantity)
  BY <1>1, AcceptedIsValid DEF PricesInv
<1>3. Prices!IsValidOrderAmount(orders.amount, lines) =>
        \A m \in Prices!Pressed(orders.amount, lines) :
          Prices!IsValidOrderAmount(m, lines) <=> m <= MaxQuantity
  BY <1>1, PressedIsValid
<1>4. PICK n \in Nat : n = IF orders.edit = 0 THEN orders.amount ELSE orders.edit
  BY <1>1
<1>5. ASSUME NEW discounted \in BOOLEAN, Prices!Quotable(lines, n, discounted)
      PROVE  /\ Prices!Shown = Prices!QuotedItems(lines, n)
             /\ \A m \in 0..n : Prices!Total(Prices!QuotedItems(lines, m), discounted)
                                  <= Prices!Total(Prices!Shown, discounted)
  <2>1. Prices!LineTotalOf(lines, n) \in Nat
    BY <1>1, LinesMonotone
  <2>2. Prices!Shown = Prices!QuotedItems(lines, n)
    <3>1. CASE orders.edit = 0
      <4>1. n = orders.amount /\ Prices!Shown = Prices!CartSubtotal(lines, n)
        BY <1>4, <3>1 DEF PricesInv, Prices!Shown
      <4>2. /\ Prices!LineTotalOf(lines, n) <= MaxMoney
            /\ onSale + Prices!LineTotalOf(lines, n) <= MaxMoney
        BY <1>5 DEF Prices!Quotable
      <4>3. Prices!CartSubtotal(lines, n) = onSale + Prices!LineTotalOf(lines, n)
        BY <1>1, <2>1, <4>2, ShopAssumption DEF Prices!CartSubtotal
      <4> QED BY <4>1, <4>3 DEF Prices!QuotedItems
    <3>2. CASE orders.edit # 0
      BY <1>4, <3>2 DEF Prices!Shown, Prices!QuotedItems, Prices!LineTotalOf, Prices!LineTotal,
         Prices!Estimate
    <3> QED BY <3>1, <3>2
  <2>3. ASSUME NEW m \in 0..n
        PROVE  Prices!Total(Prices!QuotedItems(lines, m), discounted)
                 <= Prices!Total(Prices!Shown, discounted)
    <3>1. /\ Prices!LineTotalOf(lines, m) \in Nat
          /\ Prices!LineTotalOf(lines, m) <= Prices!LineTotalOf(lines, n)
      BY <1>1, LinesMonotone
    <3>2. PICK x \in Int : x = Prices!QuotedItems(lines, m)
      BY <1>1, <3>1 DEF Prices!QuotedItems
    <3>3. PICK y \in Int : y = Prices!QuotedItems(lines, n)
      BY <1>1, <2>1 DEF Prices!QuotedItems
    <3>4. x <= y
      BY <1>1, <2>1, <3>1, <3>2, <3>3 DEF Prices!QuotedItems
    <3> QED BY <2>2, <3>2, <3>3, <3>4, TotalMonotone
  <2> QED BY <2>2, <2>3
<1> QED BY <1>2, <1>3, <1>4, <1>5 DEF Prices!QuotedAsShown

\* What the page accepts, up to the bound that only the API has, and shows is what
\* the API accepts and charges, and less of a product never costs more.
THEOREM PricesAgree == Prices!Spec => []QuotedAsShown
<1>1. PricesInv => QuotedAsShown
  <2>1. PricesInv /\ orders.rules # lines => Prices!QuotedAsShown
    BY DEF Prices!QuotedAsShown
  <2> QED BY <2>1, QuotedHolds DEF QuotedAsShown
<1> QED BY <1>1, PricesInit, PricesStep, PTL DEF Prices!Spec

=============================================================================
