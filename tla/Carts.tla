------------------------------- MODULE Carts -------------------------------
(***************************************************************************)
(* The shopping carts of one browser and of the accounts it logs in to:    *)
(* CartService, the guards that find a request's cart, and the merge that  *)
(* AuthController runs after a login (apps/api/src/cart, apps/api/src/auth)*)
(*                                                                         *)
(* The guard finds the cart in statements of its own; the handler's        *)
(* transaction locks it later and looks again only at part of what the     *)
(* guard decided on.  Every transaction is SERIALIZABLE and locks its      *)
(* rows, so it is one action; one that cannot be serialized is tried       *)
(* again, at most MaxAttempts times (runCartSerializable).                 *)
(***************************************************************************)
EXTENDS Integers, FiniteSets

CONSTANTS
  Carts,         \* identities Cart rows can get
  Users,         \* active accounts
  Tabs,          \* tabs of the browser: requests that can be in flight
  Products,
  Guest,         \* userId of a cart is null
  Absent,        \* the cart was not created yet
  Gone,          \* the cart was deleted
  None,          \* no cookie, no session
  Limited,       \* products whose sale can end (bound)
  Payable,       \* carts a payment can be started for (bound)
  MaxAmount,     \* the maximumOrderAmount of every product
  MaxItems,      \* MAX_DISTINCT_ITEMS
  MaxAttempts    \* MAX_ATTEMPTS

ASSUME CartsAssumption ==
  /\ Guest \notin Users /\ Absent \notin Users /\ Gone \notin Users
  /\ Guest # Absent /\ Guest # Gone /\ Absent # Gone
  /\ None \notin Users \cup Carts
  /\ Limited \subseteq Products
  /\ Payable \subseteq Carts
  /\ MaxAmount \in Nat
  /\ MaxItems \in Nat
  /\ MaxAttempts \in Nat \ {0}

VARIABLES
  \* rows of the database
  owner,         \* Cart.userId
  published,     \* is tokenDigest that of the token a browser was given?
  unexpired,     \* is expiresAt ahead?
  lines,         \* CartItem.amount, 0 without a row
  history,       \* what refers to the cart: payment attempts, orders
  onSale,        \* products inside their sale window
  \* the browser
  cookie,        \* the cart whose guest token it presents
  login,         \* the account of its session
  request        \* what each tab is doing

rows == <<owner, published, unexpired, lines>>
world == <<history, onSale>>
browser == <<cookie, login>>
vars == <<rows, world, browser, request>>

-----------------------------------------------------------------------------
Items   == [Products -> 0..MaxAmount]
NoItems == [p \in Products |-> 0]
Owners  == Users \cup {Guest, Absent, Gone}
Marks   == {"attempt", "placed", "paid", "cancelled"}

Edits  == {"add", "update", "remove", "clear", "csrf"}
Merges == {"login", "merge"}
Phases == {"idle", "sent", "account_absent", "bootstrap", "ready", "answered", "cookie"}

\* user and guest are the cookies the request carries; cart and kind the
\* capability the guard found; tries counts the attempts of its transaction.
\* An answer in phase "cookie" sets the cart cookie to cart.
Requests ==
  [phase : Phases, op : Edits \cup Merges, user : Users \cup {None},
   guest : Carts \cup {None}, cart : Carts \cup {None},
   kind : {"guest", "account"}, tries : 0..MaxAttempts]

Idle == [phase |-> "idle", op |-> "clear", user |-> None, guest |-> None,
         cart |-> None, kind |-> "guest", tries |-> 0]

Init ==
  /\ owner     = [c \in Carts |-> Absent]
  /\ published = [c \in Carts |-> FALSE]
  /\ unexpired = [c \in Carts |-> FALSE]
  /\ lines     = [c \in Carts |-> NoItems]
  /\ history   = [c \in Carts |-> {}]
  /\ onSale    = Products
  /\ cookie = None
  /\ login  = None
  /\ request = [t \in Tabs |-> Idle]

-----------------------------------------------------------------------------
Chosen(items) == {p \in Products : items[p] > 0}
Larger(a, b)  == [p \in Products |-> IF a[p] >= b[p] THEN a[p] ELSE b[p]]

AccountCarts(u) == {c \in Carts : owner[c] = u}

\* CartService.authenticate: the guest token of c still opens it.
GuestActive(c) == owner[c] = Guest /\ published[c] /\ unexpired[c]

Exists(c)  == owner[c] \notin {Absent, Gone}
Ordered(c) == history[c] \cap {"placed", "paid", "cancelled"} # {}

\* Mutant: the cart's orders are not looked for.
EditableOrdered(c, kind) == Exists(c) /\ (kind = "guest" => unexpired[c])

\* lockCart and requireActiveCart: what the transaction of an edit looks at
\* once more.  Whose cart it is now is not part of it.
Editable(c, kind) ==
  /\ Exists(c)
  /\ ~ Ordered(c)
  /\ kind = "guest" => unexpired[c]

\* A new Cart row, with a token of its own that only a guest is told.
NewCart(c, user, items) ==
  /\ owner[c] = Absent
  /\ owner'     = [owner EXCEPT ![c] = user]
  /\ published' = [published EXCEPT ![c] = (user = Guest)]
  /\ unexpired' = [unexpired EXCEPT ![c] = TRUE]
  /\ lines'     = [lines EXCEPT ![c] = items]

Becomes(t, q)  == request' = [request EXCEPT ![t] = q]
Proceed(t, phase, c, kind) ==
  Becomes(t, [request[t] EXCEPT !.phase = phase, !.cart = c, !.kind = kind])

\* The handler is done; its answer leaves the cart cookie alone, or sets it.
Answered(t) == [Idle EXCEPT !.phase = "answered", !.op = request[t].op,
                            !.user = request[t].user]
Answer(t) == Becomes(t, Answered(t))
AnswerCookie(t, c) == Becomes(t, [Answered(t) EXCEPT !.phase = "cookie", !.cart = c])
ClearCookie(t) == IF request[t].guest = None THEN Answer(t) ELSE AnswerCookie(t, None)

-----------------------------------------------------------------------------
(* Requests and their guards                                               *)

\* A tab sends a request with the cookies of the moment, of which an edit looks
\* at the guest token only without a session; a login names the account it is for.
Send(t, op, u) ==
  /\ request[t].phase = "idle"
  /\ op # "login" => u = login
  /\ op = "login" => u \in Users
  /\ op = "merge" => u \in Users /\ cookie # None
  /\ op \in Edits \ {"add"} => u # None \/ cookie # None
  /\ Becomes(t, [Idle EXCEPT !.phase = IF op \in Merges THEN "ready" ELSE "sent",
                             !.op = op, !.user = u,
                             !.guest = IF op \in Edits /\ u # None THEN None
                                       ELSE cookie])
  /\ UNCHANGED <<rows, world, browser>>

\* CartAccessService.resolve, CartMutationGuard and CartCapabilityGuard: the
\* account's cart comes before the guest's; only an add may do without any.
Resolve(t) ==
  LET q == request[t] IN
  /\ q.phase = "sent"
  /\ \/ \E c \in AccountCarts(q.user) : Proceed(t, "ready", c, "account")
     \/ /\ q.user \in Users /\ AccountCarts(q.user) = {}
        /\ Proceed(t, "account_absent", None, "account")
     \/ /\ q.user = None /\ q.guest # None
        /\ IF GuestActive(q.guest) THEN Proceed(t, "ready", q.guest, "guest")
           ELSE Becomes(t, Idle)
     \/ /\ q.user = None /\ q.guest = None
        /\ IF q.op = "add" THEN Proceed(t, "bootstrap", None, "guest")
           ELSE Becomes(t, Idle)
  /\ UNCHANGED <<rows, world, browser>>

\* Mutant: the guard's answer is taken for granted.
CreateAccountCartUnseen(t, c) ==
  LET q == request[t] IN
  /\ q.phase = "account_absent"
  /\ NewCart(c, q.user, NoItems)
  /\ Proceed(t, "ready", c, "account")
  /\ UNCHANGED <<world, browser>>

\* createAccountCart, called by the guard of a session without a cart: behind
\* the lock of the account it looks once more.
CreateAccountCart(t, c) ==
  LET q == request[t] IN
  /\ q.phase = "account_absent"
  /\ \/ /\ owner[c] = q.user
        /\ UNCHANGED rows
     \/ /\ AccountCarts(q.user) = {}
        /\ NewCart(c, q.user, NoItems)
  /\ Proceed(t, "ready", c, "account")
  /\ UNCHANGED <<world, browser>>

\* The transaction could not be serialized.  The last attempt fails the
\* request; a merge that fails is answered with "unavailable" instead.
Conflict(t) ==
  LET q == request[t] IN
  /\ q.phase \in {"account_absent", "bootstrap", "ready"}
  /\ IF q.tries + 1 < MaxAttempts
       THEN Becomes(t, [q EXCEPT !.tries = @ + 1])
     ELSE IF q.op \in Merges THEN Answer(t)
     ELSE Becomes(t, Idle)
  /\ UNCHANGED <<rows, world, browser>>

\* The process dies, or the connection: the tab learns nothing and its cookies
\* stay.  A finished transaction stays finished.
Lose(t) ==
  /\ request[t].phase # "idle"
  /\ Becomes(t, Idle)
  /\ UNCHANGED <<rows, world, browser>>

\* The answer reaches the browser.
Deliver(t) ==
  LET q == request[t] IN
  /\ q.phase \in {"answered", "cookie"}
  /\ cookie' = IF q.phase = "cookie" THEN q.cart ELSE cookie
  /\ login'  = IF q.op = "login" THEN q.user ELSE login
  /\ Becomes(t, Idle)
  /\ UNCHANGED <<rows, world>>

Logout ==
  /\ login # None
  /\ login' = None
  /\ UNCHANGED <<rows, world, cookie, request>>

-----------------------------------------------------------------------------
(* Edits                                                                   *)

\* createAndAdd: the first product makes the guest cart.
CreateAndAdd(t, c, p, n) ==
  /\ request[t].phase = "bootstrap"
  /\ p \in onSale
  /\ NewCart(c, Guest, [NoItems EXCEPT ![p] = n])
  /\ AnswerCookie(t, c)
  /\ UNCHANGED <<world, browser>>

\* A request with the operation op holds the capability of cart c.
Holds(t, op, c) ==
  request[t].phase = "ready" /\ request[t].op = op /\ request[t].cart = c

SetLines(t, c, items) ==
  /\ Editable(c, request[t].kind)
  /\ lines' = [lines EXCEPT ![c] = items]
  /\ Answer(t)
  /\ UNCHANGED <<owner, published, unexpired, world, browser>>

Add(t, c, p, n) ==
  /\ Holds(t, "add", c)
  /\ p \in onSale
  /\ lines[c][p] = 0 => Cardinality(Chosen(lines[c])) < MaxItems
  /\ lines[c][p] + n <= MaxAmount
  /\ SetLines(t, c, [lines[c] EXCEPT ![p] = @ + n])

Update(t, c, p, n) ==
  /\ Holds(t, "update", c)
  /\ p \in onSale
  /\ lines[c][p] > 0
  /\ SetLines(t, c, [lines[c] EXCEPT ![p] = n])

Remove(t, c, p) ==
  /\ Holds(t, "remove", c)
  /\ lines[c][p] > 0
  /\ SetLines(t, c, [lines[c] EXCEPT ![p] = 0])

Clear(t, c) ==
  /\ Holds(t, "clear", c)
  /\ SetLines(t, c, NoItems)

\* What only reads ends here.  (The route that hands out a CSRF token is behind
\* a guard that may create the account's cart.)
Read(t) ==
  /\ request[t].phase = "ready" /\ request[t].op = "csrf"
  /\ Answer(t)
  /\ UNCHANGED <<rows, world, browser>>

\* The transaction refuses the edit and is rolled back; an edit that names a
\* product may name an unknown one.
RefuseEdit(t) ==
  LET q == request[t] IN
  /\ q.phase \in {"bootstrap", "ready"}
  /\ q.op \in Edits
  /\ q.op # "csrf"
  /\ q.op = "clear" => ~ Editable(q.cart, q.kind)
  /\ Becomes(t, Idle)
  /\ UNCHANGED <<rows, world, browser>>

-----------------------------------------------------------------------------
(* mergeGuestIntoAccount                                                   *)

\* The guest cart the request presents, if it can still be merged: its token
\* opens it and no order of it stands.
Mergeable(g) ==
  g \in Carts /\ GuestActive(g) /\ history[g] \cap {"placed", "paid"} = {}

Merging(t) == request[t].phase = "ready" /\ request[t].op \in Merges

\* An account without a cart takes the guest cart over, under a new token.
Adopt(t, g) ==
  /\ Merging(t) /\ g = request[t].guest
  /\ AccountCarts(request[t].user) = {}
  /\ Mergeable(g)
  /\ Cardinality(Chosen(lines[g])) <= MaxItems
  /\ owner'     = [owner EXCEPT ![g] = request[t].user]
  /\ published' = [published EXCEPT ![g] = FALSE]
  /\ unexpired' = [unexpired EXCEPT ![g] = TRUE]
  /\ ClearCookie(t)
  /\ UNCHANGED <<lines, world, browser>>

\* Nothing to merge: the account gets an empty cart if it has none, and the
\* browser forgets its guest token.
MergeNothing(t) ==
  LET q == request[t] IN
  /\ Merging(t)
  /\ ~ Mergeable(q.guest)
  /\ \/ AccountCarts(q.user) # {} /\ UNCHANGED rows
     \/ /\ AccountCarts(q.user) = {}
        /\ \E c \in Carts : NewCart(c, q.user, NoItems)
  /\ ClearCookie(t)
  /\ UNCHANGED <<world, browser>>

\* Order_cartId_fkey and PaymentAttempt_checkoutDraftId_fkey restrict the
\* deletion of a cart that an order or a payment attempt refers to.
Deletable(g) == history[g] = {}

\* Mutants of Absorb: amounts are summed; what refers to the guest cart is
\* deleted with it.
AbsorbSum(t, a, g) ==
  /\ Merging(t) /\ g = request[t].guest
  /\ owner[a] = request[t].user
  /\ Mergeable(g)
  /\ \A p \in Products : lines[a][p] + lines[g][p] <= MaxAmount
  /\ lines' = [lines EXCEPT ![a] = [p \in Products |-> @[p] + lines[g][p]],
                            ![g] = NoItems]
  /\ owner' = [owner EXCEPT ![g] = Gone]
  /\ ClearCookie(t)
  /\ UNCHANGED <<published, unexpired, world, browser>>
AbsorbCascading(t, a, g) ==
  /\ Merging(t) /\ g = request[t].guest
  /\ owner[a] = request[t].user
  /\ Mergeable(g)
  /\ lines' = [lines EXCEPT ![a] = Larger(@, lines[g]), ![g] = NoItems]
  /\ owner' = [owner EXCEPT ![g] = Gone]
  /\ ClearCookie(t)
  /\ UNCHANGED <<published, unexpired, world, browser>>

\* The account's cart takes the larger amount of every product, and the guest
\* cart is deleted with its lines.
Absorb(t, a, g) ==
  /\ Merging(t) /\ g = request[t].guest
  /\ owner[a] = request[t].user
  /\ Mergeable(g)
  /\ Cardinality(Chosen(Larger(lines[a], lines[g]))) <= MaxItems
  /\ Deletable(g)
  /\ lines' = [lines EXCEPT ![a] = Larger(@, lines[g]), ![g] = NoItems]
  /\ owner' = [owner EXCEPT ![g] = Gone]
  /\ ClearCookie(t)
  /\ UNCHANGED <<published, unexpired, world, browser>>

\* The merge is refused and rolled back; the guest token stays.
MergeUnavailable(t) ==
  LET q == request[t] IN
  /\ Merging(t)
  /\ Mergeable(q.guest)
  /\ \E a \in AccountCarts(q.user) :
       \/ Cardinality(Chosen(Larger(lines[a], lines[q.guest]))) > MaxItems
       \/ ~ Deletable(q.guest)
  /\ Answer(t)
  /\ UNCHANGED <<rows, world, browser>>

-----------------------------------------------------------------------------
(* The other components, and time                                          *)

Expire(c) ==
  /\ unexpired[c]
  /\ unexpired' = [unexpired EXCEPT ![c] = FALSE]
  /\ UNCHANGED <<owner, published, lines, world, browser, request>>

EndSale(p) ==
  /\ p \in onSale \cap Limited
  /\ onSale' = onSale \ {p}
  /\ UNCHANGED <<rows, history, browser, request>>

\* A card payment of the cart begins, and gets its order once authorised.
StartPayment(c) ==
  /\ c \in Payable
  /\ Exists(c) /\ lines[c] # NoItems
  /\ history' = [history EXCEPT ![c] = @ \cup {"attempt"}]
  /\ UNCHANGED <<rows, onSale, browser, request>>

AuthorisePayment(c) ==
  /\ "attempt" \in history[c] /\ history[c] \cap {"placed", "paid"} = {}
  /\ history' = [history EXCEPT ![c] = @ \cup {"placed"}]
  /\ UNCHANGED <<rows, onSale, browser, request>>

\* The payment is booked: the paid lines leave the cart, and the cart of a paying
\* account its account.
SettlePayment(c, S) ==
  /\ "placed" \in history[c]
  /\ history' = [history EXCEPT ![c] = (@ \ {"placed"}) \cup {"paid"}]
  /\ lines' = [lines EXCEPT ![c] = [p \in Products |-> IF p \in S THEN 0 ELSE @[p]]]
  /\ owner' \in {owner, [owner EXCEPT ![c] = Guest]}
  /\ UNCHANGED <<published, unexpired, onSale, browser, request>>

CancelPayment(c) ==
  /\ "placed" \in history[c]
  /\ history' = [history EXCEPT ![c] = (@ \ {"placed"}) \cup {"cancelled"}]
  /\ UNCHANGED <<rows, onSale, browser, request>>

-----------------------------------------------------------------------------
Step(t) ==
  \/ Resolve(t)
  \/ \E c \in Carts : CreateAccountCart(t, c)
  \/ \E c \in Carts, p \in Products, n \in 1..MaxAmount :
       \/ CreateAndAdd(t, c, p, n)
       \/ Add(t, c, p, n)
       \/ Update(t, c, p, n)
  \/ \E c \in Carts, p \in Products : Remove(t, c, p)
  \/ \E c \in Carts : Clear(t, c)
  \/ Read(t)
  \/ RefuseEdit(t)
  \/ \E g \in Carts : Adopt(t, g)
  \/ \E a, g \in Carts : Absorb(t, a, g)
  \/ MergeNothing(t)
  \/ MergeUnavailable(t)
  \/ Conflict(t)
  \/ Deliver(t)

Environment ==
  \/ \E c \in Carts : Expire(c) \/ StartPayment(c) \/ AuthorisePayment(c)
                      \/ CancelPayment(c)
  \/ \E c \in Carts, S \in SUBSET Products : SettlePayment(c, S)
  \/ \E p \in Products : EndSale(p)

Next ==
  \/ \E t \in Tabs :
       \/ \E op \in Edits \cup Merges, u \in Users \cup {None} : Send(t, op, u)
       \/ Step(t)
       \/ Lose(t)
  \/ Logout
  \/ Environment

Spec == Init /\ [][Next]_vars

-----------------------------------------------------------------------------
(* Properties                                                              *)

\* The types; and the token a browser was given never opens the cart of an
\* account.
TypeOK ==
  /\ owner \in [Carts -> Owners]
  /\ published \in [Carts -> BOOLEAN]
  /\ unexpired \in [Carts -> BOOLEAN]
  /\ lines \in [Carts -> Items]
  /\ history \in [Carts -> SUBSET Marks]
  /\ onSale \subseteq Products
  /\ cookie \in Carts \cup {None}
  /\ login \in Users \cup {None}
  /\ request \in [Tabs -> Requests]
  /\ \A c \in Carts : owner[c] \in Users => ~ published[c]

\* However first requests, logins and retried merges of an account overlap, it
\* gets one cart: nothing ever runs into the unique index on Cart.userId.
OneCartPerAccount == \A u \in Users : Cardinality(AccountCarts(u)) <= 1

\* A cart that a payment attempt or an order refers to is never deleted by a
\* merge, although the merge does not look for payment attempts.
ReferredCartsKept == \A c \in Carts : history[c] # {} => Exists(c)

\* A guest cart ends only by a merge that loses nothing and sums nothing: the
\* account's cart then holds of every product the larger of the two amounts.
MergeLosesNothing ==
  [][\A g \in Carts : GuestActive(g) /\ owner'[g] # Guest =>
       \/ owner'[g] \in Users /\ lines'[g] = lines[g]
       \/ \E a \in Carts \ {g} :
            /\ owner[a] \in Users /\ owner'[a] = owner[a]
            /\ \A p \in Products :
                 /\ lines'[a][p] \in {lines[a][p], lines[g][p]}
                 /\ lines'[a][p] >= lines[a][p]
                 /\ lines'[a][p] >= lines[g][p]]_vars

\* No edit that passed its guard before the cart was ordered still changes it:
\* only a merge adds to an ordered cart, and only its payment takes from it.
OrderedCartNotEdited ==
  [][\A c \in Carts : Ordered(c) /\ lines'[c] # lines[c] =>
       \/ "paid" \in history'[c] \ history[c]
       \/ /\ owner[c] \in Users
          /\ \A p \in Products : lines'[c][p] >= lines[c][p]
          /\ \E g \in Carts : owner[g] = Guest /\ owner'[g] = Gone]_vars

=============================================================================
