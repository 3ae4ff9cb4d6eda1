---------------------------- MODULE CartsProofs ----------------------------
(***************************************************************************)
(* Theorems about Carts, for every number of carts, accounts, tabs and     *)
(* products, and any bounds.                                               *)
(***************************************************************************)
EXTENDS Carts, FiniteSetTheorems, TLAPS

\* What is true of the database between transactions.  An order of a cart is not
\* open and paid at once.
RowsOK ==
  /\ owner \in [Carts -> Owners]
  /\ published \in [Carts -> BOOLEAN]
  /\ unexpired \in [Carts -> BOOLEAN]
  /\ lines \in [Carts -> Items]
  /\ history \in [Carts -> SUBSET Marks]
  /\ \A c \in Carts : owner[c] \in Users => ~ published[c]
  /\ \A c, d \in Carts : owner[c] \in Users /\ owner[d] = owner[c] => d = c
  /\ ReferredCartsKept
  /\ \A c \in Carts : "placed" \in history[c] => "paid" \notin history[c]

\* A request that merges, or that is to get an account's cart, names the account.
RequestOK(q) ==
  /\ q.op \in Merges => q.user \in Users
  /\ q.phase = "account_absent" => q.user \in Users

RequestsOK ==
  /\ request \in [Tabs -> Requests]
  /\ \A t \in Tabs : RequestOK(request[t])

BrowserOK ==
  /\ onSale \subseteq Products
  /\ cookie \in Carts \cup {None}
  /\ login \in Users \cup {None}

\* The inductive invariant.
IInv == RowsOK /\ RequestsOK /\ BrowserOK

\* What one step does to guest carts and to ordered carts: the formulas of
\* MergeLosesNothing and OrderedCartNotEdited.
GuestsKept ==
  \A g \in Carts : GuestActive(g) /\ owner'[g] # Guest =>
    \/ owner'[g] \in Users /\ lines'[g] = lines[g]
    \/ \E a \in Carts \ {g} :
         /\ owner[a] \in Users /\ owner'[a] = owner[a]
         /\ \A p \in Products :
              /\ lines'[a][p] \in {lines[a][p], lines[g][p]}
              /\ lines'[a][p] >= lines[a][p]
              /\ lines'[a][p] >= lines[g][p]

OrderedKept ==
  \A c \in Carts : Ordered(c) /\ lines'[c] # lines[c] =>
    \/ "paid" \in history'[c] \ history[c]
    \/ /\ owner[c] \in Users
       /\ \A p \in Products : lines'[c][p] >= lines[c][p]
       /\ \E g \in Carts : owner[g] = Guest /\ owner'[g] = Gone

RowsStep == RowsOK' /\ GuestsKept /\ OrderedKept

LEMMA InitInv == Init => IInv
BY CartsAssumption DEF Init, IInv, RowsOK, RequestsOK, RequestOK, BrowserOK, Owners, Items, NoItems,
   ReferredCartsKept, Requests, Idle, Phases, Edits, Merges

-----------------------------------------------------------------------------
(* Requests                                                                *)

LEMMA IdleOK == Idle \in Requests /\ RequestOK(Idle)
BY CartsAssumption DEF Idle, Requests, RequestOK, Phases, Edits, Merges

LEMMA BecomesOK ==
  ASSUME RequestsOK, NEW t \in Tabs, NEW q \in Requests, RequestOK(q), Becomes(t, q)
  PROVE  RequestsOK'
BY DEF RequestsOK, Becomes, RequestOK

LEMMA BecomesIdleOK ==
  ASSUME RequestsOK, NEW t \in Tabs, Becomes(t, Idle)
  PROVE  RequestsOK'
BY IdleOK DEF RequestsOK, Becomes, RequestOK

\* A request goes on with the operation and the account it was sent with.
LEMMA ProceedOK ==
  ASSUME RequestsOK, NEW t \in Tabs, NEW phase \in Phases, NEW c \in Carts \cup {None},
         NEW kind \in {"guest", "account"}, Proceed(t, phase, c, kind),
         phase = "account_absent" => request[t].user \in Users
  PROVE  RequestsOK'
<1>1. PICK q : q = [request[t] EXCEPT !.phase = phase, !.cart = c, !.kind = kind]
  OBVIOUS
<1>2. q \in Requests /\ RequestOK(q)
  BY <1>1 DEF RequestsOK, RequestOK, Requests
<1> QED BY <1>1, <1>2, BecomesOK DEF Proceed

LEMMA AnswerOK ==
  ASSUME RequestsOK, NEW t \in Tabs, NEW c \in Carts \cup {None},
         Answer(t) \/ AnswerCookie(t, c)
  PROVE  RequestsOK'
<1>1. request[t] \in Requests /\ RequestOK(request[t])
  BY DEF RequestsOK
<1>2. PICK q : q = Answered(t)
  OBVIOUS
<1>3. q \in Requests /\ RequestOK(q)
  BY <1>1, <1>2, IdleOK DEF Answered, Requests, RequestOK, Idle, Phases
<1>4. PICK r : r = [q EXCEPT !.phase = "cookie", !.cart = c]
  OBVIOUS
<1>5. r \in Requests /\ RequestOK(r)
  BY <1>3, <1>4 DEF Requests, RequestOK, Phases
<1>6. CASE Answer(t)
  BY <1>2, <1>3, <1>6, BecomesOK DEF Answer
<1>7. CASE AnswerCookie(t, c)
  BY <1>2, <1>4, <1>5, <1>7, BecomesOK DEF AnswerCookie
<1> QED BY <1>6, <1>7

LEMMA ClearCookieOK ==
  ASSUME RequestsOK, NEW t \in Tabs, ClearCookie(t)
  PROVE  RequestsOK'
<1>1. PICK c \in Carts \cup {None} : c = None
  OBVIOUS
<1> QED BY <1>1, AnswerOK DEF ClearCookie

-----------------------------------------------------------------------------
(* Rows                                                                    *)

\* A step that leaves the database alone.
LEMMA RowsStay ==
  ASSUME RowsOK, UNCHANGED <<rows, history>>
  PROVE  RowsStep
<1>1. RowsOK'
  BY DEF RowsOK, rows, ReferredCartsKept, Exists
<1> QED BY <1>1 DEF RowsStep, GuestsKept, OrderedKept, rows, GuestActive

\* A cart that is new disturbs no other, as long as its account has none.
LEMMA NewCartKeeps ==
  ASSUME RowsOK, NEW c \in Carts, NEW user \in Users \cup {Guest}, NEW items \in Items,
         NewCart(c, user, items), UNCHANGED history,
         user \in Users => AccountCarts(user) = {}
  PROVE  RowsStep
<1>1. owner[c] = Absent /\ history[c] = {}
  BY DEF RowsOK, NewCart, ReferredCartsKept, Exists
<1>2. \A d \in Carts \ {c} : owner'[d] = owner[d] /\ lines'[d] = lines[d]
  BY DEF RowsOK, NewCart
<1>3. owner' \in [Carts -> Owners] /\ owner'[c] = user
  BY DEF RowsOK, NewCart, Owners
<1>4. \A d \in Carts : owner'[d] \in Users => ~ published'[d]
  BY <1>2, CartsAssumption DEF RowsOK, NewCart
<1>5. \A d, e \in Carts : owner'[d] \in Users /\ owner'[e] = owner'[d] => e = d
  BY <1>2, <1>3 DEF RowsOK, AccountCarts
<1>6. RowsOK'
  BY <1>1, <1>2, <1>3, <1>4, <1>5 DEF RowsOK, NewCart, ReferredCartsKept, Exists
<1>7. GuestsKept
  BY <1>1, <1>2, CartsAssumption DEF GuestsKept, GuestActive
<1>8. OrderedKept
  BY <1>1, <1>2 DEF OrderedKept, Ordered
<1> QED BY <1>6, <1>7, <1>8 DEF RowsStep

\* An edit does not reach an ordered cart.
LEMMA SetLinesKeeps ==
  ASSUME RowsOK, NEW t, NEW c \in Carts, NEW items \in Items, SetLines(t, c, items)
  PROVE  RowsStep
<1>1. RowsOK'
  BY DEF RowsOK, SetLines, ReferredCartsKept, Exists, world
<1>2. GuestsKept
  BY DEF GuestsKept, GuestActive, SetLines
<1>3. OrderedKept
  BY DEF RowsOK, OrderedKept, SetLines, Editable
<1> QED BY <1>1, <1>2, <1>3 DEF RowsStep

LEMMA AdoptKeeps ==
  ASSUME IInv, NEW t \in Tabs, NEW g \in Carts, Adopt(t, g)
  PROVE  RowsStep
<1>1. PICK u \in Users : u = request[t].user
  BY DEF IInv, RequestsOK, RequestOK, Adopt, Merging
<1>2. /\ owner[g] = Guest
      /\ owner' = [owner EXCEPT ![g] = u]
      /\ \A d \in Carts : owner[d] # u
  BY <1>1 DEF Adopt, Mergeable, GuestActive, AccountCarts
<1>3. RowsOK'
  <2>1. owner' \in [Carts -> Owners]
    BY <1>2 DEF IInv, RowsOK, Owners
  <2>2. \A d \in Carts : owner'[d] \in Users => ~ published'[d]
    BY <1>2 DEF IInv, RowsOK, Adopt
  <2>3. \A d, e \in Carts : owner'[d] \in Users /\ owner'[e] = owner'[d] => e = d
    BY <1>2 DEF IInv, RowsOK
  <2>4. \A d \in Carts : Exists(d) => Exists(d)'
    BY <1>2, CartsAssumption DEF IInv, RowsOK, Exists
  <2> QED BY <2>1, <2>2, <2>3, <2>4 DEF IInv, RowsOK, Adopt, ReferredCartsKept, world
<1>4. GuestsKept
  BY <1>2 DEF IInv, RowsOK, GuestsKept, GuestActive, Adopt
<1>5. OrderedKept
  BY DEF OrderedKept, Adopt
<1> QED BY <1>3, <1>4, <1>5 DEF RowsStep

LEMMA LargerType ==
  ASSUME NEW a \in Items, NEW b \in Items
  PROVE  /\ Larger(a, b) \in Items
         /\ \A p \in Products : /\ Larger(a, b)[p] \in {a[p], b[p]}
                                /\ Larger(a, b)[p] >= a[p]
                                /\ Larger(a, b)[p] >= b[p]
BY CartsAssumption DEF Larger, Items

\* A merge takes the guest cart away: nothing refers to it, and its lines are in
\* the account's cart.
LEMMA AbsorbKeeps ==
  ASSUME IInv, NEW t \in Tabs, NEW a \in Carts, NEW g \in Carts, Absorb(t, a, g)
  PROVE  RowsStep
<1>1. PICK u \in Users : u = request[t].user
  BY DEF IInv, RequestsOK, RequestOK, Absorb, Merging
<1>2. /\ owner[g] = Guest /\ owner[a] = u /\ a # g
      /\ history[g] = {} /\ history' = history
      /\ published' = published /\ unexpired' = unexpired
  BY <1>1, CartsAssumption DEF Absorb, Mergeable, GuestActive, Deletable, world
<1>3. /\ owner' \in [Carts -> Owners] /\ owner'[g] = Gone
      /\ \A d \in Carts \ {g} : owner'[d] = owner[d]
  BY DEF IInv, RowsOK, Owners, Absorb
<1>4. /\ lines[a] \in Items /\ lines[g] \in Items /\ NoItems \in Items
      /\ lines \in [Carts -> Items]
  BY CartsAssumption DEF IInv, RowsOK, Items, NoItems
<1>5. PICK merged \in Items :
        /\ merged = Larger(lines[a], lines[g])
        /\ \A p \in Products : /\ merged[p] \in {lines[a][p], lines[g][p]}
                               /\ merged[p] >= lines[a][p]
                               /\ merged[p] >= lines[g][p]
  BY <1>4, LargerType
<1>6. /\ lines' \in [Carts -> Items]
      /\ lines'[a] = merged /\ lines'[g] = NoItems
      /\ \A d \in Carts \ {a, g} : lines'[d] = lines[d]
  BY <1>2, <1>4, <1>5 DEF Absorb
<1>7. RowsOK'
  <2>1. \A d \in Carts : owner'[d] \in Users => ~ published'[d]
    BY <1>2, <1>3, CartsAssumption DEF IInv, RowsOK
  <2>2. \A d, e \in Carts : owner'[d] \in Users /\ owner'[e] = owner'[d] => e = d
    BY <1>3, CartsAssumption DEF IInv, RowsOK
  <2>3. ReferredCartsKept'
    BY <1>2, <1>3 DEF IInv, RowsOK, ReferredCartsKept, Exists
  <2> QED BY <1>2, <1>3, <1>6, <2>1, <2>2, <2>3 DEF IInv, RowsOK
<1>8. GuestsKept
  <2> SUFFICES ASSUME NEW h \in Carts, GuestActive(h), owner'[h] # Guest
               PROVE  \E b \in Carts \ {h} :
                        /\ owner[b] \in Users /\ owner'[b] = owner[b]
                        /\ \A p \in Products :
                             /\ lines'[b][p] \in {lines[b][p], lines[h][p]}
                             /\ lines'[b][p] >= lines[b][p]
                             /\ lines'[b][p] >= lines[h][p]
    BY DEF GuestsKept
  <2>1. h = g
    BY <1>3 DEF GuestActive
  <2>2. a \in Carts \ {h}
    BY <1>2, <2>1
  <2> WITNESS a \in Carts \ {h}
  <2> QED BY <1>2, <1>3, <1>5, <1>6, <2>1
<1>9. OrderedKept
  <2> SUFFICES ASSUME NEW c \in Carts, Ordered(c), lines'[c] # lines[c]
               PROVE  /\ owner[c] \in Users
                      /\ \A p \in Products : lines'[c][p] >= lines[c][p]
                      /\ \E h \in Carts : owner[h] = Guest /\ owner'[h] = Gone
    BY DEF OrderedKept
  <2>1. c = a
    BY <1>2, <1>6 DEF Ordered
  <2> QED BY <1>2, <1>3, <1>5, <1>6, <2>1
<1> QED BY <1>7, <1>8, <1>9 DEF RowsStep

\* The booking of a payment gives the cart back to guests, and takes its lines.
LEMMA SettleKeeps ==
  ASSUME RowsOK, NEW c \in Carts, NEW S \in SUBSET Products, SettlePayment(c, S)
  PROVE  RowsStep
<1>1. /\ "placed" \in history[c] /\ "paid" \notin history[c] /\ Exists(c)
      /\ history' = [history EXCEPT ![c] = (@ \ {"placed"}) \cup {"paid"}]
      /\ published' = published /\ unexpired' = unexpired
  BY DEF RowsOK, SettlePayment, ReferredCartsKept
<1>2. /\ history' \in [Carts -> SUBSET Marks]
      /\ \A d \in Carts : "placed" \in history'[d] => "paid" \notin history'[d]
      /\ \A d \in Carts : history'[d] # {} => history[d] # {}
  BY <1>1 DEF RowsOK, Marks
<1>3. /\ lines' \in [Carts -> Items]
      /\ \A d \in Carts \ {c} : lines'[d] = lines[d]
  <2>1. [p \in Products |-> IF p \in S THEN 0 ELSE lines[c][p]] \in Items
    BY CartsAssumption DEF RowsOK, Items
  <2>2. lines' = [lines EXCEPT ![c] = [p \in Products |-> IF p \in S THEN 0 ELSE lines[c][p]]]
    BY DEF SettlePayment
  <2> QED BY <2>1, <2>2 DEF RowsOK
<1>4. /\ owner' \in [Carts -> Owners]
      /\ \A d \in Carts : owner'[d] = owner[d] \/ (d = c /\ owner'[d] = Guest)
  BY DEF RowsOK, SettlePayment, Owners
<1>5. RowsOK'
  <2>1. \A d \in Carts : owner'[d] \in Users => owner'[d] = owner[d]
    BY <1>4, CartsAssumption
  <2>2. \A d \in Carts : owner'[d] \in Users => ~ published'[d]
    BY <1>1, <2>1 DEF RowsOK
  <2>3. \A d, e \in Carts : owner'[d] \in Users /\ owner'[e] = owner'[d] => e = d
    BY <2>1 DEF RowsOK
  <2>4. ReferredCartsKept'
    BY <1>2, <1>4, CartsAssumption DEF RowsOK, ReferredCartsKept, Exists
  <2> QED BY <1>1, <1>2, <1>3, <1>4, <2>2, <2>3, <2>4 DEF RowsOK
<1>6. GuestsKept
  BY <1>4 DEF GuestsKept, GuestActive
<1>7. OrderedKept
  BY <1>1, <1>3 DEF OrderedKept, RowsOK
<1> QED BY <1>5, <1>6, <1>7 DEF RowsStep

\* The other steps of a payment, and time.
LEMMA EnvironmentKeeps ==
  ASSUME RowsOK, NEW c \in Carts,
         Expire(c) \/ StartPayment(c) \/ AuthorisePayment(c) \/ CancelPayment(c)
  PROVE  RowsStep
<1>1. UNCHANGED <<owner, published, lines>>
  BY DEF Expire, StartPayment, AuthorisePayment, CancelPayment, rows, world
<1>2. unexpired' \in [Carts -> BOOLEAN]
  BY DEF RowsOK, Expire, StartPayment, AuthorisePayment, CancelPayment, rows
<1>3. /\ history' \in [Carts -> SUBSET Marks]
      /\ \A d \in Carts : "placed" \in history'[d] => "paid" \notin history'[d]
      /\ \A d \in Carts : history'[d] # {} => Exists(d)
  <2>1. CASE Expire(c)
    BY <2>1 DEF RowsOK, Expire, world, ReferredCartsKept
  <2>2. CASE StartPayment(c)
    BY <2>2 DEF RowsOK, StartPayment, Marks, ReferredCartsKept
  <2>3. CASE AuthorisePayment(c)
    BY <2>3 DEF RowsOK, AuthorisePayment, Marks, ReferredCartsKept
  <2>4. CASE CancelPayment(c)
    BY <2>4 DEF RowsOK, CancelPayment, Marks, ReferredCartsKept
  <2> QED BY <2>1, <2>2, <2>3, <2>4
<1>4. RowsOK'
  BY <1>1, <1>2, <1>3 DEF RowsOK, ReferredCartsKept, Exists
<1> QED BY <1>1, <1>4 DEF RowsStep, GuestsKept, GuestActive, OrderedKept

-----------------------------------------------------------------------------
(* Steps                                                                   *)

\* What a step does, and that it keeps the invariant.
StepOK == IInv' /\ GuestsKept /\ OrderedKept

LEMMA SendOK ==
  ASSUME IInv, NEW t \in Tabs, NEW op \in Edits \cup Merges, NEW u \in Users \cup {None},
         Send(t, op, u)
  PROVE  StepOK
<1>1. PICK q : q = [Idle EXCEPT !.phase = IF op \in Merges THEN "ready" ELSE "sent",
                                !.op = op, !.user = u,
                                !.guest = IF op \in Edits /\ u # None THEN None ELSE cookie]
  OBVIOUS
<1>2. q \in Requests
  BY <1>1, IdleOK DEF IInv, BrowserOK, Requests, Idle, Phases
<1>3. RequestOK(q)
  BY <1>1 DEF RequestOK, Send, Idle, Merges
<1>4. RequestsOK'
  BY <1>1, <1>2, <1>3, BecomesOK DEF IInv, Send
<1> QED BY <1>4, RowsStay DEF StepOK, RowsStep, IInv, Send, BrowserOK, world, browser

LEMMA ResolveOK ==
  ASSUME IInv, NEW t \in Tabs, Resolve(t)
  PROVE  StepOK
<1>1. request[t] \in Requests
  BY DEF IInv, RequestsOK
<1>2. RequestsOK'
  <2>1. ASSUME NEW c \in AccountCarts(request[t].user), Proceed(t, "ready", c, "account")
        PROVE  RequestsOK'
    BY <2>1, ProceedOK DEF IInv, AccountCarts, Phases
  <2>2. CASE request[t].user \in Users /\ Proceed(t, "account_absent", None, "account")
    BY <2>2, ProceedOK DEF IInv, Phases
  <2>3. CASE Proceed(t, "ready", request[t].guest, "guest")
    <3>1. PICK c \in Carts \cup {None} : c = request[t].guest
      BY <1>1 DEF Requests
    <3> QED BY <2>3, <3>1, ProceedOK DEF IInv, Phases
  <2>4. CASE Proceed(t, "bootstrap", None, "guest")
    BY <2>4, ProceedOK DEF IInv, Phases
  <2>5. CASE Becomes(t, Idle)
    BY <2>5, BecomesIdleOK DEF IInv
  <2> QED BY <2>1, <2>2, <2>3, <2>4, <2>5 DEF Resolve
<1> QED BY <1>2, RowsStay DEF StepOK, RowsStep, IInv, Resolve, BrowserOK, world, browser

LEMMA CreateAccountCartOK ==
  ASSUME IInv, NEW t \in Tabs, NEW c \in Carts, CreateAccountCart(t, c)
  PROVE  StepOK
<1>1. PICK u \in Users : u = request[t].user
  BY DEF IInv, RequestsOK, RequestOK, CreateAccountCart
<1>2. NoItems \in Items
  BY CartsAssumption DEF Items, NoItems
<1>3. RowsStep
  BY <1>1, <1>2, RowsStay, NewCartKeeps DEF IInv, CreateAccountCart, world
<1>4. RequestsOK'
  BY ProceedOK DEF IInv, CreateAccountCart, Phases
<1> QED BY <1>3, <1>4 DEF StepOK, RowsStep, IInv, CreateAccountCart, BrowserOK, world, browser

\* Requests that end, or are tried again, without any effect.
LEMMA EndOK ==
  ASSUME IInv, NEW t \in Tabs,
         Conflict(t) \/ Lose(t) \/ Deliver(t) \/ Read(t) \/ RefuseEdit(t) \/ MergeUnavailable(t)
  PROVE  StepOK
<1>1. request[t] \in Requests /\ RequestOK(request[t])
  BY DEF IInv, RequestsOK
<1>2. UNCHANGED <<rows, world>>
  BY DEF Conflict, Lose, Deliver, Read, RefuseEdit, MergeUnavailable
<1>3. BrowserOK'
  BY <1>1, <1>2 DEF IInv, BrowserOK, Conflict, Lose, Deliver, Read, RefuseEdit, MergeUnavailable,
                    world, browser, RequestOK, Requests, Merges
<1>4. RequestsOK'
  <2>1. ASSUME request[t].tries + 1 < MaxAttempts,
               Becomes(t, [request[t] EXCEPT !.tries = @ + 1])
        PROVE  RequestsOK'
    <3>1. PICK q : q = [request[t] EXCEPT !.tries = @ + 1]
      OBVIOUS
    <3>2. q \in Requests /\ RequestOK(q)
      BY <1>1, <2>1, <3>1, CartsAssumption DEF Requests, RequestOK
    <3> QED BY <2>1, <3>1, <3>2, BecomesOK DEF IInv
  <2>2. CASE Becomes(t, Idle)
    BY <2>2, BecomesIdleOK DEF IInv
  <2>3. CASE Answer(t)
    BY <2>3, AnswerOK DEF IInv
  <2> QED BY <2>1, <2>2, <2>3 DEF Conflict, Lose, Deliver, Read, RefuseEdit, MergeUnavailable
<1> QED BY <1>2, <1>3, <1>4, RowsStay DEF StepOK, RowsStep, IInv, world

\* Adding to a cart, changing, removing and clearing.
LEMMA EditOK ==
  ASSUME IInv, NEW t \in Tabs, NEW c \in Carts, NEW items \in Items, SetLines(t, c, items)
  PROVE  StepOK
<1>1. RowsStep
  BY SetLinesKeeps DEF IInv
<1>2. RequestsOK'
  BY AnswerOK DEF IInv, SetLines
<1> QED BY <1>1, <1>2 DEF StepOK, RowsStep, IInv, SetLines, BrowserOK, world, browser

LEMMA AddOK ==
  ASSUME IInv, NEW t \in Tabs, NEW c \in Carts, NEW p \in Products, NEW n \in 1..MaxAmount,
         Add(t, c, p, n) \/ Update(t, c, p, n)
  PROVE  StepOK
<1>1. lines[c] \in Items
  BY DEF IInv, RowsOK
<1>2. PICK items \in Items : SetLines(t, c, items)
  <2>1. ASSUME Add(t, c, p, n) PROVE [lines[c] EXCEPT ![p] = @ + n] \in Items
    BY <1>1, <2>1, CartsAssumption DEF Items, Add
  <2>2. [lines[c] EXCEPT ![p] = n] \in Items
    BY <1>1, CartsAssumption DEF Items
  <2> QED BY <2>1, <2>2 DEF Add, Update
<1> QED BY <1>2, EditOK

LEMMA RemoveOK ==
  ASSUME IInv, NEW t \in Tabs, NEW c \in Carts, NEW p \in Products, Remove(t, c, p)
  PROVE  StepOK
<1>1. PICK items \in Items : SetLines(t, c, items)
  BY CartsAssumption DEF IInv, RowsOK, Items, Remove
<1> QED BY <1>1, EditOK

LEMMA ClearOK ==
  ASSUME IInv, NEW t \in Tabs, NEW c \in Carts, Clear(t, c)
  PROVE  StepOK
<1>1. PICK items \in Items : SetLines(t, c, items)
  BY CartsAssumption DEF Items, NoItems, Clear
<1> QED BY <1>1, EditOK

LEMMA CreateAndAddOK ==
  ASSUME IInv, NEW t \in Tabs, NEW c \in Carts, NEW p \in Products, NEW n \in 1..MaxAmount,
         CreateAndAdd(t, c, p, n)
  PROVE  StepOK
<1>1. [NoItems EXCEPT ![p] = n] \in Items
  BY CartsAssumption DEF Items, NoItems
<1>2. RowsStep
  BY <1>1, NewCartKeeps, CartsAssumption DEF IInv, CreateAndAdd, world
<1>3. RequestsOK'
  BY AnswerOK DEF IInv, CreateAndAdd
<1> QED BY <1>2, <1>3 DEF StepOK, RowsStep, IInv, CreateAndAdd, BrowserOK, world, browser

LEMMA MergeOK ==
  ASSUME IInv, NEW t \in Tabs, NEW a \in Carts, NEW g \in Carts,
         Adopt(t, g) \/ Absorb(t, a, g)
  PROVE  StepOK
<1>1. RequestsOK' /\ BrowserOK'
  BY ClearCookieOK DEF IInv, Adopt, Absorb, BrowserOK, world, browser
<1> QED BY <1>1, AdoptKeeps, AbsorbKeeps DEF StepOK, RowsStep, IInv

LEMMA MergeNothingOK ==
  ASSUME IInv, NEW t \in Tabs, MergeNothing(t)
  PROVE  StepOK
<1>1. RequestsOK' /\ BrowserOK'
  BY ClearCookieOK DEF IInv, MergeNothing, BrowserOK, world, browser
<1>2. PICK u \in Users : u = request[t].user
  BY DEF IInv, RequestsOK, RequestOK, MergeNothing, Merging
<1>3. ASSUME AccountCarts(u) = {}, NEW c \in Carts, NewCart(c, u, NoItems) PROVE RowsStep
  <2>1. NoItems \in Items
    BY CartsAssumption DEF Items, NoItems
  <2> QED BY <1>3, <2>1, NewCartKeeps DEF IInv, MergeNothing, world
<1>4. RowsStep
  BY <1>2, <1>3, RowsStay DEF IInv, MergeNothing, world
<1> QED BY <1>1, <1>4 DEF StepOK, RowsStep, IInv

LEMMA OthersOK ==
  ASSUME IInv, Environment \/ Logout
  PROVE  StepOK
<1>1. CASE Logout
  BY <1>1, RowsStay DEF StepOK, RowsStep, IInv, RequestsOK, BrowserOK, Logout, world
<1>2. ASSUME NEW p \in Products, EndSale(p) PROVE StepOK
  BY <1>2, RowsStay DEF StepOK, RowsStep, IInv, RequestsOK, BrowserOK, EndSale, browser
<1>3. ASSUME NEW c \in Carts, NEW S \in SUBSET Products, SettlePayment(c, S) PROVE StepOK
  BY <1>3, SettleKeeps
     DEF StepOK, RowsStep, IInv, RequestsOK, BrowserOK, SettlePayment, browser
<1>4. ASSUME NEW c \in Carts,
             Expire(c) \/ StartPayment(c) \/ AuthorisePayment(c) \/ CancelPayment(c)
      PROVE StepOK
  BY <1>4, EnvironmentKeeps
     DEF StepOK, RowsStep, IInv, RequestsOK, BrowserOK, Expire, StartPayment,
         AuthorisePayment, CancelPayment, browser, world
<1> QED BY <1>1, <1>2, <1>3, <1>4 DEF Environment

LEMMA NextOK == IInv /\ [Next]_vars => StepOK
<1> SUFFICES ASSUME IInv, [Next]_vars PROVE StepOK
  OBVIOUS
<1>1. CASE UNCHANGED vars
  BY <1>1, RowsStay DEF StepOK, RowsStep, IInv, RequestsOK, BrowserOK, vars, world, browser
<1>2. ASSUME NEW t \in Tabs, NEW op \in Edits \cup Merges, NEW u \in Users \cup {None},
             Send(t, op, u)
      PROVE StepOK
  BY <1>2, SendOK
<1>3. ASSUME NEW t \in Tabs, Step(t) \/ Lose(t) PROVE StepOK
  <2>1. CASE Resolve(t)
    BY <2>1, ResolveOK
  <2>2. ASSUME NEW c \in Carts, CreateAccountCart(t, c) PROVE StepOK
    BY <2>2, CreateAccountCartOK
  <2>3. ASSUME NEW c \in Carts, NEW p \in Products, NEW n \in 1..MaxAmount,
               CreateAndAdd(t, c, p, n) \/ Add(t, c, p, n) \/ Update(t, c, p, n)
        PROVE StepOK
    BY <2>3, CreateAndAddOK, AddOK
  <2>4. ASSUME NEW c \in Carts, NEW p \in Products, Remove(t, c, p) PROVE StepOK
    BY <2>4, RemoveOK
  <2>5. ASSUME NEW c \in Carts, Clear(t, c) PROVE StepOK
    BY <2>5, ClearOK
  <2>6. ASSUME NEW a \in Carts, NEW g \in Carts, Adopt(t, g) \/ Absorb(t, a, g) PROVE StepOK
    BY <2>6, MergeOK
  <2>7. CASE MergeNothing(t)
    BY <2>7, MergeNothingOK
  <2>8. CASE Conflict(t) \/ Lose(t) \/ Deliver(t) \/ Read(t) \/ RefuseEdit(t)
               \/ MergeUnavailable(t)
    BY <2>8, EndOK
  <2> QED BY <1>3, <2>1, <2>2, <2>3, <2>4, <2>5, <2>6, <2>7, <2>8 DEF Step
<1> QED BY <1>1, <1>2, <1>3, OthersOK DEF Next

THEOREM Invariant == Spec => []IInv
<1>1. IInv /\ [Next]_vars => IInv'
  BY NextOK DEF StepOK
<1> QED BY InitInv, <1>1, PTL DEF Spec

-----------------------------------------------------------------------------
(* Theorems                                                                *)

\* The types; and no token a browser was given opens the cart of an account.
THEOREM TypeCorrect == Spec => []TypeOK
<1>1. IInv => TypeOK
  BY DEF IInv, RowsOK, RequestsOK, BrowserOK, TypeOK
<1> QED BY <1>1, Invariant, PTL

\* However guards, merges and retries overlap, an account has one cart.
THEOREM OneCart == Spec => []OneCartPerAccount
<1>1. IInv => OneCartPerAccount
  <2> SUFFICES ASSUME IInv, NEW u \in Users PROVE Cardinality(AccountCarts(u)) <= 1
    BY DEF OneCartPerAccount
  <2>1. CASE AccountCarts(u) = {}
    BY <2>1, FS_EmptySet
  <2>2. ASSUME NEW c \in AccountCarts(u) PROVE Cardinality(AccountCarts(u)) <= 1
    <3>1. AccountCarts(u) = {c}
      BY <2>2 DEF IInv, RowsOK, AccountCarts
    <3> QED BY <3>1, FS_Singleton
  <2> QED BY <2>1, <2>2
<1> QED BY <1>1, Invariant, PTL

\* A cart with a payment attempt or an order is never deleted.
THEOREM CartsKept == Spec => []ReferredCartsKept
<1>1. IInv => ReferredCartsKept
  BY DEF IInv, RowsOK
<1> QED BY <1>1, Invariant, PTL

\* No merge loses or sums a line.
THEOREM MergesKeepLines == Spec => MergeLosesNothing
<1>1. IInv /\ [Next]_vars => [GuestsKept]_vars
  BY NextOK DEF StepOK
<1> QED BY <1>1, Invariant, PTL DEF MergeLosesNothing, GuestsKept, Spec

\* An ordered cart is not edited, whatever its guards saw before.
THEOREM OrderedCartsKept == Spec => OrderedCartNotEdited
<1>1. IInv /\ [Next]_vars => [OrderedKept]_vars
  BY NextOK DEF StepOK
<1> QED BY <1>1, Invariant, PTL DEF OrderedCartNotEdited, OrderedKept, Spec

=============================================================================
