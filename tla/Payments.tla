------------------------------ MODULE Payments ------------------------------
(***************************************************************************)
(* Stripe card payments of the shop: PaymentAttemptService,                *)
(* StripePaymentService and the reconciliation worker                      *)
(* (apps/api/src/payments), with the PostgreSQL constraints they rely on   *)
(* and the Stripe objects they drive.                                      *)
(*                                                                         *)
(* Every database transaction of the code is SERIALIZABLE and takes row    *)
(* locks, so it is one atomic action here.  Everything the code does       *)
(* between two transactions - a call to Stripe, the continuation that is   *)
(* waiting for its answer - is a task in the variable  tasks: a crash of   *)
(* the process loses it, and any other handler may run before it does.     *)
(***************************************************************************)
EXTENDS Integers, FiniteSets

CONSTANTS
  Attempts,      \* identities PaymentAttempt rows can get
  Users,         \* accounts
  Guest,         \* "no account": the null userId of a row
  NotCreated,    \* owner of a cart that does not exist yet
  Carts,
  NoCart,        \* cart of an attempt that does not exist yet
  Products,
  DraftOwner,    \* [Carts -> Users \cup {Guest}]: owner of the cart's checkout draft
  InitialStock,  \* [Products -> Nat]
  Limited,       \* products whose sale can end
  Subscribed,    \* webhook event types the endpoint is subscribed to
  MaxAmount,     \* largest amount of one cart line (bound)
  MaxTasks       \* handlers and worker steps in flight at once (bound)

ASSUME ConstantsAssumption ==
  /\ Guest \notin Users
  /\ NotCreated \notin Users \cup {Guest}
  /\ NoCart \notin Carts
  /\ DraftOwner \in [Carts -> Users \cup {Guest}]
  /\ InitialStock \in [Products -> Nat]
  /\ Limited \subseteq Products
  /\ Subscribed \subseteq {"capturable", "succeeded", "canceled",
                         "reported", "session_completed", "session_expired"}
  /\ MaxAmount \in Nat
  /\ MaxTasks \in Nat

VARIABLES
  \* rows of the database
  status,    \* PaymentAttempt.status, "ABSENT" before prepare
  snap,      \* the sealed snapshot: cart, userId and lines of the attempt
  session,   \* is PaymentAttempt.providerSessionId set?
  ref,       \* is PaymentAttempt.providerPaymentReference set?
  claim,     \* FirstPurchaseDiscountClaim.status, "NONE" without discount
  order,     \* status of the attempt's Order, "NONE" without one
  alloc,     \* PaymentAllocation.status, "NONE" without one
  receipts,  \* webhook event types with a StripeWebhookReceipt
  stock,     \* Product.stockAmount
  onSale,    \* products inside their sale window
  lines,     \* cart lines: the amount of each product, 0 when absent
  owner,     \* Cart.userId
  cash,      \* lines of the cart's cash-on-delivery order, NoItems without one
  \* the provider
  sess,      \* Checkout Session of the attempt
  intent,    \* its PaymentIntent
  elapsed,   \* has providerSessionExpiresAt passed?
  \* the API process
  tasks      \* continuations waiting to run

attemptVars  == <<status, snap, session, ref, claim>>
orderVars    == <<order, alloc, stock>>
cartVars     == <<lines, owner, cash>>
providerVars == <<sess, intent, elapsed>>
vars == <<attemptVars, orderVars, receipts, onSale, cartVars, providerVars,
          tasks>>

-----------------------------------------------------------------------------
\* Values of the rows.

Items   == [Products -> 0..MaxAmount]
NoItems == [p \in Products |-> 0]
NoSnapshot == [cart |-> NoCart, user |-> Guest, items |-> NoItems]
Snapshots  == [cart : Carts \cup {NoCart}, user : Users \cup {Guest}, items : Items]

OpenStatus   == {"PREPARED", "PENDING", "RECONCILIATION_REQUIRED"}
FinalStatus  == {"SUCCEEDED", "CANCELLED"}
Statuses     == {"ABSENT"} \cup OpenStatus \cup FinalStatus
ActiveAlloc  == {"ALLOCATED", "CAPTURE_REQUESTED", "RECONCILIATION_REQUIRED"}
Allocations  == {"NONE", "CAPTURED", "RELEASED"} \cup ActiveAlloc
LiveOrder    == {"PLACED", "PAID"}
Orders       == {"NONE", "CANCELLED"} \cup LiveOrder
HeldClaim    == {"CLAIMED", "CONSUMED"}
Claims       == {"NONE", "RELEASED"} \cup HeldClaim

TaskOps == {"create", "retrieve", "store", "attach", "apply_session", "fetch",
            "apply_intent", "capture", "capture_call", "cancel", "mark"}
SessionStates == {"none", "open", "complete", "expired"}
IntentStates  == {"none", "failed", "requires_capture", "succeeded", "canceled"}

\* A continuation of the process for one attempt; seenSession and seenIntent
\* are the provider's answer it carries (a snapshot, possibly stale).
Tasks == [op : TaskOps, attempt : Attempts,
          seenSession : SessionStates, seenIntent : IntentStates]

Task(op, a) == [op |-> op, attempt |-> a,
                seenSession |-> "none", seenIntent |-> "none"]
Seen(op, a, s, i) == [op |-> op, attempt |-> a,
                      seenSession |-> s, seenIntent |-> i]

\* The task t is done and the continuations in next follow it.
Continue(t, next) == tasks' = (tasks \ {t}) \cup next

\* A new handler starts with the continuations in next.
Spawn(next) == /\ Cardinality(tasks) < MaxTasks
               /\ tasks' = tasks \cup next

-----------------------------------------------------------------------------
Init ==
  /\ status   = [a \in Attempts |-> "ABSENT"]
  /\ snap     = [a \in Attempts |-> NoSnapshot]
  /\ session  = [a \in Attempts |-> FALSE]
  /\ ref      = [a \in Attempts |-> FALSE]
  /\ claim    = [a \in Attempts |-> "NONE"]
  /\ order    = [a \in Attempts |-> "NONE"]
  /\ alloc    = [a \in Attempts |-> "NONE"]
  /\ receipts = [a \in Attempts |-> {}]
  /\ stock    = InitialStock
  /\ onSale   = Products
  /\ lines    = [c \in Carts |-> NoItems]
  /\ owner    = [c \in Carts |-> NotCreated]
  /\ cash     = [c \in Carts |-> NoItems]
  /\ sess     = [a \in Attempts |-> "none"]
  /\ intent   = [a \in Attempts |-> "none"]
  /\ elapsed  = [a \in Attempts |-> FALSE]
  /\ tasks    = {}

-----------------------------------------------------------------------------
\* What the transactions read.

\* checkoutLineOutcome(...) = 'available' for every line.
Available(items) ==
  \A p \in Products : items[p] > 0 => p \in onSale /\ items[p] <= stock[p]

AttemptsOf(u) == {b \in Attempts : status[b] # "ABSENT" /\ snap[b].user = u}

\* Mutant of ClaimHeld: only the claim of a pending attempt counts as held.
ClaimHeldByPending(u) ==
  \E b \in AttemptsOf(u) : claim[b] = "CLAIMED" /\ status[b] = "PENDING"

\* canClaimFirstPurchaseDiscount: a PAID order or a consumed claim disqualifies,
\* a claim still held by another attempt refuses the whole preparation.
Disqualified(u) ==
  \E b \in AttemptsOf(u) : order[b] = "PAID" \/ claim[b] = "CONSUMED"
ClaimHeld(u) == \E b \in AttemptsOf(u) : claim[b] = "CLAIMED"

\* Order_cartId_active_key: does another order that is not cancelled own c?
HasLiveOrder(c) ==
  \/ cash[c] # NoItems
  \/ \E b \in Attempts : snap[b].cart = c /\ order[b] \in LiveOrder

\* lockCart of the cart service: does the cart have any order at all?
HasOrder(c) ==
  \/ cash[c] # NoItems
  \/ \E b \in Attempts : snap[b].cart = c /\ order[b] # "NONE"

\* Mutants of AllocationCommits: without the trigger, without the index.
AllocationCommitsAnyStatus(a, st) == ~ HasLiveOrder(snap[a].cart)
AllocationCommitsAnyCart(a, st)   == st \in {"PENDING", "RECONCILIATION_REQUIRED"}

\* Deferred trigger assert_payment_allocation_consistency and the partial
\* unique index of Order: what PostgreSQL demands before it commits an
\* allocation of attempt a, whose status in the transaction is st.
AllocationCommits(a, st) ==
  /\ st \in {"PENDING", "RECONCILIATION_REQUIRED"}
  /\ ~ HasLiveOrder(snap[a].cart)

\* Mutant of Marked: final attempts are marked too.
MarkedAlways(st) == "RECONCILIATION_REQUIRED"

\* markReconciliation: only an attempt that is not final is marked.
Marked(st) == IF st \in OpenStatus THEN "RECONCILIATION_REQUIRED" ELSE st

-----------------------------------------------------------------------------
\* Carts (cart.service.ts and orders.service.ts, as far as payments see them).

\* An account has one cart at a time; a guest cart is created with its token.
OpenCart(c) ==
  /\ owner[c] = NotCreated
  /\ DraftOwner[c] \in Users => \A d \in Carts : owner[d] # DraftOwner[c]
  /\ owner' = [owner EXCEPT ![c] = DraftOwner[c]]
  /\ UNCHANGED <<attemptVars, orderVars, receipts, onSale, lines, cash,
                 providerVars, tasks>>

\* Mutant of EditCart: the cart's order is not looked for.
EditOrderedCart(c, p, amount) ==
  /\ owner[c] = DraftOwner[c]
  /\ amount > 0 => p \in onSale
  /\ lines[c][p] # amount
  /\ lines' = [lines EXCEPT ![c][p] = amount]
  /\ UNCHANGED <<attemptVars, orderVars, receipts, onSale, owner, cash,
                 providerVars, tasks>>

\* add, update or remove one line; every cart mutation refuses a cart with an order.
EditCart(c, p, amount) ==
  /\ owner[c] = DraftOwner[c]
  /\ ~ HasOrder(c)
  /\ amount > 0 => p \in onSale
  /\ lines[c][p] # amount
  /\ lines' = [lines EXCEPT ![c][p] = amount]
  /\ UNCHANGED <<attemptVars, orderVars, receipts, onSale, owner, cash,
                 providerVars, tasks>>

\* Cash on delivery: stock is taken, the cart is emptied and leaves its account.
PlaceCashOrder(c) ==
  /\ owner[c] \in Users
  /\ ~ HasLiveOrder(c)
  /\ lines[c] # NoItems
  /\ Available(lines[c])
  /\ stock' = [p \in Products |-> stock[p] - lines[c][p]]
  /\ cash'  = [cash EXCEPT ![c] = lines[c]]
  /\ lines' = [lines EXCEPT ![c] = NoItems]
  /\ owner' = [owner EXCEPT ![c] = Guest]
  /\ UNCHANGED <<attemptVars, order, alloc, receipts, onSale, providerVars,
                 tasks>>

-----------------------------------------------------------------------------
\* startCheckout.

\* PaymentAttemptService.prepare for a new idempotency key; the request goes on
\* to create the Checkout Session.
Prepare(a, c) ==
  LET u == DraftOwner[c]
      discounted == u \in Users /\ ~ Disqualified(u)
  IN /\ status[a] = "ABSENT"
     /\ owner[c] = u
     /\ lines[c] # NoItems
     /\ Available(lines[c])
     /\ discounted => ~ ClaimHeld(u)
     /\ status' = [status EXCEPT ![a] = "PREPARED"]
     /\ snap'   = [snap EXCEPT ![a] = [cart |-> c, user |-> u, items |-> lines[c]]]
     /\ claim'  = [claim EXCEPT ![a] = IF discounted THEN "CLAIMED" ELSE "NONE"]
     /\ Spawn({Task("create", a)})
     /\ UNCHANGED <<session, ref, orderVars, receipts, onSale, cartVars,
                    providerVars>>

\* startCheckout again with the same idempotency key: prepare answers with the
\* stored attempt, and its session is retrieved or (with the same key) created.
ReplayStart(a) ==
  /\ status[a] \in OpenStatus
  /\ owner[snap[a].cart] = snap[a].user
  /\ Spawn({Task(IF session[a] THEN "retrieve" ELSE "create", a)})
  /\ UNCHANGED <<attemptVars, orderVars, receipts, onSale, cartVars, providerVars>>

\* The provider makes the session, which ends 31 minutes after the quote, only
\* while that is far enough ahead; the idempotency key makes a repeated call
\* return the session the first one made.
Created(a) ==
  [sess EXCEPT ![a] = IF @ = "none" /\ ~ elapsed[a] THEN "open" ELSE @]

\* checkout.sessions.create answers with an open session.
CreateSession(t) ==
  LET a == t.attempt
  IN /\ t \in tasks /\ t.op = "create"
     /\ ~ elapsed[a]
     /\ sess' = Created(a)
     /\ Continue(t, {Seen("store", a, "open", "none")})
     /\ UNCHANGED <<attemptVars, orderVars, receipts, onSale, cartVars, intent,
                    elapsed>>

\* The call timed out, whether or not it made the session, or its answer was
\* refused because the session's time has passed.
CreateSessionFails(t) ==
  LET a == t.attempt
  IN /\ t \in tasks /\ t.op = "create"
     /\ sess' \in {sess, Created(a)}
     /\ Continue(t, {Task("mark", a)})
     /\ UNCHANGED <<attemptVars, orderVars, receipts, onSale, cartVars, intent,
                    elapsed>>

\* A replayed start retrieves the stored session, which must not have expired.
RetrieveSession(t) ==
  LET a == t.attempt
  IN /\ t \in tasks /\ t.op = "retrieve"
     /\ \/ /\ ~ elapsed[a]
           /\ Continue(t, {Seen("store", a, sess[a], intent[a])})
        \/ Continue(t, {Task("mark", a)})
     /\ UNCHANGED <<attemptVars, orderVars, receipts, onSale, cartVars,
                    providerVars>>

\* markProviderSessionCreated.
StoreSession(t) ==
  LET a == t.attempt
  IN /\ t \in tasks /\ t.op = "store"
     /\ \/ /\ status[a] \in OpenStatus
           /\ session' = [session EXCEPT ![a] = TRUE]
           /\ status'  = [status EXCEPT ![a] = "PENDING"]
           /\ Continue(t, IF t.seenIntent = "none" THEN {} ELSE {Task("attach", a)})
        \/ /\ status[a] \notin OpenStatus
           /\ Continue(t, {Task("mark", a)})
           /\ UNCHANGED <<session, status>>
     /\ UNCHANGED <<snap, ref, claim, orderVars, receipts, onSale, cartVars,
                    providerVars>>

\* markPending; done is what follows when the reference is attached.
MarkPending(t, done) ==
  LET a == t.attempt
  IN /\ \/ /\ status[a] \in OpenStatus
           /\ ref'    = [ref EXCEPT ![a] = TRUE]
           /\ status' = [status EXCEPT ![a] = "PENDING"]
           /\ Continue(t, done)
        \/ /\ status[a] \notin OpenStatus
           /\ Continue(t, {Task("mark", a)})
           /\ UNCHANGED <<ref, status>>
     /\ UNCHANGED <<snap, session, claim, orderVars, receipts, onSale, cartVars,
                    providerVars>>

AttachIntent(t) == t \in tasks /\ t.op = "attach" /\ MarkPending(t, {})

\* markAttemptReconciliation: the attempt and its allocation wait for the worker.
MarkReconciliation(t) ==
  LET a == t.attempt
  IN /\ t \in tasks /\ t.op = "mark"
     /\ status' = [status EXCEPT ![a] = Marked(@)]
     /\ alloc'  = [alloc EXCEPT ![a] =
                     IF @ \in ActiveAlloc THEN "RECONCILIATION_REQUIRED" ELSE @]
     /\ Continue(t, {})
     /\ UNCHANGED <<snap, session, ref, claim, order, stock, receipts, onSale,
                    cartVars, providerVars>>

-----------------------------------------------------------------------------
\* What a transaction does once Stripe's answer is known.  In these operators
\* st is the attempt's status after the reference was attached in the same
\* transaction, and rest the continuations that stay.

\* allocateInventory: take the stock and place the order of an authorised
\* payment, or have it cancelled when a line can no longer be sold.
AllocateInventory(a, st, rest) ==
  \/ /\ alloc[a] # "NONE"
     /\ status' = [status EXCEPT ![a] = st]
     /\ tasks'  = rest \cup {t \in {Task("capture", a)} : alloc[a] \in ActiveAlloc}
     /\ UNCHANGED orderVars
  \/ /\ alloc[a] = "NONE"
     /\ ~ Available(snap[a].items)
     /\ status' = [status EXCEPT ![a] = Marked(st)]
     /\ tasks'  = rest \cup {Task("cancel", a)}
     /\ UNCHANGED orderVars
  \/ /\ alloc[a] = "NONE"
     /\ Available(snap[a].items)
     /\ AllocationCommits(a, st)
     /\ status' = [status EXCEPT ![a] = st]
     /\ stock'  = [p \in Products |-> stock[p] - snap[a].items[p]]
     /\ order'  = [order EXCEPT ![a] = "PLACED"]
     /\ alloc'  = [alloc EXCEPT ![a] = "ALLOCATED"]
     /\ tasks'  = rest \cup {Task("capture", a)}

\* Mutant of FinalizeCapturedPayment: only a freshly requested capture is booked.
FinalizeFreshCapture(a, st) ==
  /\ st \in {"PENDING", "RECONCILIATION_REQUIRED"}
  /\ alloc[a] = "CAPTURE_REQUESTED"
  /\ order'  = [order EXCEPT ![a] = "PAID"]
  /\ alloc'  = [alloc EXCEPT ![a] = "CAPTURED"]
  /\ status' = [status EXCEPT ![a] = "SUCCEEDED"]
  /\ claim'  = [claim EXCEPT ![a] = IF @ = "CLAIMED" THEN "CONSUMED" ELSE @]
  /\ UNCHANGED <<lines, owner>>

\* markPaymentAttemptSucceeded: the discount's claim is consumed with it.
MarkPaymentAttemptSucceeded(a, st) ==
  /\ st \in {"PENDING", "RECONCILIATION_REQUIRED"}
  /\ claim[a] \in {"NONE", "CLAIMED"}
  /\ status' = [status EXCEPT ![a] = "SUCCEEDED"]
  /\ claim'  = [claim EXCEPT ![a] = IF @ = "CLAIMED" THEN "CONSUMED" ELSE @]

\* finalizeCapturedPayment: the order is paid, the attempt has succeeded, the paid
\* lines leave the cart and the cart its account.
FinalizeCapturedPayment(a, st) ==
  LET c == snap[a].cart
  IN \/ /\ st = "SUCCEEDED"
        /\ UNCHANGED <<status, claim, order, alloc, lines, owner>>
     \/ /\ alloc[a] \in {"CAPTURE_REQUESTED", "RECONCILIATION_REQUIRED"}
        /\ order'  = [order EXCEPT ![a] = "PAID"]
        /\ alloc'  = [alloc EXCEPT ![a] = "CAPTURED"]
        /\ MarkPaymentAttemptSucceeded(a, st)
        /\ lines'  = [lines EXCEPT ![c] =
                        [p \in Products |-> IF @[p] = snap[a].items[p] THEN 0 ELSE @[p]]]
        /\ owner'  = [owner EXCEPT ![c] = IF snap[a].user = Guest THEN @ ELSE Guest]

\* releasePaymentAttemptDefinitiveOutcome(..., 'cancelled_unpaid').
ReleaseAttempt(a, st) ==
  /\ st # "SUCCEEDED"
  /\ status' = [status EXCEPT ![a] = "CANCELLED"]
  /\ claim'  = [claim EXCEPT ![a] =
                  IF @ = "CLAIMED" /\ st \in OpenStatus THEN "RELEASED" ELSE @]

\* Mutant of ReleaseUnpaidPayment: the stock is not given back.
ReleaseWithoutStock(a, st) ==
  /\ alloc[a] # "CAPTURED"
  /\ ReleaseAttempt(a, st)
  /\ IF alloc[a] \in ActiveAlloc
       THEN /\ alloc' = [alloc EXCEPT ![a] = "RELEASED"]
            /\ order' = [order EXCEPT ![a] = "CANCELLED"]
            /\ UNCHANGED stock
       ELSE UNCHANGED orderVars

\* releaseUnpaidPayment: an allocation gives its stock back and its order is
\* cancelled with the attempt.
ReleaseUnpaidPayment(a, st) ==
  /\ alloc[a] # "CAPTURED"
  /\ ReleaseAttempt(a, st)
  /\ IF alloc[a] \in ActiveAlloc
       THEN /\ stock' = [p \in Products |-> stock[p] + snap[a].items[p]]
            /\ alloc' = [alloc EXCEPT ![a] = "RELEASED"]
            /\ order' = [order EXCEPT ![a] = "CANCELLED"]
       ELSE UNCHANGED orderVars

-----------------------------------------------------------------------------
\* Reconciliation: reconcileAttempt, run by the worker for its candidates and
\* by a customer's request for any attempt.

\* Mutant of Candidate: only marked attempts are looked at.
MarkedCandidate(a) == status[a] = "RECONCILIATION_REQUIRED"

\* The rows reconcileOutstanding selects.
Candidate(a) ==
  \/ status[a] = "RECONCILIATION_REQUIRED"
  \/ status[a] = "PENDING" /\ session[a] /\ elapsed[a]
  \/ alloc[a] \in ActiveAlloc

\* The process retrieves the PaymentIntent, or the Session when the reference
\* is not known yet; without a session there is nothing to ask for.  A customer
\* may ask for it in any state of the attempt.
Reconcile(a) ==
  /\ session[a]
  /\ Spawn({IF ref[a] THEN Seen("apply_intent", a, "none", intent[a])
                      ELSE Seen("apply_session", a, sess[a], intent[a])})
  /\ UNCHANGED <<attemptVars, orderVars, receipts, onSale, cartVars, providerVars>>

WorkerReconcile(a) == Candidate(a) /\ Reconcile(a)

\* The provider call of a reconciliation fails: the attempt is marked.
ReconcileFails(a) ==
  /\ session[a]
  /\ Spawn({Task("mark", a)})
  /\ UNCHANGED <<attemptVars, orderVars, receipts, onSale, cartVars, providerVars>>

\* Mutant of ApplySession: an overdue session is taken for an expired one.
ReleaseOverdue(t) ==
  LET a == t.attempt
  IN /\ t \in tasks /\ t.op = "apply_session" /\ t.seenIntent = "none"
     /\ \/ /\ t.seenSession = "expired" \/ elapsed[a]
           /\ ReleaseAttempt(a, status[a])
        \/ /\ t.seenSession # "expired" /\ ~ elapsed[a]
           /\ UNCHANGED <<status, claim>>
     /\ Continue(t, {})
     /\ UNCHANGED <<snap, session, ref, orderVars, receipts, onSale, cartVars,
                    providerVars>>

\* The Session answered without a PaymentIntent: an expired one releases the
\* attempt, an overdue one marks it.
ApplySession(t) ==
  LET a == t.attempt
  IN /\ t \in tasks /\ t.op = "apply_session" /\ t.seenIntent = "none"
     /\ \/ /\ t.seenSession = "expired"
           /\ ReleaseAttempt(a, status[a])
           /\ Continue(t, {})
        \/ /\ t.seenSession # "expired"
           /\ Continue(t, {m \in {Task("mark", a)} : elapsed[a]})
           /\ UNCHANGED <<status, claim>>
     /\ UNCHANGED <<snap, session, ref, orderVars, receipts, onSale, cartVars,
                    providerVars>>

\* The Session answered with a PaymentIntent: it is attached, then retrieved.
ApplySessionIntent(t) ==
  /\ t \in tasks /\ t.op = "apply_session" /\ t.seenIntent # "none"
  /\ MarkPending(t, {Task("fetch", t.attempt)})

FetchIntent(t) ==
  /\ t \in tasks /\ t.op = "fetch"
  /\ Continue(t, {Seen("apply_intent", t.attempt, "none", intent[t.attempt])})
  /\ UNCHANGED <<attemptVars, orderVars, receipts, onSale, cartVars, providerVars>>

\* applyPaymentIntentState, with the state the task saw.
ApplyIntent(t) ==
  LET a == t.attempt
  IN /\ t \in tasks /\ t.op = "apply_intent"
     /\ \/ /\ t.seenIntent = "requires_capture"
           /\ AllocateInventory(a, status[a], tasks \ {t})
           /\ UNCHANGED <<claim, lines, owner>>
        \/ /\ t.seenIntent = "succeeded"
           /\ FinalizeCapturedPayment(a, status[a])
           /\ Continue(t, {})
           /\ UNCHANGED stock
        \/ /\ t.seenIntent = "canceled"
           /\ ReleaseUnpaidPayment(a, status[a])
           /\ Continue(t, {})
           /\ UNCHANGED <<lines, owner>>
        \/ /\ t.seenIntent \in {"none", "failed"}
           /\ status' = [status EXCEPT ![a] = Marked(@)]
           /\ Continue(t, {})
           /\ UNCHANGED <<claim, orderVars, lines, owner>>
     /\ UNCHANGED <<snap, session, ref, receipts, onSale, cash, providerVars>>

-----------------------------------------------------------------------------
\* applyProviderAction.

\* requestCapture, the transaction before the call.
RequestCapture(t) ==
  LET a == t.attempt
  IN /\ t \in tasks /\ t.op = "capture"
     /\ \/ /\ alloc[a] \in ActiveAlloc
           /\ alloc' = [alloc EXCEPT ![a] = "CAPTURE_REQUESTED"]
           /\ Continue(t, {Task("capture_call", a)})
        \/ /\ alloc[a] \notin ActiveAlloc
           /\ Continue(t, {})
           /\ UNCHANGED alloc
     /\ UNCHANGED <<attemptVars, order, stock, receipts, onSale, cartVars,
                    providerVars>>

\* Stripe captures an authorised intent, and answers a repeated capture with
\* the first answer.
CaptureSucceeds(t) ==
  LET a == t.attempt
  IN /\ t \in tasks /\ t.op = "capture_call"
     /\ intent[a] \in {"requires_capture", "succeeded"}
     /\ intent' = [intent EXCEPT ![a] = "succeeded"]
     /\ Continue(t, {Seen("apply_intent", a, "none", "succeeded")})
     /\ UNCHANGED <<attemptVars, orderVars, receipts, onSale, cartVars, sess, elapsed>>

\* The call fails, or its answer is lost after the money was taken.
CaptureFails(t) ==
  LET a == t.attempt
  IN /\ t \in tasks /\ t.op = "capture_call"
     /\ intent' \in {intent, [intent EXCEPT ![a] =
                                IF @ = "requires_capture" THEN "succeeded" ELSE @]}
     /\ Continue(t, {Task("mark", a)})
     /\ UNCHANGED <<attemptVars, orderVars, receipts, onSale, cartVars, sess, elapsed>>

\* requestCancellation: Stripe cancels an intent that was not captured, and
\* answers a repeated cancellation with the first answer.
CancelSucceeds(t) ==
  LET a == t.attempt
  IN /\ t \in tasks /\ t.op = "cancel"
     /\ intent[a] \in {"requires_capture", "canceled"}
     /\ intent' = [intent EXCEPT ![a] = "canceled"]
     /\ Continue(t, {Seen("apply_intent", a, "none", "canceled")})
     /\ UNCHANGED <<attemptVars, orderVars, receipts, onSale, cartVars, sess, elapsed>>

\* Mutant of CancelFails: the attempt is released whatever Stripe answered.
CancelAssumed(t) ==
  LET a == t.attempt
  IN /\ t \in tasks /\ t.op = "cancel"
     /\ Continue(t, {Seen("apply_intent", a, "none", "canceled")})
     /\ UNCHANGED <<attemptVars, orderVars, receipts, onSale, cartVars, providerVars>>

\* The cancellation fails, or its answer is lost.
CancelFails(t) ==
  LET a == t.attempt
  IN /\ t \in tasks /\ t.op = "cancel"
     /\ intent' \in {intent, [intent EXCEPT ![a] =
                                IF @ = "requires_capture" THEN "canceled" ELSE @]}
     /\ Continue(t, {Task("mark", a)})
     /\ UNCHANGED <<attemptVars, orderVars, receipts, onSale, cartVars, sess, elapsed>>

\* A transaction aborts, or a retrieval fails, inside a handler that catches
\* the error and marks the attempt.
TaskFails(t) ==
  /\ t \in tasks
  /\ t.op \in {"store", "attach", "apply_session", "fetch", "apply_intent", "capture"}
  /\ Continue(t, {Task("mark", t.attempt)})
  /\ UNCHANGED <<attemptVars, orderVars, receipts, onSale, cartVars, providerVars>>

\* The process crashes (all its tasks are lost, one by one), or an error leaves
\* a handler that does not catch it.
TaskLost(t) ==
  /\ t \in tasks
  /\ Continue(t, {})
  /\ UNCHANGED <<attemptVars, orderVars, receipts, onSale, cartVars, providerVars>>

-----------------------------------------------------------------------------
\* Webhooks: acceptWebhook and processWebhookEvent.  An event may be delivered
\* late, in any order and more than once; a failing delivery changes nothing.

\* The events Stripe has had a reason to send for the attempt; "reported" stands for
\* payment_failed and the other types of a PaymentIntent that decide nothing.
Emitted(a) == {e \in Subscribed :
  CASE e = "capturable"        -> sess[a] = "complete"
    [] e = "session_completed" -> sess[a] = "complete"
    [] e = "session_expired"   -> sess[a] = "expired"
    [] e = "reported"          -> intent[a] # "none"
    [] e = "succeeded"         -> intent[a] = "succeeded"
    [] e = "canceled"          -> intent[a] = "canceled"}

\* lockAndAttachPaymentReference: whether it accepts, and the status it leaves.
CanAttach(a)      == ref[a] \/ status[a] \in {"PENDING", "RECONCILIATION_REQUIRED"}
AttachedStatus(a) == IF ref[a] THEN status[a] ELSE "PENDING"

\* The receipt of a new event is stored by the transaction that processes it.
Receive(a, e) ==
  /\ e \in Emitted(a) \ receipts[a]
  /\ Cardinality(tasks) < MaxTasks
  /\ receipts' = [receipts EXCEPT ![a] = @ \cup {e}]

\* applyPaymentIntentEvent.
IntentWebhook(a, e) ==
  /\ Receive(a, e)
  /\ CanAttach(a)
  /\ ref' = [ref EXCEPT ![a] = TRUE]
  /\ \/ /\ e = "capturable"
        /\ AllocateInventory(a, AttachedStatus(a), tasks)
        /\ UNCHANGED <<claim, lines, owner>>
     \/ /\ e = "succeeded"
        /\ FinalizeCapturedPayment(a, AttachedStatus(a))
        /\ UNCHANGED <<stock, tasks>>
     \/ /\ e = "canceled"
        /\ ReleaseUnpaidPayment(a, AttachedStatus(a))
        /\ UNCHANGED <<lines, owner, tasks>>
     \/ /\ e = "reported"
        /\ status' = [status EXCEPT ![a] = AttachedStatus(a)]
        /\ UNCHANGED <<claim, orderVars, lines, owner, tasks>>
  /\ UNCHANGED <<snap, session, onSale, cash, providerVars>>

\* applyCheckoutSessionEvent.  The payload names the PaymentIntent once the
\* customer has submitted a card; a session that expired authorised nothing.
SessionWebhook(a, e) ==
  LET st == IF intent[a] = "none" THEN status[a] ELSE AttachedStatus(a)
  IN /\ Receive(a, e)
     /\ session[a]
     /\ intent[a] # "none" => CanAttach(a)
     /\ intent[a] = "none" => ~ ref[a]
     /\ ref' = [ref EXCEPT ![a] = @ \/ intent[a] # "none"]
     /\ \/ /\ e = "session_completed"
           /\ status' = [status EXCEPT ![a] = st]
           /\ UNCHANGED claim
        \/ /\ e = "session_expired"
           /\ alloc[a] = "NONE"
           /\ ReleaseAttempt(a, st)
     /\ UNCHANGED <<snap, session, orderVars, onSale, cartVars, providerVars, tasks>>

-----------------------------------------------------------------------------
\* The customer at Stripe's page, Stripe's own timers, and time.

\* The customer submits a card and it is authorised; the session is complete.
CustomerAuthorizes(a) ==
  /\ session[a]
  /\ sess[a] = "open"
  /\ intent[a] \in {"none", "failed"}
  /\ sess'   = [sess EXCEPT ![a] = "complete"]
  /\ intent' = [intent EXCEPT ![a] = "requires_capture"]
  /\ UNCHANGED <<attemptVars, orderVars, receipts, onSale, cartVars, elapsed, tasks>>

\* The card is declined; the customer may try again while the session is open.
CustomerDeclined(a) ==
  /\ session[a]
  /\ sess[a] = "open"
  /\ intent[a] = "none"
  /\ intent' = [intent EXCEPT ![a] = "failed"]
  /\ UNCHANGED <<attemptVars, orderVars, receipts, onSale, cartVars, sess,
                 elapsed, tasks>>

\* Stripe expires an overdue session and cancels the intent it had.
SessionExpires(a) ==
  /\ sess[a] = "open"
  /\ elapsed[a]
  /\ sess'   = [sess EXCEPT ![a] = "expired"]
  /\ intent' = [intent EXCEPT ![a] = IF @ = "failed" THEN "canceled" ELSE @]
  /\ UNCHANGED <<attemptVars, orderVars, receipts, onSale, cartVars, elapsed, tasks>>

\* An authorisation nobody captures is cancelled by Stripe or the card's bank.
AuthorizationLapses(a) ==
  /\ intent[a] = "requires_capture"
  /\ intent' = [intent EXCEPT ![a] = "canceled"]
  /\ UNCHANGED <<attemptVars, orderVars, receipts, onSale, cartVars, sess,
                 elapsed, tasks>>

\* 31 minutes after the quote.
ClockPasses(a) ==
  /\ status[a] # "ABSENT"
  /\ ~ elapsed[a]
  /\ elapsed' = [elapsed EXCEPT ![a] = TRUE]
  /\ UNCHANGED <<attemptVars, orderVars, receipts, onSale, cartVars, sess, intent,
                 tasks>>

\* A product's sale window ends, or an administrator deactivates it.
SaleEnds(p) ==
  /\ p \in onSale
  /\ onSale' = onSale \ {p}
  /\ UNCHANGED <<attemptVars, orderVars, receipts, cartVars, providerVars, tasks>>

-----------------------------------------------------------------------------
Shopping ==
  \E c \in Carts :
    \/ OpenCart(c)
    \/ \E p \in Products, n \in 0..MaxAmount : EditCart(c, p, n)
    \/ PlaceCashOrder(c)
    \/ \E a \in Attempts : Prepare(a, c)

TaskStep(t) ==
  \/ CreateSession(t)   \/ CreateSessionFails(t) \/ RetrieveSession(t)
  \/ StoreSession(t)    \/ AttachIntent(t)       \/ MarkReconciliation(t)
  \/ ApplySession(t)    \/ ApplySessionIntent(t) \/ FetchIntent(t)
  \/ ApplyIntent(t)     \/ RequestCapture(t)
  \/ CaptureSucceeds(t) \/ CaptureFails(t)
  \/ CancelSucceeds(t)  \/ CancelFails(t)
  \/ TaskFails(t)       \/ TaskLost(t)

HandlerStarts(a) ==
  \/ ReplayStart(a)
  \/ Reconcile(a)
  \/ ReconcileFails(a)
  \/ \E e \in Subscribed : IntentWebhook(a, e) \/ SessionWebhook(a, e)

ProviderStep(a) ==
  \/ CustomerAuthorizes(a)
  \/ CustomerDeclined(a)
  \/ SessionExpires(a)
  \/ AuthorizationLapses(a)
  \/ ClockPasses(a)

Next ==
  \/ Shopping
  \/ \E t \in tasks : TaskStep(t)
  \/ \E a \in Attempts : HandlerStarts(a) \/ ProviderStep(a)
  \/ \E p \in Limited : SaleEnds(p)

Spec == Init /\ [][Next]_vars

\* What the scheduling justifies.  The event loop runs every continuation; the
\* worker ticks for ever and finds every candidate; a call or transaction that
\* is tried again and again succeeds in the end; clocks advance and Stripe runs its timers.  Nothing is assumed of
\* customers, of webhooks or of the requests they make.
Retried(Step(_), a) == \E t \in tasks : t.attempt = a /\ Step(t)

Fairness ==
  \A a \in Attempts :
    /\ WF_vars(Retried(TaskStep, a))
    /\ SF_vars(WorkerReconcile(a))
    /\ SF_vars(Retried(ApplySession, a))
    /\ SF_vars(Retried(ApplySessionIntent, a))
    /\ SF_vars(Retried(FetchIntent, a))
    /\ SF_vars(Retried(ApplyIntent, a))
    /\ SF_vars(Retried(RequestCapture, a))
    /\ SF_vars(Retried(CaptureSucceeds, a))
    /\ WF_vars(ClockPasses(a))
    /\ WF_vars(SessionExpires(a))
    /\ WF_vars(AuthorizationLapses(a))

FairSpec == Spec /\ Fairness

-----------------------------------------------------------------------------
\* Type invariant.  That stock stays a natural number is the database's check
\* on Product: no interleaving sells an item the shop does not have.
TypeOK ==
  /\ status   \in [Attempts -> Statuses]
  /\ snap     \in [Attempts -> Snapshots]
  /\ session  \in [Attempts -> BOOLEAN]
  /\ ref      \in [Attempts -> BOOLEAN]
  /\ claim    \in [Attempts -> Claims]
  /\ order    \in [Attempts -> Orders]
  /\ alloc    \in [Attempts -> Allocations]
  /\ receipts \in [Attempts -> SUBSET Subscribed]
  /\ stock    \in [Products -> Nat]
  /\ onSale   \in SUBSET Products
  /\ lines    \in [Carts -> Items]
  /\ owner    \in [Carts -> Users \cup {Guest, NotCreated}]
  /\ cash     \in [Carts -> Items]
  /\ sess     \in [Attempts -> SessionStates]
  /\ intent   \in [Attempts -> IntentStates]
  /\ elapsed  \in [Attempts -> BOOLEAN]
  /\ tasks    \in SUBSET Tasks

\* Money is taken only for goods that are set aside: whoever captured the
\* intent, and whatever answers were lost or came late, the attempt has an
\* allocation that was not released and an order that was not cancelled.
CaptureBacked ==
  \A a \in Attempts : intent[a] = "succeeded" =>
    /\ alloc[a] \in {"CAPTURE_REQUESTED", "RECONCILIATION_REQUIRED", "CAPTURED"}
    /\ order[a] \in LiveOrder

\* An outcome is what the provider has, and keeps, whichever answer it was booked
\* from and however late: a success was captured, and a cancelled attempt leaves no
\* authorisation behind and no page on which it could still be paid.
SettledAsProvided ==
  \A a \in Attempts :
    /\ status[a] = "SUCCEEDED" => intent[a] = "succeeded"
    /\ status[a] = "CANCELLED" => /\ intent[a] \in {"none", "canceled"}
                                  /\ sess[a] \in {"complete", "expired"}
                                  /\ intent[a] = "none" => sess[a] = "expired"

\* Attempt, allocation and order tell the same story in every state between two
\* transactions; only allocateInventory relies on the database to refuse it.
AllocationMatchesAttempt ==
  \A a \in Attempts :
    CASE alloc[a] = "NONE"       -> status[a] # "SUCCEEDED" /\ order[a] = "NONE"
      [] alloc[a] \in ActiveAlloc -> /\ status[a] \in {"PENDING", "RECONCILIATION_REQUIRED"}
                                     /\ order[a] = "PLACED"
                                     /\ ref[a]
      [] alloc[a] = "CAPTURED"   -> status[a] = "SUCCEEDED" /\ order[a] = "PAID"
      [] alloc[a] = "RELEASED"   -> status[a] = "CANCELLED" /\ order[a] = "CANCELLED"

\* The first-purchase claim follows the attempt that holds it: kept while the
\* outcome is open, consumed by success, given back by cancellation.
ClaimMatchesAttempt ==
  \A a \in Attempts : claim[a] # "NONE" =>
    CASE status[a] \in OpenStatus  -> claim[a] = "CLAIMED"
      [] status[a] = "SUCCEEDED"   -> claim[a] = "CONSUMED"
      [] status[a] = "CANCELLED"   -> claim[a] = "RELEASED"
      [] status[a] = "ABSENT"      -> FALSE

\* However many attempts an account starts, one at most holds its discount, and
\* once the account has a paid order exactly one paid order was discounted.
OneDiscountPerAccount ==
  \A u \in Users :
    /\ \A a, b \in AttemptsOf(u) :
         claim[a] \in HeldClaim /\ claim[b] \in HeldClaim => a = b
    /\ (\E a \in AttemptsOf(u) : order[a] = "PAID") =>
         \E a \in AttemptsOf(u) : order[a] = "PAID" /\ claim[a] = "CONSUMED"

\* One cart is paid for once: two attempts of a cart are never both charged,
\* and none is charged for a cart that was ordered cash on delivery.
ChargedOncePerCart ==
  \A a \in Attempts : intent[a] = "succeeded" =>
    /\ cash[snap[a].cart] = NoItems
    /\ \A b \in Attempts \ {a} :
         intent[b] = "succeeded" => snap[b].cart # snap[a].cart

\* A cart no longer offers what it has paid for, whatever its customer did with
\* it between the quote and the payment.
PaidLinesLeftCart ==
  \A a \in Attempts : order[a] = "PAID" =>
    \A p \in Products :
      snap[a].items[p] > 0 => lines[snap[a].cart][p] # snap[a].items[p]

\* An outcome is final: no late, repeated or reordered answer changes a
\* settled attempt, its order, its allocation or its claim.
OutcomeIsFinal ==
  [][\A a \in Attempts : status[a] \in FinalStatus =>
       UNCHANGED <<status[a], order[a], alloc[a], claim[a]>>]_vars

\* The state of an attempt as its customer would describe the deal.
DealState(a) ==
  CASE status[a] = "ABSENT"      -> "idle"
    [] status[a] = "CANCELLED"   -> "off"
    [] status[a] = "SUCCEEDED"   -> "settled"
    [] status[a] \in OpenStatus /\ intent[a] = "succeeded" -> "charged"
    [] status[a] \in OpenStatus /\ intent[a] # "succeeded" ->
         IF alloc[a] \in ActiveAlloc THEN "reserved" ELSE "open"

Settlement == INSTANCE PaymentSettlement WITH
  Deals <- Attempts,
  deal  <- [a \in Attempts |-> DealState(a)],
  terms <- [a \in Attempts |-> [cart |-> snap[a].cart, items |-> snap[a].items]],
  shelf <- stock,
  sold  <- cash

\* The orchestration implements the promise: every step, of the code, of Stripe
\* or of a customer, is one step of a deal or none.
ImplementsSettlement == Settlement!Spec

\* Once the session is recorded every attempt reaches an outcome, with no
\* webhook and after any finite number of failures.
AttemptResolves == \A a \in Attempts : session[a] ~> status[a] \in FinalStatus

\* A charge becomes a paid order, also when the answer to the capture was lost.
ChargeSettles == \A a \in Attempts : intent[a] = "succeeded" ~> order[a] = "PAID"

-----------------------------------------------------------------------------
\* The inductive invariant behind the safety properties: what else every state
\* satisfies about the rows of an attempt, about the provider's objects and
\* about the answers that continuations carry.

Authorized == {"requires_capture", "succeeded", "canceled"}

\* An attempt that was never prepared has nothing.
AbsentRow(a) == status[a] = "ABSENT" =>
  /\ ~ session[a] /\ ~ ref[a]
  /\ claim[a] = "NONE" /\ order[a] = "NONE" /\ alloc[a] = "NONE"
  /\ sess[a] = "none" /\ intent[a] = "none"

\* Session and PaymentIntent agree, and an allocation follows an authorisation:
\* it is released only when the intent is canceled.  An attempt is cancelled when its
\* intent is, or when its session ended without one.
ProviderRow(a) ==
  /\ sess[a] = "none"     => intent[a] = "none"
  /\ sess[a] = "open"     => intent[a] \in {"none", "failed"}
  /\ sess[a] = "complete" => intent[a] \in Authorized
  /\ sess[a] = "expired"  => intent[a] \in {"none", "canceled"}
  /\ alloc[a] # "NONE"    => intent[a] \in Authorized /\ ref[a]
  /\ alloc[a] = "RELEASED" => intent[a] = "canceled"
  /\ alloc[a] = "CAPTURED" => intent[a] = "succeeded"
  /\ status[a] = "CANCELLED" => intent[a] = "canceled" \/ sess[a] = "expired"

\* What an answer still proves, however late it is applied: that the session or the
\* intent ended stays true; requires_capture proves no more than that the payment was
\* authorised once.  A capture is asked for only once its allocation is committed.
AnswerProves(t) ==
  LET a == t.attempt
  IN /\ status[a] # "ABSENT"
     /\ t.op \in {"fetch", "apply_intent", "cancel"} => ref[a]
     /\ t.op \in {"retrieve", "apply_session"} => session[a]
     /\ t.op = "apply_session" /\ t.seenIntent = "none" /\ t.seenSession = "expired" =>
          sess[a] = "expired" /\ intent[a] = "none"
     /\ t.op = "apply_intent" =>
          /\ t.seenIntent = "requires_capture" => intent[a] \in Authorized
          /\ t.seenIntent \in {"succeeded", "canceled"} => intent[a] = t.seenIntent
     /\ t.op = "capture" => alloc[a] # "NONE"
     /\ t.op = "capture_call" => alloc[a] \notin {"NONE", "ALLOCATED"}

AnswersProve == \A t \in tasks : AnswerProves(t)

IInv ==
  /\ TypeOK
  /\ AllocationMatchesAttempt
  /\ ClaimMatchesAttempt
  /\ CaptureBacked
  /\ \A a \in Attempts : AbsentRow(a) /\ ProviderRow(a)
  /\ AnswersProve

=============================================================================
