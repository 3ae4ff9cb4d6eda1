# Verification of the Hop & Barley store

TLA+ models of the store - its server, the pages that call it, and the script
that deploys it - model-checked with TLC, and theorems about them checked with
the TLA+ proof system (TLAPS).  The models are written from the source under
`src/`; where this text names a function it is the one a definition translates.
`PROJECT.json` lists the components, the runs, the line ranges behind each
definition (`map`), the hazards, and for each property a mutated definition that
violates it.

## 1. The system

| Component | State it keeps | Operations | Interacts with |
|---|---|---|---|
| Payment attempts (`apps/api/src/payments/payment-attempt.service.ts`) | `PaymentAttempt`, its sealed item lines, `FirstPurchaseDiscountClaim` | `prepare`, `markProviderSessionCreated`, `markPending`, `markReconciliationRequired`, success and release | carts (lines), drafts (owner, quote), orders |
| Stripe orchestration (`stripe-payment.service.ts`, `stripe-gateway.service.ts`) | `PaymentAllocation`, `StripeWebhookReceipt`, the card `Order`, `Product.stockAmount` | `startCheckout`, `acceptWebhook`, `reconcile`, capture, cancellation, finalisation, release | Stripe (calls and webhooks), all of the above |
| Reconciliation worker (`stripe-reconciliation.worker.ts`) | a `running` flag | one pass every 30 s over the 25 oldest candidates | the orchestration |
| PostgreSQL (`apps/api/prisma`) | everything durable | constraints, partial unique indexes, deferred triggers | refuses transactions the code did not |
| Carts (`cart/`) | `Cart`, `CartItem`, guest token | add, update, remove, clear, adoption and merge at login | orders and payments lock the cart |
| Checkout drafts (`checkout/`) | `CheckoutDraft`, its requests, guest capability | read, save with version and key, recovery, purge, quote | carts, discount claims |
| Cash orders (`orders/`) | `Order`, `OrderItem` | idempotent `create` | carts, stock |
| Pricing (`catalog/product-amount.ts`, `checkout-pricing.ts`, `web/.../quantity`) | none | amounts, line totals, discount; a second time in the browser | every component that shows or charges money |
| Sessions (`auth/session/`) | `AuthSession` | issue, authenticate, touch, revoke | every protected request |
| Registration, login, limits (`auth/`) | accounts; sliding windows and a counter of hash operations in memory | register, login | sessions, cart merge |
| Administration (`admin/`, `product-assets/`) | products, image files | create, update, with images | stock that orders take |
| Profiles (`users/`) | profile, address, photo | save, photo | account page |
| Likes (`likes/`) | `PurchaseLike` | press, count | purchases |
| Web application (`apps/web`) | the cart shown, the form, a payment hand-off key in `sessionStorage` | overlapping requests with timeouts | API, Stripe's page |
| Release receiver (`deploy/`) | marker files of releases, links, containers | deploy, resume, roll back | Docker, the database's migrations |

### What is hard

Every database transaction of the server is `SERIALIZABLE` and takes row locks;
what makes it hard is what lies *between* transactions and between the server and
its callers.  A handler reads the provider's answer, then opens a transaction
that may run after several others; a guard finds a cart in one statement and the
handler locks it in a later one; the process may die after committing the
receipt of a webhook and before the capture the webhook asked for; a request the
page has given up is still carried out, and its retry must not do it twice; an
image file and the row that names it share no transaction; a deployment can end
between any two of its files.  The full list, each at its line, is under
`hazards` in `PROJECT.json`.

### What makes each component correct

* **Payments** - money is taken only for goods that are set aside; a charge
  becomes a paid order, whatever was lost; an outcome is final; stock is neither
  lost nor sold twice; a cart is paid for once; one account gets the
  first-purchase discount once, and keeps its right to it while no attempt
  succeeded; an attempt whose session was recorded reaches an outcome, and the
  outcome is the one the provider has.
* **Worker** - each candidate gets its turn.
* **Carts** - an account has one cart, a cart somebody paid for is not deleted,
  a merge loses no line, an ordered cart is not edited.
* **Checkout drafts** - a stale or repeated save never overwrites a newer one; a
  guest whose answer was lost gets the draft back; expired drafts go, all others
  stay.
* **Cash orders** - one order per key and per cart, and it is what the shopper
  reviewed.
* **Pricing** - the page and the API agree on what it costs and, up to the one
  bound that only the API has, on what is valid.
* **Sessions** - a revoked session never comes back, concurrent requests of one
  session do not log it out, at most five are active, a changed role ends the
  sessions issued under the old one.
* **Login and its limits** - no more than the limit in any window, also when the
  table is full; a form never tells a shopper the wrong outcome.
* **Administration** - a save does not undo an order; a product's image exists.
* **Profiles** - the name and address that are stored were sent as one form.
* **Likes** - every accepted press counts once.
* **Web cart** - when nothing is in flight, what is shown is what is stored, and
  the last choice wins.
* **Web checkout** - one live attempt per tab as long as no answer to a start of a
  page that was left changes the key the tab remembers; success is shown only when
  real.
* **Releases** - wherever a command ends, what runs fits the database, and once no
  migration is left unresolved the interrupted command is accepted again.

## 2. Modules

Specifications:

| Module | What it is | Checked in run |
|---|---|---|
| `Payments` | attempts, claims, allocations, orders, stock, the cart as payments see it, Stripe's session and intent, and the continuations of the API process | `payment_*` |
| `PaymentSettlement` | the abstract promise that `Payments` implements: deals that are offered, reserved, charged, settled or called off | `payment_settlement` |
| `ReconciliationQueue` | the order in which the worker reaches attempts | `progress`, `queue_starved` |
| `Sessions` | the login sessions of one account | `logins`, `session_revived` |
| `Access` | registration and login by password, limiters, hash operations, the two forms | `shop` (`limits`, `accounts`) |
| `Carts` | carts of a browser and its accounts, guards, adoption, merge | `carts` |
| `CheckoutDrafts` | drafts, keys and capability of a browser, the purge | `web`, `progress` (`drafts`) |
| `CashOrders` | cash orders from the guard to the answer | `shop` (`orders`) |
| `Pricing` | amounts and prices, in the API and in the page | `shop` (`prices`) |
| `ProductAdmin` | editors, product rows and image files | `shop` (`shelf`, `assets`) |
| `Profiles` | the account page | `shop` (`names`, `portrait`) |
| `Likes` | presses and counts | `shop` (`likes`) |
| `WebCart` | the cart in one browser tab | `web` (`cart`) |
| `WebCheckout` | the checkout page and the payment hand-off | `web` (`payment`, `saves`), `progress` (`page`), `checkout_draft_moved` |
| `Release` | one process of the receiver with its deployment script | `progress` (`releases`) |

`MCPayments`, `MCLogins`, `MCCarts`, `MCWeb`, `MCShop` and `MCProgress` are the
instances for TLC; `PaymentsProofs`, `SettlementProofs`, `SessionsProofs`,
`CartsProofs`, `WebProofs`, `ShopProofs`, `ProfilesProofs` and `ReleaseProofs` hold
theorems.  The theorems about the components that share an instance extend it
(`MCWeb`, `MCShop`, `MCProgress`, `MCLogins`), so that they are about the very
formulas the runs check; what the instances take of their constants is an ASSUME
of theirs, which TLC evaluates with the values of the `.cfg`.

**How they compose.**  `Payments` composes card payments with the cart, the
discount claim, the stock and the cash order they compete with, and implements
`PaymentSettlement`.  `Carts` and `CheckoutDrafts` see payments and orders as
marks that appear on a cart (`history`, `attempted`) at any time; `Sessions`
sees a login as one request whose cart merge is in `Carts`; `WebCheckout` and
`WebCart` see the API as far as a page can tell it.  The other components share
no state that one of them writes and another one reads twice.

**Several subjects in one run.**  `MCShop`, `MCWeb` and `MCProgress` check
components that do not interact.  An initial state picks the subject, and only
that one moves, so the states are the sum of the components', not their product.
In `MCShop` the parts take turns with the variables and the constant sets of
`CashOrders`: a variable of that instance means what the INSTANCE's substitution
says of the subject.  Properties of a subject are guarded by it.
`MCCarts` and `MCLogins` do the same with *scenarios*: one specification, but
each scenario has bounds of its own, because all bounds at once would be too
many states.

### Payments and the code

*Rows.*  Each variable from `status` to `cash` is a column (or the existence of
a row) of the database; `NONE` and `ABSENT` stand for a missing row.  The sealed
snapshot `snap` is what the migration's triggers protect from change: the cart,
the account and the lines with their amounts.  Prices, addresses and hashes are
left out: no step depends on them once the match checks have passed.

*Transactions.*  One action per transaction, guarded by the code's early returns
and by what the database refuses at commit: `AllocationCommits` is the deferred
trigger `assert_payment_allocation_consistency` together with the unique index
of live orders per cart.  An aborted transaction changes nothing; the handler
then marks the attempt (`TaskFails`) or the error leaves it (`TaskLost`).

*Between transactions.*  What a handler does next is a task: a record with the
operation, the attempt and the provider's answer it carries.  A task waits as
long as it likes while others run, which is what an `await` allows, and is
lost when the process dies.  `applyProviderAction` after a webhook, the capture
call after `requestCapture`, and every step of `reconcileAttempt` are tasks.

*Webhooks* are delivered any number of times in any order once Stripe has had a
reason to send them; a second delivery meets the receipt and does nothing, which
is why a lost task is not repaired by redelivery.

*Stripe* is external.  A session is open, complete or expired; an intent
requires a capture, succeeded, was cancelled, failed or does not exist; calls
with an idempotency key answer a repetition with the first answer; a call that
times out may have had its effect.

*Carts and cash orders* occur as far as they touch payments: editing lines,
the order lock, the account's loss of an ordered cart, and the stock that cash
orders take.

### ReconciliationQueue and the code

The queue is the order of `updatedAt`; `Touched` is Prisma's `@updatedAt` on
every write of a row.  A pass reads at most `Limit` candidates and works them
off while rows change under it.  Whether a reconciliation settles the attempt is
left open.  A marked row whose session is open and not overdue (`early`) is passed over
without a write unless Stripe says more of it, and keeps its place among the oldest
until the session expires, which every session does after 31 minutes.

### Sessions and the code

The five row variables are columns of `AuthSession`; `status` tells whether a
row exists and whether `revokedAt` is set.  A request is a record: what it does,
the token it carries, the time `now` it read when it began, and, inside
`authenticate`, the `lastSeenAt` it read and whether the one retry is used up.
`Issue`, `RevokeCurrent`, `RevokeAll` and `Promote` are one transaction each.
`Read` is `findUnique` with the decision that follows it, `Touch` and
`TouchMisses` are the two outcomes of the conditional `updateMany`, which runs
later and sees the row as it is then.  `RevocationAllowed` and the window in
`TypeOK` are the table's checks.  Among sessions issued at the same time the
order of random identities decides which is revoked: any choice is possible.
`revokeAll` has no caller in the code and is modelled as the service offers it.
Only sessions of one account occur: the token of another account is treated by
`issue` like none.  Account status and password changes have no writer in the
code, so a role that changed is the only reason of that kind to refuse.

### Carts and the code

A request goes through the phases of the handler: the guard finds a cart
(`resolve`, then `account_absent` when an account has none and one is created),
the transaction locks it and looks again at what it looks at again.  A
transaction that cannot be serialized is tried again up to `MaxAttempts` times
(`Conflict`), then reported.  `history` holds what refers to a cart (a payment
attempt, an order, an order that was cancelled): foreign keys with RESTRICT make
the merge fail that would delete such a cart, which is `MergeUnavailable`.  The
token is kept as `published`: whether the stored digest is of a token some
browser was given.  `Lose` is an answer, with its cookie, that never arrives.

### CheckoutDrafts and the code

A save is one transaction; it carries the idempotency key, the content, the
version it expects, and the time its request began.  `replies` are the rows of
`CheckoutDraftRequest`, from which a repetition is answered.  `held` is the
capability in the cookie, which an answer that is lost does not deliver.  The
purge deletes at most `BatchSize` drafts in a statement and only those no
attempt refers to.

### CashOrders and the code

`Send` is the guard, which finds the account's cart or makes one (`Resolves`), and
`SendLine` the one of a request to change a line.  `Place` is the transaction with
its checks of readiness and stock, and the clearing of the cart; `Replay` answers
from the order that the key already has, with a conflict when the fingerprint
differs; `Refuse` is what allocation refuses, `End` an answer or a failure.  What
the shopper reviewed travels in the request.  A retry whose first answer was lost
reaches a guard that has made a new cart, so that its fingerprint differs:
`AnsweredWithOwnOrder` allows this conflict, and says only that no answer names
another order than the key's own.

### Access and the code

A limiter keeps the attempts of each identity with their ages, prunes its table when
it is full, and refuses a new identity if pruning frees nothing
(`login-rate-limiter.ts`).  An attempt an hour old counts for nothing and grows
no older.  `admitted` is a history variable: what was really admitted, whatever
the limiter forgot.  The password executor admits `MaxActive` operations and
refuses others.  A process that restarts forgets its limiters.

### ProductAdmin, Profiles, Likes and the code

Each handler is split where the code awaits something another request may slip into:
storing the image, the write of the row, the removal of an image nobody refers to;
the load of a product, its read and its conditional update; the two rows of an
account page in one transaction; the read and the insert, or atomic increment, of
the upsert of a like.  A version of a product counts its writes; the code compares
`updatedAt`, so that it cannot tell two writes within one millisecond apart, which
the model leaves out.  `doubtful`, `due`, `kept` and `pressed` are history
variables: images whose row may be stored although the answer was lost, the stock
that orders and editors left, the pairs that were sent together, and the presses
that were accepted.

### Pricing and the code

The operators of the API and of the page are written down twice, as the code has
them twice: `IsValidOrderAmount`, the step of the stepper, the half-up rounding of a
proportional price, the subtotal, the discount.  So are their bounds: the API takes
no amount above `MaxAmount` (`MAX_COMMERCE_AMOUNT`), the page stops a count without
a maximum at `MaxSafe` (`Number.MAX_SAFE_INTEGER`) only.  `QuotedAsShown` compares
them in every state that edits and concurrent changes of the product lead to.

### WebCart, WebCheckout and the code

A request is sent, carried out by the API and answered in three steps; the
transport may give up (1.5 s for the cart) and the API carries the request out
all the same.  `pendingRef`, `queuedUpdate`, the version of the provider and
`sessionStorage` are variables; effects of React that only render are not.  `misled`
is a history variable: whether the answer to a start of a page that was left has
changed the key that the tab remembers.  What
the API did meanwhile is a record of rows small enough for the page to tell the
difference; `Payments` and `CheckoutDrafts` say what the API really does.

### Release and the code

Each file the receiver writes is a variable, and the process may end between any
two steps (`Ends`): the next command finds what was left.  `receiver` is what
the running process is about to do.  A migration begins (`Migrate`) and is finished
(`Migrated`) in two steps; one that failed or was cut off stays `unresolved`, nothing
is migrated, resumed or rolled back over it, and only the operator, who is external,
has it marked as applied or rolled back (`Resolve`).  The container that migrates is
taken to end with the script.  The candidate's checks, the backup and the
environment stand behind the version.

## 3. Runs

| Run | Instance | Question |
|---|---|---|
| `payment_races` | one attempt of an account, every webhook type, two tasks in flight, a product whose sale may end | does any order of webhook, worker, customer, crash and lost answer break the attempt, or book an outcome that is not the provider's? |
| `payment_contention` | two attempts of one guest cart, one item in stock, two tasks in flight | goods, stock and the cart under competition |
| `payment_settlement` | two attempts of an account in one cart or two, stock for both, cash orders | refinement of `PaymentSettlement`; is a cart charged twice? is the discount given twice? |
| `payment_liveness` | one attempt, webhooks possible and never certain, two tasks in flight | does every attempt with a session end, and every charge become an order? |
| `queue_starved` (violated) | three attempts, batches of two, two sessionless attempts | does the worker reach every expired session? |
| `logins` | scenario *slow*: two sessions, two requests that take up to two units of time; *prompt*: three sessions, a limit of two, requests within a unit | does any overlap of touch, logout, login, promotion log an honest session out, revive a revoked one, leave one of the old role, or exceed the limit? |
| `session_revived` (violated) | two sessions, slow requests | does a touch ever revive an expired session? |
| `carts` | scenarios *races*, *orders*, *lines* over two carts, two accounts and two tabs | guards and transactions of overlapping edits, logins, merges and orders |
| `web` | the checkout page with two payment keys, two reloads, and payments switched off and on (*payment*), with saves of two contents (*saves*), the cart of a tab (*cart*), the saves of a draft (*drafts*) | lost, late and repeated answers, reloads, expiry |
| `checkout_draft_moved` (violated) | the checkout page, two contents | does the draft stay as it was while it is being paid? |
| `shop` | nine subjects: cash orders, limits, accounts, shelf, assets, likes, prices, names, portrait | see the properties of the modules |
| `progress` | the worker's queue, the checkout page, the purge, a release of three versions with two schemas | what happens in the end, or stays possible |

**Properties.**  Each is stated with a comment in its module.

| Property | Of | Says |
|---|---|---|
| `AllocationMatchesAttempt` | `Payments` | attempt, allocation, order and stock agree between any two transactions |
| `SettledAsProvided` | `Payments` | an outcome is what the provider has and keeps; a cancelled attempt can no longer be paid |
| `OutcomeIsFinal` | `Payments` | no step changes an attempt that has its outcome |
| `CaptureBacked` | `Payments` | money is taken only while goods are set aside |
| `PaidLinesLeftCart` | `Payments` | what was paid for is no longer in the cart |
| `OneDiscountPerAccount` | `Payments` | one discounted attempt at a time, one for ever once it succeeded |
| `ChargedOncePerCart` | `Payments` | a cart is charged once, and never besides a cash order |
| `ImplementsSettlement` | `Payments` | every step is one of `PaymentSettlement`, or none |
| `AttemptResolves`, `ChargeSettles` | `Payments` | an attempt with a session ends; a charge becomes an order |
| `ExpiredSessionIsReconciled` | `ReconciliationQueue` | the worker reaches every expired session |
| `NoFalseRefusal`, `LiveCarriesRole`, `AtMostMaxActive`, `RevokedForGood`, `SeenNeverGoesBack` | `Sessions` | see above; the third one while requests are prompt (`AtMostMaxActivePrompt`) |
| `OneCartPerAccount`, `ReferredCartsKept`, `MergeLosesNothing`, `OrderedCartNotEdited` | `Carts` | see above |
| `CapabilityRecoverable`, `RetryNeverOverwrites`, `ExpiredDraftsPurged` | `CheckoutDrafts` | a lost answer loses no draft; a late retry overwrites nothing; the purge leaves nothing expired |
| `OneLiveAttempt`, `SuccessIsReal`, `NeverChecksForEver` | `WebCheckout` | the tab never has two attempts that live or succeeded, until a late answer to a start whose page was left changes the key it remembers; success is shown for a success; checking ends |
| `ShownIsCurrent`, `LastUpdateWins` | `WebCart` | quiet pages show the API's cart; the last choice is what is stored |
| `OrderedAsReviewed`, `AnsweredWithOwnOrder`, `OrderedCartClosed` | `CashOrders` | the order is what was reviewed; a key has one order, and an answer that names an order names the one asked for (a retry may be told of a conflict instead); a cart is ordered once and is then empty and nobody's |
| `AdmittedWithinLimits`, `FormIsTrue` | `Access` | the limits hold for a full table; what a form says is what happened |
| `StockAccounted`, `ImageKept` | `ProductAdmin` | a save undoes no order; only a lost answer can cost a product its image |
| `EveryPressCounted` | `Likes` | each accepted press counts once |
| `QuotedAsShown` | `Pricing` | the two implementations agree on prices and, up to the API's bound for a count without a maximum, on what is valid |
| `SavedTogether` | `Profiles` | the stored name and address were sent together, as one form, though perhaps one that was filled from two saves |
| `RunsOnItsSchema`, `Resumable` | `Release` | what runs fits the database, and nothing runs on an unresolved migration; an interrupted command was carried out, or is accepted again as soon as no migration is unresolved |

**Bounds of the payment runs.**  One or two attempts: the properties relate at most
two attempts, those of one cart or of one account, and all rows of an attempt are
only written by transactions that lock it.  Two tasks in flight (`MaxTasks`) let any
continuation be overtaken by any other handler, and that handler by its own
continuation; a third adds only repetitions of the same operations.  `MaxAmount` 2
lets a line be edited to another positive amount between quote and payment.  Stock
of one makes two attempts compete, stock of two lets both get their goods, so that
only the constraint on orders keeps the cart from being charged twice.  `Subscribed`
is cut where a run is about something else than webhooks; `payment_races` has all
six types, of which `reported` stands for those that decide nothing.  Batches of two
stand for 25: the order, not the number, decides.

**Bounds of the others.**  For sessions an idle limit of two units, a touch interval
of one and lifetimes of two and three let a session expire either way and a touch be
due or not; two requests are what a race over one row needs; a limit of two with
three identities makes a third login revoke one.  Two tabs and two carts are what a
merge and an overlapping edit need; the second product, and amounts of one and two,
are there for merges that combine lines (*lines*), `MaxItems` 1 lets a cart be full.
A transaction is tried once (`MaxAttempts` 1): a second try reads everything again,
so it differs from a first one in the counter only; the theorems hold for eight.
Two keys let a request be repeated or replaced; two saves in flight race each other.
`Lifetime` 1 or 2 with `MaxClock` 3 lets a draft expire, be purged and be started
again.  Three carts let an account order, get a new cart and order again.  A limiter
table of one identity and three identities of two addresses fill it; a minute of one
tick and an hour of four order all the windows.  Prices, amounts and limits up to 6
with a weight step of 2 reach every rounding case and every boundary (`MaxMoney` 12
is exceeded by six times three), and `MaxSafe` 8 lets the page go beyond the API's
bound of 6; the rates are scaled with them.  Three versions with two schemas contain
an upgrade with a migration, its fix without one, and each rollback.  One poll, two
loads of a page and four calls of the cart page let an answer be overtaken, a page
reloaded with a request in flight, and a queued update follow a pending one.

**Deadlock** is not checked where the system may stop: an attempt that has its
outcome, a browser with no calls left, a released version.  `carts` checks it.

**Symmetry** is used for sets whose elements no definition tells apart; none is
used in a run with a liveness property.

**Fairness.**  `Payments`: the event loop runs every continuation (weak fairness of
the tasks of an attempt); the worker ticks for ever and finds the candidate;
reconciliation, capture and transactions that are tried again and again succeed in
the end (strong fairness, because the attempt may be marked, or the task lost,
between two tries); time passes and Stripe expires sessions and lapses
authorisations.  Nothing is assumed of webhooks or customers.  `AttemptResolves`
starts when the session is recorded: an attempt whose creation answer was lost has
nothing anybody could ask Stripe about.  `ReconciliationQueue`: the timer, the end
of every session, and strong fairness of the reconciliation of each row.
`WebCheckout`: `Answers`, every request is answered or given up by the timeout of
its transport.  `CheckoutDrafts`: the purge command is run again and again, for
which its documents expect an external scheduler; nothing is assumed of shoppers.

**What the violated runs show.**  *queue_starved*: `reconcileAttempt` returns
without a write for an attempt that was marked before its session was recorded, so
the attempt stays the oldest candidate.  With 25 of them every pass looks at these
and at nothing else: an expired session younger than they are is never reconciled
unless a webhook arrives.  The tests cover one such attempt at a time.  In
`progress`, with fewer sessionless attempts than a batch holds, the property holds.

*session_revived*: the update of `lastSeenAt` compares the row with the time at
which the request began.  A request that began just before the idle limit and is
slow touches a session that is past the limit by then, and the session is active
again.  A login in between does not count that session, so that the limit of
active sessions can be exceeded by one; this is why `AtMostMaxActive` is checked
for prompt requests (within a unit of the clock they still interleave in every
order).  The window is as long as a request takes; the
test that claims touches "never resurrect" expired rows does not reach it.

*checkout_draft_moved*: the form can be edited while a save is under way, which ends
the "saving" state.  A shopper who edits it back to the quoted content, or loads the
page again, as in TLC's trace, can pay before the save reaches the API; the late
save then changes the version of the draft under the open attempt, which a comment
of the page says must not happen.

## 4. Proofs

The theorems hold for every value of the constants under each module's
assumption: any sets of attempts, carts, products, accounts, tabs, sessions,
versions; any stock, lifetimes, latency, number of tasks in flight.

**Payments.**  The safety properties are not inductive by themselves.  `IInv` adds
what else every state satisfies: an attempt that was never prepared has nothing
(`AbsentRow`); the provider's session and intent agree with each other and with the
allocation (`ProviderRow`) - an allocation exists only after an authorisation, is
released only when the intent is cancelled, is captured only when it succeeded; and
what an answer in flight still proves (`AnswerProves`): "cancelled", "succeeded" and
"expired" can no longer change, whereas "requires capture" may be out of date when
it is applied and proves only that the payment was authorised once; whoever is about
to capture has a committed allocation that is marked as requested.  The last part is
the heart: it is why a stale answer does no harm - what is booked from it is still
the provider's outcome (`SettledAsProvided`) - and it needs the other rows to be
kept by every step.  `PaymentsProofs` proves it with one lemma per handler.  `Rows`
restates the invariant per attempt (`RowOK`); a step touches the rows of one attempt
(`SameRow` for the others) and lets them only evolve in ways under which answers go
on proving what they prove (`Evolves`); `StepInv` puts the pieces together.  `MInv`
adds what the discount and the cart need, an account some of whose attempts got no
discount has used it up: `Traced` is what every step but `prepare` does to claims,
snapshots, paid orders and lines (a claim moves on from CLAIMED only; an order is
paid in the step that takes its lines out of the cart; an ordered cart's lines
change in no other way), and `TracedKeeps` and `PrepareKeeps` carry it through.
`SettlementProofs` maps every step to a step of `PaymentSettlement` or to none,
under the mapping `DealState`.

**Sessions.**  `IInv` says of each request what it knows of its row
(`RequestOK`): a pending touch is a first try for a row that was active and has
not been set back; a request that tries again knows that the row was revoked, or
touched within the interval.  So a second read never asks for a second touch,
and a second miss, the only false refusal there could be, cannot happen.
`RowsEvolve` is what any step may do to rows; `RequestStable` shows that such
steps leave true what other requests know.

**Carts.**  `IInv` is `RowsOK` (an account's cart carries no published token, two
carts of one account are the same, a cart that is gone has no history, a cart
with a placed order has no paid attempt left open), `RequestsOK` (a request that merges,
or is about to get an account's cart, names the account) and the browser's types.
`StepOK` collects what one step may do to rows - the formulas of the two action
properties - and is proved for each transaction together with the invariant, by
the same case split.

**The limit of sessions.**  While no request is slow, every request in flight knows
the time, so a touch revives nothing; a login revokes until there is room.
`PromptInv` adds the count to `IInv`; `FewerActive` is what every other step does.

**Cash orders.**  `Unrepeated` states the two unique indexes without
cardinalities: two orders with one key, or of one cart, are the same row.
`OwnAnswer` says what each phase of a request knows of its order, and `Closed`
that an ordered cart is empty and belongs to nobody, which only the guard's
re-check in the transaction keeps true while another tab edits.

**Login, registration and limits.**  `FormsInv`: a registration past its validation
has an address, a login past the query holds the password that is stored
(`Informed`), and the counter of password operations is the number of requests that
hash.  `LimitsInv`: what counts of the attempts a limiter remembers is what was
admitted (`CountsOK`) - so a pruned, a full and an aged table admit the same - and
attempts of one time bear different numbers, so that one more is one more.
`AgedCounts` needs that a set does not grow by getting older (`FS_Surjection`).

**Administration.**  `ShelfInv`: a version of a row that an editor or a save has read
is older than the row's, or has its stock.  `AssetsInv`: an image that is stored and
not yet written is nobody's, no two saves hold the same one, and one that is removed
after a failure is nobody's, or its save's answer was lost.

**Likes.**  `HeartsInv` counts the accepted presses that are still under way with
the row.  **Prices.**  `PricesInv` ties the page's subtotal to the rules it knows.
What is hard is arithmetic: `Quotient`, `DivMonotone` and `DivShift` bound `\div`
by its defining inequalities, `TotalMonotone` carries the rounding through the
discount, `PressedIsValid` the grid of steps through the buttons, up to the API's
bound and beyond it (`ValidIsBounded`).

**Profiles.**  What travels in a save that has not committed was sent as one form;
the commit writes both rows at once.

**Checkout page.**  `PageInv` says what a read of a final status means, that one
check runs at a time, and that a final status on show is the remembered attempt's.
`OneLiveInv` adds, until an answer to a start of a left page changes the remembered
key (`misled`): the page and the tab remember the same attempt (`TabAgrees`), it is
while none succeeded the only one that can be paid or will be once its request is
carried out (`HotIsRemembered`), and what an answer to the page's own start may
forget was never accepted (`StartsKnown`).  Reloads, lost answers, switched payments
and repeated starts are all within; section 5 says what happens after such an
answer.

**Cart page.**  `ShownWillBeCurrent`: while a change runs nothing else may set the cart
on show, and the answer the change will show is current; otherwise what is shown, or
the read that is about to be, is.  `WantedInv` adds where the amount chosen last is:
waiting, under way, failed, or stored.

**Drafts.**  `DraftInv`: a guest's draft knows the save that started it and carries its
capability, and the capability of an answer that is on its way opens the draft, has
expired, or belongs to a cart that a login has taken.

**Release.**  Between two steps of a command the pieces do not agree; `ReceiverOK`
says, step by step, what is true while a command is under way (a version that is
migrated runs nowhere; a version that is started has the database's schema or its
record says so), and `RecordedOK` that a recorded fingerprint is the schema of its
version.  `ResumeInv` adds that a command under way could be accepted again wherever
it ends (`Again`), and that the catalogue is seeded before anything is recorded or
linked (`SeedsOK`).

**Assumptions.**  Each module names what it takes of its constants
(`ConstantsAssumption` of `Payments`, `SessionsAssumption`, `CartsAssumption`,
`OrdersAssumption`, `WebCheckoutAssumption`, and of the instances
`DraftsAssumption`, `CartAssumption`, `ShopAssumption`, `ReleaseAssumption`): that
the value for "none" is not one of the things it is compared with, that limits and
periods are natural numbers, that the sets of tabs and requests whose members are
counted are finite, and for prices that weights come in positive steps, the bound on
weights is within the API's on amounts, which is within the page's, and the discount
is a part of the whole.

| Theorem | Says |
|---|---|
| `PaymentsProofs!TypeCorrect`, `Invariant` | `TypeOK` (stock never becomes negative), `IInv` |
| `AllocationsMatch`, `CapturesBacked`, `OutcomesProvided`, `OutcomesFinal` | the runs' properties `AllocationMatchesAttempt`, `CaptureBacked`, `SettledAsProvided`, `OutcomeIsFinal` |
| `DiscountGivenOnce`, `PaidLinesGone` | `OneDiscountPerAccount`, `PaidLinesLeftCart` |
| `ClaimsMatch` | `ClaimMatchesAttempt`: the discount claim follows the attempt that holds it |
| `SettlementProofs!Implements`, `DealsExclusive`, `ChargedOnce` | `ImplementsSettlement`; the abstract settlement keeps a cart for one deal; `ChargedOncePerCart`, read back through the refinement |
| `SessionsProofs!TypeCorrect`, `Invariant`, `NoRaceLogsOut`, `SessionsCarryRole`, `RevocationFinal`, `SeenMonotone` | `TypeOK`, `IInv`, `NoFalseRefusal`, `LiveCarriesRole`, `RevokedForGood`, `SeenNeverGoesBack` |
| `SessionsProofs!LimitKept` | `AtMostMaxActivePrompt` |
| `CartsProofs!TypeCorrect`, `OneCart`, `CartsKept`, `MergesKeepLines`, `OrderedCartsKept` | `TypeOK`, `OneCartPerAccount`, `ReferredCartsKept`, `MergeLosesNothing`, `OrderedCartNotEdited` |
| `WebProofs!SuccessIsTrue`, `PaidOnce` | `SuccessIsReal`, `OneLiveAttempt` |
| `WebProofs!DraftsRecoverable`, `DraftsNeverOverwritten` | `CapabilityRecoverable`, `RetryNeverOverwrites` |
| `WebProofs!ShownCartIsCurrent`, `LastAmountWins` | `ShownIsCurrent`, `LastUpdateWins` |
| `ShopProofs!TypeCorrect`, `Reviewed`, `Answers`, `CartsClosed` | `TypeOK` of `CashOrders`; `OrdersAsReviewed`, `OrdersAnswered`, `OrderedCartsClosed` |
| `ShopProofs!FormsTrue`, `LimitsHold` | `FormIsTrue`, `AdmittedWithinLimits` |
| `ShopProofs!StockIsAccounted`, `ImagesKept` | `StockAccounted`, `ImageKept` |
| `ShopProofs!PressesCounted`, `PricesAgree` | `EveryPressCounted`, `QuotedAsShown` |
| `ProfilesProofs!Invariant`, `SavesStayWhole`, `ShopProofs!ProfilesSavedTogether` | what travels in a save; `SavedTogether` |
| `ReleaseProofs!SchemaFits`, `InterruptionsResume` | `RunsOnItsSchema`, `Resumable` |

`FormsTrue` is about forms whose API knows one remote address and has no limits,
`PricesAgree`, `ImagesKept` and the others of `ShopProofs` and `WebProofs` about the
instance of the component in `MCShop` or `MCWeb`, without the restrictions that keep
the run small (`LimitsWithin`, `AccountsWithin`, the scenarios of `MCWeb`).

**Only model-checked.**  Every safety and action property of the passing runs has a
theorem.  The liveness properties have none: `AttemptResolves`, `ChargeSettles`,
`ExpiredSessionIsReconciled`, `NeverChecksForEver` and `ExpiredDraftsPurged` need
fairness and ENABLED, which are beyond the prover.

## 5. Not modelled, observations, and the plan

**Not modelled.**  CSRF and origin checks, the catalogue's queries, the shared
packages and the generated client are stateless functions of one request; the
remaining pages only present; configuration, health, OpenAPI and the scripts are
start-up and build code; the acceptance matrix and the fixtures are data.  Within
the modelled parts: serialization failures of payments are seen only as failed or
lost tasks; hashes and the checks that compare a provider object with the attempt
are left out, since in the model the provider's objects are the attempt's own;
guest tokens and capabilities do not occur in `Payments`; the recovery form sends
nothing; the backup and the checks of archives and images are not part of
`Release`; wording, layout and formats are left out
everywhere.

**Observations.**  What the models allow, no document denies, and a maintainer
may want to know:

* *Carts.*  A guest cart with a payment or an order can never be merged
  (RESTRICT), while `cart-merge-notice.tsx` suggests to try again.  An adopted
  cart with a cancelled order can never be edited again.  Lines that are merged
  into an account's cart while its card payment is being captured vanish when
  the settlement takes the cart from the account.
* *Orders.*  When the answer to an order is lost, the repetition reaches a guard
  that has created a new cart; the key is found, its fingerprint differs, and the
  shopper is told of a conflict although the order exists.
* *Checkout page.*  When payments are switched off between a lost answer and its
  retry, the retry never resolves; a key that is lost with the tab leaves its
  attempt to the worker.
* *Checkout page, two live attempts.*  `OneLiveAttempt` ends where the answer to a
  start of a page that was left changes the key that the tab remembers (`misled`).
  From there TLC finds two live attempts in two ways.  (a) Payments are switched off
  and on again: the late refusal of a left page's start clears the key in storage,
  which the present page still holds and may have sent again; carried out after the
  switch, the repeated request makes one live attempt, and the key that the next load
  draws another.  The bounds of the run suffice for this one.  (b) With three keys and
  three reloads and payments never switched on again: an attempt ends while the
  answer that names its page is on its way and the customer starts over; the late
  answer puts the old key back into storage over the new one, and after a reload the
  new one's abandoned request is carried out besides a third.  A hosted page lives for
  31 minutes and an answer is given up after 30 seconds, so only a start repeated at
  the very end could do this.
* *Cart page.*  A subtotal that overflows is shown as 0 with the checkout
  unavailable.  The product page validates the amount that is added, so the sum
  may be refused.  The form sends, and its buttons lead to, a count without a maximum
  up to the largest safe integer; the API refuses what is above
  `MAX_COMMERCE_AMOUNT`, and the cart stays as it was.
* *Administration.*  A create or update whose answer from the database is lost
  after the commit removes the image of the committed row; the editor's repeated
  save then conflicts for good.  Versions are milliseconds: a row that is written,
  loaded and written again within one looks unchanged to the save.
* *Profiles.*  A page that opens while another tab's save commits can show the
  old name with the new address, and saving that form stores the mixture:
  `SavedTogether` says only that what is stored was sent as one form.  A save or a
  photo that was given up may land after a newer one that was confirmed.
* *Releases.*  A failed candidate without `success.json` that was superseded can
  be deployed again over a newer release with the same schema.  An old failed
  version that is redeployed after a newer migration writes `pending.json` before
  it is refused.  Ending between the links `previous` and `current`, followed by
  a rollback, can make them equal.

**Plan.**  A bound on the active sessions when requests are slow; the order of the
queue (a candidate loses its turn only by a write) as a theorem that the liveness of
`ReconciliationQueue` rests on; a composition of `Carts` with `CheckoutDrafts` in
which a merge and a save meet.
