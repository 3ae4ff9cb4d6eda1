--------------------------- MODULE CheckoutDrafts ---------------------------
(***************************************************************************)
(* The checkout drafts of one browser's carts: CheckoutService with the    *)
(* capability a guest needs for a draft, the idempotency keys of its       *)
(* saves, and the purge of expired guest drafts (apps/api/src/checkout,    *)
(* apps/api/scripts/purge-expired-checkout-drafts.ts).                     *)
(*                                                                         *)
(* A save is one SERIALIZABLE transaction that locks the cart and its      *)
(* draft; it judges by the time at which its request began.  Its answer,   *)
(* which carries a guest's capability in a cookie, may be lost.            *)
(***************************************************************************)
EXTENDS Integers, FiniteSets

CONSTANTS
  Carts,
  User,          \* the account of the browser
  Guest,         \* userId is null
  Gone,          \* the cart was merged into another one and deleted
  Tabs,          \* saves that can be in flight at once
  Keys,          \* idempotency keys
  Bodies,        \* canonical contents of a draft
  None,
  Lifetime,      \* GUEST_CHECKOUT_LIFETIME_MS
  BatchSize,     \* most drafts one purge statement deletes
  MaxClock,      \* bound of the clock
  MaxLatency     \* bound: how long a request takes

VARIABLES
  owner,         \* Cart.userId
  draft,         \* the CheckoutDraft row of the cart, None without one
  replies,       \* its CheckoutDraftRequest rows: the request behind each key
  attempted,     \* does a PaymentAttempt of the draft, or an Order of its cart, exist?
  claimed,       \* does an attempt of it hold the first-purchase discount?
  held,          \* the checkout capability in the browser's cookie
  request,       \* what each tab is doing
  clock

payments == <<attempted, claimed>>
vars == <<owner, draft, replies, payments, held, request, clock>>

-----------------------------------------------------------------------------
\* What a save asks for, as its fingerprint tells requests apart: the content
\* and who the cart was of.
Fingerprints == [body : Bodies, of : {User, Guest}]

\* deriveCheckoutCapability: a token computed from the guest's cart token, the
\* key and print of the request that started the draft, and its expiry.
Capability(c, key, print, expires) ==
  [cart |-> c, key |-> key, print |-> print, expires |-> expires]

\* The CheckoutDraft rows.
Capabilities == [cart : Carts, key : Keys, print : Fingerprints, expires : Nat]
DraftRows == [user : {User, Guest}, body : Bodies, cap : Capabilities \cup {None},
              expires : Nat \cup {None}]

NoReplies == [k \in Keys |-> None]
Idle == [phase |-> "idle"]

Init ==
  /\ owner     \in [Carts -> {User, Guest}]
  /\ draft     = [c \in Carts |-> None]
  /\ replies   = [c \in Carts |-> NoReplies]
  /\ attempted = [c \in Carts |-> FALSE]
  /\ claimed   = [c \in Carts |-> FALSE]
  /\ held      = None
  /\ request   = [t \in Tabs |-> Idle]
  /\ clock     = 0

-----------------------------------------------------------------------------
(* Who may see and change a draft                                          *)

\* hasGuestDraftAccess.
HasGuestAccess(d, cap, now) ==
  d.user = Guest /\ cap # None /\ cap = d.cap /\ d.expires > now

\* requireDraftAccess.
HasAccess(d, q) ==
  IF q.of = User THEN d.user = User ELSE HasGuestAccess(d, q.cap, q.now)

\* lockCart: the cart is still of the one the guard found.
CartStands(q) == owner[q.cart] = q.of

\* A guest draft past its expiry is started anew.
Restarts(d, q) == q.of = Guest /\ d.user = Guest /\ d.expires <= q.now

\* A guest draft in a cart that meanwhile belongs to the account goes with it.
Adopted(d, q) ==
  IF q.of = User /\ d.user = Guest
    THEN [d EXCEPT !.user = User, !.cap = None, !.expires = None] ELSE d

-----------------------------------------------------------------------------
(* Saves                                                                   *)

Fingerprint(q) == [body |-> q.body, of |-> q.of]

Send(t, c, k, b) ==
  /\ request[t] = Idle
  /\ owner[c] \in {User, Guest}
  /\ request' = [request EXCEPT ![t] =
       [phase |-> "sent", cart |-> c, of |-> owner[c], key |-> k, body |-> b,
        cap |-> held, now |-> clock]]
  /\ UNCHANGED <<owner, draft, replies, payments, held, clock>>

\* The answer, and the capability it sets.
Answer(t, cap) ==
  request' = [request EXCEPT ![t] = [phase |-> "answered", cap |-> cap]]

Reply(q) == replies' = [replies EXCEPT ![q.cart][q.key] = Fingerprint(q)]

\* Mutant: the requests of the old draft are deleted last.
StartThenForget(t) ==
  LET q == request[t]
      d == draft[q.cart]
      until == q.now + Lifetime
      cap == IF q.of = Guest THEN Capability(q.cart, q.key, Fingerprint(q), until) ELSE None
  IN
  /\ q.phase = "sent" /\ CartStands(q)
  /\ d = None \/ (d # None /\ Restarts(d, q))
  /\ draft' = [draft EXCEPT ![q.cart] =
       [user |-> q.of, body |-> q.body, cap |-> cap,
        expires |-> IF q.of = Guest THEN until ELSE None]]
  /\ replies' = [replies EXCEPT ![q.cart] = NoReplies]
  /\ Answer(t, cap)
  /\ UNCHANGED <<owner, payments, held, clock>>

\* The first save of a cart, or one that restarts an expired guest draft and
\* forgets the requests of the old one.
Start(t) ==
  LET q == request[t]
      d == draft[q.cart]
      until == q.now + Lifetime
      cap == IF q.of = Guest THEN Capability(q.cart, q.key, Fingerprint(q), until) ELSE None
  IN
  /\ q.phase = "sent" /\ CartStands(q)
  /\ d = None \/ (d # None /\ Restarts(d, q))
  /\ draft' = [draft EXCEPT ![q.cart] =
       [user |-> q.of, body |-> q.body, cap |-> cap,
        expires |-> IF q.of = Guest THEN until ELSE None]]
  /\ replies' = [replies EXCEPT ![q.cart] = [NoReplies EXCEPT ![q.key] = Fingerprint(q)]]
  /\ Answer(t, cap)
  /\ UNCHANGED <<owner, payments, held, clock>>

\* The save of a request whose draft stands.
Standing(t) ==
  /\ request[t].phase = "sent" /\ CartStands(request[t])
  /\ draft[request[t].cart] # None
  /\ ~ Restarts(draft[request[t].cart], request[t])

\* Mutant: a repeated save is applied again.
ChangeAgain(t) ==
  LET q == request[t]
      d == Adopted(draft[q.cart], q)
  IN
  /\ Standing(t)
  /\ HasAccess(d, q)
  /\ ~ (q.of = User /\ claimed[q.cart])
  /\ draft' = [draft EXCEPT ![q.cart] = [d EXCEPT !.body = q.body]]
  /\ Reply(q)
  /\ Answer(t, None)
  /\ UNCHANGED <<owner, payments, held, clock>>

\* A key the draft does not know changes it; its expiry and capability stay.
Change(t) ==
  LET q == request[t]
      d == Adopted(draft[q.cart], q)
  IN
  /\ Standing(t)
  /\ HasAccess(d, q)
  /\ replies[q.cart][q.key] = None
  /\ ~ (q.of = User /\ claimed[q.cart])
  /\ draft' = [draft EXCEPT ![q.cart] = [d EXCEPT !.body = q.body]]
  /\ Reply(q)
  /\ Answer(t, None)
  /\ UNCHANGED <<owner, payments, held, clock>>

\* A key the draft knows is answered as before.
Replay(t) ==
  LET q == request[t]
      d == Adopted(draft[q.cart], q)
  IN
  /\ Standing(t)
  /\ HasAccess(d, q)
  /\ replies[q.cart][q.key] = Fingerprint(q)
  /\ draft' = [draft EXCEPT ![q.cart] = d]
  /\ Answer(t, None)
  /\ UNCHANGED <<owner, replies, payments, held, clock>>

\* deriveStoredCheckoutCapability: a guest who lost the answer repeats the save
\* that started the draft, and gets the capability computed once more.
Recover(t) ==
  LET q == request[t]
      d == draft[q.cart]
  IN
  /\ Standing(t) /\ q.of = Guest
  /\ ~ HasGuestAccess(d, q.cap, q.now)
  /\ replies[q.cart][q.key] = Fingerprint(q)
  /\ d.cap # None
  /\ Capability(q.cart, q.key, Fingerprint(q), d.expires) = d.cap
  /\ Answer(t, d.cap)
  /\ UNCHANGED <<owner, draft, replies, payments, held, clock>>

\* The request ends without an effect that reaches the browser: refused (no
\* access, another input under the key, a claimed discount), failed, or its
\* answer lost.
Lose(t) ==
  /\ request[t] # Idle
  /\ request' = [request EXCEPT ![t] = Idle]
  /\ UNCHANGED <<owner, draft, replies, payments, held, clock>>

Deliver(t) ==
  /\ request[t].phase = "answered"
  /\ held' = IF request[t].cap = None THEN held ELSE request[t].cap
  /\ request' = [request EXCEPT ![t] = Idle]
  /\ UNCHANGED <<owner, draft, replies, payments, clock>>

-----------------------------------------------------------------------------
(* The purge                                                               *)

\* Mutant: payment attempts are not looked for.
PurgeableAttempted(c) ==
  /\ draft[c] # None
  /\ draft[c].user = Guest
  /\ draft[c].expires <= clock

Purgeable(c) ==
  /\ draft[c] # None
  /\ draft[c].user = Guest
  /\ draft[c].expires <= clock
  /\ ~ attempted[c]

\* PaymentAttempt_checkoutDraftId_fkey: the whole statement fails if a payment
\* attempt refers to one of the drafts.
Deletable(S) == \A c \in S : ~ attempted[c]

DropDrafts(S) ==
  /\ Deletable(S)
  /\ draft'   = [c \in Carts |-> IF c \in S THEN None ELSE draft[c]]
  /\ replies' = [c \in Carts |-> IF c \in S THEN NoReplies ELSE replies[c]]

\* One statement: the drafts that expired first, as many as a batch holds, and
\* their requests.
Purge(S) ==
  LET due == {c \in Carts : Purgeable(c)} IN
  /\ S # {} /\ S \subseteq due
  /\ Cardinality(S) = IF Cardinality(due) < BatchSize THEN Cardinality(due)
                      ELSE BatchSize
  /\ \A c \in S, e \in due \ S : draft[c].expires <= draft[e].expires
  /\ DropDrafts(S)
  /\ UNCHANGED <<owner, payments, held, request, clock>>

-----------------------------------------------------------------------------
(* The other components, and time                                          *)

\* A payment of the draft starts; the account's first one claims the discount,
\* and gives it back when it fails.
StartPayment(c) ==
  /\ draft[c] # None /\ draft[c].user = owner[c]
  /\ draft[c].user = Guest => draft[c].expires > clock
  /\ attempted' = [attempted EXCEPT ![c] = TRUE]
  /\ claimed' \in {claimed, [claimed EXCEPT ![c] = (draft[c].user = User)]}
  /\ UNCHANGED <<owner, draft, replies, held, request, clock>>

ReleaseClaim(c) ==
  /\ claimed[c]
  /\ claimed' = [claimed EXCEPT ![c] = FALSE]
  /\ UNCHANGED <<owner, draft, replies, attempted, held, request, clock>>

\* A login takes the guest cart over, or merges and deletes it; with the cart
\* goes its draft.
TakeCart(c) ==
  /\ owner[c] = Guest
  /\ \/ /\ owner' = [owner EXCEPT ![c] = User]
        /\ UNCHANGED <<draft, replies>>
     \/ /\ owner' = [owner EXCEPT ![c] = Gone]
        /\ DropDrafts({c})
  /\ UNCHANGED <<payments, held, request, clock>>

Tick ==
  /\ clock < MaxClock
  /\ \A t \in Tabs : request[t].phase = "sent" => clock - request[t].now < MaxLatency
  /\ clock' = clock + 1
  /\ UNCHANGED <<owner, draft, replies, payments, held, request>>

-----------------------------------------------------------------------------
Step(t) ==
  \/ \E c \in Carts, k \in Keys, b \in Bodies : Send(t, c, k, b)
  \/ Start(t)
  \/ Change(t)
  \/ Replay(t)
  \/ Recover(t)
  \/ Lose(t)
  \/ Deliver(t)

PurgeSome == \E S \in SUBSET Carts : Purge(S)

Next ==
  \/ \E t \in Tabs : Step(t)
  \/ PurgeSome
  \/ \E c \in Carts : StartPayment(c) \/ ReleaseClaim(c) \/ TakeCart(c)
  \/ Tick

Spec == Init /\ [][Next]_vars

\* The purge is run again and again.
FairSpec == Spec /\ WF_vars(PurgeSome)

-----------------------------------------------------------------------------
(* Properties                                                              *)

\* A guest never loses a draft with an answer: as long as it stands, the save
\* that started it is known and repeating it yields the capability again.  And
\* however many saves start or recover a draft at the same time, each of their
\* answers carries the one capability that opens it, until that expires.
CapabilityRecoverable ==
  /\ \A c \in Carts : draft[c] # None /\ draft[c].user = Guest =>
       LET cap == draft[c].cap IN
       /\ replies[c][cap.key] = cap.print
       /\ cap = Capability(c, cap.key, cap.print, draft[c].expires)
  /\ \A t \in Tabs : request[t].phase = "answered" /\ request[t].cap # None =>
       LET cap == request[t].cap
           d   == draft[cap.cart]
       IN d # None /\ d.user = Guest /\ cap.expires > clock => d.cap = cap

\* A draft's content and expiry: a save that is repeated late never overwrites
\* what a later save wrote (within the life of a draft a key changes it once),
\* and the expiry never slides: it changes only by a restart of an expired
\* draft, however the save that restarts it was delayed.
RetryNeverOverwrites ==
  [][\A c \in Carts : draft[c] # None /\ draft'[c] # None =>
       /\ draft'[c].body # draft[c].body /\ draft'[c].expires = draft[c].expires =>
            \E k \in Keys : /\ replies[c][k] = None
                            /\ replies'[c][k] # None
                            /\ replies'[c][k].body = draft'[c].body
       /\ draft[c].user = Guest /\ draft'[c].user = Guest
            /\ draft'[c].expires # draft[c].expires =>
            /\ draft[c].expires <= clock
            /\ draft'[c].expires > draft[c].expires]_vars

\* An expired guest draft that no payment refers to does not stay: it is purged
\* even when others cannot be, or it is started anew or taken over.
Overdue(c) == /\ draft[c] # None /\ draft[c].user = Guest
              /\ draft[c].expires <= clock /\ ~ attempted[c]
ExpiredDraftsPurged == \A c \in Carts : Overdue(c) ~> ~ Overdue(c)
=============================================================================
