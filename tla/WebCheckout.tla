---------------------------- MODULE WebCheckout ----------------------------
(***************************************************************************)
(* The checkout page of one browser tab: CheckoutScreen with its form and  *)
(* saves, CheckoutPayment with the attempt it remembers in the tab's       *)
(* sessionStorage, and their transports (apps/web/src/features/checkout).  *)
(* The API appears as far as the page can tell: the draft with its         *)
(* versions, the payment attempts (see Payments), and the switch that      *)
(* turns payments off.                                                     *)
(*                                                                         *)
(* A request is sent, carried out by the API and answered in separate      *)
(* steps; the page may give up waiting, be left, or be reloaded meanwhile, *)
(* and the API carries the request out all the same.                       *)
(***************************************************************************)
EXTENDS Integers, FiniteSets

CONSTANTS
  Bodies,        \* contents of the form
  SaveKeys,      \* idempotency keys for saves
  PayKeys,       \* idempotency keys for payments; each names its attempt
  None,
  MaxPolls,      \* polls after the first status read
  MaxReloads,    \* bound: how often the tab loads the page
  Switches       \* the values payments are switched to meanwhile (bound)

Open == {"processing", "ready"}
Terminal == {"failed", "cancelled"}
Statuses == Open \cup Terminal \cup {"succeeded"}

ASSUME WebCheckoutAssumption ==
  /\ None \notin Bodies \cup SaveKeys \cup PayKeys \cup Statuses \cup {"disabled", "unknown"}
  /\ None \notin [status : Statuses, version : Nat] \cup [key : PayKeys, confirmed : BOOLEAN]
  /\ MaxPolls \in Nat
  /\ MaxReloads \in Nat
  /\ Switches \subseteq BOOLEAN

VARIABLES
  \* the API
  draft,         \* the draft's content and version
  replies,       \* what each save key was answered
  attempts,      \* status and draft version of each key's attempt
  newest,        \* the key of the newest attempt
  enabled,       \* StripeGatewayService.enabled
  \* the tab
  stored,        \* sessionStorage[PAYMENT_HANDOFF_KEY]
  page,          \* "open", "stripe" or "away"
  loads,
  misled,        \* has the answer to a start of a page that was left changed the key
                 \* that the tab remembers? (history)
  \* CheckoutScreen
  form, saveState, saveKey, quote,
  \* CheckoutPayment
  payState,
  attempt,       \* attempt.current
  returned,      \* the URL says payment=return
  polls,         \* remainingPolls
  \* requests
  saves, calls

api == <<draft, replies, attempts, newest, enabled>>
tab == <<page, loads, misled>>
screen == <<form, saveState, saveKey, quote>>
payment == <<payState, attempt, returned, polls>>
vars == <<api, stored, tab, screen, payment, saves, calls>>

-----------------------------------------------------------------------------
\* The keys whose attempt has one of these statuses.
With(S) == {k \in PayKeys : attempts[k] # None /\ attempts[k].status \in S}

\* onAttemptUnsettledChange.
Unsettled == payState \in {"checking", "starting", "ready", "processing", "unknown"}

\* A request for a payment.  run: the component that sent it is mounted, was
\* left, or its page is gone; current: its generation is operation.current.
Call(kind, key, fresh) ==
  [kind |-> kind, key |-> key, fresh |-> fresh, phase |-> "sent",
   run |-> "mounted", current |-> TRUE, result |-> None]

Mine(kinds) == {r \in calls : r.kind \in kinds /\ r.run = "mounted"}
Busy == Mine({"start", "reconcile"}) # {}

Remove(r) == calls' = calls \ {r}
Replace(r, s) == calls' = (calls \ {r}) \cup {s}

\* Nothing waits for r any more; the API may still have to carry it out.
Abandoned(r) ==
  IF r.kind = "start" /\ r.phase = "sent" THEN {[r EXCEPT !.run = "gone", !.current = FALSE]}
  ELSE {}
AllAbandoned == UNION {Abandoned(r) : r \in calls}
SavesUnheard == {[s EXCEPT !.heard = FALSE] : s \in {x \in saves : x.phase = "sent"}}

Stored(k, confirmed) == [key |-> k, confirmed |-> confirmed]

-----------------------------------------------------------------------------
(* The page                                                                *)

\* The page shows the draft of the API, and what became of a remembered attempt.
Shown(url) ==
  /\ form' = draft.body /\ quote' = draft
  /\ saveState' = "idle" /\ saveKey' = None
  /\ attempt' = stored
  /\ returned' = (url = "return")
  /\ polls' = MaxPolls
  /\ payState' = IF stored # None THEN "checking"
                 ELSE IF url = "plain" THEN "idle" ELSE "unknown"

FirstCheck == IF stored = None THEN {} ELSE {Call("status", None, FALSE)}

Init ==
  /\ \E b \in Bodies : draft = [body |-> b, version |-> 0]
  /\ replies  = [k \in SaveKeys |-> None]
  /\ attempts = [k \in PayKeys |-> None]
  /\ newest   = None
  /\ enabled \in BOOLEAN
  /\ stored   = None
  /\ page = "open" /\ loads = 0 /\ misled = FALSE
  /\ form = draft.body /\ quote = draft /\ saveState = "idle" /\ saveKey = None
  /\ payState = "idle" /\ attempt = None /\ returned = FALSE /\ polls = MaxPolls
  /\ saves = {} /\ calls = {}

\* The tab comes to the page: from another page, or back from Stripe.
Enter(url) ==
  /\ page # "open" /\ loads < MaxReloads
  /\ page = "away" => url = "plain"
  /\ page' = "open" /\ loads' = loads + 1
  /\ Shown(url)
  /\ calls' = calls \cup FirstCheck
  /\ UNCHANGED <<api, stored, misled, saves>>

\* The page is loaded once more; nothing of it survives.
Reload ==
  /\ page = "open" /\ loads < MaxReloads
  /\ loads' = loads + 1
  /\ Shown("plain")
  /\ calls' = AllAbandoned \cup FirstCheck
  /\ saves' = SavesUnheard
  /\ UNCHANGED <<api, stored, page, misled>>

\* A link of the page: the components are unmounted, and what a start does when
\* it is answered still happens.
Leave ==
  /\ page = "open" /\ loads < MaxReloads
  /\ page' = "away"
  /\ calls' = {[r EXCEPT !.run = IF r.run = "mounted" THEN "left" ELSE @,
                         !.current = FALSE] : r \in {c \in calls : c.kind = "start"}}
  /\ saves' = SavesUnheard
  /\ UNCHANGED <<api, stored, loads, misled, screen, payment>>

-----------------------------------------------------------------------------
(* CheckoutScreen                                                          *)

\* The form is shown until a payment succeeded, and locked while one is unsettled.
Editable == page = "open" /\ ~ Unsettled /\ payState # "succeeded"

Edit(b) ==
  /\ Editable
  /\ form' = b /\ saveKey' = None /\ saveState' = "idle"
  /\ UNCHANGED <<api, stored, tab, quote, payment, saves, calls>>

UsedKeys == {s.key : s \in saves} \cup {k \in SaveKeys : replies[k] # None}

Save(k) ==
  /\ Editable /\ saveState # "saving"
  /\ IF saveKey = None THEN k \notin UsedKeys ELSE k = saveKey
  /\ saveKey' = k /\ saveState' = "saving"
  /\ saves' = saves \cup {[key |-> k, body |-> form, phase |-> "sent", heard |-> TRUE,
                           draft |-> None]}
  /\ UNCHANGED <<api, stored, tab, form, quote, payment, calls>>

\* CheckoutService.saveDraft: a key is applied once, and replayed for the same
\* content only.
ApplySave(s) ==
  LET next == [body |-> s.body, version |-> draft.version + 1]
      answer(d) == IF s.heard THEN {[s EXCEPT !.phase = "done", !.draft = d]} ELSE {}
  IN
  /\ s.phase = "sent"
  /\ IF replies[s.key] = None
       THEN /\ draft' = next
            /\ replies' = [replies EXCEPT ![s.key] = next]
            /\ saves' = (saves \ {s}) \cup answer(next)
       ELSE /\ saves' = (saves \ {s}) \cup
                 answer(IF replies[s.key].body = s.body THEN replies[s.key] ELSE None)
            /\ UNCHANGED <<draft, replies>>
  /\ UNCHANGED <<attempts, newest, enabled, stored, tab, screen, payment, calls>>

SaveAnswered(s) ==
  /\ s.phase = "done" /\ s.heard /\ s.draft # None
  /\ form' = s.draft.body /\ quote' = s.draft /\ saveState' = "saved"
  /\ saves' = saves \ {s}
  /\ UNCHANGED <<api, stored, tab, saveKey, payment, calls>>

\* An error, an answer that is refused, or 1.5 s without one; a late request
\* still reaches the API, or never does.
SaveFails(s) ==
  /\ s.heard
  /\ saveState' = "unavailable"
  /\ \/ saves' = saves \ {s}
     \/ s.phase = "sent" /\ saves' = (saves \ {s}) \cup {[s EXCEPT !.heard = FALSE]}
  /\ UNCHANGED <<api, stored, tab, form, saveKey, quote, payment, calls>>

-----------------------------------------------------------------------------
(* CheckoutPayment: status                                                 *)

\* findAccessibleAttempt: what the API says of the newest attempt.
ReadStatus(r) ==
  /\ r.kind \in {"status", "reconcile"} /\ r.phase = "sent"
  /\ Replace(r, [r EXCEPT !.phase = "done", !.key = newest,
                   !.result = IF newest = None THEN None ELSE attempts[newest].status])
  /\ UNCHANGED <<api, stored, tab, screen, payment, saves>>

\* Mutant: the attempt is not compared with the remembered one.
CorrelatesAny(r, a) == r.result # None

\* Is the answer about the attempt that a was confirmed to be?
Correlates(r, a) == r.result # None /\ a # None /\ a.confirmed /\ r.key = a.key

PollAgain(s) == (s = "processing" \/ (returned /\ s = "ready")) /\ polls > 0

\* check, after its answer: an outdated one is ignored, an unfinished attempt is
\* asked about again.  The attempt it compares with is the one that was remembered
\* when it began.
Checked(r) ==
  /\ r.kind = "status" /\ r.phase = "done"
  /\ IF ~ r.current THEN Remove(r) /\ UNCHANGED <<payState, polls>>
     ELSE IF Correlates(r, attempt)
       THEN /\ payState' = r.result
            /\ IF PollAgain(r.result)
                 THEN /\ polls' = polls - 1
                      /\ Replace(r, [Call("status", None, FALSE) EXCEPT !.phase = "timer"])
                 ELSE Remove(r) /\ UNCHANGED polls
       ELSE payState' = "unknown" /\ Remove(r) /\ UNCHANGED polls
  /\ UNCHANGED <<api, stored, tab, screen, attempt, returned, saves>>

\* Mutant: the failure is not shown.
CheckFailsSilently(r) ==
  /\ r.kind = "status" /\ r.phase # "timer"
  /\ Remove(r)
  /\ UNCHANGED <<api, stored, tab, screen, payment, saves>>

CheckFails(r) ==
  /\ r.kind = "status" /\ r.phase # "timer"
  /\ payState' = IF r.current THEN "unknown" ELSE payState
  /\ Remove(r)
  /\ UNCHANGED <<api, stored, tab, screen, attempt, returned, polls, saves>>

\* Three seconds later.
Poll(r) ==
  /\ r.kind = "status" /\ r.phase = "timer"
  /\ IF ~ r.current THEN Remove(r) /\ UNCHANGED <<payState, attempt>>
     ELSE /\ attempt' = stored
          /\ IF stored = None THEN payState' = "idle" /\ Remove(r)
             ELSE Replace(r, [r EXCEPT !.phase = "sent"]) /\ UNCHANGED payState
  /\ UNCHANGED <<api, stored, tab, screen, returned, polls, saves>>

Outdated == {IF r.run = "mounted" THEN [r EXCEPT !.current = FALSE] ELSE r : r \in calls}

Reconcile ==
  /\ page = "open" /\ ~ Busy
  /\ payState \in {"ready", "processing", "unknown"}
  /\ payState' = "checking"
  /\ calls' = Outdated \cup {Call("reconcile", None, FALSE)}
  /\ UNCHANGED <<api, stored, tab, screen, attempt, returned, polls, saves>>

Reconciled(r) ==
  /\ r.kind = "reconcile"
  /\ payState' = IF r.phase = "done" /\ Correlates(r, attempt) THEN r.result ELSE "unknown"
  /\ Remove(r)
  /\ UNCHANGED <<api, stored, tab, screen, attempt, returned, polls, saves>>

-----------------------------------------------------------------------------
(* CheckoutPayment: start                                                  *)

CanPay == saveState # "saving" /\ form = quote.body

StartShown ==
  \/ payState \in {"idle", "unavailable"} /\ CanPay
  \/ /\ payState \in {"ready", "unknown"} /\ attempt # None
     /\ ~ (returned /\ payState = "ready")

FreshKey(k) == attempts[k] = None /\ \A r \in calls : r.key # k

\* Mutant: a retry takes a key of its own.
StartAfresh(k) ==
  /\ page = "open" /\ ~ Busy /\ StartShown
  /\ FreshKey(k)
  /\ payState' = "starting"
  /\ attempt' = Stored(k, FALSE) /\ stored' = Stored(k, FALSE)
  /\ calls' = Outdated \cup {Call("start", k, TRUE)}
  /\ UNCHANGED <<api, tab, screen, returned, polls, saves>>

\* The key is remembered before the request that uses it leaves the page.
Start(k) ==
  /\ page = "open" /\ ~ Busy /\ StartShown
  /\ IF attempt = None THEN FreshKey(k) ELSE k = attempt.key
  /\ payState' = "starting"
  /\ attempt' = IF attempt = None THEN Stored(k, FALSE) ELSE attempt
  /\ stored'  = IF attempt = None THEN Stored(k, FALSE) ELSE stored
  /\ calls' = Outdated \cup {Call("start", k, attempt = None)}
  /\ UNCHANGED <<api, tab, screen, returned, polls, saves>>

\* startCheckout: replay or create the key's attempt for the draft as it is now.
Resumable(k) == k \in With(Open) /\ attempts[k].version = draft.version

CarryOut(r) ==
  LET answer(x) == IF r.run = "gone" THEN Remove(r)
                   ELSE Replace(r, [r EXCEPT !.phase = "done", !.result = x])
      prepared(s) == [status |-> s, version |-> draft.version]
  IN
  /\ r.kind = "start" /\ r.phase = "sent"
  /\ \/ /\ ~ enabled
        /\ answer("disabled") /\ UNCHANGED <<attempts, newest>>
     \/ /\ enabled
        /\ \/ /\ attempts[r.key] = None
              /\ With({"succeeded"}) = {}
              /\ newest' = r.key
           \/ Resumable(r.key) /\ UNCHANGED newest
        /\ \/ /\ attempts' = [attempts EXCEPT ![r.key] = prepared("ready")]
              /\ answer("ready")
           \/ /\ attempts' = [attempts EXCEPT ![r.key] = prepared("processing")]
              /\ answer("unknown")
     \/ /\ enabled
        /\ ~ Resumable(r.key)
        /\ answer("unknown") /\ UNCHANGED <<attempts, newest>>
  /\ UNCHANGED <<draft, replies, enabled, stored, tab, screen, payment, saves>>

KeyOf(s) == IF s = None THEN None ELSE s.key

\* The hosted page opens; an answer that comes after the page was left is
\* remembered only, whatever the tab remembers by then.
Started(r) ==
  /\ r.kind = "start" /\ r.phase = "done" /\ r.result = "ready" /\ r.run # "gone"
  /\ stored' = Stored(r.key, TRUE)
  /\ IF r.run = "mounted"
       THEN /\ attempt' = Stored(r.key, TRUE)
            /\ page' = "stripe"
            /\ calls' = UNION {Abandoned(c) : c \in calls \ {r}}
            /\ saves' = SavesUnheard
       ELSE Remove(r) /\ UNCHANGED <<attempt, page, saves>>
  /\ misled' = (misled \/ (r.run = "left" /\ KeyOf(stored') # KeyOf(stored)))
  /\ UNCHANGED <<api, loads, screen, payState, returned, polls>>

\* Only the first use of a key, refused because payments are off, forgets it.
Forgets(r) == r.fresh /\ r.result = "disabled" /\ stored = Stored(r.key, FALSE)

StartFails(r) ==
  /\ r.kind = "start" /\ r.run # "gone"
  /\ r.phase = "done" => r.result # "ready"
  /\ stored' = IF Forgets(r) THEN None ELSE stored
  /\ IF r.run = "mounted"
       THEN /\ payState' = IF Forgets(r) THEN "unavailable" ELSE "unknown"
            /\ attempt' = IF Forgets(r) THEN None ELSE attempt
       ELSE UNCHANGED <<payState, attempt>>
  /\ calls' = (calls \ {r}) \cup Abandoned(r)
  /\ misled' = (misled \/ (r.run = "left" /\ Forgets(r)))
  /\ UNCHANGED <<api, page, loads, screen, returned, polls, saves>>

\* The request never reached the API.
LoseCall(r) ==
  /\ r.kind = "start" /\ r.run = "gone"
  /\ Remove(r)
  /\ UNCHANGED <<api, stored, tab, screen, payment, saves>>

\* "Review and try again", and "Continue shopping".
StartOver ==
  /\ page = "open" /\ payState \in Terminal /\ CanPay
  /\ stored' = None /\ attempt' = None /\ payState' = "idle"
  /\ UNCHANGED <<api, tab, screen, returned, polls, saves, calls>>

ContinueShopping ==
  /\ page = "open" /\ payState = "succeeded"
  /\ stored' = None
  /\ page' = "away"
  /\ calls' = AllAbandoned /\ saves' = SavesUnheard
  /\ UNCHANGED <<api, loads, misled, screen, payment>>

-----------------------------------------------------------------------------
\* Stripe and the reconciliation of the API move an attempt on.
Provider(k) ==
  /\ attempts[k] # None
  /\ \E s \in Statuses :
       /\ attempts[k].status \in Open /\ s # attempts[k].status
       /\ s = "succeeded" => With({"succeeded"}) = {}
       /\ attempts' = [attempts EXCEPT ![k].status = s]
  /\ UNCHANGED <<draft, replies, newest, enabled, stored, tab, screen, payment, saves, calls>>

\* Payments are switched off by a deployment, or on.
Switch ==
  /\ enabled' \in Switches \ {enabled}
  /\ UNCHANGED <<draft, replies, attempts, newest, stored, tab, screen, payment, saves, calls>>

-----------------------------------------------------------------------------
Waiting(r) ==
  \/ ReadStatus(r)
  \/ Checked(r)
  \/ CheckFails(r)
  \/ Poll(r)
  \/ Reconciled(r)
  \/ CarryOut(r)
  \/ Started(r)
  \/ StartFails(r)
  \/ LoseCall(r)

Answers == \E r \in calls : Waiting(r)

Next ==
  \/ \E url \in {"plain", "return", "cancelled"} : Enter(url)
  \/ Reload
  \/ Leave
  \/ \E b \in Bodies : Edit(b)
  \/ \E k \in SaveKeys : Save(k)
  \/ \E s \in saves : ApplySave(s) \/ SaveAnswered(s) \/ SaveFails(s)
  \/ Answers
  \/ Reconcile
  \/ \E k \in PayKeys : Start(k)
  \/ StartOver
  \/ ContinueShopping
  \/ \E k \in PayKeys : Provider(k)
  \/ Switch

Spec == Init /\ [][Next]_vars

\* Every request is answered or given up after its timeout.
FairSpec == Spec /\ WF_vars(Answers)

-----------------------------------------------------------------------------
(* Properties                                                              *)

\* The tab never pays twice: whatever answers were lost, whatever was reloaded,
\* retried, refused or switched on again, at most one of its attempts can still be
\* paid or was - until the answer to a start whose page was left, which comes late,
\* makes the tab forget the key it remembers or remember another one.
OneLiveAttempt ==
  ~ misled => Cardinality(With(Open \cup {"succeeded"})) <= 1

\* "Payment successful" is shown for the payment of this tab only, and only
\* when it succeeded; a return from Stripe is no proof.
SuccessIsReal ==
  page = "open" /\ payState = "succeeded" =>
    /\ attempt # None
    /\ attempts[attempt.key] # None
    /\ attempts[attempt.key].status = "succeeded"

\* The page never shows for ever that it is checking or opening a payment.
NeverChecksForEver ==
  (page = "open" /\ payState \in {"checking", "starting"})
    ~> ~ (page = "open" /\ payState \in {"checking", "starting"})

\* The draft an open attempt was made of does not change under it: "it must not
\* race a pending or unknown payment attempt" (checkout-screen.tsx).
DraftStillUnderPayment ==
  [][\A k \in PayKeys : attempts[k] # None /\ attempts[k].status \in Open =>
       draft'.version = draft.version]_vars

=============================================================================
