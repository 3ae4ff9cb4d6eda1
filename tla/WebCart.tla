------------------------------- MODULE WebCart -------------------------------
(***************************************************************************)
(* The cart in one browser tab: CartProvider with its optimistic changes,  *)
(* the pages that use it, and its transport (apps/web/src/features/cart,   *)
(* .../product-detail/product-cart-control.tsx, .../quantity).             *)
(*                                                                         *)
(* A request is sent, carried out by the API and answered in separate      *)
(* steps.  The transport gives up after 1.5 s; a change that was given up  *)
(* may still be carried out later.                                         *)
(***************************************************************************)
EXTENDS Integers, FiniteSets

CONSTANTS
  Products,
  None,
  MaxAmount,     \* largest amount of a product
  MaxCalls       \* bound: what the customer asks of the provider

VARIABLES
  \* the API
  lines,         \* amount of each product, 0 without a line
  version,       \* number of changes carried out
  late,          \* changes given up that are still under way
  lateAt,        \* version after the newest of them, 0 without one
  \* CartProvider
  state,         \* kind, cart and message
  pending,       \* pendingRef.current, and what is shown of it
  queued,        \* queuedUpdate.current
  task,          \* the running mutation, or check of readiness
  loads,         \* requests for the cart that no mutation sent
  waiting,       \* a refresh waits for the mutation
  \* the pages
  checked,       \* what is shown of the last check: None, "attention", "error"
  asked,         \* bound: calls left
  wanted         \* history: the amount chosen last, until the page says that it failed

api == <<lines, version, late, lateAt>>
provider == <<state, pending, queued, task, loads, waiting>>
vars == <<api, provider, checked, asked, wanted>>

-----------------------------------------------------------------------------
Amounts == 0..MaxAmount
Cart(l, v) == [lines |-> l, version |-> v]
Ready(cart, message) == [kind |-> "ready", cart |-> cart, message |-> message]
Loading == [kind |-> "loading", cart |-> None, message |-> FALSE]
Unavailable == [kind |-> "unavailable", cart |-> None, message |-> FALSE]

Change(kind, p, n) == [kind |-> kind, product |-> p, amount |-> n]

Kinds == {"add", "update", "remove", "clear", "readiness"}
Changes == [kind : Kinds, product : Products \cup {None}, amount : Nat]
Phases == {"sent", "done", "failed", "recovering", "recovered"}
ApiCarts == [lines : [Products -> Nat], version : Nat]
Tasks == [change : Changes, phase : Phases, cart : ApiCarts \cup {None}, latest : BOOLEAN]

\* What a change makes of the lines.
After(l, c) ==
  CASE c.kind = "add" -> [l EXCEPT ![c.product] = @ + c.amount]
    [] c.kind = "update" -> [l EXCEPT ![c.product] = c.amount]
    [] c.kind = "remove" -> [l EXCEPT ![c.product] = 0]
    [] c.kind = "clear" -> [p \in Products |-> 0]

\* CartService's answer to a change of which the lines allow no part is an error.
Allowed(l, c) ==
  /\ c.kind = "add" => l[c.product] + c.amount <= MaxAmount
  /\ c.kind \in {"update", "remove"} => l[c.product] > 0

\* projectItems: the shown cart with the pending change.
Projected ==
  IF pending = None \/ pending.kind \in {"add", "readiness"} THEN state.cart.lines
  ELSE After(state.cart.lines, pending)

\* latest: responseId.current is still the request's.
Load == [phase |-> "sent", cart |-> None, latest |-> TRUE]
Task(change) == [change |-> change, phase |-> "sent", cart |-> None, latest |-> TRUE]
Mutating == task # None /\ task.change.kind # "readiness"
Older(S) == {[r EXCEPT !.latest = FALSE] : r \in S}
OlderTask == IF task = None THEN None ELSE [task EXCEPT !.latest = FALSE]

Init ==
  /\ lines = [p \in Products |-> 0]
  /\ version = 0 /\ late = {} /\ lateAt = 0
  /\ state = Loading /\ loads = {Load}
  /\ pending = None /\ queued = None /\ task = None /\ waiting = FALSE
  /\ checked = None /\ asked = MaxCalls
  /\ wanted = None

-----------------------------------------------------------------------------
(* Loading                                                                 *)

\* loadCanonical(true), behind everything that is under way.
Reload ==
  /\ state' = Loading
  /\ loads' = Older(loads) \cup {Load}

\* Mutant: a refresh does not wait.
RefreshAtOnce ==
  /\ asked > 0
  /\ asked' = asked - 1
  /\ task' = OlderTask
  /\ Reload
  /\ wanted' = None
  /\ UNCHANGED <<api, pending, queued, waiting, checked>>

\* refresh, which waits for a mutation.
Refresh ==
  /\ asked > 0
  /\ asked' = asked - 1
  /\ IF Mutating THEN waiting' = TRUE /\ UNCHANGED <<state, loads, task>>
     ELSE Reload /\ task' = OlderTask /\ UNCHANGED waiting
  /\ wanted' = None
  /\ UNCHANGED <<api, pending, queued, checked>>

ReadCart(r) ==
  /\ r.phase = "sent"
  /\ loads' = (loads \ {r}) \cup {[r EXCEPT !.phase = "done", !.cart = Cart(lines, version)]}
  /\ UNCHANGED <<api, state, pending, queued, task, waiting, checked, asked, wanted>>

\* The answer, or an error or timeout before it.
Loaded(r) ==
  /\ state' = IF ~ r.latest THEN state
              ELSE IF r.phase = "done" THEN Ready(r.cart, FALSE) ELSE Unavailable
  /\ checked' = IF r.latest THEN None ELSE checked
  /\ loads' = loads \ {r}
  /\ UNCHANGED <<api, pending, queued, task, waiting, asked, wanted>>

-----------------------------------------------------------------------------
(* What the pages ask for                                                  *)

Begin(change, want) ==
  /\ asked > 0
  /\ asked' = asked - 1
  /\ pending' = change /\ task' = Task(change)
  /\ wanted' = want
  /\ UNCHANGED <<api, state, waiting, checked>>

\* mutate, for the buttons of the product page and of the cart; they are
\* disabled while anything is pending.
Mutate(change) ==
  /\ state.kind = "ready" /\ pending = None
  /\ change.kind = "remove" => state.cart.lines[change.product] > 0
  /\ change.kind = "clear" => \E p \in Products : state.cart.lines[p] > 0
  /\ Begin(change, None)
  /\ loads' = Older(loads)
  /\ UNCHANGED queued

\* The quantity form of a line offers other amounts than the shown one, also
\* while an update of the same line is pending.
Offered(p, n) ==
  /\ state.kind = "ready"
  /\ Projected[p] > 0 /\ n # Projected[p]
  /\ pending # None => pending.kind = "update" /\ pending.product = p

\* update: while one runs the newest amount takes the place of one that waits.
Update(p, n) ==
  LET change == Change("update", p, n) IN
  /\ Offered(p, n)
  /\ IF Mutating
       THEN /\ asked > 0 /\ asked' = asked - 1
            /\ pending' = change /\ queued' = change /\ wanted' = change
            /\ UNCHANGED <<api, state, task, loads, waiting, checked>>
       ELSE /\ Begin(change, change)
            /\ queued' = None
            /\ loads' = Older(loads)

\* proceedToCheckout.
CheckReadiness ==
  /\ state.kind = "ready" /\ pending = None
  /\ Begin(Change("readiness", None, 0), wanted)
  /\ UNCHANGED <<queued, loads>>

-----------------------------------------------------------------------------
(* The running mutation                                                    *)

\* The API carries the change out, and answers with the cart or an error.
Apply ==
  /\ Mutating /\ task.phase = "sent"
  /\ IF Allowed(lines, task.change)
       THEN /\ lines' = After(lines, task.change) /\ version' = version + 1
            /\ task' = [task EXCEPT !.phase = "done", !.cart = Cart(lines', version')]
       ELSE task' = [task EXCEPT !.phase = "failed"] /\ UNCHANGED <<lines, version>>
  /\ UNCHANGED <<late, lateAt, state, pending, queued, loads, waiting, checked, asked, wanted>>

\* No token for the change, an error, an answer that is refused, or none in
\* time: the change was carried out, never will be, or will be later.
Fail ==
  /\ Mutating /\ task.phase \in {"sent", "done"}
  /\ task' = [task EXCEPT !.phase = "failed", !.cart = None]
  /\ \/ UNCHANGED late
     \/ task.phase = "sent" /\ late' = late \cup {task.change}
  /\ UNCHANGED <<lines, version, lateAt, state, pending, queued, loads, waiting, checked,
                 asked, wanted>>

ApplyLate(c) ==
  /\ late' = late \ {c}
  /\ IF Allowed(lines, c)
       THEN lines' = After(lines, c) /\ version' = version + 1 /\ lateAt' = version'
       ELSE UNCHANGED <<lines, version, lateAt>>
  /\ UNCHANGED <<provider, checked, asked, wanted>>

\* The lock is released, and a refresh that waited begins.
Finish(shown) ==
  /\ task' = None /\ pending' = None /\ waiting' = FALSE
  /\ IF waiting THEN Reload ELSE state' = shown /\ UNCHANGED loads

Shown(new) == IF task.latest THEN new ELSE state

\* Mutant: an amount that arrived meanwhile is forgotten.
AnsweredOnce ==
  /\ Mutating /\ task.phase = "done"
  /\ Finish(Shown(Ready(task.cart, FALSE)))
  /\ queued' = None
  /\ checked' = None
  /\ UNCHANGED <<api, asked, wanted>>

\* The cart of the answer is shown; an update goes on with the amount that waits.
Answered ==
  /\ Mutating /\ task.phase = "done"
  /\ IF task.change.kind = "update" /\ queued # None
       THEN /\ state' = Shown(Ready(task.cart, FALSE))
            /\ task' = [Task(queued) EXCEPT !.latest = task.latest]
            /\ UNCHANGED <<pending, loads, waiting>>
            /\ queued' = None
       ELSE Finish(Shown(Ready(task.cart, FALSE))) /\ UNCHANGED queued
  /\ checked' = None
  /\ UNCHANGED <<api, asked, wanted>>

\* After a failure the cart is read once more.
Recover ==
  /\ Mutating /\ task.phase = "failed"
  /\ task' = [task EXCEPT !.phase = "recovering"]
  /\ queued' = IF task.change.kind = "update" THEN None ELSE queued
  /\ UNCHANGED <<api, state, pending, loads, waiting, checked, asked, wanted>>

ReadRecovery ==
  /\ Mutating /\ task.phase = "recovering"
  /\ task' = [task EXCEPT !.phase = "recovered", !.cart = Cart(lines, version)]
  /\ UNCHANGED <<api, state, pending, queued, loads, waiting, checked, asked, wanted>>

\* The cart is shown with a message, or it is unavailable.  An amount that arrived
\* meanwhile is not sent.
Recovered ==
  /\ Mutating /\ task.phase \in {"recovering", "recovered"}
  /\ \/ task.phase = "recovered" /\ Finish(Shown(Ready(task.cart, TRUE)))
     \/ task.phase = "recovering" /\ Finish(Shown(Unavailable))
  /\ wanted' = None
  /\ checked' = None
  /\ UNCHANGED <<api, queued, asked>>

\* The cart that was checked is still on show.
CheckedIsShown == task.latest /\ state.kind = "ready"

\* The answer to a check: "ready" leads to the checkout, the rest is shown with
\* the cart it is about.
ReadinessAnswered ==
  /\ task # None /\ task.change.kind = "readiness"
  /\ \E result \in {None, "attention", "error"} :
       checked' = IF CheckedIsShown THEN result ELSE checked
  /\ task' = None /\ pending' = None
  /\ UNCHANGED <<api, state, queued, loads, waiting, asked, wanted>>

-----------------------------------------------------------------------------
Answers ==
  \/ \E r \in loads : ReadCart(r) \/ Loaded(r)
  \/ Apply
  \/ Fail
  \/ Answered
  \/ Recover
  \/ ReadRecovery
  \/ Recovered
  \/ ReadinessAnswered

Asks ==
  \/ Refresh
  \/ \E p \in Products :
       \/ \E n \in 1..MaxAmount : Mutate(Change("add", p, n)) \/ Update(p, n)
       \/ Mutate(Change("remove", p, 0))
  \/ Mutate(Change("clear", None, 0))
  \/ CheckReadiness

Next ==
  \/ Answers
  \/ Asks
  \/ \E c \in late : ApplyLate(c)

Spec == Init /\ [][Next]_vars

-----------------------------------------------------------------------------
(* Properties                                                              *)

Quiet == task = None /\ loads = {} /\ state.kind = "ready"

\* Whatever overlaps, the cart on show is the API's once everything is answered:
\* no read from before a change wins over the change.  Only a change that was
\* given up and carried out afterwards is missing.
ShownIsCurrent ==
  Quiet => \/ state.cart = Cart(lines, version)
           \/ lateAt > state.cart.version

\* The last amount the customer chose is the one that is shown and was stored,
\* however fast the amounts followed each other, unless the page says that a
\* change was not completed.
LastUpdateWins ==
  Quiet /\ wanted # None /\ lateAt = 0 =>
    state.cart.lines[wanted.product] = wanted.amount

=============================================================================
