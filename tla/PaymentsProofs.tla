--------------------------- MODULE PaymentsProofs ---------------------------
(***************************************************************************)
(* Proofs about Payments, for every set of attempts, carts, users and      *)
(* products and every bound.                                               *)
(***************************************************************************)
EXTENDS Payments, TLAPS

-----------------------------------------------------------------------------
\* Values.

\* The literals the actions write are values of the columns.
LEMMA Values ==
  /\ {"PREPARED", "PENDING", "RECONCILIATION_REQUIRED", "SUCCEEDED", "CANCELLED"}
       \subseteq Statuses
  /\ {"PLACED", "PAID", "CANCELLED"} \subseteq Orders
  /\ {"ALLOCATED", "CAPTURE_REQUESTED", "RECONCILIATION_REQUIRED", "CAPTURED", "RELEASED"}
       \subseteq Allocations
  /\ {"NONE", "CLAIMED", "CONSUMED", "RELEASED"} \subseteq Claims
  /\ {"none", "open", "complete", "expired"} \subseteq SessionStates
  /\ {"none", "failed", "requires_capture", "succeeded", "canceled"} \subseteq IntentStates
BY DEF Statuses, OpenStatus, FinalStatus, Orders, LiveOrder, Allocations, ActiveAlloc,
       Claims, HeldClaim, SessionStates, IntentStates

LEMMA MarkedType == \A st \in Statuses : Marked(st) \in Statuses
BY DEF Marked, Statuses, OpenStatus

LEMMA NoItemsType == NoItems \in Items /\ NoSnapshot \in Snapshots
BY ConstantsAssumption DEF NoItems, Items, NoSnapshot, Snapshots

\* What a continuation is.
LEMMA TaskType ==
  ASSUME NEW op \in TaskOps, NEW a \in Attempts, NEW s \in SessionStates, NEW i \in IntentStates
  PROVE Task(op, a) \in Tasks /\ Seen(op, a, s, i) \in Tasks
BY DEF Task, Seen, Tasks, SessionStates, IntentStates

LEMMA ContinueType ==
  ASSUME tasks \in SUBSET Tasks, NEW t, NEW next \in SUBSET Tasks, Continue(t, next)
  PROVE tasks' \in SUBSET Tasks
BY DEF Continue

LEMMA SpawnType ==
  ASSUME tasks \in SUBSET Tasks, NEW next \in SUBSET Tasks, Spawn(next)
  PROVE tasks' \in SUBSET Tasks
BY DEF Spawn

\* Taking available items and giving items back leaves natural numbers.
LEMMA StockType ==
  ASSUME stock \in [Products -> Nat], NEW items \in Items
  PROVE /\ Available(items) => [p \in Products |-> stock[p] - items[p]] \in [Products -> Nat]
        /\ [p \in Products |-> stock[p] + items[p]] \in [Products -> Nat]
BY ConstantsAssumption DEF Items, Available

-----------------------------------------------------------------------------
\* Type correctness.

LEMMA InitType == Init => TypeOK
BY ConstantsAssumption, NoItemsType DEF Init, TypeOK, Statuses, Orders, Allocations, Claims,
   SessionStates, IntentStates, NoItems

LEMMA ShopType == TypeOK /\ Shopping => TypeOK'
<1> SUFFICES ASSUME TypeOK, NEW c \in Carts,
                    \/ OpenCart(c)
                    \/ \E p \in Products, n \in 0..MaxAmount : EditCart(c, p, n)
                    \/ PlaceCashOrder(c)
                    \/ \E a \in Attempts : Prepare(a, c)
             PROVE TypeOK'
  BY DEF Shopping
<1>1. CASE OpenCart(c)
  BY <1>1, ConstantsAssumption DEF OpenCart, TypeOK, attemptVars, orderVars, cartVars, providerVars
<1>2. ASSUME NEW p \in Products, NEW n \in 0..MaxAmount, EditCart(c, p, n)
      PROVE TypeOK'
  <2>1. lines' \in [Carts -> Items]
    BY <1>2 DEF EditCart, TypeOK, Items
  <2> QED BY <1>2, <2>1 DEF EditCart, TypeOK, attemptVars, orderVars, cartVars, providerVars
<1>3. CASE PlaceCashOrder(c)
  <2>1. lines[c] \in Items
    BY DEF TypeOK
  <2>2. stock' \in [Products -> Nat]
    BY <1>3, <2>1, StockType DEF PlaceCashOrder, TypeOK
  <2> QED BY <1>3, <2>1, <2>2, NoItemsType
          DEF PlaceCashOrder, TypeOK, attemptVars, orderVars, cartVars, providerVars
<1>4. ASSUME NEW a \in Attempts, Prepare(a, c)
      PROVE TypeOK'
  <2>1. tasks' \in SUBSET Tasks
    BY <1>4, TaskType, SpawnType DEF Prepare, TypeOK, TaskOps, SessionStates, IntentStates
  <2>2. [cart |-> c, user |-> DraftOwner[c], items |-> lines[c]] \in Snapshots
    BY ConstantsAssumption DEF TypeOK, Snapshots
  <2>3. snap' \in [Attempts -> Snapshots]
    BY <1>4, <2>2 DEF Prepare, TypeOK
  <2>4. status' \in [Attempts -> Statuses] /\ claim' \in [Attempts -> Claims]
    BY <1>4, Values DEF Prepare, TypeOK
  <2> QED BY <1>4, <2>1, <2>3, <2>4
          DEF Prepare, TypeOK, attemptVars, orderVars, cartVars, providerVars
<1> QED BY <1>1, <1>2, <1>3, <1>4

\* The operators that a webhook and a continuation share.
LEMMA AllocateType ==
  ASSUME TypeOK, NEW a \in Attempts, NEW st \in Statuses,
         NEW rest \in SUBSET Tasks, AllocateInventory(a, st, rest)
  PROVE /\ status' \in [Attempts -> Statuses]
        /\ order' \in [Attempts -> Orders]
        /\ alloc' \in [Attempts -> Allocations]
        /\ stock' \in [Products -> Nat]
        /\ tasks' \in SUBSET Tasks
<1>1. Task("capture", a) \in Tasks /\ Task("cancel", a) \in Tasks
  BY TaskType DEF TaskOps, SessionStates, IntentStates
<1>2. snap[a].items \in Items
  BY DEF TypeOK, Snapshots
<1>3. tasks' \in SUBSET Tasks
  BY <1>1 DEF AllocateInventory
<1>4. status' \in [Attempts -> Statuses]
  BY MarkedType DEF AllocateInventory, TypeOK
<1>5. stock' \in [Products -> Nat]
  BY <1>2, StockType DEF AllocateInventory, TypeOK, orderVars
<1> QED BY <1>3, <1>4, <1>5, Values DEF AllocateInventory, TypeOK, orderVars

LEMMA FinalizeType ==
  ASSUME TypeOK, NEW a \in Attempts, NEW st, FinalizeCapturedPayment(a, st)
  PROVE /\ status' \in [Attempts -> Statuses]
        /\ claim' \in [Attempts -> Claims]
        /\ order' \in [Attempts -> Orders]
        /\ alloc' \in [Attempts -> Allocations]
        /\ lines' \in [Carts -> Items]
        /\ owner' \in [Carts -> Users \cup {Guest, NotCreated}]
<1>1. lines' \in [Carts -> Items]
  <2> DEFINE c == snap[a].cart
             left == [p \in Products |-> IF lines[c][p] = snap[a].items[p] THEN 0 ELSE lines[c][p]]
  <2>1. c \in Carts => left \in Items
    BY ConstantsAssumption DEF TypeOK, Items
  <2>2. lines' = lines \/ lines' = [lines EXCEPT ![c] = left]
    BY DEF FinalizeCapturedPayment, MarkPaymentAttemptSucceeded
  <2> QED BY <2>1, <2>2 DEF TypeOK
<1> QED BY <1>1, Values DEF FinalizeCapturedPayment, MarkPaymentAttemptSucceeded, TypeOK

LEMMA ReleaseType ==
  ASSUME TypeOK, NEW a \in Attempts, NEW st
  PROVE /\ ReleaseAttempt(a, st) \/ ReleaseUnpaidPayment(a, st) =>
             /\ status' \in [Attempts -> Statuses]
             /\ claim' \in [Attempts -> Claims]
        /\ ReleaseUnpaidPayment(a, st) =>
             /\ order' \in [Attempts -> Orders]
             /\ alloc' \in [Attempts -> Allocations]
             /\ stock' \in [Products -> Nat]
<1>1. ReleaseAttempt(a, st) =>
             /\ status' \in [Attempts -> Statuses]
             /\ claim' \in [Attempts -> Claims]
  BY Values DEF ReleaseAttempt, TypeOK
<1>2. ReleaseUnpaidPayment(a, st) => ReleaseAttempt(a, st)
  BY DEF ReleaseUnpaidPayment
<1>3. snap[a].items \in Items
  BY DEF TypeOK, Snapshots
<1>4. ReleaseUnpaidPayment(a, st) =>
             /\ order' \in [Attempts -> Orders]
             /\ alloc' \in [Attempts -> Allocations]
             /\ stock' \in [Products -> Nat]
  BY <1>3, StockType, Values DEF ReleaseUnpaidPayment, TypeOK, orderVars
<1> QED BY <1>1, <1>2, <1>4

LEMMA HandlerType ==
  ASSUME TypeOK, NEW a \in Attempts, HandlerStarts(a)
  PROVE TypeOK'
<1>1. CASE ReplayStart(a) \/ Reconcile(a) \/ ReconcileFails(a)
  <2>1. tasks' \in SUBSET Tasks
    BY <1>1, TaskType, SpawnType
       DEF ReplayStart, Reconcile, ReconcileFails, TypeOK, TaskOps, SessionStates, IntentStates
  <2> QED BY <1>1, <2>1 DEF ReplayStart, Reconcile, ReconcileFails, TypeOK, attemptVars,
             orderVars, cartVars, providerVars
<1>2. ASSUME NEW e \in Subscribed, IntentWebhook(a, e)
      PROVE TypeOK'
  <2>1. /\ receipts' \in [Attempts -> SUBSET Subscribed]
        /\ ref' \in [Attempts -> BOOLEAN]
    BY <1>2 DEF IntentWebhook, Receive, TypeOK
  <2>2. UNCHANGED <<snap, session, onSale, cash, providerVars>>
    BY <1>2 DEF IntentWebhook
  <2>3. AttachedStatus(a) \in Statuses
    BY Values DEF AttachedStatus, TypeOK
  <2>4. CASE AllocateInventory(a, AttachedStatus(a), tasks) /\ UNCHANGED <<claim, lines, owner>>
    <3>1. tasks \in SUBSET Tasks
      BY DEF TypeOK
    <3>2. /\ status' \in [Attempts -> Statuses]
          /\ order' \in [Attempts -> Orders]
          /\ alloc' \in [Attempts -> Allocations]
          /\ stock' \in [Products -> Nat]
          /\ tasks' \in SUBSET Tasks
      BY <2>3, <2>4, <3>1, AllocateType
    <3> QED BY <2>1, <2>2, <2>4, <3>2 DEF TypeOK, providerVars
  <2>5. CASE FinalizeCapturedPayment(a, AttachedStatus(a)) /\ UNCHANGED <<stock, tasks>>
    BY <2>1, <2>2, <2>5, FinalizeType DEF TypeOK, providerVars
  <2>6. CASE ReleaseUnpaidPayment(a, AttachedStatus(a)) /\ UNCHANGED <<lines, owner, tasks>>
    BY <2>1, <2>2, <2>6, ReleaseType DEF TypeOK, providerVars
  <2>7. CASE /\ status' = [status EXCEPT ![a] = AttachedStatus(a)]
             /\ UNCHANGED <<claim, orderVars, lines, owner, tasks>>
    BY <2>1, <2>2, <2>3, <2>7 DEF TypeOK, orderVars, providerVars
  <2> QED BY <1>2, <2>4, <2>5, <2>6, <2>7 DEF IntentWebhook
<1>3. ASSUME NEW e \in Subscribed, SessionWebhook(a, e)
      PROVE TypeOK'
  <2> DEFINE st == IF intent[a] = "none" THEN status[a] ELSE AttachedStatus(a)
  <2>1. /\ receipts' \in [Attempts -> SUBSET Subscribed]
        /\ ref' \in [Attempts -> BOOLEAN]
    BY <1>3 DEF SessionWebhook, Receive, TypeOK
  <2>2. st \in Statuses
    BY Values DEF AttachedStatus, TypeOK
  <2>3. \/ status' = [status EXCEPT ![a] = st] /\ UNCHANGED claim
        \/ ReleaseAttempt(a, st)
    BY <1>3 DEF SessionWebhook
  <2>4. status' \in [Attempts -> Statuses] /\ claim' \in [Attempts -> Claims]
    <3> HIDE DEF st
    <3> QED BY <2>2, <2>3, ReleaseType DEF TypeOK
  <2> QED BY <1>3, <2>1, <2>4 DEF SessionWebhook, TypeOK, orderVars, cartVars, providerVars
<1> QED BY <1>1, <1>2, <1>3 DEF HandlerStarts

LEMMA ProviderType ==
  ASSUME TypeOK, NEW a \in Attempts, ProviderStep(a)
  PROVE TypeOK'
<1>1. /\ sess' \in [Attempts -> SessionStates]
      /\ intent' \in [Attempts -> IntentStates]
      /\ elapsed' \in [Attempts -> BOOLEAN]
  <2>1. CASE CustomerAuthorizes(a)
    BY <2>1, Values DEF CustomerAuthorizes, TypeOK
  <2>2. CASE CustomerDeclined(a)
    BY <2>2, Values DEF CustomerDeclined, TypeOK
  <2>3. CASE SessionExpires(a)
    BY <2>3, Values DEF SessionExpires, TypeOK
  <2>4. CASE AuthorizationLapses(a)
    BY <2>4, Values DEF AuthorizationLapses, TypeOK
  <2>5. CASE ClockPasses(a)
    BY <2>5 DEF ClockPasses, TypeOK
  <2> QED BY <2>1, <2>2, <2>3, <2>4, <2>5 DEF ProviderStep
<1>2. UNCHANGED <<attemptVars, orderVars, receipts, onSale, cartVars, tasks>>
  BY DEF ProviderStep, CustomerAuthorizes, CustomerDeclined, SessionExpires,
         AuthorizationLapses, ClockPasses
<1> QED BY <1>1, <1>2 DEF TypeOK, attemptVars, orderVars, cartVars

\* Continuations of a task are tasks.
LEMMA NextTasksType ==
  ASSUME TypeOK, NEW t \in tasks
  PROVE /\ t.attempt \in Attempts
        /\ tasks \ {t} \in SUBSET Tasks
        /\ \A op \in TaskOps : Task(op, t.attempt) \in Tasks
        /\ \A op \in TaskOps, s \in SessionStates, i \in IntentStates :
             Seen(op, t.attempt, s, i) \in Tasks
<1>1. t \in Tasks
  BY DEF TypeOK
<1>2. t.attempt \in Attempts
  BY <1>1 DEF Tasks
<1> QED BY <1>2, TaskType, Values DEF TypeOK

\* Tasks that only move on, or change what the provider keeps.
LEMMA CallType ==
  ASSUME TypeOK, NEW t \in tasks,
         \/ CreateSession(t) \/ CreateSessionFails(t) \/ RetrieveSession(t)
         \/ FetchIntent(t)   \/ TaskFails(t)          \/ TaskLost(t)
         \/ CaptureSucceeds(t) \/ CaptureFails(t)
         \/ CancelSucceeds(t)  \/ CancelFails(t)
  PROVE TypeOK'
<1> DEFINE a == t.attempt
<1>1. a \in Attempts
  BY NextTasksType
<1>2. Created(a) \in [Attempts -> SessionStates]
  BY <1>1, Values DEF Created, TypeOK
<1>3. tasks' \in SUBSET Tasks
  <2>1. \A next \in SUBSET Tasks : Continue(t, next) => tasks' \in SUBSET Tasks
    BY ContinueType DEF TypeOK
  <2>2. /\ Seen("store", a, "open", "none") \in Tasks
        /\ Seen("store", a, sess[a], intent[a]) \in Tasks
        /\ \A i \in IntentStates : Seen("apply_intent", a, "none", i) \in Tasks
        /\ Task("mark", a) \in Tasks
    BY <1>1, NextTasksType, Values DEF TypeOK, TaskOps
  <2>3. intent[a] \in IntentStates
    BY <1>1 DEF TypeOK
  <2> QED BY <2>1, <2>2, <2>3, Values DEF CreateSession, CreateSessionFails, RetrieveSession,
             FetchIntent, TaskFails, TaskLost, CaptureSucceeds, CaptureFails, CancelSucceeds,
             CancelFails
<1>4. /\ sess' \in [Attempts -> SessionStates]
      /\ intent' \in [Attempts -> IntentStates]
  BY <1>1, <1>2, Values DEF CreateSession, CreateSessionFails, RetrieveSession, FetchIntent,
     TaskFails, TaskLost, CaptureSucceeds, CaptureFails, CancelSucceeds, CancelFails, TypeOK,
     providerVars
<1>5. UNCHANGED <<attemptVars, orderVars, receipts, onSale, cartVars, elapsed>>
  BY DEF CreateSession, CreateSessionFails, RetrieveSession, FetchIntent, TaskFails, TaskLost,
     CaptureSucceeds, CaptureFails, CancelSucceeds, CancelFails, providerVars
<1> QED BY <1>3, <1>4, <1>5 DEF TypeOK, attemptVars, orderVars, cartVars

\* Tasks that run a transaction.
LEMMA TransactionType ==
  ASSUME TypeOK, NEW t \in tasks,
         \/ StoreSession(t) \/ AttachIntent(t) \/ MarkReconciliation(t)
         \/ ApplySession(t) \/ ApplySessionIntent(t) \/ ApplyIntent(t)
         \/ RequestCapture(t)
  PROVE TypeOK'
<1> DEFINE a == t.attempt
<1>1. a \in Attempts
  BY NextTasksType
<1>2. \A next \in SUBSET Tasks : Continue(t, next) => tasks' \in SUBSET Tasks
  BY ContinueType DEF TypeOK
<1>3. {Task("mark", a), Task("attach", a), Task("fetch", a), Task("capture_call", a)} \subseteq Tasks
  BY NextTasksType DEF TaskOps
<1>4. CASE StoreSession(t)
  <2>1. tasks' \in SUBSET Tasks
    BY <1>4, <1>2, <1>3 DEF StoreSession
  <2> QED BY <1>4, <1>1, <2>1, Values
          DEF StoreSession, TypeOK, orderVars, cartVars, providerVars
<1>5. CASE AttachIntent(t) \/ ApplySessionIntent(t)
  <2>1. PICK next \in SUBSET Tasks : MarkPending(t, next)
    BY <1>5, <1>3 DEF AttachIntent, ApplySessionIntent
  <2>2. tasks' \in SUBSET Tasks
    BY <2>1, <1>2, <1>3 DEF MarkPending
  <2> QED BY <1>1, <2>1, <2>2, Values
          DEF MarkPending, TypeOK, orderVars, cartVars, providerVars
<1>6. CASE MarkReconciliation(t)
  <2>1. tasks' \in SUBSET Tasks
    BY <1>6, <1>2 DEF MarkReconciliation
  <2> QED BY <1>6, <1>1, <2>1, MarkedType, Values
          DEF MarkReconciliation, TypeOK, cartVars, providerVars
<1>7. CASE ApplySession(t)
  <2>1. tasks' \in SUBSET Tasks
    BY <1>7, <1>2, <1>3 DEF ApplySession
  <2>2. status' \in [Attempts -> Statuses] /\ claim' \in [Attempts -> Claims]
    BY <1>7, <1>1, ReleaseType DEF ApplySession, TypeOK
  <2> QED BY <1>7, <2>1, <2>2 DEF ApplySession, TypeOK, orderVars, cartVars, providerVars
<1>8. CASE ApplyIntent(t)
  <2>1. UNCHANGED <<snap, session, ref, receipts, onSale, cash, providerVars>>
    BY <1>8 DEF ApplyIntent
  <2>2. status[a] \in Statuses
    BY <1>1 DEF TypeOK
  <2>3. CASE AllocateInventory(a, status[a], tasks \ {t}) /\ UNCHANGED <<claim, lines, owner>>
    <3>1. /\ status' \in [Attempts -> Statuses]
          /\ order' \in [Attempts -> Orders]
          /\ alloc' \in [Attempts -> Allocations]
          /\ stock' \in [Products -> Nat]
          /\ tasks' \in SUBSET Tasks
      BY <1>1, <2>2, <2>3, AllocateType, NextTasksType
    <3> QED BY <2>1, <2>3, <3>1 DEF TypeOK, providerVars
  <2>4. CASE FinalizeCapturedPayment(a, status[a]) /\ Continue(t, {}) /\ UNCHANGED stock
    BY <1>1, <1>2, <2>1, <2>4, FinalizeType DEF TypeOK, providerVars
  <2>5. CASE ReleaseUnpaidPayment(a, status[a]) /\ Continue(t, {}) /\ UNCHANGED <<lines, owner>>
    BY <1>1, <1>2, <2>1, <2>5, ReleaseType DEF TypeOK, providerVars
  <2>6. CASE /\ status' = [status EXCEPT ![a] = Marked(@)]
             /\ Continue(t, {})
             /\ UNCHANGED <<claim, orderVars, lines, owner>>
    BY <1>1, <1>2, <2>1, <2>2, <2>6, MarkedType DEF TypeOK, orderVars, providerVars
  <2> QED BY <1>8, <2>3, <2>4, <2>5, <2>6 DEF ApplyIntent
<1>9. CASE RequestCapture(t)
  <2>1. tasks' \in SUBSET Tasks
    BY <1>9, <1>2, <1>3 DEF RequestCapture
  <2> QED BY <1>9, <1>1, <2>1, Values
          DEF RequestCapture, TypeOK, attemptVars, cartVars, providerVars
<1> QED BY <1>4, <1>5, <1>6, <1>7, <1>8, <1>9

LEMMA StepType == TypeOK /\ [Next]_vars => TypeOK'
<1> SUFFICES ASSUME TypeOK, [Next]_vars PROVE TypeOK'
  OBVIOUS
<1>1. CASE Shopping
  BY <1>1, ShopType
<1>2. ASSUME NEW t \in tasks, TaskStep(t) PROVE TypeOK'
  BY <1>2, CallType, TransactionType DEF TaskStep
<1>3. ASSUME NEW a \in Attempts, HandlerStarts(a) \/ ProviderStep(a) PROVE TypeOK'
  BY <1>3, HandlerType, ProviderType
<1>4. ASSUME NEW p \in Limited, SaleEnds(p) PROVE TypeOK'
  BY <1>4 DEF SaleEnds, TypeOK, attemptVars, orderVars, cartVars, providerVars
<1>5. CASE UNCHANGED vars
  BY <1>5 DEF vars, TypeOK, attemptVars, orderVars, cartVars, providerVars
<1> QED BY <1>1, <1>2, <1>3, <1>4, <1>5 DEF Next

\* Every reachable state is well typed; in particular no interleaving of card
\* and cash orders makes Product.stockAmount negative.
THEOREM TypeCorrect == Spec => []TypeOK
BY InitType, StepType, PTL DEF Spec

-----------------------------------------------------------------------------
\* The inductive invariant.  A step concerns the rows of one attempt: it leaves
\* the others alone, keeps the rows consistent, takes back nothing that an
\* answer on its way may say, and starts only continuations that are right.

RowOK(a) ==
  /\ CASE alloc[a] = "NONE"       -> status[a] # "SUCCEEDED" /\ order[a] = "NONE"
       [] alloc[a] \in ActiveAlloc -> /\ status[a] \in {"PENDING", "RECONCILIATION_REQUIRED"}
                                      /\ order[a] = "PLACED"
                                      /\ ref[a]
       [] alloc[a] = "CAPTURED"   -> status[a] = "SUCCEEDED" /\ order[a] = "PAID"
       [] alloc[a] = "RELEASED"   -> status[a] = "CANCELLED" /\ order[a] = "CANCELLED"
  /\ claim[a] # "NONE" =>
      CASE status[a] \in OpenStatus  -> claim[a] = "CLAIMED"
        [] status[a] = "SUCCEEDED"   -> claim[a] = "CONSUMED"
        [] status[a] = "CANCELLED"   -> claim[a] = "RELEASED"
        [] status[a] = "ABSENT"      -> FALSE
  /\ intent[a] = "succeeded" =>
      /\ alloc[a] \in {"CAPTURE_REQUESTED", "RECONCILIATION_REQUIRED", "CAPTURED"}
      /\ order[a] \in LiveOrder
  /\ AbsentRow(a)
  /\ ProviderRow(a)

SameRow(a) ==
  UNCHANGED <<status[a], session[a], ref[a], claim[a], order[a], alloc[a], sess[a], intent[a]>>

Evolves(a) ==
  /\ status[a] # "ABSENT" => status'[a] # "ABSENT"
  /\ session[a] => session'[a]
  /\ ref[a] => ref'[a]
  /\ sess[a] = "expired" /\ intent[a] = "none" => UNCHANGED <<sess[a], intent[a]>>
  /\ intent[a] \in Authorized => intent'[a] \in Authorized
  /\ intent[a] \in {"succeeded", "canceled"} => intent'[a] = intent[a]
  /\ alloc[a] # "NONE" => alloc'[a] # "NONE"
  /\ alloc[a] \notin {"NONE", "ALLOCATED"} => alloc'[a] \notin {"NONE", "ALLOCATED"}
  /\ status[a] \in FinalStatus => UNCHANGED <<status[a], order[a], alloc[a], claim[a]>>

StepOf(a) ==
  /\ \A b \in Attempts \ {a} : SameRow(b)
  /\ RowOK(a)'
  /\ Evolves(a)
  /\ \A t \in tasks' \ tasks : AnswerProves(t)'

LEMMA Rows == IInv <=> /\ TypeOK
                       /\ \A a \in Attempts : RowOK(a)
                       /\ \A t \in tasks : AnswerProves(t)
BY DEF IInv, AnswersProve, RowOK, AllocationMatchesAttempt, ClaimMatchesAttempt,
     CaptureBacked

LEMMA SameRowEvolves ==
  ASSUME NEW a \in Attempts, SameRow(a)
  PROVE Evolves(a) /\ (RowOK(a) => RowOK(a)')
<1>1. Evolves(a)
  BY DEF SameRow, Evolves
<1>2. RowOK(a) => RowOK(a)'
  BY DEF SameRow, RowOK, AbsentRow, ProviderRow
<1> QED BY <1>1, <1>2

LEMMA AnswersKept ==
  ASSUME NEW t \in Tasks, AnswerProves(t), Evolves(t.attempt)
  PROVE AnswerProves(t)'
BY DEF AnswerProves, Evolves, Authorized

LEMMA StepKeeps ==
  ASSUME IInv, TypeOK', NEW a \in Attempts, StepOf(a)
  PROVE IInv' /\ \A b \in Attempts : Evolves(b)
<1>1. \A b \in Attempts : Evolves(b) /\ RowOK(b)'
  BY SameRowEvolves, Rows DEF StepOf
<1>2. ASSUME NEW t \in tasks' PROVE AnswerProves(t)'
  <2>1. CASE t \in tasks
    <3>1. t \in Tasks /\ t.attempt \in Attempts
      BY <2>1 DEF IInv, TypeOK, Tasks
    <3> QED BY <2>1, <3>1, <1>1, AnswersKept DEF IInv, AnswersProve
  <2>2. CASE t \notin tasks
    BY <1>2, <2>2 DEF StepOf
  <2> QED BY <2>1, <2>2
<1> QED
  <2>1. /\ TypeOK'
        /\ \A b \in Attempts : RowOK(b)'
        /\ \A t \in tasks' : AnswerProves(t)'
    BY <1>1, <1>2
  <2>2. IInv'
    BY <2>1 DEF IInv, AnswersProve, RowOK, AllocationMatchesAttempt, ClaimMatchesAttempt,
     CaptureBacked
  <2> QED BY <1>1, <2>2

\* The fields of a continuation.
LEMMA Fields ==
  ASSUME NEW op, NEW a, NEW s, NEW i
  PROVE /\ Task(op, a).op = op /\ Task(op, a).attempt = a
        /\ Task(op, a).seenSession = "none" /\ Task(op, a).seenIntent = "none"
        /\ Seen(op, a, s, i).op = op /\ Seen(op, a, s, i).attempt = a
        /\ Seen(op, a, s, i).seenSession = s /\ Seen(op, a, s, i).seenIntent = i
BY DEF Task, Seen

\* A state change that touches no attempt and no continuation.
RowsSame == UNCHANGED <<status, session, ref, claim, order, alloc, sess, intent, tasks>>

LEMMA RowsSameKeeps ==
  ASSUME IInv, TypeOK', RowsSame
  PROVE IInv' /\ \A b \in Attempts : Evolves(b)
<1>1. \A b \in Attempts : SameRow(b)
  BY DEF RowsSame, SameRow
<1>2. \A b \in Attempts : Evolves(b) /\ RowOK(b)'
  BY <1>1, SameRowEvolves, Rows
<1>3. ASSUME NEW t \in tasks' PROVE AnswerProves(t)'
  <2>1. t \in Tasks /\ t.attempt \in Attempts /\ AnswerProves(t)
    BY <1>3 DEF IInv, AnswersProve, TypeOK, Tasks, RowsSame
  <2> QED BY <2>1, <1>2, AnswersKept
<1>4. IInv'
  BY <1>2, <1>3 DEF IInv, AnswersProve, RowOK, AllocationMatchesAttempt, ClaimMatchesAttempt,
     CaptureBacked
<1> QED BY <1>2, <1>4

\* Marking is harmless in every state.
LEMMA MarkAnswer ==
  ASSUME IInv, NEW a \in Attempts, status'[a] # "ABSENT",
         NEW op \in {"mark", "create", "store", "attach"}, NEW s, NEW i
  PROVE AnswerProves(Task(op, a))' /\ AnswerProves(Seen(op, a, s, i))'
BY Fields DEF AnswerProves

LEMMA PrepareStep ==
  ASSUME IInv, NEW a \in Attempts, NEW c \in Carts, Prepare(a, c)
  PROVE StepOf(a)
<1>1. \A b \in Attempts \ {a} : SameRow(b)
  BY DEF Prepare, SameRow, IInv, TypeOK, orderVars, providerVars
<1>2. /\ status[a] = "ABSENT" /\ status'[a] = "PREPARED"
      /\ claim'[a] \in {"NONE", "CLAIMED"}
      /\ UNCHANGED <<session, ref, order, alloc, sess, intent>>
  BY DEF Prepare, IInv, TypeOK, orderVars, providerVars
<1>3. RowOK(a)'
  BY <1>2, Rows DEF RowOK, AbsentRow, ProviderRow, OpenStatus
<1>4. Evolves(a)
  BY <1>2 DEF Evolves, FinalStatus
<1>5. \A t \in tasks' \ tasks : AnswerProves(t)'
  BY <1>2, MarkAnswer DEF Prepare, Spawn
<1> QED BY <1>1, <1>3, <1>4, <1>5 DEF StepOf

\* Handlers that only start a continuation.
LEMMA StartStep ==
  ASSUME IInv, NEW a \in Attempts, ReplayStart(a) \/ Reconcile(a) \/ ReconcileFails(a)
  PROVE StepOf(a)
<1>1. UNCHANGED <<status, session, ref, claim, order, alloc, sess, intent>>
  BY DEF ReplayStart, Reconcile, ReconcileFails, attemptVars, orderVars, providerVars
<1>2. \A b \in Attempts : SameRow(b)
  BY <1>1 DEF SameRow
<1>3. status[a] # "ABSENT"
  BY Rows DEF ReplayStart, Reconcile, ReconcileFails, RowOK, AbsentRow, OpenStatus
<1>4. \A t \in tasks' \ tasks : AnswerProves(t)'
  <2>1. CASE ReplayStart(a)
    BY <2>1, <1>1, <1>3, Fields DEF ReplayStart, Spawn, AnswerProves
  <2>2. CASE Reconcile(a)
    <3> SUFFICES ASSUME NEW t \in tasks' \ tasks PROVE AnswerProves(t)'
      OBVIOUS
    <3>1. t = IF ref[a] THEN Seen("apply_intent", a, "none", intent[a])
                        ELSE Seen("apply_session", a, sess[a], intent[a])
      BY <2>2 DEF Reconcile, Spawn
    <3> QED BY <2>2, <3>1, <1>1, <1>3, Fields DEF Reconcile, AnswerProves, Authorized
  <2>3. CASE ReconcileFails(a)
    BY <2>3, <1>1, <1>3, MarkAnswer DEF ReconcileFails, Spawn
  <2> QED BY <2>1, <2>2, <2>3
<1> QED BY <1>2, <1>4, SameRowEvolves, Rows DEF StepOf

\* The customer, Stripe's timers and the clock.
LEMMA ProviderRowsStep ==
  ASSUME IInv, NEW a \in Attempts, ProviderStep(a)
  PROVE StepOf(a)
<1>1. UNCHANGED <<status, session, ref, claim, order, alloc, tasks>>
  BY DEF ProviderStep, CustomerAuthorizes, CustomerDeclined, SessionExpires,
         AuthorizationLapses, ClockPasses, attemptVars, orderVars
<1>2. \A b \in Attempts \ {a} : SameRow(b)
  BY <1>1 DEF ProviderStep, CustomerAuthorizes, CustomerDeclined, SessionExpires,
     AuthorizationLapses, ClockPasses, SameRow, IInv, TypeOK
<1>3. \/ UNCHANGED <<sess[a], intent[a]>>
      \/ /\ session[a] /\ sess[a] = "open" /\ sess'[a] = "complete"
         /\ intent[a] \in {"none", "failed"} /\ intent'[a] = "requires_capture"
      \/ /\ session[a] /\ sess[a] = "open" /\ sess'[a] = "open"
         /\ intent[a] = "none" /\ intent'[a] = "failed"
      \/ /\ sess[a] = "open" /\ sess'[a] = "expired"
         /\ intent'[a] = IF intent[a] = "failed" THEN "canceled" ELSE intent[a]
      \/ /\ sess'[a] = sess[a]
         /\ intent[a] = "requires_capture" /\ intent'[a] = "canceled"
  BY DEF ProviderStep, CustomerAuthorizes, CustomerDeclined, SessionExpires,
         AuthorizationLapses, ClockPasses, IInv, TypeOK
<1>4. RowOK(a)
  BY Rows
<1>5. RowOK(a)'
  BY <1>1, <1>3, <1>4 DEF RowOK, AbsentRow, ProviderRow, Authorized
<1>6. Evolves(a)
  BY <1>1, <1>3, <1>4 DEF RowOK, ProviderRow, Evolves, Authorized
<1> QED BY <1>1, <1>2, <1>5, <1>6 DEF StepOf

\* A transaction of attempt a that found or attached the payment reference: st is
\* the status it leaves.
Attached(a, st) ==
  /\ status[a] # "ABSENT"
  /\ ref' = [ref EXCEPT ![a] = TRUE]
  /\ \/ st = status[a]
     \/ ~ ref[a] /\ st = "PENDING" /\ status[a] \in {"PENDING", "RECONCILIATION_REQUIRED"}
  /\ UNCHANGED <<session, sess, intent>>

LEMMA AllocateStep ==
  ASSUME IInv, NEW a \in Attempts, NEW st, NEW rest \in SUBSET tasks,
         Attached(a, st), intent[a] \in Authorized,
         AllocateInventory(a, st, rest), UNCHANGED claim
  PROVE StepOf(a)
<1>1. /\ status \in [Attempts -> Statuses] /\ ref \in [Attempts -> BOOLEAN]
      /\ order \in [Attempts -> Orders] /\ alloc \in [Attempts -> Allocations]
  BY DEF IInv, TypeOK
<1>2. \A b \in Attempts \ {a} : SameRow(b)
  BY <1>1 DEF AllocateInventory, Attached, SameRow, orderVars
<1>3. ref'[a] /\ UNCHANGED <<session[a], claim[a], sess[a], intent[a]>>
  BY <1>1 DEF Attached
<1>4. RowOK(a)
  BY Rows
<1>5. CASE alloc[a] # "NONE"
  <2>1. ref[a] /\ st = status[a]
    BY <1>4, <1>5 DEF RowOK, ProviderRow, Attached
  <2>2. UNCHANGED <<status[a], alloc[a], order[a]>>
    BY <1>1, <1>5, <2>1 DEF AllocateInventory, orderVars
  <2>3. RowOK(a)' /\ Evolves(a)
    <3>1. SameRow(a)
      BY <1>3, <2>1, <2>2 DEF SameRow
    <3> QED BY <1>4, <3>1, SameRowEvolves
  <2>4. ASSUME NEW t \in tasks' \ tasks PROVE AnswerProves(t)'
    <3>1. t = Task("capture", a)
      BY <1>5 DEF AllocateInventory
    <3> QED BY <3>1, <1>5, <2>2, Fields DEF AnswerProves, Attached
  <2> QED BY <1>2, <2>3, <2>4 DEF StepOf
<1>6. CASE alloc[a] = "NONE" /\ ~ Available(snap[a].items)
  <2>1. status'[a] = Marked(st) /\ UNCHANGED <<alloc[a], order[a]>>
    BY <1>1, <1>6 DEF AllocateInventory, orderVars
  <2>2. RowOK(a)'
    BY <1>3, <1>4, <1>6, <2>1
       DEF RowOK, AbsentRow, ProviderRow, Marked, Attached, OpenStatus, ActiveAlloc
  <2>3. Evolves(a)
    BY <1>3, <1>4, <1>6, <2>1 DEF Evolves, Marked, Attached, OpenStatus, FinalStatus
  <2>4. ASSUME NEW t \in tasks' \ tasks PROVE AnswerProves(t)'
    <3>1. t = Task("cancel", a)
      BY <1>6 DEF AllocateInventory
    <3> QED BY <3>1, <1>3, <2>3, Fields DEF AnswerProves, Evolves, Attached
  <2> QED BY <1>2, <2>2, <2>3, <2>4 DEF StepOf
<1>7. CASE alloc[a] = "NONE" /\ Available(snap[a].items)
  <2>1. /\ st \in {"PENDING", "RECONCILIATION_REQUIRED"} /\ status'[a] = st
        /\ alloc'[a] = "ALLOCATED" /\ order'[a] = "PLACED"
    BY <1>1, <1>7 DEF AllocateInventory, AllocationCommits
  <2>2. RowOK(a)'
    BY <1>3, <1>4, <1>7, <2>1
       DEF RowOK, AbsentRow, ProviderRow, Attached, OpenStatus, ActiveAlloc
  <2>3. Evolves(a)
    BY <1>3, <1>7, <2>1 DEF Evolves, Attached, FinalStatus
  <2>4. ASSUME NEW t \in tasks' \ tasks PROVE AnswerProves(t)'
    <3>1. t = Task("capture", a)
      BY <1>7 DEF AllocateInventory
    <3> QED BY <3>1, <2>1, Fields DEF AnswerProves
  <2> QED BY <1>2, <2>2, <2>3, <2>4 DEF StepOf
<1> QED BY <1>5, <1>6, <1>7

LEMMA FinalizeStep ==
  ASSUME IInv, NEW a \in Attempts, NEW st, Attached(a, st), intent[a] = "succeeded",
         FinalizeCapturedPayment(a, st), tasks' \subseteq tasks
  PROVE StepOf(a)
<1>1. /\ status \in [Attempts -> Statuses] /\ ref \in [Attempts -> BOOLEAN]
      /\ order \in [Attempts -> Orders] /\ alloc \in [Attempts -> Allocations]
      /\ claim \in [Attempts -> Claims]
  BY DEF IInv, TypeOK
<1>2. \A b \in Attempts \ {a} : SameRow(b)
  BY <1>1 DEF FinalizeCapturedPayment, MarkPaymentAttemptSucceeded, Attached, SameRow
<1>3. ref'[a] /\ UNCHANGED <<session[a], sess[a], intent[a]>>
  BY <1>1 DEF Attached
<1>4. RowOK(a)
  BY Rows
<1>5. \/ UNCHANGED <<status[a], claim[a], order[a], alloc[a]>>
      \/ /\ st \in {"PENDING", "RECONCILIATION_REQUIRED"} /\ claim[a] \in {"NONE", "CLAIMED"}
         /\ order'[a] = "PAID" /\ alloc'[a] = "CAPTURED" /\ status'[a] = "SUCCEEDED"
         /\ claim'[a] = IF claim[a] = "CLAIMED" THEN "CONSUMED" ELSE claim[a]
  BY <1>1 DEF FinalizeCapturedPayment, MarkPaymentAttemptSucceeded
<1>6. RowOK(a)'
  <2>1. ref[a]
    BY <1>4 DEF RowOK, ProviderRow
  <2>2. CASE UNCHANGED <<status[a], claim[a], order[a], alloc[a]>>
    BY <1>3, <1>4, <2>1, <2>2, SameRowEvolves DEF SameRow
  <2>3. CASE /\ order'[a] = "PAID" /\ alloc'[a] = "CAPTURED" /\ status'[a] = "SUCCEEDED"
             /\ claim'[a] = (IF claim[a] = "CLAIMED" THEN "CONSUMED" ELSE claim[a])
             /\ claim[a] \in {"NONE", "CLAIMED"}
    BY <1>3, <1>4, <2>3 DEF RowOK, AbsentRow, ProviderRow, OpenStatus, ActiveAlloc, LiveOrder
  <2> QED BY <1>5, <2>2, <2>3
<1>7. Evolves(a)
  BY <1>3, <1>4, <1>5 DEF Evolves, RowOK, ProviderRow, Attached, FinalStatus, ActiveAlloc
<1> QED BY <1>2, <1>6, <1>7 DEF StepOf

LEMMA ReleaseStep ==
  ASSUME IInv, NEW a \in Attempts, NEW st, Attached(a, st), intent[a] = "canceled",
         ReleaseUnpaidPayment(a, st), tasks' \subseteq tasks
  PROVE StepOf(a)
<1>1. /\ status \in [Attempts -> Statuses] /\ ref \in [Attempts -> BOOLEAN]
      /\ order \in [Attempts -> Orders] /\ alloc \in [Attempts -> Allocations]
      /\ claim \in [Attempts -> Claims]
  BY DEF IInv, TypeOK
<1>2. \A b \in Attempts \ {a} : SameRow(b)
  BY <1>1 DEF ReleaseUnpaidPayment, ReleaseAttempt, Attached, SameRow, orderVars
<1>3. ref'[a] /\ UNCHANGED <<session[a], sess[a], intent[a]>>
  BY <1>1 DEF Attached
<1>4. RowOK(a)
  BY Rows
<1>5. /\ alloc[a] # "CAPTURED" /\ st # "SUCCEEDED" /\ status'[a] = "CANCELLED"
      /\ claim'[a] = IF claim[a] = "CLAIMED" /\ st \in OpenStatus THEN "RELEASED" ELSE claim[a]
      /\ IF alloc[a] \in ActiveAlloc
           THEN alloc'[a] = "RELEASED" /\ order'[a] = "CANCELLED"
           ELSE UNCHANGED <<alloc[a], order[a]>>
  BY <1>1 DEF ReleaseUnpaidPayment, ReleaseAttempt, orderVars
<1>6. alloc[a] \in Allocations /\ status[a] \in Statuses
  BY <1>1
<1>7. RowOK(a)'
  <2>1. claim'[a] \in {"NONE", "RELEASED"}
    BY <1>4, <1>5, <1>6 DEF RowOK, Attached, OpenStatus, FinalStatus, Statuses
  <2>2. CASE alloc[a] \in ActiveAlloc
    BY <1>3, <1>4, <1>5, <2>1, <2>2
       DEF RowOK, AbsentRow, ProviderRow, OpenStatus, ActiveAlloc, Authorized
  <2>3. CASE alloc[a] \in {"NONE", "RELEASED"}
    BY <1>3, <1>4, <1>5, <2>1, <2>3
       DEF RowOK, AbsentRow, ProviderRow, OpenStatus, ActiveAlloc, Authorized
  <2> QED BY <1>5, <1>6, <2>2, <2>3 DEF Allocations
<1>8. Evolves(a)
  BY <1>3, <1>4, <1>5, <1>6 DEF RowOK, ProviderRow, Evolves, Attached, OpenStatus, FinalStatus,
     ActiveAlloc, Allocations
<1> QED BY <1>2, <1>7, <1>8 DEF StepOf

LEMMA IntentWebhookStep ==
  ASSUME IInv, NEW a \in Attempts, NEW e \in Subscribed, IntentWebhook(a, e)
  PROVE StepOf(a)
<1> DEFINE st == AttachedStatus(a)
<1>1. RowOK(a) /\ status[a] \in Statuses /\ sess[a] \in SessionStates
  BY Rows DEF IInv, TypeOK
<1>2. e \in Emitted(a)
  BY DEF IntentWebhook, Receive
<1>3. /\ e = "capturable" => intent[a] \in Authorized
      /\ e = "succeeded" => intent[a] = "succeeded"
      /\ e = "canceled" => intent[a] = "canceled"
      /\ e = "reported" => intent[a] # "none"
  BY <1>1, <1>2 DEF Emitted, RowOK, ProviderRow
<1>4. Attached(a, st)
  <2>1. e \in {"capturable", "succeeded", "canceled", "reported"} /\ CanAttach(a)
    BY DEF IntentWebhook
  <2>2. status[a] # "ABSENT"
    BY <1>1, <1>3, <2>1 DEF RowOK, AbsentRow, Authorized
  <2> QED BY <2>1, <2>2 DEF IntentWebhook, Attached, AttachedStatus, CanAttach, providerVars
<1>5. CASE e = "capturable" /\ AllocateInventory(a, st, tasks) /\ UNCHANGED claim
  BY <1>3, <1>4, <1>5, AllocateStep
<1>6. CASE e = "succeeded" /\ FinalizeCapturedPayment(a, st) /\ UNCHANGED tasks
  BY <1>3, <1>4, <1>6, FinalizeStep
<1>7. CASE e = "canceled" /\ ReleaseUnpaidPayment(a, st) /\ UNCHANGED tasks
  BY <1>3, <1>4, <1>7, ReleaseStep
<1>8. CASE /\ e = "reported" /\ status' = [status EXCEPT ![a] = st]
           /\ UNCHANGED <<claim, orderVars, tasks>>
  <2>1. /\ status \in [Attempts -> Statuses] /\ ref \in [Attempts -> BOOLEAN]
        /\ UNCHANGED <<session, claim, order, alloc, sess, intent, tasks>>
    BY <1>4, <1>8 DEF IInv, TypeOK, Attached, orderVars
  <2>2. \A b \in Attempts \ {a} : SameRow(b)
    BY <1>4, <1>8, <2>1 DEF Attached, SameRow
  <2>3. /\ status'[a] = st /\ status[a] # "ABSENT" /\ ref'[a]
        /\ \/ st = status[a]
           \/ ~ ref[a] /\ st = "PENDING" /\ status[a] \in {"PENDING", "RECONCILIATION_REQUIRED"}
    BY <1>4, <1>8, <2>1 DEF Attached
  <2> HIDE DEF st
  <2>4. RowOK(a)'
    BY <1>1, <2>1, <2>3 DEF RowOK, AbsentRow, ProviderRow, OpenStatus, ActiveAlloc
  <2>5. Evolves(a)
    BY <1>1, <2>1, <2>3 DEF Evolves, FinalStatus
  <2> QED BY <2>1, <2>2, <2>4, <2>5 DEF StepOf
<1> QED BY <1>5, <1>6, <1>7, <1>8 DEF IntentWebhook

LEMMA SessionWebhookStep ==
  ASSUME IInv, NEW a \in Attempts, NEW e \in Subscribed, SessionWebhook(a, e)
  PROVE StepOf(a)
<1> DEFINE st == IF intent[a] = "none" THEN status[a] ELSE AttachedStatus(a)
<1>1. /\ status \in [Attempts -> Statuses] /\ ref \in [Attempts -> BOOLEAN]
      /\ claim \in [Attempts -> Claims]
  BY DEF IInv, TypeOK
<1>2. RowOK(a)
  BY Rows
<1>3. UNCHANGED <<session, order, alloc, sess, intent, tasks>>
  BY DEF SessionWebhook, orderVars, providerVars
<1>4. \A b \in Attempts \ {a} : SameRow(b)
  BY <1>1, <1>3 DEF SessionWebhook, ReleaseAttempt, SameRow
<1>5. /\ session[a]
      /\ intent[a] # "none" => CanAttach(a)
      /\ intent[a] = "none" => ~ ref[a]
      /\ ref'[a] = (ref[a] \/ intent[a] # "none")
      /\ \/ status'[a] = st /\ UNCHANGED claim[a]
         \/ /\ sess[a] = "expired" /\ alloc[a] = "NONE" /\ st # "SUCCEEDED"
            /\ status'[a] = "CANCELLED"
            /\ claim'[a] = IF claim[a] = "CLAIMED" /\ st \in OpenStatus THEN "RELEASED" ELSE claim[a]
  BY <1>1 DEF SessionWebhook, ReleaseAttempt, Receive, Emitted
<1>6. status[a] # "ABSENT" /\ status[a] \in Statuses
  BY <1>1, <1>2, <1>5 DEF RowOK, AbsentRow
<1>7. \/ st = status[a]
      \/ ~ ref[a] /\ st = "PENDING" /\ status[a] \in {"PENDING", "RECONCILIATION_REQUIRED"}
  BY <1>5 DEF CanAttach, AttachedStatus
<1> HIDE DEF st
<1>8. CASE status'[a] = st /\ UNCHANGED claim[a]
  <2>1. RowOK(a)'
    BY <1>2, <1>3, <1>5, <1>6, <1>7, <1>8 DEF RowOK, AbsentRow, ProviderRow, OpenStatus, ActiveAlloc
  <2>2. Evolves(a)
    <3>1. ref[a] => ref'[a]
      BY <1>5
    <3>2. status[a] \in FinalStatus => status'[a] = status[a]
      BY <1>7, <1>8 DEF FinalStatus
    <3>3. status'[a] # "ABSENT"
      BY <1>6, <1>7, <1>8
    <3> QED BY <1>3, <1>8, <3>1, <3>2, <3>3 DEF Evolves
  <2> QED BY <1>3, <1>4, <2>1, <2>2 DEF StepOf
<1>9. CASE /\ sess[a] = "expired" /\ alloc[a] = "NONE" /\ st # "SUCCEEDED"
           /\ status'[a] = "CANCELLED"
           /\ claim'[a] = IF claim[a] = "CLAIMED" /\ st \in OpenStatus THEN "RELEASED" ELSE claim[a]
  <2>1. claim'[a] \in {"NONE", "RELEASED"}
    BY <1>2, <1>6, <1>7, <1>9 DEF RowOK, OpenStatus, FinalStatus, Statuses
  <2>2. RowOK(a)'
    BY <1>2, <1>3, <1>5, <1>9, <2>1 DEF RowOK, AbsentRow, ProviderRow, OpenStatus, ActiveAlloc
  <2>3. Evolves(a)
    BY <1>2, <1>3, <1>5, <1>6, <1>7, <1>9 DEF Evolves, RowOK, OpenStatus, FinalStatus
  <2> QED BY <1>3, <1>4, <2>2, <2>3 DEF StepOf
<1> QED BY <1>5, <1>8, <1>9

\* Calls to Stripe and their answers.
LEMMA CallStep ==
  ASSUME IInv, NEW t \in tasks,
         \/ CreateSession(t) \/ CreateSessionFails(t) \/ RetrieveSession(t)
         \/ FetchIntent(t)   \/ TaskFails(t)          \/ TaskLost(t)
         \/ CaptureSucceeds(t) \/ CaptureFails(t)
         \/ CancelSucceeds(t)  \/ CancelFails(t)
  PROVE StepOf(t.attempt)
<1> DEFINE a == t.attempt
<1>1. a \in Attempts /\ AnswerProves(t)
  BY NextTasksType DEF IInv, AnswersProve
<1>2. RowOK(a) /\ status[a] # "ABSENT" /\ ref[a] \in BOOLEAN
  BY <1>1, Rows DEF AnswerProves, IInv, TypeOK
<1>3. UNCHANGED <<status, session, ref, claim, order, alloc>>
  BY DEF CreateSession, CreateSessionFails, RetrieveSession, FetchIntent, TaskFails, TaskLost,
     CaptureSucceeds, CaptureFails, CancelSucceeds, CancelFails, attemptVars, orderVars
<1>4. \A b \in Attempts \ {a} : SameRow(b)
  BY <1>1, <1>3 DEF CreateSession, CreateSessionFails, RetrieveSession, FetchIntent, TaskFails,
     TaskLost, CaptureSucceeds, CaptureFails, CancelSucceeds, CancelFails, Created, providerVars,
     SameRow, IInv, TypeOK
<1>5. \/ UNCHANGED <<sess[a], intent[a]>>
      \/ sess[a] = "none" /\ sess'[a] = "open" /\ intent'[a] = intent[a]
      \/ /\ t.op = "capture_call" /\ sess'[a] = sess[a]
         /\ intent[a] = "requires_capture" /\ intent'[a] = "succeeded"
      \/ /\ sess'[a] = sess[a]
         /\ intent[a] = "requires_capture" /\ intent'[a] = "canceled"
  BY <1>1 DEF CreateSession, CreateSessionFails, RetrieveSession, FetchIntent, TaskFails,
     TaskLost, CaptureSucceeds, CaptureFails, CancelSucceeds, CancelFails, Created, providerVars,
     IInv, TypeOK
<1>6. alloc[a] \in Allocations
  BY <1>1 DEF IInv, TypeOK
<1>7. RowOK(a)'
  BY <1>1, <1>2, <1>3, <1>5, <1>6 DEF AnswerProves, RowOK, AbsentRow, ProviderRow, Authorized,
     Allocations, ActiveAlloc, LiveOrder
<1>8. Evolves(a)
  BY <1>2, <1>3, <1>5 DEF Evolves, RowOK, ProviderRow, Authorized
<1>9. ASSUME NEW u \in tasks' \ tasks PROVE AnswerProves(u)'
  <2>1. CASE u.attempt = a /\ u.op \in {"mark", "store"}
    BY <2>1, <1>2, <1>3 DEF AnswerProves
  <2>2. CASE /\ u.attempt = a /\ u.op = "apply_intent" /\ ref[a]
             /\ u.seenIntent = intent'[a]
    BY <2>2, <1>2, <1>3 DEF AnswerProves, Authorized
  <2>3. CASE CaptureSucceeds(t) \/ CancelSucceeds(t)
    <3>1. u.attempt = a /\ u.op = "apply_intent" /\ u.seenIntent = intent'[a]
      BY <2>3, <1>1, Fields DEF CaptureSucceeds, CancelSucceeds, Continue, IInv, TypeOK
    <3>2. ref[a]
      BY <2>3, <1>1, <1>2 DEF CaptureSucceeds, CancelSucceeds, AnswerProves, RowOK, ProviderRow
    <3> QED BY <3>1, <3>2, <2>2
  <2>4. CASE FetchIntent(t)
    <3>1. u.attempt = a /\ u.op = "apply_intent" /\ u.seenIntent = intent'[a] /\ ref[a]
      BY <2>4, <1>1, Fields DEF FetchIntent, Continue, AnswerProves, providerVars
    <3> QED BY <3>1, <2>2
  <2>5. CASE ~ (CaptureSucceeds(t) \/ CancelSucceeds(t) \/ FetchIntent(t))
    <3>1. u.attempt = a /\ u.op \in {"mark", "store"}
      BY <2>5, Fields DEF CreateSession, CreateSessionFails, RetrieveSession, TaskFails,
         TaskLost, CaptureFails, CancelFails, Continue
    <3> QED BY <3>1, <2>1
  <2> QED BY <2>3, <2>4, <2>5
<1> QED BY <1>4, <1>7, <1>8, <1>9 DEF StepOf

\* Transactions that write only the row of the attempt, its session or its
\* reference, or mark it.
LEMMA OpenRowStep ==
  ASSUME IInv, NEW a \in Attempts, status[a] \in OpenStatus,
         status'[a] \in {"PENDING", "RECONCILIATION_REQUIRED"},
         \/ alloc'[a] = alloc[a]
         \/ alloc[a] \in ActiveAlloc /\ alloc'[a] = "RECONCILIATION_REQUIRED",
         session[a] => session'[a], ref[a] => ref'[a],
         UNCHANGED <<claim[a], order[a], sess[a], intent[a]>>
  PROVE RowOK(a)' /\ Evolves(a)
<1>1. RowOK(a) /\ alloc[a] \in Allocations
  BY Rows DEF IInv, TypeOK
<1>2. alloc[a] \in {"NONE"} \cup ActiveAlloc
  BY <1>1 DEF RowOK, OpenStatus, Allocations
<1>3. RowOK(a)'
  BY <1>1, <1>2 DEF RowOK, AbsentRow, ProviderRow, OpenStatus, ActiveAlloc
<1>4. Evolves(a)
  BY <1>1 DEF RowOK, Evolves, OpenStatus, FinalStatus, ActiveAlloc
<1> QED BY <1>3, <1>4

LEMMA MarkPendingStep ==
  ASSUME IInv, NEW t \in tasks, NEW done, MarkPending(t, done),
         \A u \in done : u.attempt = t.attempt /\ u.op = "fetch"
  PROVE StepOf(t.attempt)
<1> DEFINE a == t.attempt
<1>1. a \in Attempts /\ AnswerProves(t)
  BY NextTasksType DEF IInv, AnswersProve
<1>2. RowOK(a) /\ status[a] # "ABSENT"
  BY <1>1, Rows DEF AnswerProves
<1>3. UNCHANGED <<session, claim, order, alloc, sess, intent>>
  BY DEF MarkPending, orderVars, providerVars
<1>4. \/ status[a] \in OpenStatus /\ status'[a] = "PENDING" /\ ref'[a] = TRUE
      \/ UNCHANGED <<status[a], ref[a]>>
  BY <1>1 DEF MarkPending, IInv, TypeOK
<1>5. \A b \in Attempts \ {a} : SameRow(b)
  BY <1>1, <1>3 DEF MarkPending, SameRow, IInv, TypeOK
<1>6. RowOK(a)' /\ Evolves(a)
  <2>1. CASE status[a] \in OpenStatus /\ status'[a] = "PENDING" /\ ref'[a] = TRUE
    BY <1>1, <1>3, <2>1, OpenRowStep
  <2>2. CASE UNCHANGED <<status[a], ref[a]>>
    BY <1>1, <1>2, <1>3, <2>2, SameRowEvolves DEF SameRow
  <2> QED BY <1>4, <2>1, <2>2
<1>8. ASSUME NEW u \in tasks' \ tasks PROVE AnswerProves(u)'
  <2>1. CASE status[a] \in OpenStatus
    <3>1. u \in done /\ ref'[a] = TRUE
      BY <2>1, <1>1 DEF MarkPending, Continue, IInv, TypeOK
    <3> QED BY <3>1, <1>2, <1>4 DEF AnswerProves
  <2>2. CASE status[a] \notin OpenStatus
    <3>1. u = Task("mark", a)
      BY <2>2 DEF MarkPending, Continue
    <3> QED BY <3>1, <1>2, <1>4, Fields DEF AnswerProves
  <2> QED BY <2>1, <2>2
<1> QED BY <1>5, <1>6, <1>8 DEF StepOf

LEMMA TransactionStep ==
  ASSUME IInv, NEW t \in tasks,
         \/ StoreSession(t) \/ AttachIntent(t) \/ MarkReconciliation(t)
         \/ ApplySession(t) \/ ApplySessionIntent(t) \/ ApplyIntent(t)
         \/ RequestCapture(t)
  PROVE StepOf(t.attempt)
<1> DEFINE a == t.attempt
<1>1. a \in Attempts /\ AnswerProves(t)
  BY NextTasksType DEF IInv, AnswersProve
<1>2. RowOK(a) /\ status[a] # "ABSENT"
  BY <1>1, Rows DEF AnswerProves
<1>3. /\ status \in [Attempts -> Statuses] /\ ref \in [Attempts -> BOOLEAN]
      /\ order \in [Attempts -> Orders] /\ alloc \in [Attempts -> Allocations]
      /\ claim \in [Attempts -> Claims] /\ session \in [Attempts -> BOOLEAN]
  BY DEF IInv, TypeOK
<1>4. CASE StoreSession(t)
  <2>1. UNCHANGED <<ref, claim, order, alloc, sess, intent>>
    BY <1>4 DEF StoreSession, orderVars, providerVars
  <2>2. \/ status[a] \in OpenStatus /\ status'[a] = "PENDING" /\ session'[a] = TRUE
        \/ UNCHANGED <<status[a], session[a]>>
    BY <1>1, <1>3, <1>4 DEF StoreSession
  <2>3. \A b \in Attempts \ {a} : SameRow(b)
    BY <1>3, <1>4, <2>1 DEF StoreSession, SameRow
  <2>4. RowOK(a)' /\ Evolves(a)
    <3>1. CASE status[a] \in OpenStatus /\ status'[a] = "PENDING" /\ session'[a] = TRUE
      BY <1>1, <2>1, <3>1, OpenRowStep
    <3>2. CASE UNCHANGED <<status[a], session[a]>>
      BY <1>1, <1>2, <2>1, <3>2, SameRowEvolves DEF SameRow
    <3> QED BY <2>2, <3>1, <3>2
  <2>6. ASSUME NEW u \in tasks' \ tasks PROVE AnswerProves(u)'
    <3>1. u.attempt = a /\ u.op \in {"mark", "attach"}
      BY <1>4, <2>6, Fields DEF StoreSession, Continue
    <3> QED BY <3>1, <1>2, <2>2 DEF AnswerProves
  <2> QED BY <2>3, <2>4, <2>6 DEF StepOf
<1>5. CASE AttachIntent(t)
  BY <1>5, MarkPendingStep DEF AttachIntent
<1>6. CASE ApplySessionIntent(t)
  BY <1>6, MarkPendingStep, Fields DEF ApplySessionIntent
<1>7. CASE MarkReconciliation(t)
  <2>1. UNCHANGED <<session, ref, claim, order, sess, intent>>
    BY <1>7 DEF MarkReconciliation, providerVars
  <2>2. /\ status'[a] = Marked(status[a])
        /\ alloc'[a] = IF alloc[a] \in ActiveAlloc THEN "RECONCILIATION_REQUIRED" ELSE alloc[a]
    BY <1>1, <1>3, <1>7 DEF MarkReconciliation
  <2>3. \A b \in Attempts \ {a} : SameRow(b)
    BY <1>3, <1>7, <2>1 DEF MarkReconciliation, SameRow
  <2>4. RowOK(a)' /\ Evolves(a)
    <3>1. CASE status[a] \in OpenStatus
      BY <1>1, <2>1, <2>2, <3>1, OpenRowStep DEF Marked
    <3>2. CASE status[a] \notin OpenStatus
      <4>1. alloc[a] \notin ActiveAlloc
        BY <1>2, <3>2 DEF RowOK, OpenStatus, ActiveAlloc
      <4> QED BY <1>1, <1>2, <2>1, <2>2, <3>2, <4>1, SameRowEvolves DEF Marked, SameRow
    <3> QED BY <3>1, <3>2
  <2>5. tasks' \ tasks = {}
    BY <1>7 DEF MarkReconciliation, Continue
  <2> QED BY <2>3, <2>4, <2>5 DEF StepOf
<1>8. CASE ApplySession(t)
  <2>1. UNCHANGED <<session, ref, order, alloc, sess, intent>>
    BY <1>8 DEF ApplySession, orderVars, providerVars
  <2>2. \A b \in Attempts \ {a} : SameRow(b)
    BY <1>3, <1>8, <2>1 DEF ApplySession, ReleaseAttempt, SameRow
  <2>3. ASSUME NEW u \in tasks' \ tasks PROVE u.attempt = a /\ u.op = "mark"
    BY <1>8, <2>3, Fields DEF ApplySession, Continue
  <2>4. CASE t.seenSession = "expired"
    <3>1. sess[a] = "expired" /\ intent[a] = "none" /\ alloc[a] = "NONE"
      BY <1>1, <1>2, <1>8, <2>4 DEF ApplySession, AnswerProves, RowOK, ProviderRow, Authorized
    <3>2. /\ status[a] # "SUCCEEDED" /\ status'[a] = "CANCELLED"
          /\ claim'[a] = IF claim[a] = "CLAIMED" /\ status[a] \in OpenStatus
                           THEN "RELEASED" ELSE claim[a]
      BY <1>1, <1>3, <1>8, <2>4 DEF ApplySession, ReleaseAttempt
    <3>3. status[a] \in Statuses
      BY <1>1, <1>3
    <3>4. claim'[a] \in {"NONE", "RELEASED"}
      BY <1>2, <3>2, <3>3 DEF RowOK, OpenStatus, FinalStatus, Statuses
    <3>5. RowOK(a)'
      BY <1>2, <2>1, <3>1, <3>2, <3>4 DEF RowOK, AbsentRow, ProviderRow, OpenStatus, ActiveAlloc
    <3>6. Evolves(a)
      BY <1>2, <2>1, <3>1, <3>2 DEF RowOK, Evolves, OpenStatus, FinalStatus
    <3>7. \A u \in tasks' \ tasks : AnswerProves(u)'
      BY <2>3, <3>2 DEF AnswerProves
    <3> QED BY <2>2, <3>5, <3>6, <3>7 DEF StepOf
  <2>5. CASE t.seenSession # "expired"
    <3>1. UNCHANGED <<status, claim>>
      BY <1>8, <2>5 DEF ApplySession
    <3>2. SameRow(a)
      BY <2>1, <3>1 DEF SameRow
    <3>3. \A u \in tasks' \ tasks : AnswerProves(u)'
      BY <1>2, <2>3, <3>1 DEF AnswerProves
    <3> QED BY <1>1, <1>2, <2>2, <3>2, <3>3, SameRowEvolves DEF StepOf
  <2> QED BY <2>4, <2>5
<1>9. CASE ApplyIntent(t)
  <2>1. t.op = "apply_intent" /\ ref[a] = TRUE
    BY <1>1, <1>3, <1>9 DEF ApplyIntent, AnswerProves
  <2>2. Attached(a, status[a])
    BY <1>2, <1>3, <1>9, <2>1 DEF ApplyIntent, Attached, providerVars
  <2>3. CASE /\ t.seenIntent = "requires_capture"
             /\ AllocateInventory(a, status[a], tasks \ {t}) /\ UNCHANGED claim
    <3>1. intent[a] \in Authorized
      BY <1>1, <2>1, <2>3 DEF AnswerProves
    <3> QED BY <1>1, <2>2, <2>3, <3>1, AllocateStep
  <2>4. CASE /\ t.seenIntent = "succeeded"
             /\ FinalizeCapturedPayment(a, status[a]) /\ Continue(t, {})
    <3>1. intent[a] = "succeeded" /\ tasks' \subseteq tasks
      BY <1>1, <2>1, <2>4 DEF AnswerProves, Continue
    <3> QED BY <1>1, <2>2, <2>4, <3>1, FinalizeStep
  <2>5. CASE /\ t.seenIntent = "canceled"
             /\ ReleaseUnpaidPayment(a, status[a]) /\ Continue(t, {})
    <3>1. intent[a] = "canceled" /\ tasks' \subseteq tasks
      BY <1>1, <2>1, <2>5 DEF AnswerProves, Continue
    <3> QED BY <1>1, <2>2, <2>5, <3>1, ReleaseStep
  <2>6. CASE /\ status' = [status EXCEPT ![a] = Marked(@)]
             /\ Continue(t, {})
             /\ UNCHANGED <<claim, orderVars>>
    <3>1. UNCHANGED <<session, ref, claim, order, alloc, sess, intent>>
      BY <1>9, <2>6 DEF ApplyIntent, orderVars, providerVars
    <3>2. status'[a] = Marked(status[a]) /\ tasks' \ tasks = {}
      BY <1>1, <1>3, <2>6 DEF Continue
    <3>3. \A b \in Attempts \ {a} : SameRow(b)
      BY <1>3, <2>6, <3>1 DEF SameRow
    <3>4. RowOK(a)' /\ Evolves(a)
      <4>1. CASE status[a] \in OpenStatus
        BY <1>1, <3>1, <3>2, <4>1, OpenRowStep DEF Marked
      <4>2. CASE status[a] \notin OpenStatus
        BY <1>1, <1>2, <3>1, <3>2, <4>2, SameRowEvolves DEF Marked, SameRow
      <4> QED BY <4>1, <4>2
    <3> QED BY <3>2, <3>3, <3>4 DEF StepOf
  <2> QED BY <1>9, <2>3, <2>4, <2>5, <2>6 DEF ApplyIntent
<1>10. CASE RequestCapture(t)
  <2>1. UNCHANGED <<status, session, ref, claim, order, sess, intent>>
    BY <1>10 DEF RequestCapture, attemptVars, providerVars
  <2>2. \/ alloc[a] \in ActiveAlloc /\ alloc'[a] = "CAPTURE_REQUESTED"
        \/ alloc'[a] = alloc[a] /\ tasks' \ tasks = {}
    BY <1>1, <1>3, <1>10 DEF RequestCapture, Continue
  <2>3. \A b \in Attempts \ {a} : SameRow(b)
    BY <1>3, <1>10, <2>1 DEF RequestCapture, SameRow
  <2>4. RowOK(a)'
    BY <1>2, <2>1, <2>2 DEF RowOK, AbsentRow, ProviderRow, ActiveAlloc
  <2>5. Evolves(a)
    BY <1>2, <2>1, <2>2 DEF RowOK, Evolves, FinalStatus, ActiveAlloc
  <2>6. ASSUME NEW u \in tasks' \ tasks PROVE AnswerProves(u)'
    <3>1. u = Task("capture_call", a) /\ alloc'[a] = "CAPTURE_REQUESTED"
      BY <1>1, <1>3, <1>10, <2>6 DEF RequestCapture, Continue
    <3> QED BY <3>1, <1>2, <2>1, Fields DEF AnswerProves
  <2> QED BY <2>3, <2>4, <2>5, <2>6 DEF StepOf
<1> QED BY <1>4, <1>5, <1>6, <1>7, <1>8, <1>9, <1>10

-----------------------------------------------------------------------------
\* The theorems.

LEMMA InitInv == Init => IInv
<1> SUFFICES ASSUME Init PROVE IInv
  OBVIOUS
<1>1. \A a \in Attempts : RowOK(a)
  BY DEF Init, RowOK, AbsentRow, ProviderRow, ActiveAlloc
<1>2. tasks = {}
  BY DEF Init
<1> QED BY <1>1, <1>2, InitType, Rows

\* What every step gives: the invariant again, and no attempt goes back.
Kept == IInv' /\ \A b \in Attempts : Evolves(b)

LEMMA StepInv == IInv /\ [Next]_vars => Kept
<1> SUFFICES ASSUME IInv, [Next]_vars PROVE Kept
  OBVIOUS
<1>1. TypeOK'
  BY StepType DEF IInv
<1>2. \A a \in Attempts : StepOf(a) => Kept
  BY <1>1, StepKeeps DEF Kept
<1>3. RowsSame => Kept
  BY <1>1, RowsSameKeeps DEF Kept
<1>4. CASE Shopping
  <2> SUFFICES ASSUME NEW c \in Carts,
                      \/ OpenCart(c)
                      \/ \E p \in Products, n \in 0..MaxAmount : EditCart(c, p, n)
                      \/ PlaceCashOrder(c)
                      \/ \E a \in Attempts : Prepare(a, c)
               PROVE Kept
    BY <1>4 DEF Shopping
  <2>1. CASE OpenCart(c) \/ PlaceCashOrder(c)
    <3>1. RowsSame
      BY <2>1 DEF OpenCart, PlaceCashOrder, RowsSame, attemptVars, orderVars, providerVars
    <3> QED BY <3>1, <1>3
  <2>2. ASSUME NEW p \in Products, NEW n \in 0..MaxAmount, EditCart(c, p, n) PROVE Kept
    <3>1. RowsSame
      BY <2>2 DEF EditCart, RowsSame, attemptVars, orderVars, providerVars
    <3> QED BY <3>1, <1>3
  <2>3. ASSUME NEW a \in Attempts, Prepare(a, c) PROVE Kept
    BY <1>2, <2>3, PrepareStep
  <2> QED BY <2>1, <2>2, <2>3
<1>5. ASSUME NEW t \in tasks, TaskStep(t) PROVE Kept
  <2>1. StepOf(t.attempt)
    BY <1>5, CallStep, TransactionStep DEF TaskStep
  <2> QED BY <2>1, <1>2, NextTasksType DEF IInv
<1>6. ASSUME NEW a \in Attempts, HandlerStarts(a) \/ ProviderStep(a) PROVE Kept
  BY <1>2, <1>6, StartStep, IntentWebhookStep, SessionWebhookStep, ProviderRowsStep
     DEF HandlerStarts
<1>7. ASSUME NEW p \in Limited, SaleEnds(p) PROVE Kept
  <2>1. RowsSame
    BY <1>7 DEF SaleEnds, RowsSame, attemptVars, orderVars, providerVars
  <2> QED BY <2>1, <1>3
<1>8. CASE UNCHANGED vars
  <2>1. RowsSame
    BY <1>8 DEF vars, RowsSame, attemptVars, orderVars, providerVars
  <2> QED BY <2>1, <1>3
<1> QED BY <1>4, <1>5, <1>6, <1>7, <1>8 DEF Next

\* The inductive invariant holds in every reachable state.
THEOREM Invariant == Spec => []IInv
<1>1. IInv /\ [Next]_vars => IInv'
  BY StepInv DEF Kept
<1> QED BY <1>1, InitInv, PTL DEF Spec

\* Attempt, allocation and order tell the same story between transactions.
THEOREM AllocationsMatch == Spec => []AllocationMatchesAttempt
<1>1. IInv => AllocationMatchesAttempt
  BY DEF IInv
<1> QED BY <1>1, Invariant, PTL

\* The first-purchase claim follows the attempt that holds it.
THEOREM ClaimsMatch == Spec => []ClaimMatchesAttempt
<1>1. IInv => ClaimMatchesAttempt
  BY DEF IInv
<1> QED BY <1>1, Invariant, PTL

\* Whatever answers are lost, late or repeated, a captured payment has its
\* goods and its order.
THEOREM CapturesBacked == Spec => []CaptureBacked
<1>1. IInv => CaptureBacked
  BY DEF IInv
<1> QED BY <1>1, Invariant, PTL

\* An outcome, booked from whichever answer and however late, is the one the provider
\* has: what was cancelled can no longer be paid.
THEOREM OutcomesProvided == Spec => []SettledAsProvided
<1>1. IInv => SettledAsProvided
  <2> SUFFICES ASSUME IInv, NEW a \in Attempts
               PROVE /\ status[a] = "SUCCEEDED" => intent[a] = "succeeded"
                     /\ status[a] = "CANCELLED" => /\ intent[a] \in {"none", "canceled"}
                                                   /\ sess[a] \in {"complete", "expired"}
                                                   /\ intent[a] = "none" => sess[a] = "expired"
    BY DEF SettledAsProvided
  <2>1. RowOK(a) /\ sess[a] \in SessionStates /\ alloc[a] \in Allocations
    BY Rows DEF IInv, TypeOK
  <2>2. status[a] = "SUCCEEDED" => alloc[a] = "CAPTURED"
    BY <2>1 DEF RowOK, Allocations, ActiveAlloc
  <2> QED BY <2>1, <2>2 DEF RowOK, ProviderRow, SessionStates
<1> QED BY <1>1, Invariant, PTL

\* No step changes what a settled attempt came to.
THEOREM OutcomesFinal == Spec => OutcomeIsFinal
<1>1. IInv /\ [Next]_vars =>
        [\A a \in Attempts : status[a] \in FinalStatus =>
           UNCHANGED <<status[a], order[a], alloc[a], claim[a]>>]_vars
  BY StepInv DEF Kept, Evolves
<1> QED BY <1>1, Invariant, PTL DEF Spec, OutcomeIsFinal

-----------------------------------------------------------------------------
\* The first-purchase discount and the paid lines.  Only prepare makes an attempt;
\* every other step keeps the sealed snapshots and moves a claim on from CLAIMED
\* only, an order is paid together with taking its lines out of the cart, and the
\* lines of a cart with an order change in no other way.

CartKnown == \A a \in Attempts : status[a] # "ABSENT" => snap[a].cart \in Carts

Left(a) ==
  \A p \in Products : snap[a].items[p] > 0 => lines[snap[a].cart][p] # snap[a].items[p]

ClaimMoves(a) ==
  \/ claim'[a] = claim[a]
  \/ claim[a] = "CLAIMED" /\ claim'[a] \in {"CONSUMED", "RELEASED"}

RowTraced(a) ==
  /\ status[a] = "ABSENT" => status'[a] = "ABSENT"
  /\ ClaimMoves(a)
  /\ order'[a] = "PAID" => order[a] = "PAID" \/ Left(a)'

LinesTraced ==
  \A c \in Carts, p \in Products : lines'[c][p] \in {0, lines[c][p]} \/ ~ HasOrder(c)

Traced ==
  /\ UNCHANGED snap
  /\ \A a \in Attempts : RowTraced(a)
  /\ LinesTraced

\* An account with an attempt that got no discount has used it up.
Consumed(u) == \E a \in AttemptsOf(u) : claim[a] = "CONSUMED"

DiscountOnce ==
  \A u \in Users :
    /\ \A a, b \in AttemptsOf(u) :
         claim[a] \in HeldClaim /\ claim[b] \in HeldClaim => a = b
    /\ \A a \in AttemptsOf(u) : claim[a] = "NONE" => Consumed(u)

MInv == IInv /\ CartKnown /\ PaidLinesLeftCart /\ DiscountOnce

LEMMA FinalizeTraced ==
  ASSUME IInv, CartKnown, NEW a \in Attempts, NEW st, status[a] # "ABSENT",
         FinalizeCapturedPayment(a, st), UNCHANGED snap
  PROVE  Traced
<1>1. /\ status \in [Attempts -> Statuses] /\ claim \in [Attempts -> Claims]
      /\ order \in [Attempts -> Orders] /\ lines \in [Carts -> Items] /\ snap[a].cart \in Carts
  BY DEF IInv, TypeOK, CartKnown
<1>2. CASE UNCHANGED <<status, claim, order, lines>>
  BY <1>2 DEF Traced, RowTraced, ClaimMoves, LinesTraced
<1>3. CASE /\ order' = [order EXCEPT ![a] = "PAID"]
           /\ status' = [status EXCEPT ![a] = "SUCCEEDED"]
           /\ claim' = [claim EXCEPT ![a] = IF @ = "CLAIMED" THEN "CONSUMED" ELSE @]
           /\ lines' = [lines EXCEPT ![snap[a].cart] =
                [p \in Products |-> IF @[p] = snap[a].items[p] THEN 0 ELSE @[p]]]
  <2>1. \A b \in Attempts : ClaimMoves(b) /\ (status[b] = "ABSENT" => status'[b] = "ABSENT")
    BY <1>1, <1>3 DEF ClaimMoves
  <2>2. \A b \in Attempts \ {a} : order'[b] = order[b]
    BY <1>1, <1>3
  <2>3. \A p \in Products :
          lines'[snap[a].cart][p] =
            IF lines[snap[a].cart][p] = snap[a].items[p] THEN 0 ELSE lines[snap[a].cart][p]
    BY <1>1, <1>3 DEF Items
  <2>4. Left(a)'
    BY <2>3 DEF Left
  <2>5. LinesTraced
    <3> SUFFICES ASSUME NEW c \in Carts, NEW p \in Products
                 PROVE  lines'[c][p] \in {0, lines[c][p]}
      BY DEF LinesTraced
    <3>1. CASE c = snap[a].cart
      BY <2>3, <3>1
    <3>2. CASE c # snap[a].cart
      BY <1>1, <1>3, <3>2
    <3> QED BY <3>1, <3>2
  <2> QED BY <2>1, <2>2, <2>4, <2>5 DEF Traced, RowTraced
<1> QED BY <1>2, <1>3 DEF FinalizeCapturedPayment, MarkPaymentAttemptSucceeded

LEMMA ReleaseTraced ==
  ASSUME IInv, NEW a \in Attempts, NEW st, status[a] # "ABSENT", UNCHANGED <<snap, lines>>,
         ReleaseAttempt(a, st),
         order' = order \/ order' = [order EXCEPT ![a] = "CANCELLED"]
  PROVE  Traced
<1>1. /\ status \in [Attempts -> Statuses] /\ claim \in [Attempts -> Claims]
      /\ order \in [Attempts -> Orders]
  BY DEF IInv, TypeOK
<1>2. /\ status' = [status EXCEPT ![a] = "CANCELLED"]
      /\ \/ claim' = claim
         \/ claim[a] = "CLAIMED" /\ claim' = [claim EXCEPT ![a] = "RELEASED"]
  BY <1>1 DEF ReleaseAttempt
<1>3. \A b \in Attempts : RowTraced(b)
  BY <1>1, <1>2 DEF RowTraced, ClaimMoves
<1> QED BY <1>3 DEF Traced, LinesTraced

LEMMA WrittenTraced ==
  ASSUME IInv, NEW a \in Attempts, status[a] # "ABSENT", UNCHANGED <<snap, lines, claim>>,
         NEW st, status' = [status EXCEPT ![a] = st],
         order' = order \/ order' = [order EXCEPT ![a] = "PLACED"]
  PROVE  Traced
<1>1. /\ status \in [Attempts -> Statuses] /\ order \in [Attempts -> Orders]
  BY DEF IInv, TypeOK
<1>2. \A b \in Attempts : RowTraced(b)
  BY <1>1 DEF RowTraced, ClaimMoves
<1> QED BY <1>2 DEF Traced, LinesTraced

LEMMA AllocateTraced ==
  ASSUME IInv, NEW a \in Attempts, status[a] # "ABSENT", UNCHANGED <<snap, lines, claim>>,
         NEW st, NEW rest, AllocateInventory(a, st, rest)
  PROVE  Traced
<1>1. \/ status' = [status EXCEPT ![a] = st] /\ order' = order
      \/ status' = [status EXCEPT ![a] = Marked(st)] /\ order' = order
      \/ status' = [status EXCEPT ![a] = st] /\ order' = [order EXCEPT ![a] = "PLACED"]
  BY DEF AllocateInventory, orderVars
<1> QED BY <1>1, WrittenTraced

\* Steps after which status, claim, order and snapshot are as before.
LEMMA StillTraced ==
  ASSUME UNCHANGED <<snap, status, claim, order>>, LinesTraced
  PROVE  Traced
BY DEF Traced, RowTraced, ClaimMoves

LEMMA ShoppingTraced ==
  ASSUME MInv, NEW c \in Carts,
         \/ OpenCart(c)
         \/ \E p \in Products, n \in 0..MaxAmount : EditCart(c, p, n)
         \/ PlaceCashOrder(c)
  PROVE  Traced
<1>1. UNCHANGED <<snap, status, claim, order>>
  BY DEF OpenCart, EditCart, PlaceCashOrder, attemptVars, orderVars
<1> SUFFICES LinesTraced
  BY <1>1, StillTraced
<1>2. lines \in [Carts -> Items]
  BY DEF MInv, IInv, TypeOK
<1>3. CASE OpenCart(c)
  BY <1>3 DEF OpenCart, LinesTraced, cartVars
<1>4. ASSUME NEW p \in Products, NEW n \in 0..MaxAmount, EditCart(c, p, n) PROVE LinesTraced
  <2>1. ~ HasOrder(c) /\ lines' = [lines EXCEPT ![c][p] = n]
    BY <1>4 DEF EditCart
  <2> QED BY <1>2, <2>1 DEF LinesTraced, Items
<1>5. CASE PlaceCashOrder(c)
  BY <1>2, <1>5 DEF PlaceCashOrder, LinesTraced, NoItems
<1> QED BY <1>3, <1>4, <1>5

LEMMA TaskTraced ==
  ASSUME MInv, NEW t \in tasks, TaskStep(t)
  PROVE  Traced
<1> DEFINE a == t.attempt
<1>1. a \in Attempts /\ status[a] # "ABSENT"
  BY NextTasksType DEF MInv, IInv, AnswersProve, AnswerProves
<1>2. IInv /\ CartKnown
  BY DEF MInv
<1>3. CASE \/ CreateSession(t) \/ CreateSessionFails(t) \/ RetrieveSession(t)
           \/ FetchIntent(t)   \/ TaskFails(t)          \/ TaskLost(t)
           \/ CaptureSucceeds(t) \/ CaptureFails(t)
           \/ CancelSucceeds(t)  \/ CancelFails(t) \/ RequestCapture(t)
  <2>1. UNCHANGED <<snap, status, claim, order, lines>>
    BY <1>3 DEF CreateSession, CreateSessionFails, RetrieveSession, FetchIntent, TaskFails,
       TaskLost, CaptureSucceeds, CaptureFails, CancelSucceeds, CancelFails, RequestCapture,
       attemptVars, orderVars, cartVars
  <2> QED BY <2>1, StillTraced DEF LinesTraced
<1>4. CASE StoreSession(t) \/ AttachIntent(t) \/ ApplySessionIntent(t) \/ MarkReconciliation(t)
  <2>1. UNCHANGED <<snap, claim, order, lines>>
    BY <1>4 DEF StoreSession, AttachIntent, ApplySessionIntent, MarkPending, MarkReconciliation,
       orderVars, cartVars
  <2>2. \/ UNCHANGED status
        \/ status' = [status EXCEPT ![a] = "PENDING"]
        \/ status' = [status EXCEPT ![a] = Marked(status[a])]
    BY <1>1, <1>4 DEF StoreSession, AttachIntent, ApplySessionIntent, MarkPending, MarkReconciliation
  <2>3. CASE UNCHANGED status
    BY <2>1, <2>3, StillTraced DEF LinesTraced
  <2> QED BY <1>1, <1>2, <2>1, <2>2, <2>3, WrittenTraced
<1>5. CASE ApplySession(t)
  <2>1. UNCHANGED <<snap, order, lines>>
    BY <1>5 DEF ApplySession, orderVars, cartVars
  <2>2. CASE ReleaseAttempt(a, status[a])
    BY <1>1, <1>2, <2>1, <2>2, ReleaseTraced
  <2>3. CASE UNCHANGED <<status, claim>>
    BY <2>1, <2>3, StillTraced DEF LinesTraced
  <2> QED BY <1>5, <2>2, <2>3 DEF ApplySession
<1>6. CASE ApplyIntent(t)
  <2>1. UNCHANGED snap
    BY <1>6 DEF ApplyIntent
  <2>2. CASE AllocateInventory(a, status[a], tasks \ {t}) /\ UNCHANGED <<claim, lines, owner>>
    BY <1>1, <1>2, <2>1, <2>2, AllocateTraced
  <2>3. CASE FinalizeCapturedPayment(a, status[a])
    BY <1>1, <1>2, <2>1, <2>3, FinalizeTraced
  <2>4. CASE ReleaseUnpaidPayment(a, status[a]) /\ UNCHANGED <<lines, owner>>
    <3>1. ReleaseAttempt(a, status[a])
      BY <2>4 DEF ReleaseUnpaidPayment
    <3>2. order' = order \/ order' = [order EXCEPT ![a] = "CANCELLED"]
      BY <2>4 DEF ReleaseUnpaidPayment, orderVars
    <3> QED BY <1>1, <1>2, <2>1, <2>4, <3>1, <3>2, ReleaseTraced
  <2>5. CASE /\ status' = [status EXCEPT ![a] = Marked(@)]
             /\ UNCHANGED <<claim, orderVars, lines, owner>>
    <3>1. status' = [status EXCEPT ![a] = Marked(status[a])] /\ UNCHANGED order
      BY <1>1, <2>5 DEF orderVars
    <3> QED BY <1>1, <1>2, <2>1, <2>5, <3>1, WrittenTraced
  <2> QED BY <1>6, <2>2, <2>3, <2>4, <2>5 DEF ApplyIntent
<1> QED BY <1>3, <1>4, <1>5, <1>6 DEF TaskStep

LEMMA HandlerTraced ==
  ASSUME MInv, NEW a \in Attempts, HandlerStarts(a)
  PROVE  Traced
<1>1. IInv /\ CartKnown /\ RowOK(a) /\ sess[a] \in SessionStates
  BY Rows DEF MInv, IInv, TypeOK
<1>2. CASE ReplayStart(a) \/ Reconcile(a) \/ ReconcileFails(a)
  <2>1. UNCHANGED <<snap, status, claim, order, lines>>
    BY <1>2 DEF ReplayStart, Reconcile, ReconcileFails, attemptVars, orderVars, cartVars
  <2> QED BY <2>1, StillTraced DEF LinesTraced
<1>3. ASSUME NEW e \in Subscribed, IntentWebhook(a, e) PROVE Traced
  <2> DEFINE st == AttachedStatus(a)
  <2>1. UNCHANGED snap
    BY <1>3 DEF IntentWebhook
  <2>2. status[a] # "ABSENT"
    BY <1>1, <1>3 DEF IntentWebhook, CanAttach, RowOK, AbsentRow
  <2>3. CASE AllocateInventory(a, st, tasks) /\ UNCHANGED <<claim, lines, owner>>
    BY <1>1, <2>1, <2>2, <2>3, AllocateTraced
  <2>4. CASE FinalizeCapturedPayment(a, st)
    BY <1>1, <2>1, <2>2, <2>4, FinalizeTraced
  <2>5. CASE ReleaseUnpaidPayment(a, st) /\ UNCHANGED <<lines, owner, tasks>>
    <3>1. ReleaseAttempt(a, st)
      BY <2>5 DEF ReleaseUnpaidPayment
    <3>2. order' = order \/ order' = [order EXCEPT ![a] = "CANCELLED"]
      BY <2>5 DEF ReleaseUnpaidPayment, orderVars
    <3> QED BY <1>1, <2>1, <2>2, <2>5, <3>1, <3>2, ReleaseTraced
  <2>6. CASE /\ status' = [status EXCEPT ![a] = st]
             /\ UNCHANGED <<claim, orderVars, lines, owner, tasks>>
    <3>1. UNCHANGED order
      BY <2>6 DEF orderVars
    <3> HIDE DEF st
    <3> QED BY <1>1, <2>1, <2>2, <2>6, <3>1, WrittenTraced
  <2> QED BY <1>3, <2>3, <2>4, <2>5, <2>6 DEF IntentWebhook
<1>4. ASSUME NEW e \in Subscribed, SessionWebhook(a, e) PROVE Traced
  <2> DEFINE st == IF intent[a] = "none" THEN status[a] ELSE AttachedStatus(a)
  <2>1. UNCHANGED <<snap, order, lines>>
    BY <1>4 DEF SessionWebhook, orderVars, cartVars
  <2>2. status[a] # "ABSENT"
    BY <1>1, <1>4 DEF SessionWebhook, RowOK, AbsentRow
  <2>3. \/ status' = [status EXCEPT ![a] = st] /\ UNCHANGED claim
        \/ ReleaseAttempt(a, st)
    BY <1>4 DEF SessionWebhook
  <2> HIDE DEF st
  <2>4. CASE status' = [status EXCEPT ![a] = st] /\ UNCHANGED claim
    BY <1>1, <2>1, <2>2, <2>4, WrittenTraced
  <2>5. CASE ReleaseAttempt(a, st)
    BY <1>1, <2>1, <2>2, <2>5, ReleaseTraced
  <2> QED BY <2>3, <2>4, <2>5
<1> QED BY <1>2, <1>3, <1>4 DEF HandlerStarts

\* The claims of an account and the paid orders agree.
LEMMA PaidRow ==
  ASSUME IInv, NEW a \in Attempts
  PROVE  /\ order[a] = "PAID" => status[a] = "SUCCEEDED" /\ claim[a] \in {"NONE", "CONSUMED"}
         /\ claim[a] = "CONSUMED" => order[a] = "PAID"
<1>1. RowOK(a) /\ alloc[a] \in Allocations /\ status[a] \in Statuses
  BY Rows DEF IInv, TypeOK
<1>2. order[a] = "PAID" => status[a] = "SUCCEEDED"
  BY <1>1 DEF RowOK, Allocations, ActiveAlloc
<1>3. claim[a] = "CONSUMED" => status[a] = "SUCCEEDED"
  BY <1>1 DEF RowOK, Statuses, OpenStatus, FinalStatus
<1>4. status[a] = "SUCCEEDED" => order[a] = "PAID" /\ claim[a] \in {"NONE", "CONSUMED"}
  BY <1>1 DEF RowOK, Allocations, ActiveAlloc, OpenStatus
<1> QED BY <1>2, <1>3, <1>4

\* A step that is not prepare keeps the invariant.
LEMMA TracedKeeps ==
  ASSUME MInv, Kept, Traced
  PROVE  MInv'
<1>1. IInv' /\ \A a \in Attempts : status'[a] = "ABSENT" <=> status[a] = "ABSENT"
  BY DEF Kept, Evolves, Traced, RowTraced
<1>2. CartKnown'
  BY <1>1 DEF MInv, CartKnown, Traced
<1>3. \A u \in Users : AttemptsOf(u)' = AttemptsOf(u)
  BY <1>1 DEF AttemptsOf, Traced
<1>4. DiscountOnce'
  <2> SUFFICES ASSUME NEW u \in Users
               PROVE  /\ \A a, b \in AttemptsOf(u) :
                           claim'[a] \in HeldClaim /\ claim'[b] \in HeldClaim => a = b
                      /\ \A a \in AttemptsOf(u) : claim'[a] = "NONE" => Consumed(u)'
    BY <1>3 DEF DiscountOnce
  <2>1. \A a \in Attempts : ClaimMoves(a)
    BY DEF Traced, RowTraced
  <2>2. AttemptsOf(u) \subseteq Attempts
    BY DEF AttemptsOf
  <2>3. ASSUME NEW a \in AttemptsOf(u), claim'[a] \in HeldClaim PROVE claim[a] \in HeldClaim
    BY <2>1, <2>2, <2>3 DEF ClaimMoves, HeldClaim
  <2>4. ASSUME NEW a \in AttemptsOf(u), claim'[a] = "NONE" PROVE claim[a] = "NONE"
    BY <2>1, <2>2, <2>4 DEF ClaimMoves
  <2>5. Consumed(u) => Consumed(u)'
    BY <1>3, <2>1, <2>2 DEF ClaimMoves, Consumed
  <2> QED BY <2>3, <2>4, <2>5 DEF MInv, DiscountOnce
<1>5. PaidLinesLeftCart'
  <2> SUFFICES ASSUME NEW a \in Attempts, order'[a] = "PAID"
               PROVE  Left(a)'
    BY DEF PaidLinesLeftCart, Left
  <2>1. CASE order[a] = "PAID"
    <3>1. snap[a].cart \in Carts /\ HasOrder(snap[a].cart)
      BY <2>1, PaidRow DEF MInv, CartKnown, HasOrder
    <3>2. \A p \in Products : lines'[snap[a].cart][p] \in {0, lines[snap[a].cart][p]}
      BY <3>1 DEF Traced, LinesTraced
    <3>3. \A p \in Products : snap[a].items[p] \in Nat
      BY ConstantsAssumption DEF MInv, IInv, TypeOK, Snapshots, Items
    <3>4. Left(a)
      BY <2>1 DEF MInv, PaidLinesLeftCart, Left
    <3> QED BY <3>2, <3>3, <3>4 DEF Left, Traced
  <2>2. CASE order[a] # "PAID"
    BY <2>2 DEF Traced, RowTraced
  <2> QED BY <2>1, <2>2
<1> QED BY <1>1, <1>2, <1>4, <1>5 DEF MInv

LEMMA PrepareKeeps ==
  ASSUME MInv, Kept, NEW a \in Attempts, NEW c \in Carts, Prepare(a, c)
  PROVE  MInv'
<1> DEFINE u == DraftOwner[c]
           discounted == u \in Users /\ ~ Disqualified(u)
<1>1. /\ status \in [Attempts -> Statuses] /\ snap \in [Attempts -> Snapshots]
      /\ claim \in [Attempts -> Claims]
  BY DEF MInv, IInv, TypeOK
<1>2. /\ status[a] = "ABSENT" /\ status' = [status EXCEPT ![a] = "PREPARED"]
      /\ snap' = [snap EXCEPT ![a] = [cart |-> c, user |-> u, items |-> lines[c]]]
      /\ claim' = [claim EXCEPT ![a] = IF discounted THEN "CLAIMED" ELSE "NONE"]
      /\ discounted => ~ ClaimHeld(u)
      /\ UNCHANGED <<order, lines>>
  BY DEF Prepare, orderVars, cartVars
<1>3. IInv' /\ CartKnown'
  BY <1>1, <1>2 DEF MInv, CartKnown, Kept
<1>4. PaidLinesLeftCart'
  <2>1. order[a] # "PAID"
    BY <1>2, PaidRow DEF MInv
  <2> QED BY <1>1, <1>2, <2>1 DEF MInv, PaidLinesLeftCart
<1>5. DiscountOnce'
  <2> SUFFICES ASSUME NEW v \in Users
               PROVE  /\ \A b, d \in AttemptsOf(v)' :
                           claim'[b] \in HeldClaim /\ claim'[d] \in HeldClaim => b = d
                      /\ \A b \in AttemptsOf(v)' : claim'[b] = "NONE" => Consumed(v)'
    BY DEF DiscountOnce
  <2>1. \A b \in Attempts \ {a} : claim'[b] = claim[b]
    BY <1>1, <1>2
  <2>2. a \notin AttemptsOf(v) /\ AttemptsOf(v) \subseteq Attempts
    BY <1>2 DEF AttemptsOf
  <2>3. AttemptsOf(v)' = IF v = u THEN AttemptsOf(v) \cup {a} ELSE AttemptsOf(v)
    BY <1>1, <1>2 DEF AttemptsOf
  <2>4. Consumed(v) => Consumed(v)'
    BY <2>1, <2>2, <2>3 DEF Consumed
  <2>5. /\ \A b, d \in AttemptsOf(v) :
             claim[b] \in HeldClaim /\ claim[d] \in HeldClaim => b = d
        /\ \A b \in AttemptsOf(v) : claim[b] = "NONE" => Consumed(v)
    BY DEF MInv, DiscountOnce
  <2>6. CASE v # u
    BY <2>1, <2>2, <2>3, <2>4, <2>5, <2>6
  <2>7. CASE v = u /\ ~ Disqualified(v)
    <3>1. \A b \in AttemptsOf(v) : claim[b] \notin HeldClaim /\ claim[b] # "CONSUMED"
      BY <1>2, <2>7 DEF Disqualified, ClaimHeld, HeldClaim
    <3>2. claim'[a] = "CLAIMED"
      BY <1>1, <1>2, <2>7
    <3> QED BY <2>1, <2>2, <2>3, <2>5, <3>1, <3>2 DEF Consumed
  <2>8. CASE v = u /\ Disqualified(v)
    <3>1. Consumed(v)
      <4>1. PICK b \in AttemptsOf(v) : order[b] = "PAID" \/ claim[b] = "CONSUMED"
        BY <2>8 DEF Disqualified
      <4>2. claim[b] \in {"NONE", "CONSUMED"}
        BY <2>2, <4>1, PaidRow DEF MInv
      <4> QED BY <2>5, <4>1, <4>2 DEF Consumed
    <3>2. claim'[a] = "NONE"
      BY <1>1, <1>2, <2>8
    <3>3. claim'[a] \notin HeldClaim
      BY <3>2 DEF HeldClaim
    <3> QED BY <2>1, <2>2, <2>3, <2>4, <2>5, <3>1, <3>3
  <2> QED BY <2>6, <2>7, <2>8
<1> QED BY <1>3, <1>4, <1>5 DEF MInv

LEMMA MoneyInit == Init => MInv
BY InitInv DEF Init, MInv, CartKnown, PaidLinesLeftCart, DiscountOnce, AttemptsOf

LEMMA MoneyStep == MInv /\ [Next]_vars => MInv'
<1> SUFFICES ASSUME MInv, [Next]_vars PROVE MInv'
  OBVIOUS
<1>1. Kept
  BY StepInv DEF MInv
<1>2. CASE Shopping
  <2> SUFFICES ASSUME NEW c \in Carts,
                      \/ OpenCart(c)
                      \/ \E p \in Products, n \in 0..MaxAmount : EditCart(c, p, n)
                      \/ PlaceCashOrder(c)
                      \/ \E a \in Attempts : Prepare(a, c)
               PROVE MInv'
    BY <1>2 DEF Shopping
  <2>1. CASE \/ OpenCart(c)
             \/ \E p \in Products, n \in 0..MaxAmount : EditCart(c, p, n)
             \/ PlaceCashOrder(c)
    BY <1>1, <2>1, ShoppingTraced, TracedKeeps
  <2>2. ASSUME NEW a \in Attempts, Prepare(a, c) PROVE MInv'
    BY <1>1, <2>2, PrepareKeeps
  <2> QED BY <2>1, <2>2
<1>3. ASSUME NEW t \in tasks, TaskStep(t) PROVE MInv'
  BY <1>1, <1>3, TaskTraced, TracedKeeps
<1>4. ASSUME NEW a \in Attempts, HandlerStarts(a) PROVE MInv'
  BY <1>1, <1>4, HandlerTraced, TracedKeeps
<1>5. ASSUME NEW a \in Attempts, ProviderStep(a) PROVE MInv'
  <2>1. UNCHANGED <<snap, status, claim, order, lines>>
    BY <1>5 DEF ProviderStep, CustomerAuthorizes, CustomerDeclined, SessionExpires,
       AuthorizationLapses, ClockPasses, attemptVars, orderVars, cartVars
  <2> QED BY <1>1, <2>1, StillTraced, TracedKeeps DEF LinesTraced
<1>6. ASSUME NEW p \in Limited, SaleEnds(p) PROVE MInv'
  <2>1. UNCHANGED <<snap, status, claim, order, lines>>
    BY <1>6 DEF SaleEnds, attemptVars, orderVars, cartVars
  <2> QED BY <1>1, <2>1, StillTraced, TracedKeeps DEF LinesTraced
<1>7. CASE UNCHANGED vars
  <2>1. UNCHANGED <<snap, status, claim, order, lines>>
    BY <1>7 DEF vars, attemptVars, orderVars, cartVars
  <2> QED BY <1>1, <2>1, StillTraced, TracedKeeps DEF LinesTraced
<1> QED BY <1>2, <1>3, <1>4, <1>5, <1>6, <1>7 DEF Next

LEMMA MoneyInvariant == Spec => []MInv
BY MoneyInit, MoneyStep, PTL DEF Spec

\* An account holds the discount with one attempt, and its first paid order had it.
THEOREM DiscountGivenOnce == Spec => []OneDiscountPerAccount
<1>1. ASSUME MInv PROVE OneDiscountPerAccount
  <2> SUFFICES ASSUME NEW u \in Users, NEW a \in AttemptsOf(u), order[a] = "PAID"
               PROVE  \E b \in AttemptsOf(u) : order[b] = "PAID" /\ claim[b] = "CONSUMED"
    BY <1>1 DEF OneDiscountPerAccount, MInv, DiscountOnce
  <2>1. AttemptsOf(u) \subseteq Attempts
    BY DEF AttemptsOf
  <2>2. claim[a] \in {"NONE", "CONSUMED"}
    BY <1>1, <2>1, PaidRow DEF MInv
  <2>3. PICK b \in AttemptsOf(u) : claim[b] = "CONSUMED"
    BY <1>1, <2>2 DEF MInv, DiscountOnce, Consumed
  <2> QED BY <1>1, <2>1, <2>3, PaidRow DEF MInv
<1> QED BY <1>1, MoneyInvariant, PTL

\* A cart no longer offers what it has paid for.
THEOREM PaidLinesGone == Spec => []PaidLinesLeftCart
<1>1. MInv => PaidLinesLeftCart
  BY DEF MInv
<1> QED BY <1>1, MoneyInvariant, PTL

=============================================================================
