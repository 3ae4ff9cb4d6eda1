-------------------------- MODULE SettlementProofs --------------------------
(***************************************************************************)
(* Payments implements PaymentSettlement: under the refinement mapping of  *)
(* module Payments every step of the orchestration is a step of one deal,  *)
(* a cash sale, or no step at all.                                         *)
(***************************************************************************)
EXTENDS PaymentsProofs

Terms == [a \in Attempts |-> [cart |-> snap[a].cart, items |-> snap[a].items]]

\* The effect of a step on the abstract state, in the words of Payments.
OthersKept(a) == \A b \in Attempts \ {a} : DealState(b)' = DealState(b)

Silent ==
  /\ UNCHANGED <<snap, stock, cash>>
  /\ \A b \in Attempts : DealState(b)' = DealState(b)

Moves(a, from, to) ==
  /\ DealState(a) = from /\ DealState(a)' = to
  /\ OthersKept(a)
  /\ UNCHANGED <<snap, cash>>

Unheld(c) ==
  /\ cash[c] = NoItems
  /\ \A b \in Attempts : DealState(b) \in {"reserved", "charged", "settled"} => snap[b].cart # c

Offers(a) ==
  /\ DealState(a) = "idle" /\ DealState(a)' = "open"
  /\ OthersKept(a)
  /\ \E c \in Carts, items \in Items \ {NoItems} :
       snap' = [snap EXCEPT ![a] = [cart |-> c, user |-> DraftOwner[c], items |-> items]]
  /\ UNCHANGED <<stock, cash>>

Reserves(a) ==
  /\ Moves(a, "open", "reserved")
  /\ Unheld(snap[a].cart)
  /\ \A p \in Products : snap[a].items[p] <= stock[p]
  /\ stock' = [p \in Products |-> stock[p] - snap[a].items[p]]

Charges(a) == Moves(a, "reserved", "charged") /\ UNCHANGED stock
Settles(a) == Moves(a, "charged", "settled") /\ UNCHANGED stock
CallsOff(a) ==
  \/ Moves(a, "open", "off") /\ UNCHANGED stock
  \/ Moves(a, "reserved", "off") /\ stock' = [p \in Products |-> stock[p] + snap[a].items[p]]

Sells(c) ==
  /\ \A b \in Attempts : DealState(b)' = DealState(b)
  /\ Unheld(c)
  /\ \E items \in Items \ {NoItems} :
       /\ \A p \in Products : items[p] <= stock[p]
       /\ stock' = [p \in Products |-> stock[p] - items[p]]
       /\ cash' = [cash EXCEPT ![c] = items]
  /\ UNCHANGED snap

-----------------------------------------------------------------------------
\* These effects are the actions of the abstract specification.

LEMMA Mapped ==
  ASSUME TypeOK
  PROVE /\ Silent => UNCHANGED Settlement!vars
        /\ \A a \in Attempts :
             Offers(a) \/ Reserves(a) \/ Charges(a) \/ Settles(a) \/ CallsOff(a) => Settlement!Next
        /\ \A c \in Carts : Sells(c) => Settlement!Next
<1>1. snap \in [Attempts -> Snapshots] /\ cash \in [Carts -> Items] /\ stock \in [Products -> Nat]
  BY DEF TypeOK
<1>2. Silent => UNCHANGED Settlement!vars
  BY DEF Silent, Settlement!vars
<1>3. ASSUME NEW a \in Attempts, Offers(a) PROVE Settlement!Offer(a)
  <2>1. PICK c \in Carts, items \in Items \ {NoItems} :
          snap' = [snap EXCEPT ![a] = [cart |-> c, user |-> DraftOwner[c], items |-> items]]
    BY <1>3 DEF Offers
  <2>2. Terms' = [Terms EXCEPT ![a] = [cart |-> c, items |-> items]]
    BY <1>1, <2>1 DEF Terms
  <2>3. items \in Settlement!Goods \ {Settlement!Nothing}
    BY DEF Settlement!Goods, Settlement!Nothing, Items, NoItems
  <2> QED BY <1>3, <2>2, <2>3 DEF Offers, OthersKept, Terms, Settlement!Offer
<1>4. ASSUME NEW a \in Attempts, Reserves(a) PROVE Settlement!Reserve(a)
  BY <1>1, <1>4 DEF Reserves, Moves, OthersKept, Unheld, Settlement!Reserve, Settlement!Free,
     Settlement!OnShelf, Settlement!Nothing, Settlement!Holding, NoItems
<1>5. ASSUME NEW a \in Attempts, Charges(a) PROVE Settlement!Charge(a)
  BY <1>5 DEF Charges, Moves, OthersKept, Settlement!Charge
<1>6. ASSUME NEW a \in Attempts, Settles(a) PROVE Settlement!Settle(a)
  BY <1>6 DEF Settles, Moves, OthersKept, Settlement!Settle
<1>7. ASSUME NEW a \in Attempts, CallsOff(a) PROVE Settlement!CallOff(a)
  BY <1>7 DEF CallsOff, Moves, OthersKept, Settlement!CallOff
<1>8. ASSUME NEW c \in Carts, Sells(c) PROVE Settlement!SellForCash(c)
  BY <1>1, <1>8 DEF Sells, Unheld, Settlement!SellForCash, Settlement!Goods, Settlement!Free,
     Settlement!OnShelf, Settlement!Nothing, Settlement!Holding, Items, NoItems
<1> QED BY <1>2, <1>3, <1>4, <1>5, <1>6, <1>7, <1>8 DEF Settlement!Next

-----------------------------------------------------------------------------
\* The state of a deal, and what it says about the order.

LEMMA Deal ==
  ASSUME IInv, NEW a \in Attempts
  PROVE /\ DealState(a) = IF status[a] = "ABSENT" THEN "idle"
                         ELSE IF status[a] = "CANCELLED" THEN "off"
                         ELSE IF status[a] = "SUCCEEDED" THEN "settled"
                         ELSE IF intent[a] = "succeeded" THEN "charged"
                         ELSE IF alloc[a] \in ActiveAlloc THEN "reserved" ELSE "open"
        /\ DealState(a) \in {"reserved", "charged", "settled"} => order[a] \in LiveOrder
<1>1. status[a] \in Statuses /\ alloc[a] \in Allocations /\ RowOK(a)
  BY Rows DEF IInv, TypeOK
<1>2. status[a] = "SUCCEEDED" => order[a] = "PAID"
  BY <1>1 DEF RowOK, Allocations, ActiveAlloc
<1>3. alloc[a] \in ActiveAlloc => order[a] = "PLACED"
  BY <1>1 DEF RowOK, ActiveAlloc
<1>4. intent[a] = "succeeded" => order[a] \in LiveOrder
  BY <1>1 DEF RowOK
<1> QED BY <1>1, <1>2, <1>3, <1>4 DEF DealState, Statuses, OpenStatus, FinalStatus, LiveOrder

LEMMA DealKept ==
  ASSUME NEW a \in Attempts, SameRow(a)
  PROVE DealState(a)' = DealState(a)
BY DEF SameRow, DealState

LEMMA Others ==
  ASSUME NEW a \in Attempts, StepOf(a)
  PROVE OthersKept(a)
BY DealKept DEF StepOf, OthersKept

LEMMA RowsSilent == RowsSame /\ UNCHANGED <<snap, stock, cash>> => Silent
BY DealKept DEF RowsSame, SameRow, Silent

\* A step of a that leaves stock, snapshot and cash sales alone is silent, or a
\* move of a.
LEMMA Quiet ==
  ASSUME NEW a \in Attempts, StepOf(a), UNCHANGED <<snap, stock, cash>>,
         DealState(a)' = DealState(a)
  PROVE Silent
BY Others DEF Silent, OthersKept

LEMMA Free ==
  ASSUME IInv, NEW c, ~ HasLiveOrder(c)
  PROVE Unheld(c)
BY Deal DEF HasLiveOrder, Unheld

-----------------------------------------------------------------------------
\* The operators the handlers share.

LEMMA AllocateMaps ==
  ASSUME IInv, IInv', NEW a \in Attempts, StepOf(a), NEW st, NEW rest, Attached(a, st),
         AllocateInventory(a, st, rest), UNCHANGED <<snap, cash>>
  PROVE Silent \/ Reserves(a)
<1>1. status[a] \in Statuses /\ RowOK(a) /\ status'[a] \in Statuses
  BY Rows DEF IInv, TypeOK
<1>2. UNCHANGED <<sess, intent>> /\ status[a] # "ABSENT"
  BY DEF Attached
<1>3. CASE UNCHANGED orderVars /\ (status'[a] = st \/ status'[a] = Marked(st))
  <2>1. status'[a] = status[a] \/ (status[a] \in OpenStatus /\ status'[a] \in OpenStatus)
    BY <1>3 DEF Attached, Marked, OpenStatus
  <2>2. DealState(a)' = DealState(a)
    BY <1>1, <1>2, <1>3, <2>1 DEF DealState, orderVars, OpenStatus
  <2> QED BY <1>3, <2>2, Quiet DEF orderVars
<1>4. CASE /\ alloc[a] = "NONE" /\ Available(snap[a].items) /\ AllocationCommits(a, st)
           /\ status' = [status EXCEPT ![a] = st]
           /\ stock' = [p \in Products |-> stock[p] - snap[a].items[p]]
           /\ alloc' = [alloc EXCEPT ![a] = "ALLOCATED"]
  <2>1. Unheld(snap[a].cart)
    BY <1>4, Free DEF AllocationCommits
  <2>2. \A p \in Products : snap[a].items[p] <= stock[p]
    BY <1>4 DEF Available, IInv, TypeOK, Snapshots, Items
  <2>3. /\ st \in {"PENDING", "RECONCILIATION_REQUIRED"} /\ status'[a] = st
        /\ alloc'[a] = "ALLOCATED"
    BY <1>4 DEF AllocationCommits, IInv, TypeOK
  <2>4. intent[a] # "succeeded"
    BY <1>1, <1>4 DEF RowOK
  <2>5. DealState(a) = "open" /\ DealState(a)' = "reserved"
    BY <1>1, <1>2, <1>4, <2>3, <2>4 DEF DealState, Attached, OpenStatus, ActiveAlloc, RowOK
  <2> QED BY <1>4, <2>1, <2>2, <2>5, Others DEF Reserves, Moves
<1>5. status \in [Attempts -> Statuses]
  BY DEF IInv, TypeOK
<1> QED BY <1>3, <1>4, <1>5 DEF AllocateInventory

LEMMA FinalizeMaps ==
  ASSUME IInv, NEW a \in Attempts, StepOf(a), NEW st, Attached(a, st), intent[a] = "succeeded",
         FinalizeCapturedPayment(a, st), UNCHANGED <<snap, stock, cash>>
  PROVE Silent \/ Settles(a)
<1>1. status[a] \in Statuses /\ status \in [Attempts -> Statuses]
  BY DEF IInv, TypeOK
<1>2. CASE UNCHANGED <<status, alloc>>
  <2>1. DealState(a)' = DealState(a)
    BY <1>2 DEF DealState, Attached
  <2> QED BY <2>1, Quiet
<1>3. CASE st \in {"PENDING", "RECONCILIATION_REQUIRED"} /\ status'[a] = "SUCCEEDED"
  <2>1. DealState(a) = "charged" /\ DealState(a)' = "settled"
    BY <1>1, <1>3 DEF DealState, Attached, OpenStatus
  <2> QED BY <2>1, Others DEF Settles, Moves
<1> QED BY <1>1, <1>2, <1>3 DEF FinalizeCapturedPayment, MarkPaymentAttemptSucceeded

\* A release gives the stock back exactly when a deal with a reservation ends.
LEMMA ReleaseMaps ==
  ASSUME IInv, NEW a \in Attempts, StepOf(a), NEW st, status[a] # "ABSENT",
         intent[a] # "succeeded", ReleaseAttempt(a, st),
         st = status[a] \/ st = "PENDING", UNCHANGED <<snap, cash, intent>>,
         \/ alloc[a] \notin ActiveAlloc /\ UNCHANGED stock
         \/ alloc[a] \in ActiveAlloc
             /\ stock' = [p \in Products |-> stock[p] + snap[a].items[p]]
  PROVE Silent \/ CallsOff(a)
<1>1. /\ status[a] \in Statuses /\ status \in [Attempts -> Statuses]
      /\ alloc[a] \in Allocations /\ RowOK(a)
  BY Rows DEF IInv, TypeOK
<1>2. status'[a] = "CANCELLED" /\ DealState(a)' = "off"
  BY <1>1 DEF ReleaseAttempt, DealState, OpenStatus
<1>3. status[a] # "SUCCEEDED"
  BY <1>2 DEF StepOf, Evolves, FinalStatus
<1>4. CASE status[a] = "CANCELLED"
  <2>1. DealState(a) = "off" /\ alloc[a] \notin ActiveAlloc
    BY <1>1, <1>4, Deal DEF RowOK, ActiveAlloc
  <2> QED BY <1>2, <2>1, Quiet
<1>5. CASE status[a] \in OpenStatus
  <2>1. DealState(a) = IF alloc[a] \in ActiveAlloc THEN "reserved" ELSE "open"
    BY <1>5, Deal DEF OpenStatus
  <2> QED BY <1>2, <2>1, Others DEF CallsOff, Moves
<1> QED BY <1>1, <1>3, <1>4, <1>5 DEF Statuses, FinalStatus

-----------------------------------------------------------------------------
\* The actions.

LEMMA ShopMaps ==
  ASSUME IInv, IInv', Shopping
  PROVE Silent \/ (\E a \in Attempts : Offers(a)) \/ (\E c \in Carts : Sells(c))
<1> SUFFICES ASSUME NEW c \in Carts,
                    \/ OpenCart(c)
                    \/ \E p \in Products, n \in 0..MaxAmount : EditCart(c, p, n)
                    \/ PlaceCashOrder(c)
                    \/ \E a \in Attempts : Prepare(a, c)
             PROVE Silent \/ (\E a \in Attempts : Offers(a)) \/ Sells(c)
  BY DEF Shopping
<1>0. lines[c] \in Items
  BY DEF IInv, TypeOK
<1>1. CASE OpenCart(c) \/ \E p \in Products, n \in 0..MaxAmount : EditCart(c, p, n)
  <2>1. RowsSame /\ UNCHANGED <<snap, stock, cash>>
    BY <1>1 DEF OpenCart, EditCart, RowsSame, attemptVars, orderVars, providerVars
  <2> QED BY <2>1, RowsSilent
<1>2. CASE PlaceCashOrder(c)
  <2>1. RowsSame /\ UNCHANGED snap
    BY <1>2 DEF PlaceCashOrder, RowsSame, attemptVars, providerVars
  <2>2. \A b \in Attempts : DealState(b)' = DealState(b)
    BY <2>1, DealKept DEF RowsSame, SameRow
  <2>3. \A p \in Products : lines[c][p] <= stock[p]
    BY <1>0, <1>2 DEF PlaceCashOrder, Available, IInv, TypeOK, Items
  <2>4. Unheld(c)
    BY <1>2, Free DEF PlaceCashOrder
  <2> QED BY <1>0, <1>2, <2>1, <2>2, <2>3, <2>4 DEF PlaceCashOrder, Sells
<1>3. ASSUME NEW a \in Attempts, Prepare(a, c) PROVE Offers(a)
  <2>1. OthersKept(a)
    BY <1>3, PrepareStep, Others
  <2>2. status[a] = "ABSENT" /\ status'[a] = "PREPARED"
    BY <1>3 DEF Prepare, IInv, TypeOK
  <2>3. RowOK(a) /\ UNCHANGED <<intent, alloc>>
    BY <1>3, Rows DEF Prepare, orderVars, providerVars
  <2>4. DealState(a) = "idle"
    BY <2>2, Deal
  <2>5. DealState(a)' = "open"
    BY <2>2, <2>3 DEF RowOK, AbsentRow, DealState, OpenStatus, ActiveAlloc
  <2>6. /\ snap' = [snap EXCEPT ![a] = [cart |-> c, user |-> DraftOwner[c], items |-> lines[c]]]
        /\ lines[c] \in Items \ {NoItems}
        /\ UNCHANGED <<stock, cash>>
    BY <1>0, <1>3 DEF Prepare, orderVars, cartVars
  <2> QED BY <2>1, <2>4, <2>5, <2>6 DEF Offers
<1> QED BY <1>1, <1>2, <1>3

LEMMA HandlerMaps ==
  ASSUME IInv, IInv', NEW a \in Attempts, HandlerStarts(a) \/ ProviderStep(a)
  PROVE Silent \/ Reserves(a) \/ Settles(a) \/ CallsOff(a)
<1>0. RowOK(a) /\ status[a] \in Statuses /\ alloc[a] \in Allocations
  BY Rows DEF IInv, TypeOK
<1>1. CASE ReplayStart(a) \/ Reconcile(a) \/ ReconcileFails(a)
  <2>1. /\ UNCHANGED <<status, intent, alloc>>
        /\ UNCHANGED <<snap, stock, cash>>
    BY <1>1 DEF ReplayStart, Reconcile, ReconcileFails, attemptVars, orderVars, cartVars,
       providerVars
  <2> QED BY <2>1 DEF Silent, DealState
<1>2. CASE ProviderStep(a)
  <2>1. StepOf(a) /\ UNCHANGED <<status, alloc, snap, stock, cash>>
    BY <1>2, ProviderRowsStep DEF ProviderStep, CustomerAuthorizes, CustomerDeclined,
       SessionExpires, AuthorizationLapses, ClockPasses, attemptVars, orderVars, cartVars
  <2>2. intent'[a] = "succeeded" <=> intent[a] = "succeeded"
    BY <1>2 DEF ProviderStep, CustomerAuthorizes, CustomerDeclined, SessionExpires,
       AuthorizationLapses, ClockPasses, IInv, TypeOK
  <2>3. DealState(a)' = DealState(a)
    BY <1>0, <2>1, <2>2 DEF DealState, Statuses
  <2> QED BY <2>1, <2>3, Quiet
<1>3. ASSUME NEW e \in Subscribed, IntentWebhook(a, e)
      PROVE Silent \/ Reserves(a) \/ Settles(a) \/ CallsOff(a)
  <2> DEFINE st == AttachedStatus(a)
  <2>1. StepOf(a)
    BY <1>3, IntentWebhookStep
  <2>2. UNCHANGED <<snap, cash>>
    BY <1>3 DEF IntentWebhook
  <2>3. /\ e = "succeeded" => intent[a] = "succeeded"
        /\ e = "canceled" => intent[a] = "canceled"
    BY <1>3 DEF IntentWebhook, Receive, Emitted
  <2>4. Attached(a, st)
    BY <1>0, <1>3 DEF IntentWebhook, Receive, Emitted, Attached, AttachedStatus, CanAttach,
       providerVars, RowOK, AbsentRow
  <2>5. CASE AllocateInventory(a, st, tasks)
    BY <2>1, <2>2, <2>4, <2>5, AllocateMaps
  <2>6. CASE e = "succeeded" /\ FinalizeCapturedPayment(a, st) /\ UNCHANGED stock
    BY <2>1, <2>2, <2>3, <2>4, <2>6, FinalizeMaps
  <2>7. CASE e = "canceled" /\ ReleaseUnpaidPayment(a, st)
    <3>1. \/ alloc[a] \notin ActiveAlloc /\ UNCHANGED stock
          \/ alloc[a] \in ActiveAlloc
             /\ stock' = [p \in Products |-> stock[p] + snap[a].items[p]]
      BY <2>7 DEF ReleaseUnpaidPayment, orderVars
    <3>2. ReleaseAttempt(a, st) /\ intent[a] # "succeeded" /\ UNCHANGED intent
      BY <2>3, <2>4, <2>7 DEF ReleaseUnpaidPayment, Attached
    <3>3. status[a] # "ABSENT" /\ (st = status[a] \/ st = "PENDING")
      BY <2>4 DEF Attached
    <3> HIDE DEF st
    <3> QED BY <2>1, <2>2, <3>1, <3>2, <3>3, ReleaseMaps
  <2>8. CASE status' = [status EXCEPT ![a] = st] /\ UNCHANGED orderVars
    <3>1. /\ UNCHANGED <<stock, alloc, intent>>
          /\ st = status[a] \/ (st = "PENDING" /\ status[a] \in {"PENDING", "RECONCILIATION_REQUIRED"})
      BY <2>4, <2>8 DEF orderVars, Attached
    <3> HIDE DEF st
    <3>2. status'[a] = st
      BY <2>8 DEF IInv, TypeOK
    <3>3. DealState(a)' = DealState(a)
      BY <1>0, <3>1, <3>2 DEF DealState, OpenStatus
    <3> QED BY <2>1, <2>2, <3>1, <3>3, Quiet
  <2> QED BY <1>3, <2>5, <2>6, <2>7, <2>8 DEF IntentWebhook
<1>4. ASSUME NEW e \in Subscribed, SessionWebhook(a, e)
      PROVE Silent \/ CallsOff(a)
  <2> DEFINE st == IF intent[a] = "none" THEN status[a] ELSE AttachedStatus(a)
  <2>1. StepOf(a) /\ UNCHANGED <<snap, cash, stock, alloc, intent>>
    BY <1>4, SessionWebhookStep DEF SessionWebhook, orderVars, cartVars, providerVars
  <2>2. status[a] # "ABSENT"
    BY <1>0, <1>4 DEF SessionWebhook, RowOK, AbsentRow
  <2>3. st = status[a] \/ (st = "PENDING" /\ status[a] \in {"PENDING", "RECONCILIATION_REQUIRED"})
    BY <1>4 DEF SessionWebhook, AttachedStatus, CanAttach
  <2>4. \/ status' = [status EXCEPT ![a] = st]
        \/ /\ sess[a] = "expired" /\ alloc[a] = "NONE" /\ ReleaseAttempt(a, st)
    BY <1>4 DEF SessionWebhook, Receive, Emitted
  <2> HIDE DEF st
  <2>5. CASE status' = [status EXCEPT ![a] = st]
    <3>1. status'[a] = st
      BY <2>5 DEF IInv, TypeOK
    <3>2. DealState(a)' = DealState(a)
      BY <1>0, <2>1, <2>3, <3>1 DEF DealState, OpenStatus
    <3> QED BY <2>1, <3>2, Quiet
  <2>6. CASE sess[a] = "expired" /\ alloc[a] = "NONE" /\ ReleaseAttempt(a, st)
    <3>1. intent[a] # "succeeded" /\ alloc[a] \notin ActiveAlloc
      BY <1>0, <2>6 DEF RowOK, ProviderRow, ActiveAlloc
    <3> QED BY <2>1, <2>2, <2>3, <2>6, <3>1, ReleaseMaps
  <2> QED BY <2>4, <2>5, <2>6
<1> QED BY <1>1, <1>2, <1>3, <1>4 DEF HandlerStarts

LEMMA TaskMaps ==
  ASSUME IInv, IInv', NEW t \in tasks, TaskStep(t)
  PROVE LET a == t.attempt
        IN Silent \/ Reserves(a) \/ Charges(a) \/ Settles(a) \/ CallsOff(a)
<1> DEFINE a == t.attempt
<1>1. a \in Attempts /\ AnswerProves(t)
  BY NextTasksType DEF IInv, AnswersProve
<1>2. /\ RowOK(a) /\ status[a] \in Statuses /\ alloc[a] \in Allocations
      /\ status \in [Attempts -> Statuses] /\ alloc \in [Attempts -> Allocations]
      /\ intent \in [Attempts -> IntentStates] /\ ref \in [Attempts -> BOOLEAN]
  BY <1>1, Rows DEF IInv, TypeOK
<1>3. StepOf(a)
  BY CallStep, TransactionStep DEF TaskStep
<1>4. CASE \/ CreateSession(t) \/ CreateSessionFails(t) \/ RetrieveSession(t)
           \/ FetchIntent(t)   \/ TaskFails(t)          \/ TaskLost(t)
           \/ CancelSucceeds(t) \/ CancelFails(t)
  <2>1. UNCHANGED <<status, alloc, snap, stock, cash>>
    BY <1>4 DEF CreateSession, CreateSessionFails, RetrieveSession, FetchIntent, TaskFails,
       TaskLost, CancelSucceeds, CancelFails, attemptVars, orderVars, cartVars
  <2>2. intent'[a] = "succeeded" <=> intent[a] = "succeeded"
    BY <1>1, <1>2, <1>4 DEF CreateSession, CreateSessionFails, RetrieveSession, FetchIntent,
       TaskFails, TaskLost, CancelSucceeds, CancelFails, providerVars
  <2>3. DealState(a)' = DealState(a)
    BY <1>2, <2>1, <2>2 DEF DealState, Statuses
  <2> QED BY <1>1, <1>3, <2>1, <2>3, Quiet
<1>5. CASE CaptureSucceeds(t) \/ CaptureFails(t)
  <2>1. t.op = "capture_call" /\ UNCHANGED <<status, alloc, snap, stock, cash>>
    BY <1>5 DEF CaptureSucceeds, CaptureFails, attemptVars, orderVars, cartVars
  <2>2. \/ intent'[a] = intent[a]
        \/ intent[a] = "requires_capture" /\ intent'[a] = "succeeded"
    BY <1>1, <1>2, <1>5 DEF CaptureSucceeds, CaptureFails
  <2>3. CASE intent'[a] = intent[a]
    <3>1. DealState(a)' = DealState(a)
      BY <2>1, <2>3 DEF DealState
    <3> QED BY <1>1, <1>3, <2>1, <3>1, Quiet
  <2>4. CASE intent[a] = "requires_capture" /\ intent'[a] = "succeeded"
    <3>1. alloc[a] \in ActiveAlloc
      BY <1>1, <1>2, <2>1, <2>4 DEF AnswerProves, RowOK, ProviderRow, Allocations
    <3>2. status[a] \in {"PENDING", "RECONCILIATION_REQUIRED"}
      BY <1>2, <3>1 DEF RowOK, ActiveAlloc
    <3>3. DealState(a) = "reserved" /\ DealState(a)' = "charged"
      BY <2>1, <2>4, <3>1, <3>2 DEF DealState, OpenStatus
    <3> QED BY <1>1, <1>3, <2>1, <3>3, Others DEF Charges, Moves
  <2> QED BY <2>2, <2>3, <2>4
<1>6. CASE \/ StoreSession(t) \/ AttachIntent(t) \/ ApplySessionIntent(t)
           \/ MarkReconciliation(t) \/ RequestCapture(t)
  <2>1. UNCHANGED <<intent, snap, stock, cash>>
    BY <1>6 DEF StoreSession, AttachIntent, ApplySessionIntent, MarkPending, MarkReconciliation,
       RequestCapture, attemptVars, orderVars, cartVars, providerVars
  <2> DEFINE Undisturbed ==
        /\ \/ status'[a] = status[a]
           \/ status[a] \in OpenStatus /\ status'[a] \in OpenStatus
        /\ alloc'[a] \in ActiveAlloc <=> alloc[a] \in ActiveAlloc
  <2>2. ASSUME StoreSession(t) PROVE Undisturbed
    <3>1. /\ UNCHANGED alloc
          /\ \/ UNCHANGED status
             \/ status[a] \in OpenStatus /\ status'[a] = "PENDING"
      BY <1>1, <1>2, <2>2 DEF StoreSession, orderVars
    <3> QED BY <3>1 DEF OpenStatus
  <2>3. ASSUME NEW done, MarkPending(t, done) PROVE Undisturbed
    <3>1. /\ UNCHANGED alloc
          /\ \/ UNCHANGED status
             \/ status[a] \in OpenStatus /\ status'[a] = "PENDING"
      BY <1>1, <1>2, <2>3 DEF MarkPending, orderVars
    <3> QED BY <3>1 DEF OpenStatus
  <2>4. ASSUME AttachIntent(t) \/ ApplySessionIntent(t) PROVE Undisturbed
    BY <2>3, <2>4 DEF AttachIntent, ApplySessionIntent
  <2>5. ASSUME MarkReconciliation(t) PROVE Undisturbed
    <3>1. /\ status'[a] = Marked(status[a])
          /\ alloc'[a] = IF alloc[a] \in ActiveAlloc THEN "RECONCILIATION_REQUIRED" ELSE alloc[a]
      BY <1>1, <1>2, <2>5 DEF MarkReconciliation
    <3> QED BY <3>1 DEF Marked, OpenStatus, ActiveAlloc
  <2>6. ASSUME RequestCapture(t) PROVE Undisturbed
    <3>1. UNCHANGED status
      BY <2>6 DEF RequestCapture, attemptVars
    <3>2. alloc'[a] \in ActiveAlloc <=> alloc[a] \in ActiveAlloc
      BY <1>1, <1>2, <2>6 DEF RequestCapture, ActiveAlloc
    <3> QED BY <3>1, <3>2
  <2>7. Undisturbed
    BY <1>6, <2>2, <2>4, <2>5, <2>6
  <2>8. DealState(a)' = DealState(a)
    BY <1>2, <2>1, <2>7 DEF DealState, Statuses, OpenStatus
  <2> QED BY <1>1, <1>3, <2>1, <2>8, Quiet
<1>7. CASE ApplySession(t)
  <2>1. UNCHANGED <<alloc, intent, snap, stock, cash>>
    BY <1>7 DEF ApplySession, orderVars, cartVars, providerVars
  <2>2. CASE t.seenSession = "expired"
    <3>1. ReleaseAttempt(a, status[a]) /\ status[a] # "ABSENT"
      BY <1>1, <1>7, <2>2 DEF ApplySession, AnswerProves
    <3>2. intent[a] # "succeeded" /\ alloc[a] \notin ActiveAlloc
      BY <1>1, <1>2, <1>7, <2>2 DEF ApplySession, AnswerProves, RowOK, ProviderRow, ActiveAlloc,
         Authorized
    <3> QED BY <1>1, <1>3, <2>1, <3>1, <3>2, ReleaseMaps
  <2>3. CASE t.seenSession # "expired"
    <3>1. DealState(a)' = DealState(a)
      BY <1>7, <2>1, <2>3 DEF ApplySession, DealState
    <3> QED BY <1>1, <1>3, <2>1, <3>1, Quiet
  <2> QED BY <2>2, <2>3
<1>8. CASE ApplyIntent(t)
  <2>1. /\ t.op = "apply_intent" /\ ref[a] = TRUE /\ status[a] # "ABSENT"
        /\ UNCHANGED <<snap, cash, intent>>
    BY <1>1, <1>2, <1>8 DEF ApplyIntent, AnswerProves, providerVars
  <2>2. Attached(a, status[a])
    BY <1>2, <1>8, <2>1 DEF ApplyIntent, Attached, providerVars
  <2>3. CASE AllocateInventory(a, status[a], tasks \ {t})
    BY <1>1, <1>3, <2>1, <2>2, <2>3, AllocateMaps
  <2>4. CASE t.seenIntent = "succeeded" /\ FinalizeCapturedPayment(a, status[a]) /\ UNCHANGED stock
    <3>1. intent[a] = "succeeded"
      BY <1>1, <2>1, <2>4 DEF AnswerProves
    <3> QED BY <1>1, <1>3, <2>1, <2>2, <2>4, <3>1, FinalizeMaps
  <2>5. CASE t.seenIntent = "canceled" /\ ReleaseUnpaidPayment(a, status[a])
    <3>1. \/ alloc[a] \notin ActiveAlloc /\ UNCHANGED stock
          \/ alloc[a] \in ActiveAlloc
             /\ stock' = [p \in Products |-> stock[p] + snap[a].items[p]]
      BY <2>5 DEF ReleaseUnpaidPayment, orderVars
    <3>2. intent[a] = "canceled" /\ ReleaseAttempt(a, status[a])
      BY <1>1, <2>1, <2>5 DEF AnswerProves, ReleaseUnpaidPayment
    <3> QED BY <1>1, <1>3, <2>1, <3>1, <3>2, ReleaseMaps
  <2>6. CASE /\ status' = [status EXCEPT ![a] = Marked(@)]
             /\ UNCHANGED orderVars
    <3>1. status'[a] = Marked(status[a]) /\ UNCHANGED alloc
      BY <1>1, <1>2, <2>6 DEF orderVars
    <3>2. DealState(a)' = DealState(a)
      BY <2>1, <3>1 DEF DealState, Marked, OpenStatus
    <3> QED BY <1>1, <1>3, <2>1, <2>6, <3>2, Quiet DEF orderVars
  <2> QED BY <1>8, <2>3, <2>4, <2>5, <2>6 DEF ApplyIntent
<1> QED BY <1>4, <1>5, <1>6, <1>7, <1>8 DEF TaskStep

-----------------------------------------------------------------------------
LEMMA StepMaps == IInv /\ IInv' /\ [Next]_vars => [Settlement!Next]_(Settlement!vars)
<1> SUFFICES ASSUME IInv, IInv', [Next]_vars PROVE [Settlement!Next]_(Settlement!vars)
  OBVIOUS
<1>1. /\ Silent => UNCHANGED Settlement!vars
      /\ \A a \in Attempts :
           Offers(a) \/ Reserves(a) \/ Charges(a) \/ Settles(a) \/ CallsOff(a) => Settlement!Next
      /\ \A c \in Carts : Sells(c) => Settlement!Next
  BY Mapped DEF IInv
<1>2. CASE Shopping
  BY <1>1, <1>2, ShopMaps
<1>3. ASSUME NEW t \in tasks, TaskStep(t) PROVE [Settlement!Next]_(Settlement!vars)
  <2>1. t.attempt \in Attempts
    BY NextTasksType DEF IInv
  <2> QED BY <1>1, <1>3, <2>1, TaskMaps
<1>4. ASSUME NEW a \in Attempts, HandlerStarts(a) \/ ProviderStep(a)
      PROVE [Settlement!Next]_(Settlement!vars)
  BY <1>1, <1>4, HandlerMaps
<1>5. CASE (\E p \in Limited : SaleEnds(p)) \/ UNCHANGED vars
  <2>1. RowsSame /\ UNCHANGED <<snap, stock, cash>>
    BY <1>5 DEF SaleEnds, vars, RowsSame, attemptVars, orderVars, cartVars, providerVars
  <2> QED BY <1>1, <2>1, RowsSilent
<1> QED BY <1>2, <1>3, <1>4, <1>5 DEF Next

LEMMA InitMaps == Init => Settlement!Init
<1> SUFFICES ASSUME Init PROVE Settlement!Init
  OBVIOUS
<1>1. ASSUME NEW a \in Attempts
      PROVE /\ DealState(a) = "idle"
            /\ snap[a].cart = NoCart /\ snap[a].items = NoItems
  <2>1. status[a] = "ABSENT" /\ snap[a] = [cart |-> NoCart, user |-> Guest, items |-> NoItems]
    BY DEF Init, NoSnapshot
  <2> QED BY <2>1 DEF DealState, OpenStatus
<1>2. stock = InitialStock /\ cash = [c \in Carts |-> NoItems]
  BY DEF Init
<1>3. [a \in Attempts |-> DealState(a)] = [a \in Attempts |-> "idle"]
  BY <1>1
<1>4. [a \in Attempts |-> [cart |-> snap[a].cart, items |-> snap[a].items]]
        = [a \in Attempts |-> [cart |-> NoCart, items |-> NoItems]]
  BY <1>1
<1> QED BY <1>2, <1>3, <1>4 DEF Settlement!Init, Settlement!Nothing, NoItems

\* The orchestration of sessions, webhooks, captures and reconciliation
\* implements the abstract settlement.
THEOREM Implements == Spec => ImplementsSettlement
<1>1. IInv /\ IInv' /\ [Next]_vars => [Settlement!Next]_(Settlement!vars)
  BY StepMaps
<1> QED BY <1>1, InitMaps, Invariant, PTL DEF Spec, ImplementsSettlement, Settlement!Spec

-----------------------------------------------------------------------------
(* The abstract settlement keeps a cart for one deal.                      *)

DealStates == {"idle", "open", "reserved", "charged", "settled", "off"}

Shape ==
  /\ [a \in Attempts |-> DealState(a)] \in [Attempts -> DealStates]
  /\ DOMAIN cash = Carts

\* Stated about the abstract state, whatever it is made of.
LEMMA ExclusiveKept ==
  ASSUME Shape, Settlement!Exclusive, [Settlement!Next]_(Settlement!vars)
  PROVE  Shape' /\ Settlement!Exclusive'
<1> DEFINE
  deal  == [a \in Attempts |-> DealState(a)]
  terms == [a \in Attempts |-> [cart |-> snap[a].cart, items |-> snap[a].items]]
<1>1. /\ deal \in [Attempts -> DealStates] /\ DOMAIN terms = Attempts /\ DOMAIN cash = Carts
      /\ \A d \in Attempts : deal[d] \in Settlement!Holding =>
           /\ cash[terms[d].cart] = Settlement!Nothing
           /\ \A e \in Attempts \ {d} : deal[e] \in Settlement!Holding => terms[e].cart # terms[d].cart
  BY DEF Shape, Settlement!Exclusive
<1>2. \/ \E d \in Attempts :
           Settlement!Offer(d) \/ Settlement!Reserve(d) \/ Settlement!Charge(d)
             \/ Settlement!Settle(d) \/ Settlement!CallOff(d)
      \/ \E c \in Carts : Settlement!SellForCash(c)
      \/ UNCHANGED <<deal, terms, stock, cash>>
  BY DEF Settlement!Next, Settlement!vars
<1> DEFINE
  Excl == /\ deal' \in [Attempts -> DealStates] /\ DOMAIN terms' = Attempts /\ DOMAIN cash' = Carts
          /\ \A d \in Attempts : deal'[d] \in Settlement!Holding =>
               /\ cash'[terms'[d].cart] = Settlement!Nothing
               /\ \A e \in Attempts \ {d} :
                    deal'[e] \in Settlement!Holding => terms'[e].cart # terms'[d].cart
<1>3. Excl => Shape' /\ Settlement!Exclusive'
  BY DEF Shape, Settlement!Exclusive, Settlement!Holding, Settlement!Nothing
<1>4. ASSUME NEW d \in Attempts, Settlement!Offer(d) PROVE Excl
  <2>1. /\ deal[d] = "idle" /\ deal' = [deal EXCEPT ![d] = "open"] /\ cash' = cash
        /\ \E c \in Carts, goods \in Settlement!Goods \ {Settlement!Nothing} :
             terms' = [terms EXCEPT ![d] = [cart |-> c, items |-> goods]]
    BY <1>4 DEF Settlement!Offer
  <2> HIDE DEF deal, terms
  <2> QED BY <1>1, <2>1 DEF Settlement!Holding, DealStates
<1>5. ASSUME NEW d \in Attempts, Settlement!Reserve(d) PROVE Excl
  <2>1. /\ cash[terms[d].cart] = Settlement!Nothing
        /\ \A e \in Attempts : deal[e] \in Settlement!Holding => terms[e].cart # terms[d].cart
        /\ deal' = [deal EXCEPT ![d] = "reserved"] /\ terms' = terms /\ cash' = cash
    BY <1>5 DEF Settlement!Reserve, Settlement!Free
  <2> HIDE DEF deal, terms
  <2> QED BY <1>1, <2>1 DEF Settlement!Holding, DealStates
<1>6. ASSUME NEW d \in Attempts, Settlement!Charge(d) \/ Settlement!Settle(d) \/ Settlement!CallOff(d)
      PROVE Excl
  <2>1. /\ \E s \in DealStates : /\ deal' = [deal EXCEPT ![d] = s]
                                 /\ s \in Settlement!Holding => deal[d] \in Settlement!Holding
        /\ terms' = terms /\ cash' = cash
    BY <1>6 DEF Settlement!Charge, Settlement!Settle, Settlement!CallOff, Settlement!Holding,
                DealStates
  <2> HIDE DEF deal, terms
  <2> QED BY <1>1, <2>1
<1>7. ASSUME NEW c \in Carts, Settlement!SellForCash(c) PROVE Excl
  <2>1. /\ \A e \in Attempts : deal[e] \in Settlement!Holding => terms[e].cart # c
        /\ \E goods \in Settlement!Goods : cash' = [cash EXCEPT ![c] = goods]
        /\ deal' = deal /\ terms' = terms
    BY <1>7 DEF Settlement!SellForCash, Settlement!Free
  <2> HIDE DEF deal, terms
  <2> QED BY <1>1, <2>1
<1>8. ASSUME UNCHANGED <<deal, terms, stock, cash>> PROVE Excl
  <2>1. deal' = deal /\ terms' = terms /\ cash' = cash
    BY <1>8
  <2> HIDE DEF deal, terms
  <2> QED BY <1>1, <2>1
<1> QED BY <1>2, <1>3, <1>4, <1>5, <1>6, <1>7, <1>8

\* What the promise amounts to for a cart: it is never paid for twice.
THEOREM DealsExclusive == ImplementsSettlement => []Settlement!Exclusive
<1>1. Settlement!Init => Shape /\ Settlement!Exclusive
  BY DEF Settlement!Init, Shape, DealStates, Settlement!Exclusive, Settlement!Holding
<1>2. Shape /\ Settlement!Exclusive /\ [Settlement!Next]_(Settlement!vars)
        => (Shape /\ Settlement!Exclusive)'
  BY ExclusiveKept
<1> QED BY <1>1, <1>2, PTL DEF ImplementsSettlement, Settlement!Spec

\* One cart is charged for once: the promise of the abstract specification,
\* read back through the refinement.
THEOREM ChargedOnce == Spec => []ChargedOncePerCart
<1>1. IInv /\ Settlement!Exclusive => ChargedOncePerCart
  <2> SUFFICES ASSUME IInv, Settlement!Exclusive, NEW a \in Attempts, intent[a] = "succeeded"
               PROVE /\ cash[snap[a].cart] = NoItems
                     /\ \A b \in Attempts \ {a} :
                          intent[b] = "succeeded" => snap[b].cart # snap[a].cart
    BY DEF ChargedOncePerCart
  <2>1. ASSUME NEW b \in Attempts, intent[b] = "succeeded"
        PROVE DealState(b) \in {"charged", "settled"}
    <3>1. RowOK(b) /\ alloc[b] \in Allocations
      BY Rows DEF IInv, TypeOK
    <3>2. status[b] \notin {"ABSENT", "CANCELLED"}
      BY <2>1, <3>1 DEF RowOK, AbsentRow, ActiveAlloc
    <3> QED BY <2>1, <3>2, Deal
  <2> QED BY <2>1 DEF Settlement!Exclusive, Settlement!Holding, Settlement!Nothing, NoItems
<1> QED BY <1>1, DealsExclusive, Implements, Invariant, PTL

=============================================================================
