------------------------------- MODULE Likes -------------------------------
(***************************************************************************)
(* The likes of completed purchases: LikesService (apps/api/src/likes) and *)
(* the pages that press and show them (apps/web/src/features/likes).       *)
(*                                                                         *)
(* A press is an upsert that the database client carries out as a read and *)
(* an insert or an atomic increment; a page that has waited too long lets  *)
(* the shopper press again while the API still works on the first press.   *)
(* The public baseline, a constant that is added, is left out.             *)
(***************************************************************************)
EXTENDS Integers, FiniteSets, FiniteSetsExt

CONSTANTS
  Purchases,  \* payment attempts with their orders
  Pages,
  Requests,   \* presses the API can work on at once
  MaxPresses  \* bound: presses of a purchase that are accepted

VARIABLES
  rows,      \* PurchaseLike.count, 0 without a row
  eligible,  \* purchases that are paid and whose capability the page still has
  pressed,   \* presses that were accepted
  requests,  \* what the API does
  page       \* the count each page shows, its load and its button

vars == <<rows, eligible, pressed, requests, page>>

-----------------------------------------------------------------------------
Idle == [phase |-> "idle"]

Init ==
  /\ rows     = [p \in Purchases |-> 0]
  /\ eligible = {}
  /\ pressed  = [p \in Purchases |-> 0]
  /\ requests = [q \in Requests |-> Idle]
  /\ page     = [t \in Pages |-> [shown |-> 0, load |-> "asked", read |-> 0, accepted |-> 0,
                                  button |-> "idle"]]

\* The aggregate over all purchases.
Sum == MapThenSumSet(LAMBDA p : rows[p], Purchases)

\* A purchase is paid, or the capability of its checkout expires.
Change(p) ==
  /\ eligible' \in {eligible \cup {p}, eligible \ {p}}
  /\ UNCHANGED <<rows, pressed, requests, page>>

-----------------------------------------------------------------------------
(* The page                                                                *)

\* The count that is asked for when the page opens is read, and arrives late.
ReadCount(t) ==
  /\ page[t].load = "asked"
  /\ page' = [page EXCEPT ![t].load = "read", ![t].read = Sum]
  /\ UNCHANGED <<rows, eligible, pressed, requests>>

\* It is dropped if a press was answered since it was asked for.
Loaded(t) ==
  /\ page[t].load = "read"
  /\ page' = [page EXCEPT ![t].load = "done",
                          ![t].shown = IF page[t].accepted = 0 THEN page[t].read ELSE @]
  /\ UNCHANGED <<rows, eligible, pressed, requests>>

\* One press of a page at a time.
Press(t, p, q) ==
  /\ page[t].button # "pending" /\ requests[q] = Idle
  /\ page' = [page EXCEPT ![t].button = "pending"]
  /\ requests' = [requests EXCEPT ![q] =
       [phase |-> "sent", page |-> t, purchase |-> p, retried |-> FALSE, count |-> 0,
        live |-> TRUE]]
  /\ UNCHANGED <<rows, eligible, pressed>>

\* LIKES_REQUEST_TIMEOUT_MS is over, or the answer is lost.
GiveUp(q) ==
  /\ requests[q] # Idle /\ requests[q].live
  /\ page' = [page EXCEPT ![requests[q].page].button = "error"]
  /\ requests' = [requests EXCEPT ![q].live = FALSE]
  /\ UNCHANGED <<rows, eligible, pressed>>

Ends(q, button) ==
  /\ requests' = [requests EXCEPT ![q] = Idle]
  /\ page' = IF requests[q].live
             THEN [page EXCEPT ![requests[q].page].button = button] ELSE page

\* create has answered with the count.
Answer(q) ==
  LET r == requests[q] IN
  /\ r.phase = "counted"
  /\ requests' = [requests EXCEPT ![q] = Idle]
  /\ page' = IF ~ r.live THEN page
             ELSE [page EXCEPT ![r.page].button = "sent", ![r.page].shown = r.count,
                               ![r.page].accepted = r.count]
  /\ UNCHANGED <<rows, eligible, pressed>>

-----------------------------------------------------------------------------
(* LikesService.create                                                     *)

Goes(q, phase) == requests' = [requests EXCEPT ![q].phase = phase] /\ UNCHANGED page

\* The guard and the query for the paid order.
Check(q) ==
  LET p == requests[q].purchase IN
  /\ requests[q].phase = "sent"
  /\ IF p \in eligible /\ pressed[p] < MaxPresses
     THEN Goes(q, "look") /\ pressed' = [pressed EXCEPT ![p] = @ + 1]
     ELSE Ends(q, "error") /\ UNCHANGED pressed
  /\ UNCHANGED <<rows, eligible>>

Look(q) ==
  /\ requests[q].phase = "look"
  /\ Goes(q, IF rows[requests[q].purchase] = 0 THEN "insert" ELSE "update")
  /\ UNCHANGED <<rows, eligible, pressed>>

\* Mutant: a press that loses the race for the row is refused.
InsertOnce(q) ==
  LET p == requests[q].purchase IN
  /\ requests[q].phase = "insert"
  /\ IF rows[p] = 0 THEN rows' = [rows EXCEPT ![p] = 1] /\ Goes(q, "count")
     ELSE Ends(q, "error") /\ UNCHANGED rows
  /\ UNCHANGED <<eligible, pressed>>

\* The row is inserted, or another press was faster and the upsert is tried once
\* more.
Insert(q) ==
  LET p == requests[q].purchase IN
  /\ requests[q].phase = "insert"
  /\ \/ rows[p] = 0 /\ rows' = [rows EXCEPT ![p] = 1] /\ Goes(q, "count")
     \/ /\ rows[p] # 0 /\ ~ requests[q].retried
        /\ requests' = [requests EXCEPT ![q].phase = "look", ![q].retried = TRUE]
        /\ UNCHANGED <<rows, page>>
  /\ UNCHANGED <<eligible, pressed>>

Update(q) ==
  LET p == requests[q].purchase IN
  /\ requests[q].phase = "update"
  /\ rows' = [rows EXCEPT ![p] = @ + 1]
  /\ Goes(q, "count")
  /\ UNCHANGED <<eligible, pressed>>

\* The database refuses a statement: the press was not accepted after all.
Fail(q) ==
  /\ requests[q].phase \in {"look", "insert", "update"}
  /\ pressed' = [pressed EXCEPT ![requests[q].purchase] = @ - 1]
  /\ Ends(q, "error")
  /\ UNCHANGED <<rows, eligible>>

Count(q) ==
  /\ requests[q].phase = "count"
  /\ requests' = [requests EXCEPT ![q].phase = "counted", ![q].count = Sum]
  /\ UNCHANGED <<rows, eligible, pressed, page>>

-----------------------------------------------------------------------------
Next ==
  \/ \E p \in Purchases : Change(p)
  \/ \E t \in Pages : ReadCount(t) \/ Loaded(t)
  \/ \E t \in Pages, p \in Purchases, q \in Requests : Press(t, p, q)
  \/ \E q \in Requests : GiveUp(q) \/ Check(q) \/ Look(q) \/ Insert(q) \/ Update(q)
                           \/ Fail(q) \/ Count(q) \/ Answer(q)

Spec == Init /\ [][Next]_vars

-----------------------------------------------------------------------------
(* Properties                                                              *)

Working(p) ==
  {q \in Requests : requests[q].phase \in {"look", "insert", "update"} /\ requests[q].purchase = p}

\* Every press that is accepted is counted once, also when two first presses race
\* for the row; and a page keeps the count that a press of its own was answered with,
\* whenever the count it asked for at first arrives.
EveryPressCounted ==
  /\ \A p \in Purchases : rows[p] + Cardinality(Working(p)) = pressed[p]
  /\ \A t \in Pages : page[t].accepted # 0 => page[t].shown = page[t].accepted

=============================================================================
