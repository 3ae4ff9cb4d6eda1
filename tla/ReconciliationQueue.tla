------------------------ MODULE ReconciliationQueue ------------------------
(***************************************************************************)
(* The order in which the reconciliation worker looks at payment attempts: *)
(* reconcileOutstanding takes the candidates with the oldest updatedAt, at *)
(* most Limit of them, and reconciles them one after the other.  What a    *)
(* reconciliation does to one attempt is the subject of module Payments;   *)
(* here it only matters whether it writes the row, because a written row   *)
(* goes to the end of the order.                                           *)
(***************************************************************************)
EXTENDS Integers, SequencesExt

CONSTANTS
  Attempts,
  Limit,     \* size of a batch (25 in the code)
  MaxLost    \* attempts whose session was never recorded (bound)

ASSUME QueueAssumption == Limit \in Nat \ {0} /\ MaxLost \in Nat

VARIABLES
  state,   \* of each attempt, as far as the worker tells attempts apart
  queue,   \* the rows by updatedAt, oldest first
  batch    \* rows of the running pass that are still to be reconciled

vars == <<state, queue, batch>>

\* waiting: PENDING in time; overdue: PENDING with an expired session;
\* RECONCILIATION_REQUIRED is lost without a session, early with one that has not
\* expired yet, and marked with an expired one.
States == {"absent", "waiting", "overdue", "lost", "early", "marked", "final"}

\* Rows with a session and no outcome.
Pending == {"waiting", "overdue", "early", "marked"}

Init ==
  /\ state = [a \in Attempts |-> "absent"]
  /\ queue = <<>>
  /\ batch = <<>>

\* Mutant of Touched: a written row keeps its place.
NotTouched(a) == IF Contains(queue, a) THEN queue ELSE Append(queue, a)

\* The row of a is written, with a new updatedAt.
Touched(a) == Append(Remove(queue, a), a)

\* The rows reconcileOutstanding selects.
Candidate(a) == state[a] \in {"overdue", "lost", "early", "marked"}

Set(a, s) == state' = [state EXCEPT ![a] = s] /\ queue' = Touched(a)

\* startCheckout of a new attempt: its session is recorded, or the answer to its
\* creation is lost and the attempt is marked without one.
Start(a) ==
  /\ state[a] = "absent"
  /\ Set(a, "waiting")
  /\ UNCHANGED batch

LoseSession(a) ==
  /\ state[a] = "absent"
  /\ Cardinality({b \in Attempts : state[b] = "lost"}) < MaxLost
  /\ Set(a, "lost")
  /\ UNCHANGED batch

\* A request of the customer fails, or finds the payment undecided, in time; or the
\* payment was authorised and its capture is due.
MarkEarly(a) ==
  /\ state[a] = "waiting"
  /\ Set(a, "early")
  /\ UNCHANGED batch

\* The customer repeats the request with the same key in time.
Repeat(a) ==
  /\ state[a] \in {"lost", "early"}
  /\ Set(a, "waiting")
  /\ UNCHANGED batch

\* providerSessionExpiresAt passes; the row is not written.
Expire(a) ==
  /\ state[a] \in {"waiting", "early"}
  /\ state' = [state EXCEPT ![a] = IF @ = "early" THEN "marked" ELSE "overdue"]
  /\ UNCHANGED <<queue, batch>>

\* A webhook settles an attempt that has a session.
WebhookSettles(a) ==
  /\ state[a] \in Pending
  /\ Set(a, "final")
  /\ UNCHANGED batch

\* A pass of the worker begins when the one before has ended.
BeginPass ==
  LET due == SelectSeq(queue, Candidate)
  IN /\ batch = <<>>
     /\ due # <<>>
     /\ batch' = SubSeq(due, 1, IF Len(due) < Limit THEN Len(due) ELSE Limit)
     /\ UNCHANGED <<state, queue>>

\* Nothing is written: the attempt has no session to ask for, or one that is open and
\* not overdue, or it was settled since the batch was read.
Skip ==
  /\ batch # <<>>
  /\ ~ Candidate(Head(batch)) \/ state[Head(batch)] \in {"lost", "early"}
  /\ batch' = Tail(batch)
  /\ UNCHANGED <<state, queue>>

\* Stripe's answer settles the attempt, or it is (still) unsettled and marked.
Reconcile(a) ==
  /\ batch # <<>> /\ a = Head(batch)
  /\ state[a] \in {"overdue", "early", "marked"}
  /\ Set(a, "final") \/ Set(a, IF state[a] = "early" THEN "early" ELSE "marked")
  /\ batch' = Tail(batch)

\* Marking after a failed reconciliation fails as well, or the process
\* restarts: the rest of the pass is dropped.
PassAborts ==
  /\ batch # <<>>
  /\ state[Head(batch)] \in {"overdue", "early", "marked"}
  /\ batch' = <<>>
  /\ UNCHANGED <<state, queue>>

Next ==
  \/ \E a \in Attempts :
       \/ Start(a) \/ LoseSession(a) \/ MarkEarly(a) \/ Repeat(a) \/ Expire(a)
       \/ WebhookSettles(a)
       \/ Reconcile(a)
  \/ BeginPass
  \/ Skip
  \/ PassAborts

\* The timer runs a pass every 30 seconds, and a session lasts 31 minutes; a row that
\* is tried again and again is reconciled in the end, though Stripe may never settle
\* it.
Spec ==
  /\ Init /\ [][Next]_vars
  /\ WF_vars(BeginPass)
  /\ WF_vars(Skip)
  /\ \A a \in Attempts : WF_vars(Expire(a)) /\ SF_vars(Reconcile(a))

-----------------------------------------------------------------------------
\* Every attempt that exists has one place in the order, and a pass holds no
\* attempt twice.
TypeOK ==
  /\ state \in [Attempts -> States]
  /\ IsInjective(queue) /\ Range(queue) = {a \in Attempts : state[a] # "absent"}
  /\ IsInjective(batch) /\ Range(batch) \subseteq Range(queue)
  /\ Len(batch) <= Limit

\* An attempt whose session has expired is reconciled in the end, also when no
\* webhook comes: the worker does not keep looking at the same rows.
ExpiredSessionIsReconciled ==
  \A a \in Attempts : state[a] = "overdue" ~> state[a] \in {"marked", "final"}

=============================================================================
