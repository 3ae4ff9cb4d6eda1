----------------------------- MODULE MCProgress -----------------------------
(***************************************************************************)
(* What must happen in the end, for TLC: the reconciliation queue, the     *)
(* payment on the checkout page, and the purge of drafts; and what must    *)
(* stay possible, a release that was interrupted.  An initial state picks  *)
(* the subject; only that one moves and only its fairness counts.          *)
(***************************************************************************)
EXTENDS ReconciliationQueue

CONSTANTS
  Bodies, PayKeys, None,         \* WebCheckout
  Carts, User, Guest, Gone, Tabs, \* CheckoutDrafts
  Versions, Schema               \* Release

VARIABLES
  subject,
  \* of WebCheckout
  draft, replies, attempts, newest, enabled, stored, page, loads, misled, form,
  saveState,
  saveKey, quote, payState, attempt, returned, polls, saves, calls,
  \* of CheckoutDrafts
  owner, row, answered, attempted, claimed, held, request, clock,
  \* of Release
  candidate, pending, initial, completed, recorded, success, finalized, latest, current,
  previous, db, unresolved, marks, seeds, running, receiver, interrupted

pageVars == <<draft, replies, attempts, newest, enabled, stored, page, loads, misled,
              form, saveState, saveKey, quote, payState, attempt, returned, polls, saves, calls>>
draftVars == <<owner, row, answered, attempted, claimed, held, request, clock>>
releaseVars == <<candidate, pending, initial, completed, recorded, success, finalized, latest,
                 current, previous, db, unresolved, marks, seeds, running, receiver,
                 interrupted>>

Page == INSTANCE WebCheckout WITH
  SaveKeys <- {}, MaxPolls <- 1, MaxReloads <- 1, Switches <- {FALSE}

Drafts == INSTANCE CheckoutDrafts WITH
  Keys <- PayKeys, draft <- row, replies <- answered,
  Lifetime <- 1, BatchSize <- 1, MaxClock <- 3, MaxLatency <- 1

Releases == INSTANCE Release WITH owner <- initial

\* The second version and its fix bring a migration.
Migrations == <<{1}, {1, 2}, {1, 2}>>

\* None stands for no version, for a schema that was not recorded, for no migration
\* and for no command.
ASSUME ReleaseAssumption ==
  /\ None \notin Versions \cup UNION {Schema[v] : v \in Versions}
  /\ \A s \in SUBSET UNION {Schema[v] : v \in Versions} : s # None
  /\ None \notin [version : Versions, action : {"deploy-initial", "deploy", "rollback"}]

AllInit ==
  /\ subject \in {"queue", "page", "drafts", "releases"}
  /\ Init /\ Page!Init /\ Drafts!Init /\ Releases!Init
  /\ subject # "page" => enabled
  /\ subject # "drafts" => owner = [c \in Carts |-> User]

AllNext ==
  /\ UNCHANGED subject
  /\ \/ subject = "queue" /\ Next /\ UNCHANGED <<pageVars, draftVars, releaseVars>>
     \/ subject = "page" /\ Page!Next /\ UNCHANGED <<vars, draftVars, releaseVars>>
     \/ subject = "drafts" /\ Drafts!Next /\ UNCHANGED <<vars, pageVars, releaseVars>>
     \/ subject = "releases" /\ Releases!Next /\ UNCHANGED <<vars, pageVars, draftVars>>

\* The fairness of each component, while it is the subject.
QueueFairness ==
  /\ WF_vars(subject = "queue" /\ BeginPass)
  /\ WF_vars(subject = "queue" /\ Skip)
  /\ \A a \in Attempts : /\ WF_vars(subject = "queue" /\ Expire(a))
                        /\ SF_vars(subject = "queue" /\ Reconcile(a))

AllSpec ==
  /\ AllInit /\ [][AllNext]_<<subject, vars, pageVars, draftVars, releaseVars>>
  /\ QueueFairness
  /\ WF_pageVars(subject = "page" /\ Page!Answers)
  /\ WF_draftVars(subject = "drafts" /\ Drafts!PurgeSome)

\* See WebCheckout, CheckoutDrafts and Release.
NeverChecksForEver  == Page!NeverChecksForEver
ExpiredDraftsPurged == Drafts!ExpiredDraftsPurged
RunsOnItsSchema     == subject = "releases" => Releases!RunsOnItsSchema
Resumable           == subject = "releases" => Releases!Resumable
=============================================================================
