------------------------------- MODULE MCWeb -------------------------------
(***************************************************************************)
(* The browser's side for TLC: the checkout page in two scenarios, the cart*)
(* of a tab, and the drafts the checkout page saves.  An initial state     *)
(* picks the subject, and only that one moves.                             *)
(*   payment  two payment keys, two loads of the page, nothing is saved    *)
(*   saves    one payment key, saves of two contents, payments stay on     *)
(*   cart     WebCart                                                      *)
(*   drafts   CheckoutDrafts, one cart                                     *)
(***************************************************************************)
EXTENDS WebCheckout, TLC

CONSTANTS
  Products, MaxAmount, MaxCalls,                   \* WebCart
  DraftCarts, Tabs, User, Guest, Gone, Lifetime,
  BatchSize, MaxClock, MaxLatency                  \* CheckoutDrafts

VARIABLES
  subject,
  \* of WebCart
  lines, version, late, lateAt, state, pending, queued, task, reads, waiting,
  checked, asked, wanted,
  \* of CheckoutDrafts
  owner, row, answered, attempted, claimed, held, request, clock

Cart == INSTANCE WebCart WITH loads <- reads

Drafts == INSTANCE CheckoutDrafts WITH
  Carts <- DraftCarts, Keys <- PayKeys, draft <- row, replies <- answered

\* What CheckoutDrafts takes of its constants.
ASSUME DraftsAssumption ==
  /\ User # Guest /\ Gone \notin {User, Guest}
  /\ None \notin Drafts!Fingerprints \cup Drafts!Capabilities \cup Drafts!DraftRows
  /\ Lifetime \in Nat \ {0}
  /\ MaxClock \in Nat

\* What WebCart takes of its constants.
ASSUME CartAssumption ==
  /\ MaxAmount \in Nat /\ MaxCalls \in Nat
  /\ None \notin Products \cup Cart!Changes \cup Cart!Tasks

Symmetry == Permutations(Bodies) \cup Permutations(PayKeys) \cup Permutations(Tabs)

cartVars == <<lines, version, late, lateAt, state, pending, queued, task, reads,
              waiting, checked, asked, wanted>>
draftVars == <<owner, row, answered, attempted, claimed, held, request, clock>>
AllVars == <<subject, vars, cartVars, draftVars>>

Payments ==
  saves = {} /\ form = draft.body
Saves ==
  /\ loads <= 1 /\ enabled
  /\ Cardinality(With(Open \cup Terminal \cup {"succeeded"})
       \cup {r.key : r \in {c \in calls : c.key # None}}) <= 1

AllInit ==
  /\ subject \in {"payment", "saves", "cart", "drafts"}
  /\ Init /\ Cart!Init /\ Drafts!Init
  /\ subject # "payment" => enabled
  /\ subject \in {"cart", "drafts"} => draft.body = CHOOSE b \in Bodies : TRUE
  /\ subject # "drafts" => owner = [c \in DraftCarts |-> User]

AllNext ==
  /\ UNCHANGED subject
  /\ \/ /\ subject \in {"payment", "saves"}
        /\ Next
        /\ UNCHANGED <<cartVars, draftVars>>
        /\ IF subject = "payment" THEN Payments' ELSE Saves'
     \/ subject = "cart" /\ Cart!Next /\ UNCHANGED <<vars, draftVars>>
     \/ subject = "drafts" /\ Drafts!Next /\ UNCHANGED <<vars, cartVars>>

AllSpec == AllInit /\ [][AllNext]_AllVars

\* See CheckoutDrafts and WebCart.
CapabilityRecoverable == Drafts!CapabilityRecoverable
RetryNeverOverwrites  == Drafts!RetryNeverOverwrites
ShownIsCurrent        == Cart!ShownIsCurrent
LastUpdateWins        == Cart!LastUpdateWins
=============================================================================
