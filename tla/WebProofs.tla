------------------------------ MODULE WebProofs ------------------------------
(***************************************************************************)
(* Theorems about the browser's side: the checkout page (WebCheckout), the *)
(* drafts it saves (CheckoutDrafts) and the cart of a tab (WebCart).       *)
(***************************************************************************)
EXTENDS MCWeb, FiniteSetTheorems, TLAPS

-----------------------------------------------------------------------------
(* The checkout page: the invariant                                        *)

Final == Terminal \cup {"succeeded"}

AttemptRows == [status : Statuses, version : Nat]
StoredRecords == [key : PayKeys, confirmed : BOOLEAN]
CallRecords ==
  [kind : {"start", "status", "reconcile"}, key : PayKeys \cup {None}, fresh : BOOLEAN,
   phase : {"sent", "done", "timer"}, run : {"mounted", "left", "gone"}, current : BOOLEAN,
   result : Statuses \cup {None, "disabled", "unknown"}]

\* The types of what a payment depends on.
PageTypes ==
  /\ draft.version \in Nat
  /\ attempts \in [PayKeys -> AttemptRows \cup {None}]
  /\ newest \in PayKeys \cup {None}
  /\ newest # None => attempts[newest] # None
  /\ enabled \in BOOLEAN
  /\ stored \in StoredRecords \cup {None}
  /\ attempt \in StoredRecords \cup {None}
  /\ calls \subseteq CallRecords
  /\ \A r \in calls : r.kind = "start" => r.key \in PayKeys

\* The attempt of key k ended this way, and stays so.
Ended(k, s) == k \in PayKeys /\ attempts[k] # None /\ attempts[k].status = s

\* A final status that was read is one for good.
ReadsAreFinal ==
  \A r \in calls : r.kind # "start" /\ r.phase = "done" /\ r.result \in Final =>
    Ended(r.key, r.result)

\* The answer to this request can still change what the page shows of the payment.
Decides(r) == r.run = "mounted" /\ (r.kind = "status" => r.current)

\* At most one request decides, and only while nothing final is on show.
OneCheck ==
  /\ \A r \in calls : r.kind # "start" => page = "open" /\ r.run = "mounted"
  /\ \A r \in calls : Decides(r) =>
       page = "open" /\ payState \in Open \cup {"checking", "starting"}
  /\ \A r, s \in calls : Decides(r) /\ Decides(s) => r = s

\* A final status on show is the one of the remembered attempt.
EndIsReal ==
  page = "open" /\ payState \in Final => attempt # None /\ Ended(attempt.key, payState)

PageInv == PageTypes /\ ReadsAreFinal /\ OneCheck /\ EndIsReal

-----------------------------------------------------------------------------
(* The checkout page: one attempt at a time                                *)

NonePaid == With({"succeeded"}) = {}

\* The attempt of this key can be paid or was, or will be once its request is
\* carried out.
Hot(k) ==
  \/ k \in With(Open \cup {"succeeded"})
  \/ attempts[k] = None /\ \E r \in calls : r.kind = "start" /\ r.phase = "sent" /\ r.key = k

\* The page that is open and the tab remember the same attempt.
TabAgrees == ~ misled /\ page = "open" => KeyOf(attempt) = KeyOf(stored)

\* While none succeeded, the tab remembers the attempt that can be paid.
HotIsRemembered ==
  ~ misled /\ NonePaid => \A k \in PayKeys : Hot(k) => KeyOf(stored) = k

\* A start the page waits for is about the attempt the page remembers; when it is
\* the first with its key, no other request has the key, and until the API accepts
\* it there is no attempt.
StartsKnown ==
  \A r \in calls : r.kind = "start" /\ r.run = "mounted" =>
    /\ KeyOf(attempt) = r.key
    /\ r.result = "disabled" => r.phase = "done"
    /\ r.fresh =>
         /\ \A s \in calls : s.kind = "start" /\ s.key = r.key => s = r
         /\ r.phase = "sent" \/ r.result = "disabled" => attempts[r.key] = None

OneLive == ~ misled => \A k, l \in With(Open \cup {"succeeded"}) : k = l

OneLiveInv == PageInv /\ TabAgrees /\ HotIsRemembered /\ StartsKnown /\ OneLive

-----------------------------------------------------------------------------
(* The checkout page: what a step keeps                                    *)

LEMMA InitPage == Init => PageInv
BY WebCheckoutAssumption DEF Init, PageInv, PageTypes, ReadsAreFinal, OneCheck, Decides, EndIsReal, Final,
   Terminal

\* Requests that a page leaves behind.
LeftCalls ==
  {r \in CallRecords : r.kind = "start" /\ r.key \in PayKeys /\ r.run # "mounted"}

LEMMA LeftBehind ==
  ASSUME PageTypes
  PROVE  /\ AllAbandoned \subseteq LeftCalls
         /\ \A r \in calls : Abandoned(r) \subseteq LeftCalls
<1>1. ASSUME NEW r \in calls PROVE Abandoned(r) \subseteq LeftCalls
  BY DEF PageTypes, Abandoned, CallRecords, LeftCalls
<1> QED BY <1>1 DEF AllAbandoned

LEMMA EnterKeeps ==
  ASSUME PageInv, NEW url, Enter(url) \/ Reload PROVE PageInv'
<1>1. PICK old : /\ calls' = old \cup FirstCheck
                 /\ old \subseteq CallRecords
                 /\ \A r \in old :
                      r.kind = "start" /\ r.key \in PayKeys /\ r.run # "mounted"
  <2>1. CASE Enter(url)
    <3>1. \A r \in calls : r.kind = "start" /\ r.run # "mounted"
      BY <2>1 DEF Enter, PageInv, OneCheck, Decides
    <3> QED BY <2>1, <3>1 DEF Enter, PageInv, PageTypes
  <2>2. CASE Reload
    BY <2>2, LeftBehind DEF Reload, PageInv, LeftCalls
  <2> QED BY <2>1, <2>2
<1>2. /\ UNCHANGED <<draft, attempts, newest, enabled, stored>>
      /\ page' = "open" /\ attempt' = stored
      /\ payState' \in {"checking", "idle", "unknown"}
      /\ stored # None => payState' = "checking"
  BY DEF Enter, Reload, Shown, api
<1> DEFINE c == Call("status", None, FALSE)
<1>3. c \in CallRecords /\ c.kind = "status" /\ c.phase = "sent" /\ c.run = "mounted"
  BY DEF Call, CallRecords
<1>4. FirstCheck \subseteq {c} /\ (stored = None => FirstCheck = {})
  BY DEF FirstCheck
<1> HIDE DEF c
<1>5. PageTypes'
  <2>1. /\ calls' \subseteq CallRecords
        /\ \A r \in calls' : r.kind = "start" => r.key \in PayKeys
    BY <1>1, <1>3, <1>4
  <2> QED BY <1>2, <2>1 DEF PageInv, PageTypes
<1>6. ReadsAreFinal'
  BY <1>1, <1>2, <1>3, <1>4 DEF PageInv, ReadsAreFinal, Ended
<1>7. OneCheck'
  BY <1>1, <1>2, <1>3, <1>4 DEF PageInv, OneCheck, Decides, Open
<1>8. EndIsReal'
  BY <1>2 DEF EndIsReal, Final, Terminal
<1> QED BY <1>5, <1>6, <1>7, <1>8 DEF PageInv

LEMMA LeaveKeeps == ASSUME PageInv, Leave \/ ContinueShopping PROVE PageInv'
<1>1. /\ page' = "away"
      /\ calls' \subseteq LeftCalls
      /\ stored' \in {stored, None}
      /\ UNCHANGED <<draft, attempts, newest, enabled, attempt>>
  <2>1. CASE Leave
    <3>1. ASSUME NEW r \in calls, r.kind = "start"
          PROVE  [r EXCEPT !.run = IF r.run = "mounted" THEN "left" ELSE @, !.current = FALSE]
                   \in LeftCalls
      BY <3>1 DEF PageInv, PageTypes, CallRecords, LeftCalls
    <3> QED BY <2>1, <3>1 DEF Leave, api, payment
  <2>2. CASE ContinueShopping
    BY <2>2, LeftBehind DEF ContinueShopping, PageInv, api, payment
  <2> QED BY <2>1, <2>2
<1> QED
  BY <1>1 DEF PageInv, PageTypes, ReadsAreFinal, OneCheck, Decides, EndIsReal, LeftCalls

\* Steps of the form and of its saves, and the switch.
LEMMA ScreenKeeps ==
  ASSUME PageInv,
         draft'.version \in Nat, enabled' \in BOOLEAN,
         UNCHANGED <<attempts, newest, stored, page, payState, attempt, calls>>
  PROVE  PageInv'
BY DEF PageInv, PageTypes, ReadsAreFinal, OneCheck, Decides, EndIsReal, Ended

LEMMA ApplySaveVersion ==
  ASSUME PageInv, NEW s \in saves, ApplySave(s) PROVE draft'.version \in Nat
BY DEF PageInv, PageTypes, ApplySave

\* A request is replaced by one that decides only if it did.
LEMMA ReplacedDecides ==
  ASSUME OneCheck, NEW r \in calls, NEW s,
         calls' = (calls \ {r}) \cup {s}, page' = page,
         s.kind # "start" => r.kind # "start" /\ s.run = r.run,
         Decides(s) => Decides(r),
         payState' = payState \/ (Decides(r) /\ payState' \in Open)
  PROVE  OneCheck'
<1>1. \A c \in calls' : c.kind # "start" => page' = "open" /\ c.run = "mounted"
  BY DEF OneCheck
<1>2. \A c, d \in calls' : Decides(c) /\ Decides(d) => c = d
  BY DEF OneCheck
<1>3. \A c \in calls' : Decides(c) =>
        page' = "open" /\ payState' \in Open \cup {"checking", "starting"}
  BY DEF OneCheck
<1> QED BY <1>1, <1>2, <1>3 DEF OneCheck, Decides

\* A step of one status request.
LEMMA StatusKeeps ==
  ASSUME PageInv, NEW r \in calls,
         ReadStatus(r) \/ Checked(r) \/ CheckFails(r) \/ Poll(r) \/ Reconciled(r)
  PROVE  PageInv'
<1>1. CASE ReadStatus(r)
  <2>1. PICK s : /\ s = [r EXCEPT !.phase = "done", !.key = newest,
                           !.result = IF newest = None THEN None ELSE attempts[newest].status]
                 /\ calls' = (calls \ {r}) \cup {s}
    BY <1>1 DEF ReadStatus, Replace
  <2>2. r \in CallRecords /\ r.kind # "start"
    BY <1>1 DEF ReadStatus, PageInv, PageTypes
  <2>3. newest # None => attempts[newest] \in AttemptRows
    BY DEF PageInv, PageTypes
  <2>8. /\ s \in CallRecords /\ s.kind = r.kind /\ s.run = r.run /\ s.current = r.current
        /\ s.key = newest /\ s.result = IF newest = None THEN None ELSE attempts[newest].status
    BY <2>1, <2>2, <2>3 DEF PageInv, PageTypes, CallRecords, AttemptRows
  <2>9. s.result \in Final => Ended(s.key, s.result)
    BY <2>3, <2>8, WebCheckoutAssumption
    DEF PageInv, PageTypes, Ended, Final, Statuses, Terminal
  <2>4. UNCHANGED <<draft, attempts, newest, enabled, stored, attempt, page, payState>>
    BY <1>1 DEF ReadStatus, api, tab, payment
  <2>5. PageTypes'
    BY <2>1, <2>2, <2>4, <2>8 DEF PageInv, PageTypes
  <2>6. ReadsAreFinal' /\ EndIsReal'
    BY <2>1, <2>4, <2>9 DEF PageInv, ReadsAreFinal, EndIsReal, Ended
  <2>7. OneCheck'
    <3>1. Decides(s) => Decides(r)
      BY <2>8 DEF Decides
    <3>2. OneCheck /\ calls' = (calls \ {r}) \cup {s} /\ page' = page /\ payState' = payState
      BY <2>1, <2>4 DEF PageInv
    <3>3. s.kind # "start" => r.kind # "start" /\ s.run = r.run
      BY <2>8
    <3> QED BY <3>1, <3>2, <3>3, ReplacedDecides
  <2> QED BY <2>5, <2>6, <2>7 DEF PageInv
<1>2. CASE Checked(r)
  <2>1. UNCHANGED <<draft, attempts, newest, enabled, stored, attempt, page>>
    BY <1>2 DEF Checked, api, tab
  <2>2. r.kind = "status" /\ r.phase = "done"
    BY <1>2 DEF Checked
  <2>3. CASE r.current /\ Correlates(r, attempt) /\ PollAgain(r.result)
    <3>1. PICK s : /\ s = [Call("status", None, FALSE) EXCEPT !.phase = "timer"]
                   /\ calls' = (calls \ {r}) \cup {s} /\ payState' = r.result
      BY <1>2, <2>3 DEF Checked, Replace
    <3>2. s \in CallRecords /\ s.kind = "status" /\ s.phase = "timer" /\ s.current
          /\ s.run = "mounted"
      BY <3>1 DEF Call, CallRecords
    <3>3. PageTypes'
      BY <2>1, <3>1, <3>2 DEF PageInv, PageTypes
    <3>4. payState' \in Open
      BY <2>3, <3>1 DEF PollAgain, Open
    <3>5. ReadsAreFinal'
      BY <2>1, <3>1, <3>2 DEF PageInv, ReadsAreFinal, Ended
    <3>6. OneCheck'
      <4>1. s.run = r.run /\ Decides(r)
        BY <2>2, <2>3, <3>2 DEF PageInv, OneCheck, Decides
      <4> QED BY <2>1, <2>2, <3>1, <3>2, <3>4, <4>1, ReplacedDecides DEF PageInv
    <3>7. EndIsReal'
      BY <3>4 DEF EndIsReal, Open, Final, Terminal
    <3> QED BY <3>3, <3>5, <3>6, <3>7 DEF PageInv
  <2>4. CASE ~ (r.current /\ Correlates(r, attempt) /\ PollAgain(r.result))
    <3>1. /\ calls' = calls \ {r}
          /\ ~ r.current => payState' = payState
          /\ r.current => payState' = IF Correlates(r, attempt) THEN r.result ELSE "unknown"
      BY <1>2, <2>4 DEF Checked, Remove
    <3>2. PageTypes' /\ ReadsAreFinal'
      BY <2>1, <3>1 DEF PageInv, PageTypes, ReadsAreFinal, Ended
    <3>3. OneCheck'
      BY <2>1, <2>2, <3>1 DEF PageInv, OneCheck, Decides
    <3>4. EndIsReal'
      BY <2>1, <2>2, <3>1
      DEF PageInv, EndIsReal, ReadsAreFinal, Correlates, Ended, Final, Terminal
    <3> QED BY <3>2, <3>3, <3>4 DEF PageInv
  <2> QED BY <2>3, <2>4
<1>3. CASE CheckFails(r)
  <2>1. /\ UNCHANGED <<draft, attempts, newest, enabled, stored, attempt, page>>
        /\ calls' = calls \ {r} /\ r.kind = "status"
        /\ payState' = IF r.current THEN "unknown" ELSE payState
    BY <1>3 DEF CheckFails, Remove, api, tab
  <2> QED
    BY <2>1
    DEF PageInv, PageTypes, ReadsAreFinal, OneCheck, Decides, EndIsReal, Ended, Final, Terminal
<1>4. CASE Poll(r)
  <2>1. UNCHANGED <<draft, attempts, newest, enabled, stored, page>> /\ r.kind = "status"
    BY <1>4 DEF Poll, api, tab
  <2>2. CASE ~ r.current
    BY <1>4, <2>1, <2>2
    DEF Poll, Remove, PageInv, PageTypes, ReadsAreFinal, OneCheck, Decides, EndIsReal, Ended
  <2>3. CASE r.current /\ stored = None
    BY <1>4, <2>1, <2>3
    DEF Poll, Remove, PageInv, PageTypes, ReadsAreFinal, OneCheck, Decides, EndIsReal, Ended, Final,
        Terminal
  <2>4. CASE r.current /\ stored # None
    <3>1. PICK s : /\ s = [r EXCEPT !.phase = "sent"]
                   /\ calls' = (calls \ {r}) \cup {s} /\ payState' = payState
                   /\ attempt' = stored
      BY <1>4, <2>4 DEF Poll, Replace
    <3>2. s \in CallRecords /\ s.kind = "status" /\ s.phase = "sent" /\ s.current
          /\ s.run = r.run
      BY <2>1, <2>4, <3>1 DEF PageInv, PageTypes, CallRecords
    <3>3. PageTypes' /\ ReadsAreFinal'
      BY <2>1, <3>1, <3>2 DEF PageInv, PageTypes, ReadsAreFinal, Ended
    <3>4. OneCheck'
      BY <2>1, <2>4, <3>1, <3>2 DEF PageInv, OneCheck, Decides
    <3>5. EndIsReal'
      BY <2>1, <2>4, <3>1 DEF PageInv, OneCheck, Decides, EndIsReal, Open, Final, Terminal
    <3> QED BY <3>3, <3>4, <3>5 DEF PageInv
  <2> QED BY <2>2, <2>3, <2>4
<1>5. CASE Reconciled(r)
  <2>1. /\ UNCHANGED <<draft, attempts, newest, enabled, stored, attempt, page>>
        /\ calls' = calls \ {r} /\ r.kind = "reconcile"
        /\ payState' = IF r.phase = "done" /\ Correlates(r, attempt) THEN r.result ELSE "unknown"
    BY <1>5 DEF Reconciled, Remove, api, tab
  <2>2. PageTypes' /\ ReadsAreFinal'
    BY <2>1 DEF PageInv, PageTypes, ReadsAreFinal, Ended
  <2>3. EndIsReal'
    BY <2>1 DEF PageInv, EndIsReal, ReadsAreFinal, Correlates, Ended, Final, Terminal
  <2>4. OneCheck'
    BY <2>1 DEF PageInv, OneCheck, Decides
  <2> QED BY <2>2, <2>3, <2>4 DEF PageInv
<1> QED BY <1>1, <1>2, <1>3, <1>4, <1>5

\* What becomes outdated when the page starts a request of its own.
LEMMA OutdatedCalls ==
  ASSUME PageTypes
  PROVE  /\ Outdated \subseteq CallRecords
         /\ \A o \in Outdated : \E r \in calls :
              /\ o.kind = r.kind /\ o.key = r.key /\ o.phase = r.phase /\ o.run = r.run
              /\ o.result = r.result
              /\ o.run = "mounted" => ~ o.current
<1>1. ASSUME NEW r \in calls, NEW o, o = IF r.run = "mounted" THEN [r EXCEPT !.current = FALSE] ELSE r
      PROVE  /\ o \in CallRecords
             /\ o.kind = r.kind /\ o.key = r.key /\ o.phase = r.phase /\ o.run = r.run
             /\ o.result = r.result
             /\ o.run = "mounted" => ~ o.current
  BY <1>1 DEF PageTypes, CallRecords
<1> QED BY <1>1 DEF Outdated

\* The page starts or reconciles a payment.
LEMMA AsksKeeps ==
  ASSUME PageInv, NEW c \in CallRecords,
         c.kind \in {"start", "reconcile"}, c.phase = "sent", c.run = "mounted",
         c.kind = "start" => c.key \in PayKeys,
         page = "open", ~ Busy, calls' = Outdated \cup {c},
         payState' \in {"checking", "starting"},
         stored' \in StoredRecords \cup {None}, attempt' \in StoredRecords \cup {None},
         UNCHANGED <<draft, attempts, newest, enabled, page>>
  PROVE  PageInv'
<1>1. \A r \in calls : r.run = "mounted" => r.kind = "status"
  BY DEF Busy, Mine, PageInv, PageTypes, CallRecords
<1>2. /\ Outdated \subseteq CallRecords
      /\ \A o \in Outdated : ~ Decides(o) /\ (o.kind = "start" => o.key \in PayKeys)
      /\ \A o \in Outdated : o.kind # "start" => o.run = "mounted"
      /\ \A o \in Outdated : o.kind # "start" /\ o.phase = "done" /\ o.result \in Final =>
           Ended(o.key, o.result)
  BY <1>1, OutdatedCalls DEF PageInv, PageTypes, OneCheck, ReadsAreFinal, Decides
<1>3. PageTypes'
  BY <1>2 DEF PageInv, PageTypes
<1>4. ReadsAreFinal'
  BY <1>2 DEF ReadsAreFinal, Ended
<1>5. OneCheck'
  BY <1>2 DEF OneCheck, Decides
<1>6. EndIsReal'
  BY DEF EndIsReal, Final, Terminal
<1> QED BY <1>3, <1>4, <1>5, <1>6 DEF PageInv

LEMMA ReconcileKeeps == ASSUME PageInv, Reconcile PROVE PageInv'
<1> DEFINE c == Call("reconcile", None, FALSE)
<1>1. /\ c \in CallRecords /\ c.kind = "reconcile" /\ c.phase = "sent" /\ c.run = "mounted"
  BY DEF Call, CallRecords
<1>2. /\ page = "open" /\ ~ Busy /\ calls' = Outdated \cup {c} /\ payState' = "checking"
      /\ UNCHANGED <<draft, attempts, newest, enabled, page, stored, attempt>>
  BY DEF Reconcile, api, tab
<1> HIDE DEF c
<1> QED BY <1>1, <1>2, AsksKeeps DEF PageInv, PageTypes

LEMMA StartKeeps == ASSUME PageInv, NEW k \in PayKeys, Start(k) PROVE PageInv'
<1> DEFINE c == Call("start", k, attempt = None)
<1>1. /\ c \in CallRecords /\ c.kind = "start" /\ c.key = k /\ c.phase = "sent"
      /\ c.run = "mounted"
  BY DEF Call, CallRecords
<1>2. /\ page = "open" /\ ~ Busy /\ calls' = Outdated \cup {c} /\ payState' = "starting"
      /\ attempt' \in StoredRecords \cup {None} /\ stored' \in StoredRecords \cup {None}
      /\ UNCHANGED <<draft, attempts, newest, enabled, page>>
  BY DEF Start, api, tab, Stored, StoredRecords, PageInv, PageTypes
<1> HIDE DEF c
<1> QED BY <1>1, <1>2, AsksKeeps

\* The attempt of a request is created, or stays what it is.
LEMMA CarryOutAttempts ==
  ASSUME PageInv, NEW r \in calls, CarryOut(r)
  PROVE  /\ r \in CallRecords /\ r.kind = "start" /\ r.phase = "sent" /\ r.key \in PayKeys
         /\ attempts' \in [PayKeys -> AttemptRows \cup {None}]
         /\ \A k \in PayKeys \ {r.key} : attempts'[k] = attempts[k]
         /\ \/ /\ attempts' = attempts /\ newest' = newest
            \/ /\ enabled
               /\ attempts'[r.key] \in AttemptRows /\ attempts'[r.key].status \in Open
               /\ \/ attempts[r.key] = None /\ newest' = r.key
                  \/ attempts[r.key] # None /\ attempts[r.key].status \in Open /\ newest' = newest
<1>1. r \in CallRecords /\ r.kind = "start" /\ r.phase = "sent" /\ r.key \in PayKeys
  BY DEF CarryOut, PageInv, PageTypes
<1>2. CASE attempts' = attempts /\ newest' = newest
  BY <1>1, <1>2 DEF PageInv, PageTypes
<1>3. CASE ~ (attempts' = attempts /\ newest' = newest)
  <2>1. PICK a : /\ a \in {[status |-> x, version |-> draft.version] : x \in Open}
                 /\ attempts' = [attempts EXCEPT ![r.key] = a]
                 /\ \/ attempts[r.key] = None /\ newest' = r.key
                    \/ Resumable(r.key) /\ newest' = newest
                 /\ enabled
    BY <1>3 DEF CarryOut, Open
  <2>2. a \in AttemptRows /\ a.status \in Open
    BY <2>1 DEF AttemptRows, PageInv, PageTypes, Statuses
  <2>3. Resumable(r.key) => attempts[r.key] # None /\ attempts[r.key].status \in Open
    BY DEF Resumable, With
  <2> QED BY <1>1, <2>1, <2>2, <2>3 DEF PageInv, PageTypes
<1> QED BY <1>2, <1>3

\* The request is answered, or forgotten by whoever sent it.
LEMMA CarryOutCalls ==
  ASSUME PageInv, NEW r \in calls, CarryOut(r)
  PROVE  \/ calls' = calls \ {r}
         \/ \E s \in CallRecords :
              /\ calls' = (calls \ {r}) \cup {s}
              /\ s.kind = "start" /\ s.key = r.key /\ s.phase = "done" /\ s.run = r.run
              /\ s.fresh = r.fresh
              /\ \/ s.result = "disabled" /\ ~ enabled
                 \/ s.result = "unknown" /\ enabled
                 \/ /\ s.result = "ready" /\ enabled
                    /\ attempts'[r.key] # None /\ attempts'[r.key].status = "ready"
<1> DEFINE done(x) == [r EXCEPT !.phase = "done", !.result = x]
<1>1. \A x \in {"disabled", "unknown", "ready"} :
        /\ done(x) \in CallRecords /\ done(x).kind = "start" /\ done(x).key = r.key
        /\ done(x).phase = "done" /\ done(x).run = r.run /\ done(x).fresh = r.fresh
        /\ done(x).result = x
  <2>1. r \in CallRecords /\ r.kind = "start"
    BY DEF CarryOut, PageInv, PageTypes
  <2>2. ASSUME NEW x \in {"disabled", "unknown", "ready"}
        PROVE  done(x) \in CallRecords
    BY <2>1, <2>2 DEF CallRecords, Statuses, Open
  <2>3. ASSUME NEW x \in {"disabled", "unknown", "ready"}
        PROVE  /\ done(x).kind = r.kind /\ done(x).key = r.key
               /\ done(x).phase = "done" /\ done(x).run = r.run /\ done(x).fresh = r.fresh
               /\ done(x).result = x
    BY <2>1 DEF CallRecords
  <2> QED BY <2>1, <2>2, <2>3
<1>2. CASE ~ enabled
  <2>1. calls' = calls \ {r} \/ calls' = (calls \ {r}) \cup {done("disabled")}
    BY <1>2 DEF CarryOut, Remove, Replace
  <2> HIDE DEF done
  <2> QED BY <1>1, <1>2, <2>1
<1>3. CASE enabled
  <2>1. \/ calls' = calls \ {r}
        \/ calls' = (calls \ {r}) \cup {done("unknown")}
        \/ /\ calls' = (calls \ {r}) \cup {done("ready")}
           /\ attempts' = [attempts EXCEPT ![r.key] = [status |-> "ready", version |-> draft.version]]
    BY <1>3 DEF CarryOut, Remove, Replace
  <2>2. attempts' = [attempts EXCEPT ![r.key] = [status |-> "ready", version |-> draft.version]] =>
          attempts'[r.key] = [status |-> "ready", version |-> draft.version]
    BY DEF CarryOut, PageInv, PageTypes
  <2>3. [status |-> "ready", version |-> draft.version] # None
    BY WebCheckoutAssumption DEF PageInv, PageTypes, Statuses, Open
  <2> HIDE DEF done
  <2> QED BY <1>1, <1>3, <2>1, <2>2, <2>3
<1> QED BY <1>2, <1>3

LEMMA CarryOutKeeps == ASSUME PageInv, NEW r \in calls, CarryOut(r) PROVE PageInv'
<1>1. UNCHANGED <<draft, enabled, stored, attempt, page, payState>>
  BY DEF CarryOut, tab, payment
<1> DEFINE new == calls' \ (calls \ {r})
<1>2. /\ calls' \subseteq (calls \ {r}) \cup new
      /\ \A s \in new : s \in CallRecords /\ s.kind = "start" /\ s.key \in PayKeys
      /\ \A s \in new : s.run = r.run
      /\ \A s, t \in new : s = t
  BY CarryOutAttempts, CarryOutCalls
<1> HIDE DEF new
<1>3. newest' \in PayKeys \cup {None} /\ (newest' # None => attempts'[newest'] # None)
  <2>1. \A k \in PayKeys : attempts[k] # None => attempts'[k] # None
    BY CarryOutAttempts, WebCheckoutAssumption DEF AttemptRows
  <2>2. newest' = r.key => attempts'[r.key] # None \/ newest' = newest
    BY CarryOutAttempts, WebCheckoutAssumption DEF AttemptRows
  <2> QED BY <2>1, <2>2, CarryOutAttempts DEF PageInv, PageTypes
<1>4. PageTypes'
  BY <1>1, <1>2, <1>3, CarryOutAttempts DEF PageInv, PageTypes
<1>5. \A k, x : Ended(k, x) /\ x \in Final => attempts'[k] # None /\ attempts'[k].status = x
  BY CarryOutAttempts DEF Ended, Final, Terminal, Open
<1>6. ReadsAreFinal'
  BY <1>2, <1>5 DEF PageInv, ReadsAreFinal, Ended
<1>7. EndIsReal'
  BY <1>1, <1>5 DEF PageInv, EndIsReal, Ended
<1>8. OneCheck'
  <2>1. r.kind = "start"
    BY CarryOutAttempts
  <2>2. \A s \in new : Decides(s) => Decides(r)
    BY <1>2, <2>1 DEF Decides
  <2>3. \A c \in calls' : c.kind # "start" => page' = "open" /\ c.run = "mounted"
    BY <1>1, <1>2 DEF PageInv, OneCheck
  <2>4. \A c, d \in calls' : Decides(c) /\ Decides(d) => c = d
    BY <1>2, <2>2 DEF PageInv, OneCheck
  <2>5. \A c \in calls' : Decides(c) =>
          page' = "open" /\ payState' \in Open \cup {"checking", "starting"}
    BY <1>1, <1>2, <2>2 DEF PageInv, OneCheck
  <2> QED BY <2>3, <2>4, <2>5 DEF OneCheck, Decides
<1> QED BY <1>4, <1>6, <1>7, <1>8 DEF PageInv

LEMMA StartedKeeps == ASSUME PageInv, NEW r \in calls, Started(r) PROVE PageInv'
<1>1. /\ UNCHANGED <<draft, attempts, newest, enabled>>
      /\ stored' \in StoredRecords
      /\ r \in CallRecords /\ r.kind = "start"
  BY DEF Started, api, PageInv, PageTypes, Stored, StoredRecords
<1>2. CASE r.run = "mounted"
  <2>1. page' = "stripe" /\ attempt' \in StoredRecords
    <3>1. page' = "stripe" /\ attempt' = stored'
      BY <1>2 DEF Started
    <3> QED BY <1>1, <3>1
  <2>2. calls' \subseteq LeftCalls
    <3>1. \A c \in calls : Abandoned(c) \subseteq LeftCalls
      BY LeftBehind DEF PageInv
    <3>2. calls' = UNION {Abandoned(c) : c \in calls \ {r}}
      BY <1>2 DEF Started
    <3> QED BY <3>1, <3>2
  <2> QED
    BY <1>1, <2>1, <2>2
    DEF PageInv, PageTypes, ReadsAreFinal, OneCheck, Decides, EndIsReal, LeftCalls
<1>3. CASE r.run # "mounted"
  <2>1. UNCHANGED <<attempt, page, payState>> /\ calls' = calls \ {r}
    BY <1>3 DEF Started, Remove
  <2> QED
    BY <1>1, <2>1 DEF PageInv, PageTypes, ReadsAreFinal, OneCheck, Decides, EndIsReal, Ended
<1> QED BY <1>2, <1>3

LEMMA StartFailsKeeps == ASSUME PageInv, NEW r \in calls, StartFails(r) PROVE PageInv'
<1>1. /\ UNCHANGED <<draft, attempts, newest, enabled, page>>
      /\ stored' \in {stored, None} /\ attempt' \in {attempt, None}
      /\ r.run = "mounted" => payState' \in {"unavailable", "unknown"}
      /\ r.run # "mounted" => payState' = payState /\ attempt' = attempt
      /\ r.kind = "start"
  BY DEF StartFails, api, tab
<1>2. PICK new : calls' = (calls \ {r}) \cup new /\ new \subseteq LeftCalls
  BY LeftBehind DEF StartFails, PageInv
<1>3. PageTypes' /\ ReadsAreFinal'
  BY <1>1, <1>2 DEF PageInv, PageTypes, ReadsAreFinal, Ended, LeftCalls
<1>4. EndIsReal'
  BY <1>1 DEF PageInv, EndIsReal, Ended, Final, Terminal
<1>5. OneCheck'
  <2>1. \A c \in calls' : Decides(c) => c \in calls /\ c # r
    BY <1>2 DEF LeftCalls, Decides
  <2>2. r.run = "mounted" => \A c \in calls' : ~ Decides(c)
    BY <1>1, <2>1 DEF PageInv, OneCheck, Decides
  <2>3. \A c \in calls' : c.kind # "start" => page' = "open" /\ c.run = "mounted"
    BY <1>1, <1>2 DEF PageInv, OneCheck, LeftCalls
  <2> QED BY <1>1, <2>1, <2>2, <2>3 DEF PageInv, OneCheck, Decides
<1> QED BY <1>3, <1>4, <1>5 DEF PageInv

LEMMA LoseCallKeeps == ASSUME PageInv, NEW r \in calls, LoseCall(r) PROVE PageInv'
BY DEF LoseCall, Remove, api, tab, payment, PageInv, PageTypes, ReadsAreFinal, OneCheck, Decides,
   EndIsReal, Ended

LEMMA StartOverKeeps == ASSUME PageInv, StartOver PROVE PageInv'
<1>1. /\ UNCHANGED <<draft, attempts, newest, enabled, page, calls>>
      /\ stored' = None /\ attempt' = None /\ payState' = "idle" /\ payState \in Terminal
  BY DEF StartOver, api, tab
<1>2. \A r \in calls : ~ Decides(r)
  BY <1>1 DEF PageInv, OneCheck, Open, Terminal
<1>3. PageTypes' /\ ReadsAreFinal' /\ EndIsReal'
  BY <1>1 DEF PageInv, PageTypes, ReadsAreFinal, Ended, EndIsReal, Final, Terminal
<1>4. OneCheck'
  BY <1>1, <1>2 DEF PageInv, OneCheck, Decides
<1> QED BY <1>3, <1>4 DEF PageInv

\* An attempt moves on from an open status only.
LEMMA ProviderMoves ==
  ASSUME PageInv, NEW k \in PayKeys, Provider(k)
  PROVE  /\ attempts' \in [PayKeys -> AttemptRows \cup {None}]
         /\ \A l \in PayKeys \ {k} : attempts'[l] = attempts[l]
         /\ attempts[k] # None /\ attempts[k].status \in Open
         /\ attempts'[k] # None
         /\ attempts'[k].status = "succeeded" => NonePaid
<1>1. PICK s \in Statuses : /\ attempts[k].status \in Open
                            /\ s = "succeeded" => NonePaid
                            /\ attempts' = [attempts EXCEPT ![k].status = s]
  BY DEF Provider, NonePaid
<1>2. attempts[k] # None /\ attempts[k] \in AttemptRows
  BY DEF Provider, PageInv, PageTypes
<1>3. PICK a : a = [attempts[k] EXCEPT !.status = s] /\ attempts' = [attempts EXCEPT ![k] = a]
  BY <1>1
<1>4. a \in AttemptRows /\ a.status = s
  BY <1>2, <1>3 DEF AttemptRows
<1>5. a # None
  BY <1>4, WebCheckoutAssumption DEF AttemptRows
<1> QED BY <1>1, <1>2, <1>3, <1>4, <1>5 DEF PageInv, PageTypes

LEMMA ProviderKeeps == ASSUME PageInv, NEW k \in PayKeys, Provider(k) PROVE PageInv'
<1>1. UNCHANGED <<draft, newest, enabled, stored, attempt, page, payState, calls>>
  BY DEF Provider, tab, payment
<1>2. \A l, x : Ended(l, x) /\ x \in Final => attempts'[l] # None /\ attempts'[l].status = x
  BY ProviderMoves DEF Ended, Final, Terminal, Open
<1>3. PageTypes'
  BY <1>1, ProviderMoves DEF PageInv, PageTypes
<1>4. ReadsAreFinal' /\ EndIsReal'
  BY <1>1, <1>2 DEF PageInv, ReadsAreFinal, EndIsReal, Ended
<1>5. OneCheck'
  BY <1>1 DEF PageInv, OneCheck, Decides
<1> QED BY <1>3, <1>4, <1>5 DEF PageInv

LEMMA PageStep == PageInv /\ [Next]_vars => PageInv'
<1> SUFFICES ASSUME PageInv, [Next]_vars PROVE PageInv'
  OBVIOUS
<1>1. CASE \E url \in {"plain", "return", "cancelled"} : Enter(url)
  BY <1>1, EnterKeeps
<1>2. CASE Reload
  BY <1>2, EnterKeeps
<1>3. CASE Leave \/ ContinueShopping
  BY <1>3, LeaveKeeps
<1>4. CASE \/ \E b \in Bodies : Edit(b)
           \/ \E k \in SaveKeys : Save(k)
           \/ \E s \in saves : ApplySave(s) \/ SaveAnswered(s) \/ SaveFails(s)
           \/ Switch
           \/ UNCHANGED vars
  <2>1. /\ UNCHANGED <<attempts, newest, stored, page, payState, attempt, calls>>
        /\ enabled' \in BOOLEAN /\ (enabled' = enabled \/ Switch)
    BY <1>4, WebCheckoutAssumption
    DEF Edit, Save, ApplySave, SaveAnswered, SaveFails, Switch, vars, api, tab, payment, PageInv,
        PageTypes
  <2>2. draft'.version \in Nat
    BY <1>4, ApplySaveVersion
    DEF Edit, Save, SaveAnswered, SaveFails, Switch, vars, api, PageInv, PageTypes
  <2> QED BY <2>1, <2>2, ScreenKeeps
<1>5. CASE Answers
  <2>1. PICK r \in calls : Waiting(r)
    BY <1>5 DEF Answers
  <2> QED
    BY <2>1, StatusKeeps, CarryOutKeeps, StartedKeeps, StartFailsKeeps, LoseCallKeeps DEF Waiting
<1>6. CASE Reconcile
  BY <1>6, ReconcileKeeps
<1>7. CASE \E k \in PayKeys : Start(k)
  BY <1>7, StartKeeps
<1>8. CASE StartOver
  BY <1>8, StartOverKeeps
<1>9. CASE \E k \in PayKeys : Provider(k)
  BY <1>9, ProviderKeeps
<1> QED BY <1>1, <1>2, <1>3, <1>4, <1>5, <1>6, <1>7, <1>8, <1>9 DEF Next

\* "Payment successful" is shown only for the attempt this tab remembers, and
\* only when the API has it as succeeded (CheckoutPayment's check and reconcile):
\* whatever is reloaded, left, answered late or switched off meanwhile.
THEOREM SuccessIsTrue == Spec => []SuccessIsReal
<1>1. Spec => []PageInv
  BY InitPage, PageStep, PTL DEF Spec
<1>2. PageInv => SuccessIsReal
  BY DEF PageInv, EndIsReal, SuccessIsReal, Ended, Final
<1> QED BY <1>1, <1>2, PTL

-----------------------------------------------------------------------------
(* The checkout page: at most one attempt that can be paid                 *)

Live == With(Open \cup {"succeeded"})

MountedStart(r) == r.kind = "start" /\ r.run = "mounted"

\* The steps that create no attempt, send no start and leave the remembered key.
Quiet ==
  /\ attempts' = attempts
  /\ \A c \in calls' : c.kind = "start" =>
       \E r \in calls : r.kind = "start" /\ r.key = c.key /\ r.phase = c.phase
  /\ misled => misled'
  /\ KeyOf(stored') = KeyOf(stored)
  /\ \/ page' # "open"
     \/ attempt' = stored'
     \/ page = "open" /\ attempt' = attempt

\* No step of this kind makes the tab forget.
LEMMA QuietKeeps ==
  ASSUME OneLiveInv, Quiet PROVE TabAgrees' /\ HotIsRemembered' /\ OneLive'
<1>1. \A k : Hot(k)' => Hot(k)
  BY DEF Quiet, Hot, With
<1>2. NonePaid' => NonePaid
  BY DEF Quiet, NonePaid, With
<1>3. HotIsRemembered'
  BY <1>1, <1>2 DEF OneLiveInv, HotIsRemembered, Quiet, KeyOf
<1>4. TabAgrees'
  BY DEF OneLiveInv, TabAgrees, Quiet, KeyOf
<1>5. OneLive'
  BY DEF OneLiveInv, OneLive, Quiet, With
<1> QED BY <1>3, <1>4, <1>5

\* The starts the page waits for stay what they are.
LEMMA StartsKeep ==
  ASSUME OneLiveInv,
         \A k \in PayKeys : attempts[k] = None => attempts'[k] = None,
         \A r \in calls' : MountedStart(r) => r \in calls /\ attempt' = attempt,
         \A s \in calls' : s.kind = "start" =>
           s \in calls \/ \E t \in calls : t.kind = "start" /\ t.run # "mounted" /\ t.key = s.key
  PROVE  StartsKnown'
<1> SUFFICES ASSUME NEW r \in calls', MountedStart(r)
    PROVE  /\ KeyOf(attempt') = r.key
           /\ r.result = "disabled" => r.phase = "done"
           /\ r.fresh =>
                /\ \A s \in calls' : s.kind = "start" /\ s.key = r.key => s = r
                /\ r.phase = "sent" \/ r.result = "disabled" => attempts'[r.key] = None
  BY DEF StartsKnown, MountedStart, KeyOf
<1>1. r \in calls /\ attempt' = attempt /\ r.key \in PayKeys
  BY DEF MountedStart, OneLiveInv, PageInv, PageTypes
<1> QED BY <1>1 DEF OneLiveInv, StartsKnown, MountedStart, KeyOf

\* A page without a start under way has nothing to know.
LEMMA NoStartKnown ==
  ASSUME \A r \in calls' : ~ MountedStart(r) PROVE StartsKnown'
BY DEF StartsKnown, MountedStart

LEMMA AbandonedCopies ==
  ASSUME PageTypes, NEW r \in calls, NEW c \in Abandoned(r)
  PROVE  r.kind = "start" /\ c.kind = "start" /\ c.key = r.key /\ c.phase = r.phase /\ c.run = "gone"
BY DEF Abandoned, PageTypes, CallRecords

LEMMA EnterRemembers ==
  ASSUME OneLiveInv, NEW url, Enter(url) \/ Reload
  PROVE  TabAgrees' /\ HotIsRemembered' /\ StartsKnown' /\ OneLive'
<1>1. UNCHANGED <<attempts, stored, misled>> /\ attempt' = stored'
  BY DEF Enter, Reload, Shown, api
<1>2. \A c \in FirstCheck : c.kind = "status"
  BY DEF FirstCheck, Call
<1>3. \A c \in AllAbandoned : \E r \in calls : c \in Abandoned(r)
  BY DEF AllAbandoned
<1>4. Quiet
  BY <1>1, <1>2, <1>3, AbandonedCopies DEF Quiet, Enter, Reload, KeyOf, OneLiveInv, PageInv
<1>5. \A r \in calls' : ~ MountedStart(r)
  <2>1. CASE Reload
    <3>1. \A c \in AllAbandoned : c.run = "gone"
      BY <1>3, AbandonedCopies DEF OneLiveInv, PageInv
    <3>2. calls' = AllAbandoned \cup FirstCheck
      BY <2>1 DEF Reload
    <3> QED BY <1>2, <3>1, <3>2 DEF MountedStart
  <2>2. CASE Enter(url)
    <3>1. page # "open" /\ calls' = calls \cup FirstCheck
      BY <2>2 DEF Enter
    <3>2. \A r \in calls : ~ MountedStart(r)
      BY <3>1 DEF OneLiveInv, PageInv, OneCheck, Decides, MountedStart
    <3> QED BY <1>2, <3>1, <3>2 DEF MountedStart
  <2> QED BY <2>1, <2>2
<1> QED BY <1>4, <1>5, QuietKeeps, NoStartKnown

LEMMA LeaveRemembers ==
  ASSUME OneLiveInv, Leave \/ ContinueShopping
  PROVE  TabAgrees' /\ HotIsRemembered' /\ StartsKnown' /\ OneLive'
<1>1. CASE Leave
  <2>1. ASSUME NEW r \in calls, NEW c, r.kind = "start",
               c = [r EXCEPT !.run = IF r.run = "mounted" THEN "left" ELSE @, !.current = FALSE]
        PROVE  c.kind = "start" /\ c.key = r.key /\ c.phase = r.phase /\ c.run # "mounted"
    BY <2>1 DEF OneLiveInv, PageInv, PageTypes, CallRecords
  <2>2. Quiet
    BY <1>1, <2>1 DEF Quiet, Leave, api, KeyOf
  <2>3. \A r \in calls' : ~ MountedStart(r)
    BY <1>1, <2>1 DEF Leave, MountedStart
  <2> QED BY <2>2, <2>3, QuietKeeps, NoStartKnown
<1>2. CASE ContinueShopping
  <2>1. ~ NonePaid /\ attempts' = attempts /\ misled' = misled /\ page' = "away"
    BY <1>2 DEF ContinueShopping, OneLiveInv, PageInv, EndIsReal, Ended, NonePaid, With, Final, api
  <2>2. TabAgrees' /\ HotIsRemembered' /\ OneLive'
    BY <2>1 DEF TabAgrees, HotIsRemembered, NonePaid, With, OneLiveInv, OneLive
  <2>3. \A r \in calls' : ~ MountedStart(r)
    BY <1>2, AbandonedCopies
    DEF ContinueShopping, AllAbandoned, OneLiveInv, PageInv, MountedStart
  <2> QED BY <2>2, <2>3, NoStartKnown
<1> QED BY <1>1, <1>2

LEMMA StatusRemembers ==
  ASSUME OneLiveInv, NEW r \in calls,
         ReadStatus(r) \/ Checked(r) \/ CheckFails(r) \/ Poll(r) \/ Reconciled(r)
  PROVE  TabAgrees' /\ HotIsRemembered' /\ StartsKnown' /\ OneLive'
<1>1. r \in CallRecords /\ r.kind # "start"
  BY DEF ReadStatus, Checked, CheckFails, Poll, Reconciled, OneLiveInv, PageInv, PageTypes
<1>2. /\ UNCHANGED <<attempts, stored, page, misled>>
      /\ attempt' = attempt \/ (attempt' = stored' /\ r.current)
  BY DEF ReadStatus, Checked, CheckFails, Poll, Reconciled, api, tab, payment
<1>3. \A c \in calls' : c.kind = "start" => c \in calls
  <2>1. [Call("status", None, FALSE) EXCEPT !.phase = "timer"].kind = "status"
    BY DEF Call
  <2>2. [r EXCEPT !.phase = "sent"].kind = r.kind
    BY <1>1 DEF CallRecords
  <2>3. [r EXCEPT !.phase = "done", !.key = newest,
           !.result = IF newest = None THEN None ELSE attempts[newest].status].kind = r.kind
    BY <1>1 DEF CallRecords
  <2> QED
    BY <1>1, <2>1, <2>2, <2>3 DEF ReadStatus, Checked, CheckFails, Poll, Reconciled, Remove, Replace
<1>4. Quiet
  BY <1>2, <1>3 DEF Quiet, KeyOf
<1>5. \A c \in calls' : MountedStart(c) => c \in calls /\ attempt' = attempt
  BY <1>1, <1>2, <1>3 DEF MountedStart, OneLiveInv, PageInv, OneCheck, Decides
<1> QED BY <1>2, <1>3, <1>4, <1>5, QuietKeeps, StartsKeep

\* A page that is not busy waits for no start, and makes none up.
LEMMA OutdatedStarts ==
  ASSUME PageTypes, ~ Busy, NEW c \in Outdated, c.kind = "start"
  PROVE  /\ c.run # "mounted"
         /\ \E r \in calls : r.kind = "start" /\ r.key = c.key /\ r.phase = c.phase
BY OutdatedCalls DEF Busy, Mine

LEMMA ReconcileRemembers ==
  ASSUME OneLiveInv, Reconcile PROVE TabAgrees' /\ HotIsRemembered' /\ StartsKnown' /\ OneLive'
<1>1. Call("reconcile", None, FALSE).kind = "reconcile"
  BY DEF Call
<1>2. Quiet
  BY <1>1, OutdatedStarts DEF Quiet, Reconcile, api, tab, KeyOf, OneLiveInv, PageInv
<1>3. \A r \in calls' : ~ MountedStart(r)
  BY <1>1, OutdatedStarts DEF Reconcile, MountedStart, OneLiveInv, PageInv
<1> QED BY <1>2, <1>3, QuietKeeps, NoStartKnown

LEMMA StoredKeys ==
  ASSUME NEW k \in PayKeys, NEW b \in BOOLEAN PROVE KeyOf(Stored(k, b)) = k
<1>1. Stored(k, b) \in [key : PayKeys, confirmed : BOOLEAN]
  BY DEF Stored
<1>2. Stored(k, b).key = k
  BY DEF Stored
<1> QED BY <1>1, <1>2, WebCheckoutAssumption DEF KeyOf

LEMMA StartRemembers ==
  ASSUME OneLiveInv, NEW k \in PayKeys, Start(k)
  PROVE  TabAgrees' /\ HotIsRemembered' /\ StartsKnown' /\ OneLive'
<1> DEFINE n == Call("start", k, attempt = None)
<1>1. /\ page = "open" /\ ~ Busy /\ UNCHANGED <<attempts, page, misled>>
      /\ calls' = Outdated \cup {n}
  BY DEF Start, api, tab
<1>2. n.kind = "start" /\ n.key = k /\ n.phase = "sent" /\ n.result = None /\ n.fresh = (attempt = None)
  BY DEF Call
<1> HIDE DEF n
<1>3. \A l : Hot(l)' => Hot(l) \/ l = k
  BY <1>1, <1>2, OutdatedStarts DEF Hot, With, OneLiveInv, PageInv
<1>4. \/ KeyOf(attempt') = k /\ KeyOf(stored') = KeyOf(attempt')
      \/ misled
  <2>1. CASE attempt = None
    BY <2>1, StoredKeys DEF Start
  <2>2. CASE attempt # None
    BY <2>2, <1>1 DEF Start, KeyOf, OneLiveInv, TabAgrees
  <2> QED BY <2>1, <2>2
<1>5. TabAgrees'
  BY <1>1, <1>4 DEF TabAgrees, KeyOf
<1>6. HotIsRemembered'
  <2> SUFFICES ASSUME ~ misled', NonePaid', NEW l \in PayKeys, Hot(l)' PROVE KeyOf(stored') = l
    BY DEF HotIsRemembered, KeyOf
  <2>1. NonePaid /\ ~ misled /\ KeyOf(stored) = KeyOf(attempt)
    BY <1>1 DEF NonePaid, With, OneLiveInv, TabAgrees
  <2>2. CASE l = k
    BY <1>4, <2>1, <2>2
  <2>3. CASE l # k
    <3>1. KeyOf(stored) = l
      BY <1>3, <2>1, <2>3 DEF OneLiveInv, HotIsRemembered
    <3>2. attempt # None => KeyOf(attempt) = k
      BY DEF Start, KeyOf
    <3>3. attempt = None => KeyOf(attempt) = None
      BY DEF KeyOf
    <3> QED BY <2>1, <2>3, <3>1, <3>2, <3>3, WebCheckoutAssumption
  <2> QED BY <2>2, <2>3
<1>7. StartsKnown'
  <2>1. \A r \in calls' : MountedStart(r) => r = n
    BY <1>1, OutdatedStarts DEF MountedStart, OneLiveInv, PageInv
  <2>2. KeyOf(attempt') = k
    <3>1. CASE attempt = None
      BY <3>1, StoredKeys DEF Start
    <3>2. CASE attempt # None
      BY <3>2 DEF Start, KeyOf
    <3> QED BY <3>1, <3>2
  <2>3. ASSUME n.fresh
        PROVE  attempts'[k] = None /\ \A s \in calls' : s.kind = "start" /\ s.key = k => s = n
    <3>1. attempt = None
      BY <1>2, <2>3
    <3>2. attempts[k] = None /\ \A r \in calls : r.key # k
      BY <3>1 DEF Start, FreshKey
    <3>3. \A s \in Outdated : s.kind = "start" => s.key # k
      BY <1>1, <3>2, OutdatedStarts DEF OneLiveInv, PageInv
    <3> QED BY <1>1, <3>2, <3>3
  <2> QED BY <1>2, <2>1, <2>2, <2>3, WebCheckoutAssumption DEF StartsKnown, MountedStart, KeyOf
<1>8. OneLive'
  BY <1>1 DEF OneLiveInv, OneLive, With
<1> QED BY <1>5, <1>6, <1>7, <1>8

LEMMA CarryOutRemembers ==
  ASSUME OneLiveInv, NEW r \in calls, CarryOut(r)
  PROVE  TabAgrees' /\ HotIsRemembered' /\ StartsKnown' /\ OneLive'
<1>1. UNCHANGED <<stored, attempt, page, misled>>
  BY DEF CarryOut, tab, payment
<1>2. /\ r.kind = "start" /\ r.phase = "sent" /\ r.key \in PayKeys
      /\ \A k \in PayKeys \ {r.key} : attempts'[k] = attempts[k]
      /\ attempts'[r.key] # attempts[r.key] =>
           /\ attempts'[r.key] # None /\ attempts'[r.key].status \in Open
           /\ \/ attempts[r.key] = None
              \/ attempts[r.key] # None /\ attempts[r.key].status \in Open
      /\ ~ enabled => attempts' = attempts
  BY CarryOutAttempts, WebCheckoutAssumption DEF OneLiveInv, AttemptRows
<1>3. \A c \in calls' : c.kind = "start" =>
        \/ c \in calls /\ c # r
        \/ /\ c.key = r.key /\ c.run = r.run /\ c.fresh = r.fresh /\ c.phase = "done"
           /\ c.result = "disabled" => ~ enabled
  BY CarryOutCalls DEF OneLiveInv
<1>4. \A k \in PayKeys : k \in Live' => Hot(k)
  BY <1>2 DEF Live, Hot, With
<1>5. \A k \in PayKeys : Hot(k)' => Hot(k)
  <2>1. ASSUME NEW k \in PayKeys, Hot(k)', k \notin Live' PROVE Hot(k)
    <3>1. attempts'[k] = None /\ \E c \in calls' : c.kind = "start" /\ c.phase = "sent" /\ c.key = k
      BY <2>1 DEF Hot, Live
    <3> QED BY <1>2, <1>3, <3>1 DEF Hot
  <2> QED BY <1>4, <2>1
<1>6. NonePaid' => NonePaid
  BY <1>2 DEF NonePaid, With, Open
<1>7. TabAgrees' /\ HotIsRemembered'
  BY <1>1, <1>5, <1>6 DEF OneLiveInv, TabAgrees, HotIsRemembered, KeyOf
<1>8. StartsKnown'
  <2> SUFFICES ASSUME NEW c \in calls', MountedStart(c)
      PROVE  /\ KeyOf(attempt) = c.key
             /\ c.result = "disabled" => c.phase = "done"
             /\ c.fresh =>
                  /\ \A s \in calls' : s.kind = "start" /\ s.key = c.key => s = c
                  /\ c.phase = "sent" \/ c.result = "disabled" => attempts'[c.key] = None
    BY <1>1 DEF StartsKnown, MountedStart, KeyOf
  <2>1. CASE c \in calls /\ c # r
    <3>1. c.key \in PayKeys /\ (c.fresh => c.key # r.key)
      BY <1>2, <2>1 DEF OneLiveInv, StartsKnown, MountedStart, PageInv, PageTypes
    <3> QED BY <1>2, <1>3, <2>1, <3>1 DEF OneLiveInv, StartsKnown, MountedStart
  <2>2. CASE ~ (c \in calls /\ c # r)
    <3>1. /\ c.key = r.key /\ MountedStart(r) /\ c.fresh = r.fresh /\ c.phase = "done"
          /\ c.result = "disabled" => ~ enabled
      BY <1>2, <1>3, <2>2 DEF MountedStart
    <3>2. KeyOf(attempt) = c.key /\ (c.fresh /\ c.result = "disabled" => attempts'[c.key] = None)
      BY <1>2, <3>1 DEF OneLiveInv, StartsKnown, MountedStart
    <3>3. \A s, t \in calls' : s \notin calls \ {r} /\ t \notin calls \ {r} => s = t
      BY CarryOutCalls DEF OneLiveInv
    <3>4. c.fresh => \A s \in calls' : s.kind = "start" /\ s.key = c.key => s = c
      BY <1>2, <2>2, <3>1, <3>3 DEF OneLiveInv, StartsKnown, MountedStart
    <3> QED BY <3>1, <3>2, <3>4
  <2> QED BY <2>1, <2>2
<1>9. OneLive'
  <2> SUFFICES ASSUME ~ misled PROVE \A k, l \in Live' : k = l
    BY <1>1 DEF OneLive, Live
  <2>1. CASE attempts' = attempts
    BY <2>1 DEF OneLiveInv, OneLive, With, Live
  <2>2. CASE attempts' # attempts /\ attempts[r.key] = None
    <3>1. NonePaid
      BY <2>2 DEF CarryOut, Resumable, With, NonePaid
    <3>2. \A k, l \in PayKeys : Hot(k) /\ Hot(l) => k = l
      BY <3>1 DEF OneLiveInv, HotIsRemembered
    <3>3. Live' \subseteq PayKeys
      BY DEF Live, With
    <3> QED BY <1>4, <3>2, <3>3
  <2>3. CASE attempts[r.key] # None
    <3>1. Live' \subseteq Live
      BY <1>2, <2>3 DEF Live, With
    <3> QED BY <3>1 DEF OneLiveInv, OneLive, Live
  <2> QED BY <2>1, <2>2, <2>3
<1> QED BY <1>7, <1>8, <1>9

\* What the answer to a start leaves of the requests.
LEMMA AnsweredStarts ==
  ASSUME PageTypes, NEW r \in calls, r.kind = "start",
         \/ calls' = UNION {Abandoned(s) : s \in calls \ {r}}
         \/ calls' = (calls \ {r}) \cup Abandoned(r)
         \/ calls' = calls \ {r}
  PROVE  \A c \in calls' : c.kind = "start" =>
           /\ \E s \in calls : s.kind = "start" /\ s.key = c.key /\ s.phase = c.phase
           /\ c \in calls \/ c.run = "gone"
BY AbandonedCopies

LEMMA StartedStarts ==
  ASSUME OneLiveInv, NEW r \in calls, Started(r) PROVE StartsKnown'
<1>1. CASE r.run = "mounted"
  <2>1. \A c \in calls' : ~ MountedStart(c)
    BY <1>1, AbandonedCopies DEF Started, OneLiveInv, PageInv, MountedStart
  <2> QED BY <2>1, NoStartKnown
<1>2. CASE r.run # "mounted"
  <2>1. calls' = calls \ {r} /\ attempt' = attempt /\ attempts' = attempts
    BY <1>2 DEF Started, Remove, api
  <2> QED BY <2>1, StartsKeep
<1> QED BY <1>1, <1>2

LEMMA StartedRemembers ==
  ASSUME OneLiveInv, NEW r \in calls, Started(r)
  PROVE  TabAgrees' /\ HotIsRemembered' /\ StartsKnown' /\ OneLive'
<1>1. /\ attempts' = attempts /\ stored' = Stored(r.key, TRUE)
      /\ r.kind = "start" /\ r.key \in PayKeys /\ KeyOf(stored') = r.key
  <2>1. attempts' = attempts /\ stored' = Stored(r.key, TRUE) /\ r.kind = "start" /\ r.key \in PayKeys
    BY DEF Started, api, OneLiveInv, PageInv, PageTypes
  <2> QED BY <2>1, StoredKeys
<1>2. misled' = (misled \/ (r.run = "left" /\ KeyOf(stored') # KeyOf(stored)))
  BY DEF Started
<1>3. r.run \in {"mounted", "left"}
  BY DEF Started, OneLiveInv, PageInv, PageTypes, CallRecords
<1>4. \/ calls' = UNION {Abandoned(s) : s \in calls \ {r}}
      \/ calls' = calls \ {r}
  BY DEF Started, Remove
<1>5. CASE misled'
  <2>1. TabAgrees' /\ HotIsRemembered' /\ OneLive'
    BY <1>5 DEF TabAgrees, HotIsRemembered, OneLive
  <2> QED BY <2>1, StartedStarts
<1>6. CASE ~ misled'
  <2>1. ~ misled
    BY <1>2, <1>6
  <2>2. KeyOf(stored) = r.key
    <3>1. CASE r.run = "mounted"
      BY <1>1, <2>1, <3>1 DEF OneLiveInv, StartsKnown, TabAgrees, PageInv, OneCheck, Decides
    <3>2. CASE r.run = "left"
      BY <1>1, <1>2, <1>6, <3>2
    <3> QED BY <1>3, <3>1, <3>2
  <2>3. page' # "open" \/ (page = "open" /\ attempt' = attempt)
    BY DEF Started
  <2>4. Quiet
    BY <1>1, <1>4, <1>6, <2>1, <2>2, <2>3, AnsweredStarts DEF Quiet, OneLiveInv, PageInv
  <2> QED BY <2>4, QuietKeeps, StartedStarts
<1> QED BY <1>5, <1>6

LEMMA StartFailsRemembers ==
  ASSUME OneLiveInv, NEW r \in calls, StartFails(r)
  PROVE  TabAgrees' /\ HotIsRemembered' /\ StartsKnown' /\ OneLive'
<1>1. /\ UNCHANGED <<attempts, page>> /\ r.kind = "start" /\ r.key \in PayKeys
      /\ ~ Forgets(r) => stored' = stored /\ attempt' = attempt
      /\ r.run # "mounted" => attempt' = attempt
      /\ r.run \in {"mounted", "left"}
      /\ calls' = (calls \ {r}) \cup Abandoned(r)
  BY DEF StartFails, api, OneLiveInv, PageInv, PageTypes, CallRecords
<1>2. misled' = (misled \/ (r.run = "left" /\ Forgets(r)))
  BY DEF StartFails
<1>3. StartsKnown'
  <2>1. CASE r.run = "mounted"
    <3>1. \A c \in calls' : ~ MountedStart(c)
      BY <1>1, <2>1, AbandonedCopies DEF OneLiveInv, PageInv, OneCheck, Decides, MountedStart
    <3> QED BY <3>1, NoStartKnown
  <2>2. CASE r.run # "mounted"
    <3>1. \A c \in calls' : MountedStart(c) => c \in calls /\ attempt' = attempt
      BY <1>1, <2>2, AbandonedCopies DEF OneLiveInv, PageInv, MountedStart
    <3>2. \A s \in calls' : s.kind = "start" =>
            s \in calls \/ \E t \in calls : t.kind = "start" /\ t.run # "mounted" /\ t.key = s.key
      BY <1>1, <2>2, AbandonedCopies DEF OneLiveInv, PageInv
    <3> QED BY <1>1, <3>1, <3>2, StartsKeep
  <2> QED BY <2>1, <2>2
<1>4. TabAgrees' /\ HotIsRemembered' /\ OneLive'
  <2>1. CASE misled'
    BY <2>1 DEF TabAgrees, HotIsRemembered, OneLive
  <2>2. CASE ~ misled' /\ ~ Forgets(r)
    <3>1. Quiet
      BY <1>1, <1>2, <2>2, AnsweredStarts DEF Quiet, KeyOf, OneLiveInv, PageInv, StartFails
    <3> QED BY <3>1, QuietKeeps
  <2>3. CASE ~ misled' /\ Forgets(r)
    <3>1. /\ ~ misled /\ r.run = "mounted" /\ r.fresh /\ r.result = "disabled"
          /\ stored = Stored(r.key, FALSE) /\ stored' = None /\ attempt' = None
      BY <1>1, <1>2, <2>3 DEF Forgets, StartFails
    <3>2. KeyOf(stored) = r.key
      BY <1>1, <3>1, StoredKeys
    <3>3. /\ attempts[r.key] = None
          /\ \A s \in calls : s.kind = "start" /\ s.key = r.key => s = r
      BY <1>1, <3>1 DEF OneLiveInv, StartsKnown
    <3>4. r.phase # "sent"
      BY <1>1, <3>1 DEF OneLiveInv, StartsKnown
    <3>5. \A k \in PayKeys : Hot(k)' => Hot(k) /\ k # r.key
      BY <1>1, <3>3, <3>4, AnsweredStarts DEF Hot, With, OneLiveInv, PageInv, Abandoned
    <3>6. NonePaid' => NonePaid
      BY <1>1 DEF NonePaid, With
    <3>7. HotIsRemembered'
      BY <3>1, <3>2, <3>5, <3>6 DEF OneLiveInv, HotIsRemembered
    <3>8. TabAgrees'
      BY <3>1 DEF TabAgrees, KeyOf
    <3>9. OneLive'
      BY <1>1, <3>1 DEF OneLiveInv, OneLive, With
    <3> QED BY <3>7, <3>8, <3>9
  <2> QED BY <2>1, <2>2, <2>3
<1> QED BY <1>3, <1>4

LEMMA LoseCallRemembers ==
  ASSUME OneLiveInv, NEW r \in calls, LoseCall(r)
  PROVE  TabAgrees' /\ HotIsRemembered' /\ StartsKnown' /\ OneLive'
<1>1. UNCHANGED <<attempts, stored, attempt, page, misled>> /\ calls' = calls \ {r}
  BY DEF LoseCall, Remove, api, tab, payment
<1>2. Quiet
  BY <1>1 DEF Quiet, KeyOf
<1> QED BY <1>1, <1>2, QuietKeeps, StartsKeep

LEMMA StartOverRemembers ==
  ASSUME OneLiveInv, StartOver PROVE TabAgrees' /\ HotIsRemembered' /\ StartsKnown' /\ OneLive'
<1>1. /\ UNCHANGED <<attempts, calls, page, misled>> /\ stored' = None /\ attempt' = None
      /\ page = "open" /\ attempt # None /\ Ended(attempt.key, payState) /\ payState \in Terminal
  BY DEF StartOver, api, tab, OneLiveInv, PageInv, EndIsReal, Final
<1>2. ~ Hot(attempt.key)
  BY <1>1 DEF Ended, Hot, With, Open, Terminal
<1>3. HotIsRemembered'
  <2>1. ~ misled /\ NonePaid => \A k \in PayKeys : ~ Hot(k)
    BY <1>1, <1>2 DEF OneLiveInv, HotIsRemembered, TabAgrees, KeyOf
  <2>2. /\ NonePaid' => NonePaid
        /\ \A k : Hot(k)' => Hot(k)
    BY <1>1 DEF NonePaid, With, Hot
  <2> QED BY <1>1, <2>1, <2>2 DEF HotIsRemembered
<1>4. TabAgrees' /\ OneLive'
  BY <1>1 DEF OneLiveInv, TabAgrees, KeyOf, OneLive, With
<1>5. \A r \in calls' : ~ MountedStart(r)
  BY <1>1 DEF OneLiveInv, PageInv, OneCheck, Decides, MountedStart, Open, Terminal
<1> QED BY <1>3, <1>4, <1>5, NoStartKnown

LEMMA ProviderRemembers ==
  ASSUME OneLiveInv, NEW k \in PayKeys, Provider(k)
  PROVE  TabAgrees' /\ HotIsRemembered' /\ StartsKnown' /\ OneLive'
<1>1. UNCHANGED <<stored, attempt, page, calls, misled>>
  BY DEF Provider, tab, payment
<1>2. /\ \A l \in PayKeys \ {k} : attempts'[l] = attempts[l]
      /\ attempts[k] # None /\ attempts[k].status \in Open /\ attempts'[k] # None
  BY ProviderMoves DEF OneLiveInv
<1>3. Live' \subseteq Live
  BY <1>2 DEF Live, With
<1>4. \A l \in PayKeys : Hot(l)' => Hot(l)
  BY <1>1, <1>2, <1>3 DEF Hot, Live
<1>5. NonePaid' => NonePaid
  BY <1>2 DEF NonePaid, With, Open
<1>6. TabAgrees' /\ HotIsRemembered'
  BY <1>1, <1>4, <1>5 DEF OneLiveInv, TabAgrees, HotIsRemembered, KeyOf
<1>7. StartsKnown'
  BY <1>1, <1>2, StartsKeep
<1>8. OneLive'
  BY <1>1, <1>3 DEF OneLiveInv, OneLive, Live
<1> QED BY <1>6, <1>7, <1>8

\* Steps of the form and of its saves, and the switch.
LEMMA ScreenRemembers ==
  ASSUME OneLiveInv, UNCHANGED <<attempts, stored, page, attempt, calls, misled>>
  PROVE  TabAgrees' /\ HotIsRemembered' /\ StartsKnown' /\ OneLive'
<1>1. Quiet
  BY DEF Quiet, KeyOf
<1> QED BY <1>1, QuietKeeps, StartsKeep

LEMMA OneLiveStep == OneLiveInv /\ [Next]_vars => OneLiveInv'
<1> SUFFICES ASSUME OneLiveInv, [Next]_vars PROVE OneLiveInv'
  OBVIOUS
<1> SUFFICES TabAgrees' /\ HotIsRemembered' /\ StartsKnown' /\ OneLive'
  BY PageStep DEF OneLiveInv
<1>1. CASE \E url \in {"plain", "return", "cancelled"} : Enter(url)
  BY <1>1, EnterRemembers
<1>2. CASE Reload
  BY <1>2, EnterRemembers
<1>3. CASE Leave \/ ContinueShopping
  BY <1>3, LeaveRemembers
<1>4. CASE \/ \E b \in Bodies : Edit(b)
           \/ \E k \in SaveKeys : Save(k)
           \/ \E s \in saves : ApplySave(s) \/ SaveAnswered(s) \/ SaveFails(s)
           \/ Switch
           \/ UNCHANGED vars
  <2>1. UNCHANGED <<attempts, stored, page, attempt, calls>>
    BY <1>4 DEF Edit, Save, ApplySave, SaveAnswered, SaveFails, Switch, vars, api, tab, payment
  <2>2. misled' = misled
    BY <1>4 DEF Edit, Save, ApplySave, SaveAnswered, SaveFails, Switch, vars, tab
  <2> QED BY <2>1, <2>2, ScreenRemembers
<1>5. CASE Answers
  <2>1. PICK r \in calls : Waiting(r)
    BY <1>5 DEF Answers
  <2> QED
    BY <2>1, StatusRemembers, CarryOutRemembers, StartedRemembers, StartFailsRemembers,
       LoseCallRemembers DEF Waiting
<1>6. CASE Reconcile
  BY <1>6, ReconcileRemembers
<1>7. CASE \E k \in PayKeys : Start(k)
  BY <1>7, StartRemembers
<1>8. CASE StartOver
  BY <1>8, StartOverRemembers
<1>9. CASE \E k \in PayKeys : Provider(k)
  BY <1>9, ProviderRemembers
<1> QED BY <1>1, <1>2, <1>3, <1>4, <1>5, <1>6, <1>7, <1>8, <1>9 DEF Next

LEMMA OneLiveCounts == OneLive => OneLiveAttempt
<1> SUFFICES ASSUME OneLive, ~ misled PROVE Cardinality(With(Open \cup {"succeeded"})) <= 1
  BY DEF OneLiveAttempt
<1>1. CASE With(Open \cup {"succeeded"}) = {}
  BY <1>1, FS_EmptySet
<1>2. CASE With(Open \cup {"succeeded"}) # {}
  <2>1. PICK k : k \in With(Open \cup {"succeeded"})
    BY <1>2
  <2>2. With(Open \cup {"succeeded"}) = {k}
    BY <2>1 DEF OneLive
  <2> QED BY <2>2, FS_Singleton
<1> QED BY <1>1, <1>2

\* The tab has at most one attempt that can be paid or was, whatever is lost,
\* reloaded, retried, left, refused or switched on again (the key that
\* CheckoutPayment's start keeps in sessionStorage), until a late answer to a start
\* whose page was left changes that key.
THEOREM PaidOnce == Spec => []OneLiveAttempt
<1>1. Init => OneLiveInv
  BY InitPage, WebCheckoutAssumption
  DEF Init, OneLiveInv, TabAgrees, HotIsRemembered, StartsKnown, OneLive, Hot, With
<1>2. OneLiveInv => OneLiveAttempt
  BY OneLiveCounts DEF OneLiveInv
<1> QED BY <1>1, <1>2, OneLiveStep, PTL DEF Spec

-----------------------------------------------------------------------------
(* The drafts the checkout page saves: the invariant                       *)

Prints == Drafts!Fingerprints
Caps == Drafts!Capabilities
Rows == Drafts!DraftRows
SentSaves ==
  [phase : {"sent"}, cart : DraftCarts, of : {User, Guest}, key : PayKeys, body : Bodies,
   cap : Caps \cup {None}, now : Nat]
AnsweredSaves == [phase : {"answered"}, cap : Caps \cup {None}]

DraftTypes ==
  /\ owner \in [DraftCarts -> {User, Guest, Gone}]
  /\ row \in [DraftCarts -> Rows \cup {None}]
  /\ answered \in [DraftCarts -> [PayKeys -> Prints \cup {None}]]
  /\ held \in Caps \cup {None}
  /\ request \in [Tabs -> {Drafts!Idle} \cup SentSaves \cup AnsweredSaves]
  /\ \A t \in Tabs : request[t].phase = "sent" => request[t].now <= clock
  /\ clock \in Nat

OfGuest(c) == row[c] # None /\ row[c].user = Guest

\* A guest's draft knows the save that started it, and carries its capability.
StarterKnown ==
  \A c \in DraftCarts :
    /\ OfGuest(c) =>
         /\ row[c].cap \in Caps /\ row[c].expires \in Nat
         /\ row[c].cap.cart = c /\ row[c].cap.expires = row[c].expires
         /\ answered[c][row[c].cap.key] = row[c].cap.print
    /\ row[c] # None /\ row[c].user = User => row[c].cap = None

\* A capability on its way opens the guest's draft, or expired, or the cart is
\* the guest's no more.
Opens(cap) ==
  \/ cap.expires <= clock
  \/ OfGuest(cap.cart) /\ row[cap.cart].cap = cap
  \/ owner[cap.cart] # Guest /\ ~ OfGuest(cap.cart)
AnswersOpen ==
  \A t \in Tabs : request[t].phase = "answered" /\ request[t].cap # None => Opens(request[t].cap)

DraftInv == DraftTypes /\ StarterKnown /\ AnswersOpen

LEMMA InitDrafts == Drafts!Init => DraftInv
<1> SUFFICES ASSUME Drafts!Init PROVE DraftInv
  OBVIOUS
<1>1. \A t \in Tabs : request[t] = Drafts!Idle /\ request[t].phase = "idle"
  BY DEF Drafts!Init, Drafts!Idle
<1>2. DraftTypes
  BY <1>1 DEF Drafts!Init, Drafts!NoReplies, DraftTypes
<1>3. StarterKnown /\ AnswersOpen
  BY <1>1 DEF Drafts!Init, StarterKnown, OfGuest, AnswersOpen
<1> QED BY <1>2, <1>3 DEF DraftInv

\* A save that is carried out.
LEMMA SentSave ==
  ASSUME DraftInv, NEW t \in Tabs, request[t].phase = "sent"
  PROVE  request[t] \in SentSaves /\ request[t].now <= clock
BY DEF DraftInv, DraftTypes, SentSaves, AnsweredSaves, Drafts!Idle

\* What an answer changes.
LEMMA AnswerTypes ==
  ASSUME DraftInv, NEW t \in Tabs, NEW cap \in Caps \cup {None}, Drafts!Answer(t, cap)
  PROVE  /\ request' \in [Tabs -> {Drafts!Idle} \cup SentSaves \cup AnsweredSaves]
         /\ request'[t].phase = "answered" /\ request'[t].cap = cap
         /\ \A u \in Tabs \ {t} : request'[u] = request[u]
BY DEF DraftInv, DraftTypes, Drafts!Answer, AnsweredSaves

\* A save that writes row d and replies a, and answers with capability cap.
LEMMA SaveKeepsDrafts ==
  ASSUME DraftInv, NEW t \in Tabs, NEW c \in DraftCarts, NEW d \in Rows,
         NEW a \in [PayKeys -> Prints \cup {None}], NEW cap \in Caps \cup {None},
         row' = [row EXCEPT ![c] = d], answered' = [answered EXCEPT ![c] = a],
         Drafts!Answer(t, cap), UNCHANGED <<owner, held, clock>>,
         d.user = Guest =>
           /\ d.cap \in Caps /\ d.expires \in Nat /\ d.cap.cart = c /\ d.cap.expires = d.expires
           /\ a[d.cap.key] = d.cap.print,
         d.user = User => d.cap = None,
         cap # None => d.user = Guest /\ d.cap = cap,
         \A x \in Caps : x.cart = c /\ Opens(x) =>
           \/ x.expires <= clock
           \/ d.user = Guest /\ d.cap = x
           \/ owner[c] # Guest /\ d.user # Guest
  PROVE  DraftInv'
<1>1. /\ request' \in [Tabs -> {Drafts!Idle} \cup SentSaves \cup AnsweredSaves]
      /\ request'[t].phase = "answered" /\ request'[t].cap = cap
      /\ \A u \in Tabs \ {t} : request'[u] = request[u]
  BY AnswerTypes
<1>2. d # None
  BY DraftsAssumption DEF Rows
<1>3. /\ row' \in [DraftCarts -> Rows \cup {None}] /\ row'[c] = d
      /\ answered' \in [DraftCarts -> [PayKeys -> Prints \cup {None}]] /\ answered'[c] = a
      /\ \A e \in DraftCarts \ {c} : row'[e] = row[e] /\ answered'[e] = answered[e]
  BY DEF DraftInv, DraftTypes
<1>4. DraftTypes'
  BY <1>1, <1>3 DEF DraftInv, DraftTypes
<1>5. StarterKnown'
  BY <1>2, <1>3 DEF DraftInv, StarterKnown, OfGuest
<1>6. AnswersOpen'
  <2> SUFFICES ASSUME NEW u \in Tabs, NEW x, request'[u].phase = "answered",
                      x = request'[u].cap, x # None
               PROVE  Opens(x)'
    BY DEF AnswersOpen, Opens, OfGuest
  <2>1. CASE u = t
    <3>1. x = cap /\ d.user = Guest /\ d.cap = x /\ x.cart = c
      BY <1>1, <2>1
    <3> QED BY <1>2, <1>3, <3>1 DEF Opens, OfGuest
  <2>2. CASE u # t
    <3>1. request[u].phase = "answered" /\ x = request[u].cap
      BY <1>1, <2>2
    <3>2. Opens(x) /\ x \in Caps
      BY <3>1 DEF DraftInv, DraftTypes, AnswersOpen, Opens, AnsweredSaves, SentSaves, Drafts!Idle
    <3>3. x.cart \in DraftCarts
      BY <3>2 DEF Caps, Drafts!Capabilities
    <3> QED BY <1>2, <1>3, <3>2, <3>3 DEF Opens, OfGuest
  <2> QED BY <2>1, <2>2
<1> QED BY <1>4, <1>5, <1>6 DEF DraftInv

LEMMA StartDraftKeeps == ASSUME DraftInv, NEW t \in Tabs, Drafts!Start(t) PROVE DraftInv'
<1> DEFINE q == request[t]
           until == q.now + Lifetime
           print == Drafts!Fingerprint(q)
           cap == IF q.of = Guest THEN Drafts!Capability(q.cart, q.key, print, until) ELSE None
           d == [user |-> q.of, body |-> q.body, cap |-> cap,
                 expires |-> IF q.of = Guest THEN until ELSE None]
           a == [Drafts!NoReplies EXCEPT ![q.key] = print]
<1>1. q \in SentSaves /\ q.now <= clock
  BY SentSave DEF Drafts!Start
<1>2. /\ row' = [row EXCEPT ![q.cart] = d] /\ answered' = [answered EXCEPT ![q.cart] = a]
      /\ Drafts!Answer(t, cap) /\ UNCHANGED <<owner, held, clock>>
      /\ owner[q.cart] = q.of
      /\ row[q.cart] = None \/ (row[q.cart] # None /\ Drafts!Restarts(row[q.cart], q))
  BY DEF Drafts!Start, Drafts!CartStands
<1>3. /\ q.cart \in DraftCarts /\ q.key \in PayKeys /\ q.of \in {User, Guest}
      /\ print \in Prints /\ until \in Nat
  BY <1>1, DraftsAssumption DEF SentSaves, Prints, Drafts!Fingerprints, Drafts!Fingerprint
<1>4. /\ cap \in Caps \cup {None}
      /\ q.of = Guest => cap \in Caps /\ cap.cart = q.cart /\ cap.expires = until
                          /\ cap.key = q.key /\ cap.print = print
      /\ q.of # Guest => cap = None
  BY <1>3 DEF Caps, Drafts!Capabilities, Drafts!Capability, Prints
<1>5. /\ d \in Rows /\ d.user = q.of /\ d.cap = cap
      /\ q.of = Guest => d.expires = until
  BY <1>1, <1>3, <1>4 DEF Rows, Drafts!DraftRows, SentSaves, Caps
<1>6. a \in [PayKeys -> Prints \cup {None}] /\ a[q.key] = print
  BY <1>3 DEF Drafts!NoReplies
<1>7. ASSUME NEW x \in Caps, x.cart = q.cart, Opens(x)
      PROVE  x.expires <= clock \/ (owner[q.cart] # Guest /\ d.user # Guest)
  <2>1. CASE row[q.cart] # None /\ Drafts!Restarts(row[q.cart], q)
    <3>1. OfGuest(q.cart) /\ row[q.cart].expires <= clock
      <4>1. OfGuest(q.cart) /\ row[q.cart].expires <= q.now
        BY <2>1 DEF Drafts!Restarts, OfGuest
      <4>2. row[q.cart].expires \in Nat /\ q.now \in Nat /\ clock \in Nat
        BY <1>1, <1>3, <4>1 DEF DraftInv, DraftTypes, StarterKnown, SentSaves
      <4> QED BY <1>1, <4>1, <4>2
    <3> QED BY <1>3, <1>7, <3>1 DEF Opens, DraftInv, StarterKnown
  <2>2. CASE row[q.cart] = None
    BY <1>2, <1>5, <1>7, <2>2 DEF Opens, OfGuest
  <2> QED BY <1>2, <2>1, <2>2
<1> HIDE DEF d, a, cap, until, print, q
<1>8. \A x \in Caps : x.cart = q.cart /\ Opens(x) =>
        \/ x.expires <= clock
        \/ d.user = Guest /\ d.cap = x
        \/ owner[q.cart] # Guest /\ d.user # Guest
  BY <1>7
<1>9. /\ d.user = Guest =>
           /\ d.cap \in Caps /\ d.expires \in Nat /\ d.cap.cart = q.cart
           /\ d.cap.expires = d.expires /\ a[d.cap.key] = d.cap.print
      /\ cap # None => d.user = Guest /\ d.cap = cap
      /\ d.user = User => d.cap = None
  BY <1>3, <1>4, <1>5, <1>6, DraftsAssumption
<1> QED BY <1>2, <1>3, <1>4, <1>5, <1>6, <1>8, <1>9, SaveKeepsDrafts

\* The draft a change or a replay writes.
LEMMA AdoptedRow ==
  ASSUME DraftInv, NEW c \in DraftCarts, row[c] # None, NEW q, q.of \in {User, Guest},
         owner[c] = q.of
  PROVE  /\ Drafts!Adopted(row[c], q) \in Rows
         /\ Drafts!Adopted(row[c], q).user = Guest => Drafts!Adopted(row[c], q) = row[c]
         /\ Drafts!Adopted(row[c], q).user = User => Drafts!Adopted(row[c], q).cap = None
         /\ Drafts!Adopted(row[c], q).user # Guest =>
              row[c].user # Guest \/ owner[c] # Guest
<1>1. row[c] \in Rows
  BY DEF DraftInv, DraftTypes
<1>2. CASE q.of = User /\ row[c].user = Guest
  <2>1. Drafts!Adopted(row[c], q) = [row[c] EXCEPT !.user = User, !.cap = None, !.expires = None]
    BY <1>2 DEF Drafts!Adopted
  <2> QED BY <1>1, <1>2, <2>1, DraftsAssumption DEF Rows, Drafts!DraftRows
<1>3. CASE ~ (q.of = User /\ row[c].user = Guest)
  <2>1. Drafts!Adopted(row[c], q) = row[c]
    BY <1>3 DEF Drafts!Adopted
  <2> QED BY <1>1, <2>1 DEF DraftInv, StarterKnown
<1> QED BY <1>2, <1>3

\* A save of a draft that stands: its row d keeps capability and expiry, or is
\* the account's, and the replies still know the save that started it.
LEMMA StandingKeeps ==
  ASSUME DraftInv, NEW t \in Tabs, NEW c \in DraftCarts, NEW d \in Rows,
         NEW a \in [PayKeys -> Prints \cup {None}], NEW cap \in Caps \cup {None},
         row[c] # None,
         row' = [row EXCEPT ![c] = d], answered' = [answered EXCEPT ![c] = a],
         Drafts!Answer(t, cap), UNCHANGED <<owner, held, clock>>,
         d.user = Guest => OfGuest(c) /\ d.cap = row[c].cap /\ d.expires = row[c].expires,
         d.user # Guest => row[c].user # Guest \/ owner[c] # Guest,
         d.user = User => d.cap = None,
         \A k \in PayKeys : answered[c][k] # None => a[k] = answered[c][k],
         cap # None => d.user = Guest /\ d.cap = cap
  PROVE  DraftInv'
<1>1. d.user = Guest =>
        /\ d.cap \in Caps /\ d.expires \in Nat /\ d.cap.cart = c /\ d.cap.expires = d.expires
        /\ a[d.cap.key] = d.cap.print
  <2> SUFFICES ASSUME d.user = Guest
               PROVE  /\ d.cap \in Caps /\ d.expires \in Nat /\ d.cap.cart = c
                      /\ d.cap.expires = d.expires /\ a[d.cap.key] = d.cap.print
    OBVIOUS
  <2>1. /\ d.cap \in Caps /\ d.expires \in Nat /\ d.cap.cart = c /\ d.cap.expires = d.expires
        /\ answered[c][d.cap.key] = d.cap.print
    BY DEF DraftInv, StarterKnown
  <2>2. d.cap.key \in PayKeys /\ d.cap.print # None
    BY <2>1, DraftsAssumption DEF Caps, Drafts!Capabilities
  <2> QED BY <2>1, <2>2
<1>2. \A x \in Caps : x.cart = c /\ Opens(x) =>
        \/ x.expires <= clock
        \/ d.user = Guest /\ d.cap = x
        \/ owner[c] # Guest /\ d.user # Guest
  BY DEF Opens, OfGuest
<1> QED BY <1>1, <1>2, SaveKeepsDrafts

LEMMA ChangeKeeps == ASSUME DraftInv, NEW t \in Tabs, Drafts!Change(t) PROVE DraftInv'
<1> DEFINE q == request[t]
           d == [Drafts!Adopted(row[q.cart], q) EXCEPT !.body = q.body]
           a == [answered[q.cart] EXCEPT ![q.key] = Drafts!Fingerprint(q)]
<1>1. q \in SentSaves /\ row[q.cart] # None /\ owner[q.cart] = q.of
  BY SentSave DEF Drafts!Change, Drafts!Standing, Drafts!CartStands
<1>2. /\ q.cart \in DraftCarts /\ q.key \in PayKeys /\ q.of \in {User, Guest} /\ q.body \in Bodies
      /\ Drafts!Fingerprint(q) \in Prints
  BY <1>1 DEF SentSaves, Prints, Drafts!Fingerprints, Drafts!Fingerprint
<1>3. /\ row' = [row EXCEPT ![q.cart] = d] /\ answered' = [answered EXCEPT ![q.cart] = a]
      /\ Drafts!Answer(t, None) /\ UNCHANGED <<owner, held, clock>>
      /\ answered[q.cart][q.key] = None
  BY <1>2 DEF Drafts!Change, Drafts!Reply, DraftInv, DraftTypes
<1> DEFINE e == Drafts!Adopted(row[q.cart], q)
<1>4. /\ e \in Rows /\ (e.user = Guest => e = row[q.cart])
      /\ e.user = User => e.cap = None
      /\ e.user # Guest => row[q.cart].user # Guest \/ owner[q.cart] # Guest
  BY <1>1, <1>2, AdoptedRow
<1>5. d \in Rows /\ d.user = e.user /\ d.cap = e.cap /\ d.expires = e.expires
  BY <1>2, <1>4 DEF Rows, Drafts!DraftRows
<1>6. /\ a \in [PayKeys -> Prints \cup {None}]
      /\ \A k \in PayKeys : answered[q.cart][k] # None => a[k] = answered[q.cart][k]
  BY <1>2, <1>3 DEF DraftInv, DraftTypes
<1> HIDE DEF d, a, e, q
<1>7. /\ d.user = Guest =>
           OfGuest(q.cart) /\ d.cap = row[q.cart].cap /\ d.expires = row[q.cart].expires
      /\ d.user # Guest => row[q.cart].user # Guest \/ owner[q.cart] # Guest
      /\ d.user = User => d.cap = None
  BY <1>1, <1>4, <1>5 DEF OfGuest
<1> QED BY <1>1, <1>2, <1>3, <1>5, <1>6, <1>7, StandingKeeps

LEMMA ReplayKeeps == ASSUME DraftInv, NEW t \in Tabs, Drafts!Replay(t) PROVE DraftInv'
<1> DEFINE q == request[t]
           e == Drafts!Adopted(row[q.cart], q)
           a == answered[q.cart]
<1>1. q \in SentSaves /\ row[q.cart] # None /\ owner[q.cart] = q.of
  BY SentSave DEF Drafts!Replay, Drafts!Standing, Drafts!CartStands
<1>2. q.cart \in DraftCarts /\ q.of \in {User, Guest}
  BY <1>1 DEF SentSaves
<1>3. /\ row' = [row EXCEPT ![q.cart] = e] /\ answered' = [answered EXCEPT ![q.cart] = a]
      /\ Drafts!Answer(t, None) /\ UNCHANGED <<owner, held, clock>>
  BY <1>2 DEF Drafts!Replay, DraftInv, DraftTypes
<1>4. /\ e \in Rows /\ (e.user = Guest => e = row[q.cart])
      /\ e.user = User => e.cap = None
      /\ e.user # Guest => row[q.cart].user # Guest \/ owner[q.cart] # Guest
  BY <1>1, <1>2, AdoptedRow
<1>5. a \in [PayKeys -> Prints \cup {None}]
  BY <1>2 DEF DraftInv, DraftTypes
<1> HIDE DEF e, q
<1>6. e.user = Guest => OfGuest(q.cart) /\ e.cap = row[q.cart].cap /\ e.expires = row[q.cart].expires
  BY <1>1, <1>4 DEF OfGuest
<1> QED BY <1>1, <1>2, <1>3, <1>4, <1>5, <1>6, StandingKeeps

LEMMA RecoverKeeps == ASSUME DraftInv, NEW t \in Tabs, Drafts!Recover(t) PROVE DraftInv'
<1> DEFINE q == request[t]
           d == row[q.cart]
           a == answered[q.cart]
<1>1. /\ q \in SentSaves /\ d # None /\ owner[q.cart] = q.of /\ q.of = Guest
      /\ d.cap # None
  BY SentSave DEF Drafts!Recover, Drafts!Standing, Drafts!CartStands
<1>2. q.cart \in DraftCarts
  BY <1>1 DEF SentSaves
<1>3. /\ row' = [row EXCEPT ![q.cart] = d] /\ answered' = [answered EXCEPT ![q.cart] = a]
      /\ Drafts!Answer(t, d.cap) /\ UNCHANGED <<owner, held, clock>>
  BY <1>2 DEF Drafts!Recover, DraftInv, DraftTypes
<1>4. d \in Rows /\ a \in [PayKeys -> Prints \cup {None}]
  BY <1>1, <1>2 DEF DraftInv, DraftTypes
<1>5. d.user = Guest /\ d.cap \in Caps
  BY <1>1, <1>2, <1>4 DEF Rows, Drafts!DraftRows, Caps, DraftInv, StarterKnown
<1>6. OfGuest(q.cart)
  BY <1>1, <1>5 DEF OfGuest
<1> HIDE DEF d, a, q
<1>7. OfGuest(q.cart) /\ d.cap = row[q.cart].cap /\ d.expires = row[q.cart].expires
  BY <1>6 DEF d
<1>8. \A k \in PayKeys : answered[q.cart][k] # None => a[k] = answered[q.cart][k]
  BY DEF a
<1>9. row[q.cart] # None
  BY <1>1 DEF d
<1> QED BY <1>2, <1>3, <1>4, <1>5, <1>7, <1>8, <1>9, DraftsAssumption, StandingKeeps

LEMMA PurgedKeeps ==
  ASSUME DraftInv, NEW S \in SUBSET DraftCarts, Drafts!DropDrafts(S),
         owner' \in [DraftCarts -> {User, Guest, Gone}],
         \A c \in DraftCarts : owner[c] # Guest => owner'[c] # Guest,
         \A c \in S : \/ owner'[c] # Guest
                      \/ OfGuest(c) /\ row[c].expires <= clock,
         UNCHANGED <<held, request, clock>>
  PROVE  DraftInv'
<1>1. /\ row' = [c \in DraftCarts |-> IF c \in S THEN None ELSE row[c]]
      /\ answered' = [c \in DraftCarts |-> IF c \in S THEN Drafts!NoReplies ELSE answered[c]]
  BY DEF Drafts!DropDrafts
<1>2. DraftTypes'
  BY <1>1 DEF DraftInv, DraftTypes, Drafts!NoReplies
<1>3. StarterKnown'
  BY <1>1 DEF DraftInv, StarterKnown, OfGuest
<1>4. AnswersOpen'
  <2> SUFFICES ASSUME NEW u \in Tabs, NEW x, request[u].phase = "answered", x = request[u].cap,
                      x # None
               PROVE  Opens(x)'
    BY DEF AnswersOpen, Opens, OfGuest
  <2>1. Opens(x) /\ x \in Caps
    BY DEF DraftInv, DraftTypes, AnswersOpen, Opens, AnsweredSaves, SentSaves, Drafts!Idle
  <2>2. x.cart \in DraftCarts
    BY <2>1 DEF Caps, Drafts!Capabilities
  <2> QED BY <1>1, <2>1, <2>2 DEF Opens, OfGuest, DraftInv, StarterKnown
<1> QED BY <1>2, <1>3, <1>4 DEF DraftInv

\* The steps that leave drafts and owners alone.
LEMMA OtherDraftSteps ==
  ASSUME DraftInv, UNCHANGED <<owner, row, answered>>,
         held' \in Caps \cup {None}, clock' \in Nat, clock <= clock',
         request' \in [Tabs -> {Drafts!Idle} \cup SentSaves \cup AnsweredSaves],
         \A t \in Tabs : \/ request'[t] = request[t]
                         \/ request'[t].phase = "idle"
                         \/ request'[t].phase = "sent" /\ request'[t].now <= clock
  PROVE  DraftInv'
<1>1. DraftTypes'
  <2>1. ASSUME NEW t \in Tabs, request'[t].phase = "sent" PROVE request'[t].now <= clock'
    <3>1. request'[t].now \in Nat /\ request'[t].now <= clock /\ clock \in Nat
      BY <2>1 DEF DraftInv, DraftTypes, SentSaves, AnsweredSaves, Drafts!Idle
    <3> QED BY <3>1
  <2> QED BY <2>1 DEF DraftInv, DraftTypes
<1>2. StarterKnown'
  BY DEF DraftInv, StarterKnown, OfGuest
<1>3. AnswersOpen'
  <2> SUFFICES ASSUME NEW u \in Tabs, NEW x, request'[u].phase = "answered", x = request'[u].cap,
                      x # None
               PROVE  Opens(x)'
    BY DEF AnswersOpen, Opens, OfGuest
  <2>1. Opens(x) /\ x \in Caps
    BY DEF DraftInv, DraftTypes, AnswersOpen, Opens, AnsweredSaves, SentSaves, Drafts!Idle
  <2>2. x.expires \in Nat /\ clock \in Nat
    BY <2>1 DEF Caps, Drafts!Capabilities, DraftInv, DraftTypes
  <2> QED BY <2>1, <2>2 DEF Opens, OfGuest
<1> QED BY <1>1, <1>2, <1>3 DEF DraftInv

LEMMA DraftStep == DraftInv /\ [Drafts!Next]_(Drafts!vars) => DraftInv'
<1> SUFFICES ASSUME DraftInv, [Drafts!Next]_(Drafts!vars) PROVE DraftInv'
  OBVIOUS
<1> USE DEF Drafts!payments
<1>1. CASE \E t \in Tabs : \E c \in DraftCarts, k \in PayKeys, b \in Bodies : Drafts!Send(t, c, k, b)
  <2>1. PICK t \in Tabs, c \in DraftCarts, k \in PayKeys, b \in Bodies : Drafts!Send(t, c, k, b)
    BY <1>1
  <2>2. PICK q : /\ q = [phase |-> "sent", cart |-> c, of |-> owner[c], key |-> k, body |-> b,
                         cap |-> held, now |-> clock]
                 /\ request' = [request EXCEPT ![t] = q]
    BY <2>1 DEF Drafts!Send
  <2>3. q \in SentSaves /\ q.phase = "sent" /\ q.now = clock
    BY <2>1, <2>2 DEF SentSaves, Drafts!Send, DraftInv, DraftTypes
  <2>4. /\ request' \in [Tabs -> {Drafts!Idle} \cup SentSaves \cup AnsweredSaves]
        /\ \A u \in Tabs : request'[u] = request[u] \/ request'[u] = q
    BY <2>2, <2>3 DEF DraftInv, DraftTypes
  <2> QED
    BY <2>1, <2>3, <2>4, OtherDraftSteps DEF Drafts!Send, DraftInv, DraftTypes
<1>2. CASE \E t \in Tabs : Drafts!Start(t) \/ Drafts!Change(t) \/ Drafts!Replay(t) \/ Drafts!Recover(t)
  BY <1>2, StartDraftKeeps, ChangeKeeps, ReplayKeeps, RecoverKeeps
<1>3. CASE \E t \in Tabs : Drafts!Lose(t) \/ Drafts!Deliver(t)
  <2>1. PICK t \in Tabs : Drafts!Lose(t) \/ Drafts!Deliver(t)
    BY <1>3
  <2>2. /\ request' = [request EXCEPT ![t] = Drafts!Idle]
        /\ UNCHANGED <<owner, row, answered, clock>>
    BY <2>1 DEF Drafts!Lose, Drafts!Deliver
  <2>3. held' \in Caps \cup {None}
    BY <2>1 DEF Drafts!Lose, Drafts!Deliver, DraftInv, DraftTypes, AnsweredSaves, SentSaves,
       Drafts!Idle
  <2>4. /\ request' \in [Tabs -> {Drafts!Idle} \cup SentSaves \cup AnsweredSaves]
        /\ \A u \in Tabs : request'[u] = request[u] \/ request'[u].phase = "idle"
    BY <2>2 DEF DraftInv, DraftTypes, Drafts!Idle
  <2> QED BY <2>2, <2>3, <2>4, OtherDraftSteps DEF DraftInv, DraftTypes
<1>4. CASE Drafts!PurgeSome
  <2>1. PICK S \in SUBSET DraftCarts : Drafts!Purge(S)
    BY <1>4 DEF Drafts!PurgeSome
  <2>2. \A c \in S : OfGuest(c) /\ row[c].expires <= clock
    BY <2>1 DEF Drafts!Purge, Drafts!Purgeable, OfGuest
  <2> QED BY <2>1, <2>2, PurgedKeeps DEF Drafts!Purge, DraftInv, DraftTypes
<1>5. CASE \E c \in DraftCarts : Drafts!StartPayment(c) \/ Drafts!ReleaseClaim(c)
  <2>1. UNCHANGED <<owner, row, answered, held, request, clock>>
    BY <1>5 DEF Drafts!StartPayment, Drafts!ReleaseClaim
  <2> QED BY <2>1, OtherDraftSteps DEF DraftInv, DraftTypes
<1>6. CASE \E c \in DraftCarts : Drafts!TakeCart(c)
  <2>1. PICK c \in DraftCarts : Drafts!TakeCart(c)
    BY <1>6
  <2>2. CASE owner' = [owner EXCEPT ![c] = User] /\ UNCHANGED <<row, answered>>
    <3>1. /\ owner' \in [DraftCarts -> {User, Guest, Gone}]
          /\ \A e \in DraftCarts : owner[e] # Guest => owner'[e] # Guest
      BY <2>2, DraftsAssumption DEF DraftInv, DraftTypes
    <3>2. Drafts!DropDrafts({})
      BY <2>2 DEF Drafts!DropDrafts, Drafts!Deletable, DraftInv, DraftTypes
    <3> QED BY <2>1, <3>1, <3>2, PurgedKeeps DEF Drafts!TakeCart
  <2>3. CASE owner' = [owner EXCEPT ![c] = Gone] /\ Drafts!DropDrafts({c})
    <3>1. /\ owner' \in [DraftCarts -> {User, Guest, Gone}]
          /\ \A e \in DraftCarts : owner[e] # Guest => owner'[e] # Guest
          /\ owner'[c] # Guest
      BY <2>3, DraftsAssumption DEF DraftInv, DraftTypes
    <3> QED BY <2>1, <2>3, <3>1, PurgedKeeps DEF Drafts!TakeCart
  <2> QED BY <2>1, <2>2, <2>3 DEF Drafts!TakeCart
<1>7. CASE Drafts!Tick
  <2>1. /\ clock' = clock + 1 /\ UNCHANGED <<owner, row, answered, held, request>>
    BY <1>7 DEF Drafts!Tick
  <2> QED BY <2>1, OtherDraftSteps DEF DraftInv, DraftTypes
<1>8. CASE UNCHANGED Drafts!vars
  BY <1>8, OtherDraftSteps DEF Drafts!vars, DraftInv, DraftTypes
<1> QED
  BY <1>1, <1>2, <1>3, <1>4, <1>5, <1>6, <1>7, <1>8 DEF Drafts!Next, Drafts!Step

LEMMA DraftInvariant == Drafts!Spec => []DraftInv
BY InitDrafts, DraftStep, PTL DEF Drafts!Spec

\* A guest draft can be recovered with the save that started it, and all answers
\* of concurrent saves carry the one capability that opens it
\* (CheckoutService.saveDraft with deriveCheckoutCapability).
THEOREM DraftsRecoverable == Drafts!Spec => []CapabilityRecoverable
<1>1. DraftInv => CapabilityRecoverable
  <2> SUFFICES ASSUME DraftInv PROVE CapabilityRecoverable
    OBVIOUS
  <2>1. ASSUME NEW c \in DraftCarts, OfGuest(c)
        PROVE  LET cap == row[c].cap IN
               /\ answered[c][cap.key] = cap.print
               /\ cap = Drafts!Capability(c, cap.key, cap.print, row[c].expires)
    BY <2>1 DEF DraftInv, StarterKnown, Caps, Drafts!Capabilities, Drafts!Capability
  <2>2. ASSUME NEW t \in Tabs, request[t].phase = "answered", request[t].cap # None,
               OfGuest(request[t].cap.cart), request[t].cap.expires > clock
        PROVE  row[request[t].cap.cart].cap = request[t].cap
    <3>1. request[t].cap \in Caps /\ Opens(request[t].cap)
      BY <2>2 DEF DraftInv, DraftTypes, AnswersOpen, AnsweredSaves, SentSaves, Drafts!Idle
    <3>2. request[t].cap.expires \in Nat /\ clock \in Nat
      BY <3>1 DEF Caps, Drafts!Capabilities, DraftInv, DraftTypes
    <3> QED BY <2>2, <3>1, <3>2 DEF Opens
  <2> QED BY <2>1, <2>2 DEF CapabilityRecoverable, Drafts!CapabilityRecoverable, OfGuest
<1> QED BY <1>1, DraftInvariant, PTL

\* What a step may change in the content and the expiry of a draft.
BodyByNewKey(c) ==
  row[c] # None /\ row'[c] # None =>
    /\ row'[c].body # row[c].body /\ row'[c].expires = row[c].expires =>
         \E k \in PayKeys : /\ answered[c][k] = None
                            /\ answered'[c][k] # None
                            /\ answered'[c][k].body = row'[c].body
    /\ row[c].user = Guest /\ row'[c].user = Guest /\ row'[c].expires # row[c].expires =>
         row[c].expires <= clock /\ row'[c].expires > row[c].expires

LEMMA StartOverwrites ==
  ASSUME DraftInv, NEW t \in Tabs, Drafts!Start(t), NEW c \in DraftCarts PROVE BodyByNewKey(c)
<1> DEFINE q == request[t]
           until == q.now + Lifetime
           cap == IF q.of = Guest
                    THEN Drafts!Capability(q.cart, q.key, Drafts!Fingerprint(q), until) ELSE None
           d == [user |-> q.of, body |-> q.body, cap |-> cap,
                 expires |-> IF q.of = Guest THEN until ELSE None]
<1>1. q \in SentSaves /\ q.now <= clock
  BY SentSave DEF Drafts!Start
<1>2. /\ row' = [row EXCEPT ![q.cart] = d]
      /\ row[q.cart] = None \/ (row[q.cart] # None /\ Drafts!Restarts(row[q.cart], q))
  BY DEF Drafts!Start
<1>3. CASE c # q.cart
  BY <1>2, <1>3 DEF BodyByNewKey, DraftInv, DraftTypes
<1>4. CASE c = q.cart /\ row[c] # None
  <2>1. q.of = Guest /\ row[c].user = Guest /\ row[c].expires <= q.now
    BY <1>2, <1>4 DEF Drafts!Restarts
  <2>2. row[c].expires \in Nat /\ q.now \in Nat /\ clock \in Nat
    BY <1>1, <1>4, <2>1 DEF DraftInv, DraftTypes, StarterKnown, OfGuest, SentSaves
  <2>3. row'[c] = d /\ d.expires = until
    BY <1>2, <1>4, <2>1 DEF DraftInv, DraftTypes
  <2>4. until > row[c].expires /\ row[c].expires <= clock
    BY <1>1, <2>1, <2>2, DraftsAssumption
  <2> HIDE DEF d, until
  <2> QED BY <2>2, <2>3, <2>4 DEF BodyByNewKey
<1>5. CASE row[c] = None
  BY <1>5 DEF BodyByNewKey
<1> QED BY <1>3, <1>4, <1>5

LEMMA ChangeOverwrites ==
  ASSUME DraftInv, NEW t \in Tabs, Drafts!Change(t), NEW c \in DraftCarts PROVE BodyByNewKey(c)
<1> DEFINE q == request[t]
           e == Drafts!Adopted(row[q.cart], q)
           d == [e EXCEPT !.body = q.body]
<1>1. q \in SentSaves /\ row[q.cart] # None /\ owner[q.cart] = q.of
  BY SentSave DEF Drafts!Change, Drafts!Standing, Drafts!CartStands
<1>2. /\ q.cart \in DraftCarts /\ q.key \in PayKeys /\ q.of \in {User, Guest} /\ q.body \in Bodies
      /\ Drafts!Fingerprint(q) \in Prints /\ Drafts!Fingerprint(q).body = q.body
  BY <1>1 DEF SentSaves, Prints, Drafts!Fingerprints, Drafts!Fingerprint
<1>3. /\ row' = [row EXCEPT ![q.cart] = d]
      /\ answered[q.cart][q.key] = None
      /\ answered' = [answered EXCEPT ![q.cart][q.key] = Drafts!Fingerprint(q)]
  BY DEF Drafts!Change, Drafts!Reply
<1>4. CASE c # q.cart
  BY <1>3, <1>4 DEF BodyByNewKey, DraftInv, DraftTypes
<1>5. CASE c = q.cart
  <2>1. /\ e \in Rows /\ (e.user = Guest => e = row[c])
    BY <1>1, <1>2, <1>5, AdoptedRow
  <2>2. d.user = e.user /\ d.expires = e.expires /\ d.body = q.body
    BY <2>1 DEF Rows, Drafts!DraftRows
  <2>3. row'[c] = d /\ answered'[c][q.key] = Drafts!Fingerprint(q)
    BY <1>2, <1>3, <1>5 DEF DraftInv, DraftTypes
  <2>4. answered'[c][q.key] # None /\ answered'[c][q.key].body = row'[c].body
    BY <1>2, <2>2, <2>3, DraftsAssumption DEF Prints
  <2> HIDE DEF d, e
  <2> QED BY <1>2, <1>3, <1>5, <2>1, <2>2, <2>3, <2>4 DEF BodyByNewKey
<1> QED BY <1>4, <1>5

LEMMA ReplayOverwrites ==
  ASSUME DraftInv, NEW t \in Tabs, Drafts!Replay(t), NEW c \in DraftCarts PROVE BodyByNewKey(c)
<1> DEFINE q == request[t]
           e == Drafts!Adopted(row[q.cart], q)
<1>1. q \in SentSaves /\ row[q.cart] # None /\ owner[q.cart] = q.of
  BY SentSave DEF Drafts!Replay, Drafts!Standing, Drafts!CartStands
<1>2. q.cart \in DraftCarts /\ q.of \in {User, Guest} /\ row[q.cart] \in Rows
  BY <1>1 DEF SentSaves, DraftInv, DraftTypes
<1>3. row' = [row EXCEPT ![q.cart] = e]
  BY DEF Drafts!Replay
<1>4. e.user = Guest => e = row[q.cart]
  BY <1>1, <1>2, AdoptedRow
<1>5. e.body = row[q.cart].body
  BY <1>2 DEF Drafts!Adopted, Rows, Drafts!DraftRows
<1>6. CASE c # q.cart
  BY <1>3, <1>6 DEF BodyByNewKey, DraftInv, DraftTypes
<1>7. CASE c = q.cart
  <2>1. row'[c] = e
    BY <1>2, <1>3, <1>7 DEF DraftInv, DraftTypes
  <2> HIDE DEF e
  <2> QED BY <1>4, <1>5, <1>7, <2>1 DEF BodyByNewKey
<1> QED BY <1>6, <1>7

LEMMA DropOverwrites ==
  ASSUME DraftInv, NEW S \in SUBSET DraftCarts, Drafts!DropDrafts(S), NEW c \in DraftCarts
  PROVE  BodyByNewKey(c)
<1>1. row'[c] = IF c \in S THEN None ELSE row[c]
  BY DEF Drafts!DropDrafts
<1> QED BY <1>1 DEF BodyByNewKey

\* A save that is repeated late never overwrites what a later save wrote, and
\* the expiry of a guest draft never slides (CheckoutService.saveDraft).
THEOREM DraftsNeverOverwritten == Drafts!Spec => RetryNeverOverwrites
<1>1. DraftInv /\ [Drafts!Next]_(Drafts!vars) =>
        [\A c \in DraftCarts : row[c] # None /\ row'[c] # None =>
          /\ row'[c].body # row[c].body /\ row'[c].expires = row[c].expires =>
               \E k \in PayKeys : /\ answered[c][k] = None
                                  /\ answered'[c][k] # None
                                  /\ answered'[c][k].body = row'[c].body
          /\ row[c].user = Guest /\ row'[c].user = Guest /\ row'[c].expires # row[c].expires =>
               /\ row[c].expires <= clock
               /\ row'[c].expires > row[c].expires]_(Drafts!vars)
  <2> SUFFICES ASSUME DraftInv, Drafts!Next, NEW c \in DraftCarts PROVE BodyByNewKey(c)
    BY DEF BodyByNewKey
  <2>1. CASE row' = row
    BY <2>1 DEF BodyByNewKey
  <2>2. CASE \E t \in Tabs : Drafts!Step(t)
    <3>1. PICK t \in Tabs : Drafts!Step(t)
      BY <2>2
    <3>2. CASE Drafts!Start(t) \/ Drafts!Change(t) \/ Drafts!Replay(t)
      BY <3>2, StartOverwrites, ChangeOverwrites, ReplayOverwrites
    <3>3. CASE ~ (Drafts!Start(t) \/ Drafts!Change(t) \/ Drafts!Replay(t))
      BY <2>1, <3>1, <3>3
      DEF Drafts!Step, Drafts!Send, Drafts!Recover, Drafts!Lose, Drafts!Deliver
    <3> QED BY <3>2, <3>3
  <2>3. CASE Drafts!PurgeSome
    BY <2>3, DropOverwrites DEF Drafts!PurgeSome, Drafts!Purge
  <2>4. CASE \E e \in DraftCarts : Drafts!TakeCart(e)
    BY <2>1, <2>4, DropOverwrites DEF Drafts!TakeCart
  <2>5. CASE \/ \E e \in DraftCarts : Drafts!StartPayment(e) \/ Drafts!ReleaseClaim(e)
             \/ Drafts!Tick
    BY <2>1, <2>5 DEF Drafts!StartPayment, Drafts!ReleaseClaim, Drafts!Tick
  <2> QED BY <2>2, <2>3, <2>4, <2>5 DEF Drafts!Next
<1> QED
  BY <1>1, DraftInvariant, PTL DEF Drafts!Spec, RetryNeverOverwrites, Drafts!RetryNeverOverwrites

-----------------------------------------------------------------------------
(* The cart of a tab: the invariant                                        *)

Reads == [phase : {"sent", "done"}, cart : Cart!ApiCarts \cup {None}, latest : BOOLEAN]
ReadyStates == [kind : {"ready"}, cart : Cart!ApiCarts, message : BOOLEAN]

CartTypes ==
  /\ lines \in [Products -> Nat]
  /\ version \in Nat /\ lateAt \in 0..version
  /\ late \subseteq Cart!Changes
  /\ \A c \in late :
       c.kind # "readiness" /\ (c.kind \in {"add", "update", "remove"} => c.product \in Products)
  /\ state \in ReadyStates \cup {Cart!Loading, Cart!Unavailable}
  /\ task \in Cart!Tasks \cup {None}
  /\ task # None /\ task.change.kind \in {"add", "update", "remove"} =>
       task.change.product \in Products
  /\ reads \subseteq Reads
  /\ \A r \in reads : r.phase = "done" => r.cart \in Cart!ApiCarts
  /\ task # None /\ task.phase \in {"done", "recovered"} => task.cart \in Cart!ApiCarts
  /\ queued # None => queued \in Cart!Changes /\ queued.kind = "update" /\ queued.product \in Products

\* A cart of the API that is its present one, or older than a change that was
\* given up and came through late.
Current(c) == c.version <= version /\ (c = Cart!Cart(lines, version) \/ lateAt > c.version)

\* While a change runs nothing else may set the cart on show, and what it will
\* show is current; otherwise what is shown or is about to be is.
ShownWillBeCurrent ==
  /\ Cart!Mutating =>
       /\ task.latest
       /\ \A r \in reads : ~ r.latest
       /\ task.phase \in {"done", "recovered"} => Current(task.cart)
  /\ ~ Cart!Mutating /\ state.kind = "ready" => Current(state.cart)
  /\ \A r \in reads : r.latest /\ r.phase = "done" => Current(r.cart)

CartInv == CartTypes /\ ShownWillBeCurrent

\* A change is pending as long as it runs.
PendingRuns ==
  Cart!Mutating => pending # None /\ (pending.kind = "update" <=> task.change.kind = "update")

\* The amount chosen last waits, is under way, failed, or is stored.
WantedOnItsWay ==
  wanted # None =>
    /\ wanted \in Cart!Changes /\ wanted.kind = "update" /\ wanted.product \in Products
    /\ lateAt = 0 =>
         \/ Cart!Mutating /\ task.phase \in {"failed", "recovering", "recovered"}
         \/ Cart!Mutating /\ task.change.kind = "update" /\ queued = wanted
         \/ Cart!Mutating /\ task.phase = "sent" /\ task.change = wanted /\ queued = None
         \/ /\ Cart!Mutating => task.phase = "done" /\ queued = None
            /\ lines[wanted.product] = wanted.amount

WantedInv == CartInv /\ PendingRuns /\ WantedOnItsWay

LEMMA InitCart == Cart!Init => WantedInv
<1> SUFFICES ASSUME Cart!Init PROVE WantedInv
  OBVIOUS
<1>1. Cart!Load \in Reads /\ Cart!Load.phase = "sent" /\ Cart!Loading.kind = "loading"
  BY DEF Cart!Load, Reads, Cart!Loading
<1>2. CartTypes
  BY <1>1 DEF Cart!Init, CartTypes
<1>3. ShownWillBeCurrent /\ PendingRuns /\ WantedOnItsWay
  BY <1>1 DEF Cart!Init, ShownWillBeCurrent, PendingRuns, WantedOnItsWay, Cart!Mutating
<1> QED BY <1>2, <1>3 DEF WantedInv, CartInv

LEMMA AfterTypes ==
  ASSUME NEW l \in [Products -> Nat], NEW c \in Cart!Changes, c.kind # "readiness",
         c.kind \in {"add", "update", "remove"} => c.product \in Products
  PROVE  /\ Cart!After(l, c) \in [Products -> Nat]
         /\ c.kind = "update" => Cart!After(l, c)[c.product] = c.amount
<1>1. c.kind \in {"add", "update", "remove", "clear"} /\ c.amount \in Nat
  BY DEF Cart!Changes, Cart!Kinds
<1>2. CASE c.kind = "add"
  BY <1>1, <1>2 DEF Cart!After
<1>3. CASE c.kind = "update"
  BY <1>1, <1>3 DEF Cart!After
<1>4. CASE c.kind = "remove"
  BY <1>1, <1>4 DEF Cart!After
<1>5. CASE c.kind = "clear"
  BY <1>1, <1>5 DEF Cart!After
<1> QED BY <1>1, <1>2, <1>3, <1>4, <1>5

LEMMA OlderReads ==
  ASSUME CartTypes
  PROVE  /\ Cart!Older(reads) \subseteq Reads
         /\ \A r \in Cart!Older(reads) : ~ r.latest /\ (r.phase = "done" => r.cart \in Cart!ApiCarts)
         /\ Cart!Load \in Reads /\ Cart!Load.phase = "sent"
<1>1. ASSUME NEW r \in reads, NEW o, o = [r EXCEPT !.latest = FALSE]
      PROVE  o \in Reads /\ ~ o.latest /\ (o.phase = "done" => o.cart \in Cart!ApiCarts)
  BY <1>1 DEF CartTypes, Reads
<1>2. Cart!Load \in Reads /\ Cart!Load.phase = "sent"
  BY DEF Cart!Load, Reads
<1> QED BY <1>1, <1>2 DEF Cart!Older

LEMMA NewTask ==
  ASSUME NEW c \in Cart!Changes
  PROVE  /\ Cart!Task(c) \in Cart!Tasks /\ Cart!Task(c) # None
         /\ Cart!Task(c).change = c /\ Cart!Task(c).phase = "sent" /\ Cart!Task(c).latest
<1>1. /\ Cart!Task(c) \in Cart!Tasks
      /\ Cart!Task(c).change = c /\ Cart!Task(c).phase = "sent" /\ Cart!Task(c).latest
  BY DEF Cart!Task, Cart!Tasks, Cart!Phases
<1> QED BY <1>1, CartAssumption

\* The lines and their version, and what is under way late, stay.
LEMMA SameApi ==
  ASSUME UNCHANGED <<lines, version, late, lateAt>>
  PROVE  \A c : Current(c)' <=> Current(c)
BY DEF Current, Cart!Cart

LEMMA RefreshKeeps == ASSUME WantedInv, Cart!Refresh PROVE WantedInv'
<1> USE DEF WantedInv, CartInv
<1>1. UNCHANGED <<lines, version, late, lateAt, pending, queued>> /\ wanted' = None
  BY DEF Cart!Refresh, Cart!api
<1>2. CASE Cart!Mutating
  <2>1. UNCHANGED <<state, reads, task>>
    BY <1>2 DEF Cart!Refresh
  <2> QED
    BY <1>1, <2>1, SameApi
    DEF CartTypes, ShownWillBeCurrent, PendingRuns, WantedOnItsWay, Cart!Mutating, Reads
<1>3. CASE ~ Cart!Mutating
  <2>1. /\ state' = Cart!Loading /\ reads' = Cart!Older(reads) \cup {Cart!Load}
        /\ task' = Cart!OlderTask
    BY <1>3 DEF Cart!Refresh, Cart!Reload
  <2>2. \/ task' = None
        \/ /\ task # None /\ task' \in Cart!Tasks
           /\ task'.change = task.change /\ task'.phase = task.phase
           /\ task'.cart = task.cart
    BY <2>1 DEF Cart!OlderTask, CartTypes, Cart!Tasks
  <2>3. CartTypes'
    BY <1>1, <2>1, <2>2, OlderReads DEF CartTypes
  <2>4. ~ Cart!Mutating'
    BY <1>3, <2>2 DEF Cart!Mutating
  <2>5. state'.kind = "loading"
    BY <2>1 DEF Cart!Loading
  <2>6. ShownWillBeCurrent'
    BY <2>1, <2>4, <2>5, OlderReads DEF ShownWillBeCurrent
  <2>7. PendingRuns' /\ WantedOnItsWay'
    BY <1>1, <2>4 DEF PendingRuns, WantedOnItsWay
  <2> QED BY <2>3, <2>6, <2>7
<1> QED BY <1>2, <1>3

LEMMA ReadCartKeeps == ASSUME WantedInv, NEW r \in reads, Cart!ReadCart(r) PROVE WantedInv'
<1> USE DEF WantedInv, CartInv
<1>1. UNCHANGED <<lines, version, late, lateAt, state, pending, queued, task, wanted>>
  BY DEF Cart!ReadCart, Cart!api
<1>2. PICK c : c = Cart!Cart(lines, version)
  OBVIOUS
<1>3. c \in Cart!ApiCarts /\ Current(c)
  BY <1>2 DEF CartTypes, Cart!ApiCarts, Cart!Cart, Current
<1>4. PICK s : /\ s = [r EXCEPT !.phase = "done", !.cart = c]
               /\ reads' = (reads \ {r}) \cup {s}
  BY <1>2 DEF Cart!ReadCart
<1>5. s \in Reads /\ s.cart = c /\ s.latest = r.latest
  BY <1>3, <1>4 DEF CartTypes, Reads
<1>6. CartTypes'
  BY <1>1, <1>3, <1>4, <1>5 DEF CartTypes
<1>7. ShownWillBeCurrent'
  BY <1>1, <1>3, <1>4, <1>5, SameApi DEF ShownWillBeCurrent, Cart!Mutating
<1>8. PendingRuns' /\ WantedOnItsWay'
  BY <1>1 DEF PendingRuns, WantedOnItsWay, Cart!Mutating
<1> QED BY <1>6, <1>7, <1>8

LEMMA LoadedKeeps == ASSUME WantedInv, NEW r \in reads, Cart!Loaded(r) PROVE WantedInv'
<1> USE DEF WantedInv, CartInv
<1>1. /\ UNCHANGED <<lines, version, late, lateAt, pending, queued, task, wanted>>
      /\ reads' = reads \ {r}
  BY DEF Cart!Loaded, Cart!api
<1>2. \/ state' = state
      \/ r.latest /\ state' = Cart!Unavailable /\ state'.kind = "unavailable"
      \/ /\ r.latest /\ r.phase = "done" /\ state' \in ReadyStates /\ state'.cart = r.cart
  BY DEF Cart!Loaded, Cart!Ready, Cart!Unavailable, ReadyStates, CartTypes
<1>3. CartTypes'
  BY <1>1, <1>2 DEF CartTypes
<1>4. ShownWillBeCurrent'
  BY <1>1, <1>2, SameApi DEF ShownWillBeCurrent, Cart!Mutating
<1>5. PendingRuns' /\ WantedOnItsWay'
  BY <1>1 DEF PendingRuns, WantedOnItsWay, Cart!Mutating
<1> QED BY <1>3, <1>4, <1>5

\* A change begins to run.
LEMMA BeginKeeps ==
  ASSUME WantedInv, NEW c \in Cart!Changes, c.kind # "readiness",
         c.kind \in {"add", "update", "remove"} => c.product \in Products,
         task' = Cart!Task(c), pending' = c, reads' = Cart!Older(reads),
         wanted' = IF c.kind = "update" THEN c ELSE None,
         c.kind = "update" => queued' = None,
         queued' \in {queued, None},
         UNCHANGED <<lines, version, late, lateAt, state>>
  PROVE  WantedInv'
<1> USE DEF WantedInv, CartInv
<1>1. /\ task' \in Cart!Tasks /\ task' # None /\ task'.change = c /\ task'.phase = "sent"
      /\ task'.latest
  BY NewTask
<1>2. Cart!Mutating'
  BY <1>1 DEF Cart!Mutating
<1>3. CartTypes'
  BY <1>1, OlderReads DEF CartTypes
<1>4. ShownWillBeCurrent'
  BY <1>1, <1>2, OlderReads DEF ShownWillBeCurrent
<1>5. PendingRuns'
  BY <1>1, CartAssumption DEF PendingRuns
<1>6. WantedOnItsWay'
  BY <1>1, <1>2 DEF WantedOnItsWay
<1> QED BY <1>3, <1>4, <1>5, <1>6

LEMMA ChangeTypes ==
  /\ \A p \in Products, n \in 1..MaxAmount :
       /\ Cart!Change("add", p, n) \in Cart!Changes /\ Cart!Change("add", p, n).kind = "add"
       /\ Cart!Change("add", p, n).product = p
       /\ Cart!Change("update", p, n) \in Cart!Changes /\ Cart!Change("update", p, n).kind = "update"
       /\ Cart!Change("update", p, n).product = p
  /\ \A p \in Products :
       /\ Cart!Change("remove", p, 0) \in Cart!Changes /\ Cart!Change("remove", p, 0).kind = "remove"
       /\ Cart!Change("remove", p, 0).product = p
  /\ Cart!Change("clear", None, 0) \in Cart!Changes /\ Cart!Change("clear", None, 0).kind = "clear"
  /\ Cart!Change("readiness", None, 0) \in Cart!Changes
  /\ Cart!Change("readiness", None, 0).kind = "readiness"
BY CartAssumption DEF Cart!Change, Cart!Changes, Cart!Kinds

LEMMA MutateKeeps ==
  ASSUME WantedInv, NEW c \in Cart!Changes, c.kind \in {"add", "remove", "clear"},
         c.kind \in {"add", "remove"} => c.product \in Products, Cart!Mutate(c)
  PROVE  WantedInv'
BY BeginKeeps DEF Cart!Mutate, Cart!Begin, Cart!api

LEMMA UpdateKeeps ==
  ASSUME WantedInv, NEW p \in Products, NEW n \in 1..MaxAmount, Cart!Update(p, n) PROVE WantedInv'
<1> DEFINE c == Cart!Change("update", p, n)
<1>1. c \in Cart!Changes /\ c.kind = "update" /\ c.product = p
  BY ChangeTypes
<1> HIDE DEF c
<1>2. CASE Cart!Mutating
  <2>1. /\ pending' = c /\ queued' = c /\ wanted' = c
        /\ UNCHANGED <<lines, version, late, lateAt, state, task, reads>>
    BY <1>2 DEF Cart!Update, Cart!api, c
  <2>2. Cart!Mutating' /\ c # None
    BY <1>1, <1>2, <2>1, CartAssumption DEF Cart!Mutating
  <2>3. task.change.kind = "update"
    BY <1>2 DEF Cart!Update, Cart!Offered, WantedInv, PendingRuns
  <2>4. CartInv'
    BY <1>1, <1>2, <2>1, <2>2, SameApi DEF WantedInv, CartInv, CartTypes, ShownWillBeCurrent
  <2>5. PendingRuns' /\ WantedOnItsWay'
    BY <1>1, <2>1, <2>2, <2>3 DEF PendingRuns, WantedOnItsWay
  <2> QED BY <2>4, <2>5 DEF WantedInv
<1>3. CASE ~ Cart!Mutating
  <2>1. /\ task' = Cart!Task(c) /\ pending' = c /\ reads' = Cart!Older(reads)
        /\ wanted' = c /\ queued' = None /\ UNCHANGED <<lines, version, late, lateAt, state>>
    BY <1>3 DEF Cart!Update, Cart!Begin, Cart!api, c
  <2> QED BY <1>1, <2>1, BeginKeeps
<1> QED BY <1>2, <1>3

LEMMA CheckKeeps == ASSUME WantedInv, Cart!CheckReadiness PROVE WantedInv'
<1> DEFINE c == Cart!Change("readiness", None, 0)
<1>1. c \in Cart!Changes /\ c.kind = "readiness"
  BY ChangeTypes
<1>2. /\ pending = None /\ pending' = c /\ task' = Cart!Task(c)
      /\ UNCHANGED <<lines, version, late, lateAt, state, queued, reads, wanted>>
  BY DEF Cart!CheckReadiness, Cart!Begin, Cart!api
<1> HIDE DEF c
<1>3. /\ task' \in Cart!Tasks /\ task' # None /\ task'.change = c /\ task'.phase = "sent"
  BY <1>1, <1>2, NewTask
<1>4. ~ Cart!Mutating /\ ~ Cart!Mutating'
  BY <1>1, <1>2, <1>3 DEF Cart!Mutating, WantedInv, PendingRuns
<1>5. CartTypes'
  BY <1>1, <1>2, <1>3 DEF WantedInv, CartInv, CartTypes
<1>6. ShownWillBeCurrent'
  BY <1>2, <1>4, SameApi DEF WantedInv, CartInv, ShownWillBeCurrent
<1>7. PendingRuns' /\ WantedOnItsWay'
  BY <1>2, <1>4 DEF WantedInv, PendingRuns, WantedOnItsWay
<1> QED BY <1>5, <1>6, <1>7 DEF WantedInv, CartInv

\* The running change moves to another phase.
LEMMA PhaseKeeps ==
  ASSUME WantedInv, Cart!Mutating,
         UNCHANGED <<lines, version, lateAt, state, pending, reads, wanted>>,
         late' \in {late, late \cup {task.change}},
         task' \in Cart!Tasks, task'.change = task.change, task'.latest = task.latest,
         task'.phase \in {"failed", "recovering", "recovered"},
         task'.phase = "recovered" => task'.cart \in Cart!ApiCarts /\ Current(task'.cart),
         queued' \in {queued, None}
  PROVE  WantedInv'
<1>1. task # None /\ task' # None /\ task.change.kind # "readiness" /\ task \in Cart!Tasks
  BY CartAssumption DEF Cart!Mutating, WantedInv, CartInv, CartTypes
<1>2. Cart!Mutating'
  BY <1>1 DEF Cart!Mutating
<1>3. CartTypes'
  BY <1>1 DEF WantedInv, CartInv, CartTypes, Cart!Tasks
<1>4. \A c : Current(c)' <=> Current(c)
  BY DEF Current, Cart!Cart
<1>5. ShownWillBeCurrent'
  BY <1>1, <1>2, <1>4 DEF WantedInv, CartInv, ShownWillBeCurrent
<1>6. PendingRuns' /\ WantedOnItsWay'
  BY <1>1, <1>2 DEF WantedInv, PendingRuns, WantedOnItsWay
<1> QED BY <1>3, <1>5, <1>6 DEF WantedInv, CartInv

LEMMA FailRecoverKeeps ==
  ASSUME WantedInv, Cart!Fail \/ Cart!Recover \/ Cart!ReadRecovery PROVE WantedInv'
<1>1. /\ Cart!Mutating /\ task \in Cart!Tasks
      /\ UNCHANGED <<lines, version, lateAt, state, pending, reads, wanted>>
      /\ late' \in {late, late \cup {task.change}} /\ queued' \in {queued, None}
  <2>1. Cart!Mutating
    BY DEF Cart!Fail, Cart!Recover, Cart!ReadRecovery
  <2>2. UNCHANGED <<lines, version, lateAt, state, pending, reads, wanted>>
    BY DEF Cart!Fail, Cart!Recover, Cart!ReadRecovery, Cart!api
  <2>3. late' \in {late, late \cup {task.change}} /\ queued' \in {queued, None}
    BY DEF Cart!Fail, Cart!Recover, Cart!ReadRecovery, Cart!api
  <2> QED BY <2>1, <2>2, <2>3 DEF Cart!Mutating, WantedInv, CartInv, CartTypes
<1>2. PICK c : c = Cart!Cart(lines, version)
  OBVIOUS
<1>3. c \in Cart!ApiCarts /\ Current(c)
  BY <1>2 DEF WantedInv, CartInv, CartTypes, Cart!ApiCarts, Cart!Cart, Current
<1>4. Current(c)'
  BY <1>1, <1>3 DEF Current, Cart!Cart
<1>5. \/ task' = [task EXCEPT !.phase = "failed", !.cart = None]
      \/ task' = [task EXCEPT !.phase = "recovering"]
      \/ task' = [task EXCEPT !.phase = "recovered", !.cart = c]
  BY <1>2 DEF Cart!Fail, Cart!Recover, Cart!ReadRecovery
<1>6. /\ task' \in Cart!Tasks /\ task'.change = task.change /\ task'.latest = task.latest
      /\ task'.phase \in {"failed", "recovering", "recovered"}
      /\ task'.phase = "recovered" => task'.cart = c
  BY <1>1, <1>3, <1>5 DEF Cart!Tasks, Cart!Phases
<1> QED BY <1>1, <1>3, <1>6, PhaseKeeps

\* The API carries the running change out: no other cart is on its way to the page.
LEMMA ApplyKeeps == ASSUME WantedInv, Cart!Apply PROVE WantedInv'
<1>1. /\ Cart!Mutating /\ task \in Cart!Tasks /\ task # None /\ task.phase = "sent"
      /\ UNCHANGED <<late, lateAt, state, pending, queued, reads, wanted>>
  BY CartAssumption DEF Cart!Apply, Cart!Mutating, WantedInv, CartInv, CartTypes
<1>2. CASE ~ Cart!Allowed(lines, task.change)
  <2>1. task' = [task EXCEPT !.phase = "failed"] /\ UNCHANGED <<lines, version>>
    BY <1>2 DEF Cart!Apply
  <2>2. /\ task' \in Cart!Tasks /\ task'.change = task.change /\ task'.latest = task.latest
        /\ task'.phase = "failed"
    BY <1>1, <2>1 DEF Cart!Tasks, Cart!Phases
  <2> QED BY <1>1, <2>1, <2>2, PhaseKeeps
<1>3. CASE Cart!Allowed(lines, task.change)
  <2>1. PICK c : c = Cart!Cart(lines', version') /\ task' = [task EXCEPT !.phase = "done", !.cart = c]
    BY <1>3 DEF Cart!Apply
  <2>2. lines' = Cart!After(lines, task.change) /\ version' = version + 1
    BY <1>3 DEF Cart!Apply
  <2>3. /\ task.change \in Cart!Changes /\ task.change.kind # "readiness"
        /\ task.change.kind \in {"add", "update", "remove"} => task.change.product \in Products
    BY <1>1 DEF Cart!Mutating, Cart!Tasks, WantedInv, CartInv, CartTypes
  <2>4. /\ lines' \in [Products -> Nat] /\ version' \in Nat
        /\ task.change.kind = "update" => lines'[task.change.product] = task.change.amount
    BY <2>2, <2>3, AfterTypes DEF WantedInv, CartInv, CartTypes
  <2>5. c \in Cart!ApiCarts /\ Current(c)'
    BY <2>1, <2>4 DEF Cart!ApiCarts, Cart!Cart, Current
  <2>6. /\ task' \in Cart!Tasks /\ task'.change = task.change /\ task'.latest = task.latest
        /\ task'.phase = "done" /\ task'.cart = c
    BY <1>1, <2>1, <2>5 DEF Cart!Tasks, Cart!Phases
  <2>7. Cart!Mutating' /\ task' # None
    BY <1>1, <2>6, CartAssumption DEF Cart!Mutating
  <2>8. CartTypes'
    BY <1>1, <2>2, <2>3, <2>4, <2>5, <2>6 DEF WantedInv, CartInv, CartTypes
  <2>9. ShownWillBeCurrent'
    BY <1>1, <2>5, <2>6, <2>7 DEF WantedInv, CartInv, ShownWillBeCurrent
  <2>10. PendingRuns'
    BY <1>1, <2>6 DEF WantedInv, PendingRuns
  <2>11. WantedOnItsWay'
    BY <1>1, <2>4, <2>6, <2>7 DEF WantedInv, WantedOnItsWay
  <2> QED BY <2>8, <2>9, <2>10, <2>11 DEF WantedInv, CartInv
<1> QED BY <1>2, <1>3

LEMMA ApplyLateKeeps == ASSUME WantedInv, NEW c \in late, Cart!ApplyLate(c) PROVE WantedInv'
<1>1. /\ UNCHANGED <<state, pending, queued, task, reads, wanted>> /\ late' = late \ {c}
  BY DEF Cart!ApplyLate, Cart!provider
<1>2. CASE UNCHANGED <<lines, version, lateAt>>
  <2>1. \A x : Current(x)' <=> Current(x)
    BY <1>2 DEF Current, Cart!Cart
  <2> QED
    BY <1>1, <1>2, <2>1
    DEF WantedInv, CartInv, CartTypes, ShownWillBeCurrent, PendingRuns, WantedOnItsWay, Cart!Mutating
<1>3. CASE lines' = Cart!After(lines, c) /\ version' = version + 1 /\ lateAt' = version'
  <2>1. /\ c \in Cart!Changes /\ c.kind # "readiness"
        /\ c.kind \in {"add", "update", "remove"} => c.product \in Products
    BY DEF WantedInv, CartInv, CartTypes
  <2>2. lines' \in [Products -> Nat] /\ version' \in Nat /\ lateAt' \in 0..version' /\ lateAt' # 0
    BY <1>3, <2>1, AfterTypes DEF WantedInv, CartInv, CartTypes
  <2>3. \A x \in Cart!ApiCarts : Current(x) => Current(x)'
    BY <1>3 DEF WantedInv, CartInv, CartTypes, Cart!ApiCarts, Current
  <2>4. CartTypes'
    BY <1>1, <2>2 DEF WantedInv, CartInv, CartTypes
  <2>5. ShownWillBeCurrent'
    <3>1. state.kind = "ready" => state.cart \in Cart!ApiCarts
      BY DEF WantedInv, CartInv, CartTypes, ReadyStates, Cart!Loading, Cart!Unavailable
    <3>2. Cart!Mutating => task # None
      BY DEF Cart!Mutating
    <3> QED
      BY <1>1, <2>3, <3>1, <3>2
      DEF WantedInv, CartInv, CartTypes, ShownWillBeCurrent, Cart!Mutating
  <2>6. PendingRuns' /\ WantedOnItsWay'
    BY <1>1, <2>2 DEF WantedInv, PendingRuns, WantedOnItsWay, Cart!Mutating
  <2> QED BY <2>4, <2>5, <2>6 DEF WantedInv, CartInv
<1> QED BY <1>2, <1>3 DEF Cart!ApplyLate

\* The change ends, and shows a current cart or none; a refresh that waited begins.
LEMMA FinishKeeps ==
  ASSUME WantedInv, Cart!Mutating, NEW shown, Cart!Finish(shown),
         shown \in ReadyStates \cup {Cart!Unavailable},
         shown.kind = "ready" => Current(shown.cart),
         UNCHANGED <<lines, version, late, lateAt>>,
         queued' \in {queued, None},
         wanted' # None => wanted' = wanted /\ task.phase = "done" /\
                           ~ (task.change.kind = "update" /\ queued # None)
  PROVE  WantedInv'
<1>1. task' = None
  BY DEF Cart!Finish
<1>2. ~ Cart!Mutating'
  BY <1>1 DEF Cart!Mutating
<1>3. \/ state' = shown /\ reads' = reads
      \/ /\ state' = Cart!Loading /\ reads' = Cart!Older(reads) \cup {Cart!Load}
         /\ state'.kind = "loading"
  BY DEF Cart!Finish, Cart!Reload, Cart!Loading
<1>4. CartTypes'
  BY <1>1, <1>3, OlderReads DEF WantedInv, CartInv, CartTypes
<1>5. ShownWillBeCurrent'
  BY <1>2, <1>3, OlderReads, SameApi DEF WantedInv, CartInv, ShownWillBeCurrent
<1>6. PendingRuns' /\ WantedOnItsWay'
  BY <1>2 DEF WantedInv, PendingRuns, WantedOnItsWay
<1> QED BY <1>4, <1>5, <1>6 DEF WantedInv, CartInv

\* The next amount, which waited, is sent.
LEMMA AnsweredKeeps == ASSUME WantedInv, Cart!Answered PROVE WantedInv'
<1>1. /\ Cart!Mutating /\ task \in Cart!Tasks /\ task # None /\ task.phase = "done"
      /\ task.latest /\ task.cart \in Cart!ApiCarts /\ Current(task.cart)
      /\ UNCHANGED <<lines, version, late, lateAt, wanted>>
  BY DEF Cart!Answered, Cart!Mutating, Cart!api, WantedInv, CartInv, CartTypes, ShownWillBeCurrent
<1>2. PICK shown : shown = Cart!Shown(Cart!Ready(task.cart, FALSE))
  OBVIOUS
<1>3. shown \in ReadyStates /\ shown.cart = task.cart /\ shown.kind = "ready"
  BY <1>1, <1>2 DEF Cart!Shown, Cart!Ready, ReadyStates
<1>4. CASE task.change.kind = "update" /\ queued # None
  <2>1. PICK t : t = [Cart!Task(queued) EXCEPT !.latest = task.latest] /\ task' = t
    BY <1>4 DEF Cart!Answered
  <2>2. queued \in Cart!Changes /\ queued.kind = "update" /\ queued.product \in Products
    BY <1>4 DEF WantedInv, CartInv, CartTypes
  <2>3. /\ t \in Cart!Tasks /\ t.change = queued /\ t.phase = "sent" /\ t.latest
    BY <1>1, <2>1, <2>2, NewTask DEF Cart!Tasks
  <2>4. state' = shown /\ queued' = None /\ UNCHANGED <<pending, reads>>
    BY <1>2, <1>4 DEF Cart!Answered
  <2>5. Cart!Mutating' /\ task' # None
    BY <2>1, <2>2, <2>3, CartAssumption DEF Cart!Mutating
  <2>6. CartTypes'
    BY <1>1, <1>3, <2>1, <2>2, <2>3, <2>4 DEF WantedInv, CartInv, CartTypes
  <2>7. ShownWillBeCurrent'
    BY <1>1, <2>1, <2>3, <2>4, <2>5 DEF WantedInv, CartInv, ShownWillBeCurrent
  <2>8. PendingRuns'
    BY <1>1, <1>4, <2>1, <2>2, <2>3, <2>4 DEF WantedInv, PendingRuns
  <2>9. WantedOnItsWay'
    BY <1>1, <1>4, <2>1, <2>3, <2>4, <2>5 DEF WantedInv, WantedOnItsWay
  <2> QED BY <2>6, <2>7, <2>8, <2>9 DEF WantedInv, CartInv
<1>5. CASE ~ (task.change.kind = "update" /\ queued # None)
  <2>1. Cart!Finish(shown) /\ queued' = queued
    BY <1>2, <1>5 DEF Cart!Answered
  <2> QED BY <1>1, <1>3, <1>5, <2>1, FinishKeeps
<1> QED BY <1>4, <1>5

LEMMA RecoveredKeeps == ASSUME WantedInv, Cart!Recovered PROVE WantedInv'
<1>1. /\ Cart!Mutating /\ task # None /\ task.latest
      /\ UNCHANGED <<lines, version, late, lateAt, queued>> /\ wanted' = None
  BY DEF Cart!Recovered, Cart!Mutating, Cart!api, WantedInv, CartInv, ShownWillBeCurrent
<1>2. CASE task.phase = "recovered" /\ Cart!Finish(Cart!Shown(Cart!Ready(task.cart, TRUE)))
  <2>1. PICK shown : shown = Cart!Shown(Cart!Ready(task.cart, TRUE))
    OBVIOUS
  <2>2. task.cart \in Cart!ApiCarts /\ Current(task.cart)
    BY <1>1, <1>2 DEF WantedInv, CartInv, CartTypes, ShownWillBeCurrent
  <2>3. shown \in ReadyStates /\ shown.cart = task.cart
    BY <1>1, <2>1, <2>2 DEF Cart!Shown, Cart!Ready, ReadyStates
  <2>4. Cart!Finish(shown)
    BY <1>2, <2>1
  <2> QED BY <1>1, <2>2, <2>3, <2>4, FinishKeeps
<1>3. CASE task.phase = "recovering" /\ Cart!Finish(Cart!Shown(Cart!Unavailable))
  <2>1. Cart!Finish(Cart!Unavailable) /\ Cart!Unavailable.kind = "unavailable"
    BY <1>1, <1>3 DEF Cart!Shown, Cart!Unavailable
  <2> QED BY <1>1, <2>1, FinishKeeps
<1> QED BY <1>2, <1>3 DEF Cart!Recovered

LEMMA ReadinessKeeps == ASSUME WantedInv, Cart!ReadinessAnswered PROVE WantedInv'
<1>1. /\ ~ Cart!Mutating /\ task' = None
      /\ UNCHANGED <<lines, version, late, lateAt, state, queued, reads, wanted>>
  BY DEF Cart!ReadinessAnswered, Cart!Mutating, Cart!api
<1>2. ~ Cart!Mutating'
  BY <1>1 DEF Cart!Mutating
<1> QED
  BY <1>1, <1>2, SameApi
  DEF WantedInv, CartInv, CartTypes, ShownWillBeCurrent, PendingRuns, WantedOnItsWay

LEMMA CartStep == WantedInv /\ [Cart!Next]_(Cart!vars) => WantedInv'
<1> SUFFICES ASSUME WantedInv, [Cart!Next]_(Cart!vars) PROVE WantedInv'
  OBVIOUS
<1>1. CASE Cart!Answers
  BY <1>1, ReadCartKeeps, LoadedKeeps, ApplyKeeps, FailRecoverKeeps, AnsweredKeeps, RecoveredKeeps,
     ReadinessKeeps DEF Cart!Answers
<1>2. CASE Cart!Asks
  <2>1. CASE Cart!Refresh \/ Cart!CheckReadiness
    BY <2>1, RefreshKeeps, CheckKeeps
  <2>2. CASE \E p \in Products : \/ \E n \in 1..MaxAmount : Cart!Mutate(Cart!Change("add", p, n))
                               \/ Cart!Mutate(Cart!Change("remove", p, 0))
    BY <2>2, ChangeTypes, MutateKeeps
  <2>3. CASE \E p \in Products : \E n \in 1..MaxAmount : Cart!Update(p, n)
    BY <2>3, UpdateKeeps
  <2>4. CASE Cart!Mutate(Cart!Change("clear", None, 0))
    BY <2>4, ChangeTypes, MutateKeeps
  <2> QED BY <1>2, <2>1, <2>2, <2>3, <2>4 DEF Cart!Asks
<1>3. CASE \E c \in late : Cart!ApplyLate(c)
  BY <1>3, ApplyLateKeeps
<1>4. CASE UNCHANGED Cart!vars
  BY <1>4, SameApi
  DEF Cart!vars, Cart!api, Cart!provider, WantedInv, CartInv, CartTypes, ShownWillBeCurrent,
      PendingRuns, WantedOnItsWay, Cart!Mutating
<1> QED BY <1>1, <1>2, <1>3, <1>4 DEF Cart!Next

LEMMA CartInvariant == Cart!Spec => []WantedInv
BY InitCart, CartStep, PTL DEF Cart!Spec

\* Once everything is answered the cart on show is the API's, unless a change
\* that was given up came through late (CartProvider's responseId and refresh).
THEOREM ShownCartIsCurrent == Cart!Spec => []ShownIsCurrent
<1>1. WantedInv => ShownIsCurrent
  BY DEF WantedInv, CartInv, ShownWillBeCurrent, Current, ShownIsCurrent, Cart!ShownIsCurrent,
     Cart!Quiet, Cart!Mutating
<1> QED BY <1>1, CartInvariant, PTL

\* The amount chosen last is shown and stored, however fast the amounts followed
\* each other (CartProvider's queuedUpdate).
THEOREM LastAmountWins == Cart!Spec => []LastUpdateWins
<1>1. WantedInv => LastUpdateWins
  <2> SUFFICES ASSUME WantedInv, Cart!Quiet, wanted # None, lateAt = 0
               PROVE  state.cart.lines[wanted.product] = wanted.amount
    BY DEF LastUpdateWins, Cart!LastUpdateWins
  <2>1. ~ Cart!Mutating /\ state.kind = "ready" /\ Current(state.cart)
    BY DEF Cart!Quiet, Cart!Mutating, WantedInv, CartInv, ShownWillBeCurrent
  <2>2. state.cart \in Cart!ApiCarts
    BY <2>1 DEF WantedInv, CartInv, CartTypes, ReadyStates, Cart!Loading, Cart!Unavailable
  <2>3. state.cart = Cart!Cart(lines, version)
    BY <2>1, <2>2 DEF Current, Cart!ApiCarts
  <2>4. state.cart.lines = lines
    BY <2>3 DEF Cart!Cart
  <2> QED BY <2>1, <2>4 DEF WantedInv, WantedOnItsWay
<1> QED BY <1>1, CartInvariant, PTL

=============================================================================
