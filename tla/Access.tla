------------------------------- MODULE Access -------------------------------
(***************************************************************************)
(* Registration and login by password, with their limits: the guards and   *)
(* rate limiters, RegistrationService, LoginService, the password executor *)
(* (apps/api/src/auth) and the form that calls them                        *)
(* (apps/web/src/features/auth).  The session a login issues is Sessions'. *)
(*                                                                         *)
(* The limiters live in the memory of the API process.  They keep the time *)
(* of every admitted attempt; here an attempt has an age in ticks, and a   *)
(* number that tells it from others of its age.  One that is Hour old      *)
(* counts for nothing and gets no older.                                   *)
(***************************************************************************)
EXTENDS Integers, FiniteSets

CONSTANTS
  Spellings,    \* e-mail addresses as they are typed
  Mailbox,      \* [Spellings -> the normalized address, None if it is no address]
  Passwords,
  Addresses,    \* remote addresses of clients
  Tabs,         \* forms, with at most one request each
  None,
  MaxTracked,   \* identities a limiter remembers, 10000
  Minute, Hour, \* in ticks
  PerMinute,    \* attempts of an identity in a minute, the same for each limiter
  PerHour,      \* attempts of an identity in an hour
  MaxActive     \* MAX_ACTIVE_PASSWORD_OPERATIONS

VARIABLES
  attempts,  \* of each limiter: the attempts of each identity
  admitted,  \* all admitted attempts, whatever the limiter forgot
  users,     \* User.normalizedEmail, with its PasswordCredential or None
  active,    \* activeOperations
  requests,  \* what the API does for each form
  form       \* AuthFormState.status, with what was submitted

vars == <<attempts, admitted, users, active, requests, form>>
limiters == <<attempts, admitted>>

-----------------------------------------------------------------------------
Mailboxes == {Mailbox[s] : s \in Spellings} \ {None}

\* accountKey: an address that cannot be normalized stands for itself.
AccountKey(s) == IF Mailbox[s] = None THEN s ELSE Mailbox[s]

Limiters == {"register", "loginIp", "loginAccount"}
Identities(l) == IF l = "loginAccount" THEN {AccountKey(s) : s \in Spellings} ELSE Addresses

NoAttempts == [l \in Limiters |-> [i \in Identities(l) |-> {}]]
Idle == [phase |-> "idle"]

Init ==
  /\ attempts = NoAttempts
  /\ admitted = NoAttempts
  /\ users    = [m \in Mailboxes |-> None]
  /\ active   = 0
  /\ requests = [t \in Tabs |-> Idle]
  /\ form     = [t \in Tabs |-> [status |-> "idle"]]

-----------------------------------------------------------------------------
(* The limiters                                                            *)

Within(tried, window) == {a \in tried : a.age < window}

\* One more attempt, made now.
Noted(tried) == tried \cup {[age |-> 0, number |-> Cardinality(Within(tried, 1))]}

Aged(a) == [a EXCEPT !.age = IF @ < Hour THEN @ + 1 ELSE Hour]

Tracked(table) == {i \in DOMAIN table : table[i] # {}}

\* Mutant: attempts older than a minute are forgotten.
PrunedToMinute(table) == [i \in DOMAIN table |-> Within(table[i], Minute)]

\* pruneExpired, with store: an identity without attempts is not tracked.
Pruned(table) == [i \in DOMAIN table |-> Within(table[i], Hour)]

\* consume: a new identity of a full table prunes it; the attempt is admitted
\* if there is room for it and neither window is full.
Consume(l, i, ok) ==
  LET Full(tab) == tab[i] = {} /\ Cardinality(Tracked(tab)) >= MaxTracked
      table     == IF Full(attempts[l]) THEN Pruned(attempts[l]) ELSE attempts[l]
      retained  == Within(table[i], Hour)
      over      == \/ Cardinality(Within(retained, Minute)) >= PerMinute
                   \/ Cardinality(retained) >= PerHour
  IN
  /\ ok = (~ Full(table) /\ ~ over)
  /\ attempts' = [attempts EXCEPT ![l] =
       IF Full(table) THEN table
       ELSE [table EXCEPT ![i] = IF over THEN retained ELSE Noted(retained)]]
  /\ admitted' = IF ok THEN [admitted EXCEPT ![l][i] = Noted(Within(@, Hour))] ELSE admitted

\* Time passes.
Tick ==
  LET Older(tried) == {Aged(a) : a \in tried} IN
  /\ attempts' = [l \in Limiters |-> [i \in Identities(l) |-> Older(attempts[l][i])]]
  /\ admitted' = [l \in Limiters |-> [i \in Identities(l) |-> Within(Older(admitted[l][i]), Hour)]]
  /\ UNCHANGED <<users, active, requests, form>>

-----------------------------------------------------------------------------
(* The form                                                                *)

Pending(t) == form[t].status = "pending"

\* The form's own validation refuses it.
SubmitInvalid(t) ==
  /\ ~ Pending(t)
  /\ form' = [form EXCEPT ![t] = [status |-> "invalid"]]
  /\ UNCHANGED <<limiters, users, active, requests>>

Submit(t, kind, s, w, a) ==
  /\ ~ Pending(t) /\ requests[t] = Idle
  /\ form' = [form EXCEPT ![t] = [status |-> "pending"]]
  /\ requests' = [requests EXCEPT ![t] =
       [phase |-> "sent", kind |-> kind, spelling |-> s, password |-> w, address |-> a]]
  /\ UNCHANGED <<limiters, users, active>>

\* The answer is what the form shows, if it still waits for it.
Ends(t, status) ==
  /\ requests' = [requests EXCEPT ![t] = Idle]
  /\ form' = IF ~ Pending(t) THEN form
             ELSE [form EXCEPT ![t] =
               IF status \in {"accepted", "signedIn"}
               THEN [status |-> status, spelling |-> requests[t].spelling,
                     password |-> requests[t].password]
               ELSE [status |-> status]]

Goes(t, phase) ==
  /\ requests' = [requests EXCEPT ![t].phase = phase]
  /\ UNCHANGED form

\* The browser gives up after AUTH_REQUEST_TIMEOUT_MS, the answer is lost or may
\* be cached; the API carries on.
GiveUp(t) ==
  /\ Pending(t)
  /\ form' = [form EXCEPT ![t] = [status |-> "unavailable"]]
  /\ UNCHANGED <<limiters, users, active, requests>>

-----------------------------------------------------------------------------
(* The API                                                                 *)

At(t, phase) == requests[t].phase = phase

\* The guards: the feature is on, the origin is the page's, the body is JSON.
Guard(t) ==
  LET q == requests[t]
      l == IF q.kind = "register" THEN "register" ELSE "loginIp"
  IN
  /\ At(t, "sent")
  /\ \E ok \in BOOLEAN :
       /\ Consume(l, q.address, ok)
       /\ IF ok THEN Goes(t, "admitted") ELSE Ends(t, "unavailable")
  /\ UNCHANGED <<users, active>>

\* canonicalizeRegistrationEmail refuses the address, login's account limiter
\* the attempt; else the password operation takes one of its places.
Begin(t) ==
  LET q == requests[t] IN
  /\ At(t, "admitted")
  /\ IF q.kind = "login"
     THEN \E ok \in BOOLEAN :
            /\ Consume("loginAccount", AccountKey(q.spelling), ok)
            /\ IF ok THEN Goes(t, "queued") ELSE Ends(t, "unavailable")
     ELSE /\ IF Mailbox[q.spelling] # None THEN Goes(t, "queued") ELSE Ends(t, "invalid")
          /\ UNCHANGED limiters
  /\ UNCHANGED <<users, active>>

\* acquire.
Acquire(t, found) ==
  IF active < MaxActive
  THEN /\ active' = active + 1
       /\ requests' = [requests EXCEPT ![t] =
            [phase |-> "hashing", kind |-> @.kind, spelling |-> @.spelling,
             password |-> @.password, address |-> @.address, found |-> found]]
       /\ UNCHANGED form
  ELSE Ends(t, "unavailable") /\ UNCHANGED active

\* hash of a new password, or verify of the one that was found; an unknown
\* account is verified against UNKNOWN_ACCOUNT_PHC.
Hash(t) ==
  LET q == requests[t]
      m == Mailbox[q.spelling]
  IN
  /\ At(t, "queued")
  /\ Acquire(t, IF q.kind = "login" /\ m # None THEN users[m] ELSE None)
  /\ UNCHANGED <<limiters, users>>

\* Mutant: the session is issued whatever the verification said.
HashedAny(t) ==
  LET q == requests[t] IN
  /\ At(t, "hashing")
  /\ active' = active - 1
  /\ Goes(t, "storing") \/ Ends(t, IF q.kind = "login" THEN "invalid" ELSE "unavailable")
  /\ UNCHANGED <<limiters, users>>

\* The operation ends, with release: a hash may fail, and a verification that
\* fails is a wrong password.
Hashed(t) ==
  LET q == requests[t] IN
  /\ At(t, "hashing")
  /\ active' = active - 1
  /\ \/ q.kind = "register" /\ (Goes(t, "storing") \/ Ends(t, "unavailable"))
     \/ q.kind = "login" /\ q.found = q.password /\ Goes(t, "storing")
     \/ q.kind = "login" /\ Ends(t, "invalid")
  /\ UNCHANGED <<limiters, users>>

\* user.create; the unique index refuses a second row of an address, which is
\* answered like the first.
Store(t) ==
  LET m == Mailbox[requests[t].spelling] IN
  /\ At(t, "storing") /\ requests[t].kind = "register"
  /\ users' = [users EXCEPT ![m] = IF @ = None THEN requests[t].password ELSE @]
  /\ Ends(t, "accepted")
  /\ UNCHANGED <<limiters, active>>

\* SessionService.issue.
Issue(t) ==
  /\ At(t, "storing") /\ requests[t].kind = "login"
  /\ Ends(t, "signedIn")
  /\ UNCHANGED <<limiters, users, active>>

\* The database refuses the query, or the session.
Fail(t) ==
  /\ requests[t].phase \in {"queued", "storing"}
  /\ Ends(t, "unavailable")
  /\ UNCHANGED <<limiters, users, active>>

\* The process ends and another one takes over, with empty limiters.
Restart ==
  /\ attempts' = NoAttempts /\ admitted' = NoAttempts
  /\ active' = 0
  /\ requests' = [t \in Tabs |-> Idle]
  /\ form' = [t \in Tabs |-> IF Pending(t) THEN [status |-> "unavailable"] ELSE form[t]]
  /\ UNCHANGED users

-----------------------------------------------------------------------------
Step(t) ==
  \/ SubmitInvalid(t)
  \/ \E s \in Spellings, w \in Passwords, a \in Addresses, kind \in {"register", "login"} :
       Submit(t, kind, s, w, a)
  \/ GiveUp(t)
  \/ Guard(t) \/ Begin(t) \/ Hash(t) \/ Hashed(t)
  \/ Store(t) \/ Issue(t) \/ Fail(t)

Next == Tick \/ Restart \/ \E t \in Tabs : Step(t)

Spec == Init /\ [][Next]_vars

-----------------------------------------------------------------------------
(* Properties                                                              *)

\* No limiter admits more attempts of an identity in a minute or in an hour than
\* it may while the process lives, whatever other identities fill the table and
\* whatever is pruned to make room for them.
AdmittedWithinLimits ==
  \A l \in Limiters : \A i \in Identities(l) :
    /\ Cardinality(admitted[l][i]) <= PerHour
    /\ Cardinality(Within(admitted[l][i], Minute)) <= PerMinute

\* What the form shows is so: the account that it calls ready is there, a login
\* used the password of the one registration that made the account, and every
\* place of the password operations is one of a request that runs.
FormIsTrue ==
  /\ \A t \in Tabs :
       /\ form[t].status = "accepted" => users[Mailbox[form[t].spelling]] # None
       /\ form[t].status = "signedIn" =>
            users[Mailbox[form[t].spelling]] = form[t].password
  /\ active = Cardinality({t \in Tabs : At(t, "hashing")})

=============================================================================
