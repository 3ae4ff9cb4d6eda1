------------------------------ MODULE Sessions ------------------------------
(***************************************************************************)
(* The login sessions of one account: SessionService, the guards that call *)
(* it, and the account's promotion by LocalAdminProvisioningService        *)
(* (apps/api/src/auth, apps/api/src/admin).                                *)
(*                                                                         *)
(* issue, the revocations and the promotion are one SERIALIZABLE           *)
(* transaction each.  authenticate is none: it reads the row, decides, and *)
(* writes lastSeenAt by a conditional update that may find the row         *)
(* changed.  Every request works with the time at which it began.          *)
(***************************************************************************)
EXTENDS Integers, FiniteSets

CONSTANTS
  Ids,           \* identities AuthSession rows can get
  NoSession,     \* no session cookie is presented
  Requests,      \* requests that can be in flight at once
  MaxActive,     \* MAX_ACTIVE_SESSIONS
  Idle,          \* IDLE_LIFETIME_MS
  TouchAfter,    \* TOUCH_INTERVAL_MS
  Lifetimes,     \* the absolute lifetimes, by default and remembered
  MaxClock,      \* bound of the clock
  MaxLatency     \* bound: how long a request takes

ASSUME SessionsAssumption ==
  /\ NoSession \notin Ids
  /\ MaxActive \in Nat \ {0}
  /\ Idle \in Nat
  /\ TouchAfter \in Nat \ {0}
  /\ Lifetimes \subseteq Nat \ {0}
  /\ MaxClock \in Nat
  /\ MaxLatency \in Nat

VARIABLES
  \* the AuthSession rows
  status,        \* "absent", "live" (revokedAt is null) or "revoked"
  issuedAt,
  lastSeenAt,
  expiresAt,
  roleAtIssue,
  \* the account
  role,
  \* the API process
  clock,
  request        \* what each request is doing

rows == <<status, issuedAt, lastSeenAt, expiresAt, roleAtIssue>>
vars == <<rows, role, clock, request>>

-----------------------------------------------------------------------------
Roles == {"CUSTOMER", "ADMIN"}
Kinds == {"login", "use", "logout", "revoke_all", "promote"}

\* free: no request; begun: its time is read; touch: the row read asks for a
\* touch; accepted: a logout that may revoke its session; refused: answered 401.
Phases == {"free", "begun", "touch", "accepted", "refused"}

\* seen is the lastSeenAt that authenticate read; retried says whether its one
\* retry is used up.
RequestStates ==
  [phase : Phases, kind : Kinds, session : Ids \cup {NoSession},
   now : Nat, seen : Nat, retried : BOOLEAN]

Free == [phase |-> "free", kind |-> "use", session |-> NoSession,
         now |-> 0, seen |-> 0, retried |-> FALSE]

\* The row is neither revoked nor past its absolute or its idle limit at now.
ActiveAt(s, now) ==
  /\ status[s] = "live"
  /\ expiresAt[s] > now
  /\ lastSeenAt[s] > now - Idle

\* AuthSession_revokedAt_check: the database refuses a revocation dated before
\* the row was issued, and with it the whole transaction.
RevocationAllowed(S, at) == \A s \in S : issuedAt[s] <= at

Live == {s \in Ids : status[s] = "live"}

Init ==
  /\ status      = [s \in Ids |-> "absent"]
  /\ issuedAt    = [s \in Ids |-> 0]
  /\ lastSeenAt  = [s \in Ids |-> 0]
  /\ expiresAt   = [s \in Ids |-> 0]
  /\ roleAtIssue = [s \in Ids |-> "CUSTOMER"]
  /\ role  = "CUSTOMER"
  /\ clock = 0
  /\ request = [r \in Requests |-> Free]

-----------------------------------------------------------------------------
(* Requests                                                                *)

\* A request arrives with the token of some session that was issued, or with
\* none, and reads the time.  A promotion starts only for a customer.
Begin(r, kind, s) ==
  /\ request[r].phase = "free"
  /\ s \in Ids => status[s] # "absent"
  /\ kind \in {"use", "logout"} => s \in Ids
  /\ kind \in {"revoke_all", "promote"} => s = NoSession
  /\ kind = "promote" => role = "CUSTOMER"
  /\ request' = [request EXCEPT ![r] =
       [phase |-> "begun", kind |-> kind, session |-> s,
        now |-> clock, seen |-> 0, retried |-> FALSE]]
  /\ UNCHANGED <<rows, role, clock>>

\* The request is over: answered, or failed because its transaction could not
\* be serialized, was refused by a check, or its process died.
End(r) ==
  /\ request[r].phase # "free"
  /\ request' = [request EXCEPT ![r] = Free]
  /\ UNCHANGED <<rows, role, clock>>

Tick ==
  /\ clock < MaxClock
  /\ \A r \in Requests :
       request[r].phase # "free" => clock - request[r].now < MaxLatency
  /\ clock' = clock + 1
  /\ UNCHANGED <<rows, role, request>>

-----------------------------------------------------------------------------
(* issue                                                                   *)

\* Mutant: room is made for the present sessions, not for the new one.
IsOverflowOfPresent(S, active) ==
  LET excess == Cardinality(active) - MaxActive IN
  /\ S \subseteq active
  /\ Cardinality(S) = IF excess > 0 THEN excess ELSE 0
  /\ \A s \in S, t \in active \ S : issuedAt[s] <= issuedAt[t]

\* The sessions to revoke so that one more fits: the oldest of the active
\* ones.  Which of several issued at the same time is first, their random
\* identities decide.
IsOverflow(S, active) ==
  LET excess == Cardinality(active) - (MaxActive - 1) IN
  /\ S \subseteq active
  /\ Cardinality(S) = IF excess > 0 THEN excess ELSE 0
  /\ \A s \in S, t \in active \ S : issuedAt[s] <= issuedAt[t]

Issue(r, new, life) ==
  LET now       == request[r].now
      presented == {s \in Ids : s = request[r].session /\ ActiveAt(s, now)}
      active    == {s \in Ids : ActiveAt(s, now)} \ presented
  IN
  /\ request[r].phase = "begun"
  /\ request[r].kind = "login"
  /\ status[new] = "absent"
  /\ \E S \in SUBSET active :
       /\ IsOverflow(S, active)
       /\ RevocationAllowed(S \cup presented, now)
       /\ status' = [s \in Ids |->
            IF s = new THEN "live"
            ELSE IF s \in S \cup presented THEN "revoked"
            ELSE status[s]]
  /\ issuedAt'    = [issuedAt EXCEPT ![new] = now]
  /\ lastSeenAt'  = [lastSeenAt EXCEPT ![new] = now]
  /\ expiresAt'   = [expiresAt EXCEPT ![new] = now + life]
  /\ roleAtIssue' = [roleAtIssue EXCEPT ![new] = role]
  /\ request' = [request EXCEPT ![r] = Free]
  /\ UNCHANGED <<role, clock>>

-----------------------------------------------------------------------------
(* authenticate                                                            *)

TouchDue(seen, now) == seen <= now - TouchAfter

\* The guard lets the request pass.  Only logout then writes sessions; to them
\* any other request is over.
Accept(q) == IF q.kind = "logout" THEN [q EXCEPT !.phase = "accepted"] ELSE Free

Refused(s, now) == ~ActiveAt(s, now) \/ role # roleAtIssue[s]

\* authenticate reads the row, and decides what it does next.
Read(r) ==
  LET s   == request[r].session
      now == request[r].now
  IN
  /\ request[r].phase = "begun"
  /\ request[r].kind \in {"use", "logout"}
  /\ request' = [request EXCEPT ![r] =
       IF Refused(s, now)
         THEN [@ EXCEPT !.phase = "refused", !.seen = lastSeenAt[s]]
       ELSE IF TouchDue(lastSeenAt[s], now)
         THEN [@ EXCEPT !.phase = "touch", !.seen = lastSeenAt[s]]
       ELSE Accept(@)]
  /\ UNCHANGED <<rows, role, clock>>

\* Mutants: the update does not look at the revocation, or not at the touch
\* interval.
TouchableUnseen(s, now) ==
  expiresAt[s] > now /\ lastSeenAt[s] > now - Idle /\ TouchDue(lastSeenAt[s], now)
TouchableAgain(s, now) == ActiveAt(s, now)

\* The condition of the update, on the row as it is now.
Touchable(s, now) == ActiveAt(s, now) /\ TouchDue(lastSeenAt[s], now)

Touch(r) ==
  LET s   == request[r].session
      now == request[r].now
  IN
  /\ request[r].phase = "touch"
  /\ Touchable(s, now)
  /\ lastSeenAt' = [lastSeenAt EXCEPT ![s] = now]
  /\ request' = [request EXCEPT ![r] = Accept(@)]
  /\ UNCHANGED <<status, issuedAt, expiresAt, roleAtIssue, role, clock>>

\* Mutant: the loser of a race is refused at once.
AfterMissRefused(q) == [q EXCEPT !.phase = "refused"]

\* What follows an update that matched no row.
AfterMiss(q) ==
  IF q.retried THEN [q EXCEPT !.phase = "refused"]
  ELSE [q EXCEPT !.phase = "begun", !.retried = TRUE]

TouchMisses(r) ==
  /\ request[r].phase = "touch"
  /\ ~Touchable(request[r].session, request[r].now)
  /\ request' = [request EXCEPT ![r] = AfterMiss(@)]
  /\ UNCHANGED <<rows, role, clock>>

-----------------------------------------------------------------------------
(* Revocation                                                              *)

RevokeRows(S, at) ==
  /\ RevocationAllowed(S, at)
  /\ status' = [s \in Ids |-> IF s \in S THEN "revoked" ELSE status[s]]
  /\ UNCHANGED <<issuedAt, lastSeenAt, expiresAt, roleAtIssue>>

\* Logout revokes the session that authenticated it, by a time of its own.
RevokeCurrent(r) ==
  /\ request[r].phase = "accepted"
  /\ request[r].kind = "logout"
  /\ RevokeRows({request[r].session} \cap Live, clock)
  /\ request' = [request EXCEPT ![r] = Free]
  /\ UNCHANGED <<role, clock>>

RevokeAll(r) ==
  /\ request[r].phase = "begun"
  /\ request[r].kind = "revoke_all"
  /\ RevokeRows(Live, request[r].now)
  /\ request' = [request EXCEPT ![r] = Free]
  /\ UNCHANGED <<role, clock>>

\* Mutant: the sessions of the customer stay.
PromoteOnly(r) ==
  /\ request[r].phase = "begun"
  /\ request[r].kind = "promote"
  /\ role = "CUSTOMER"
  /\ role' = "ADMIN"
  /\ request' = [request EXCEPT ![r] = Free]
  /\ UNCHANGED <<rows, clock>>

\* A customer becomes an administrator, and every session it has ends.
Promote(r) ==
  /\ request[r].phase = "begun"
  /\ request[r].kind = "promote"
  /\ role = "CUSTOMER"
  /\ role' = "ADMIN"
  /\ RevokeRows(Live, request[r].now)
  /\ request' = [request EXCEPT ![r] = Free]
  /\ UNCHANGED clock

-----------------------------------------------------------------------------
Step(r) ==
  \/ \E kind \in Kinds, s \in Ids \cup {NoSession} : Begin(r, kind, s)
  \/ End(r)
  \/ \E new \in Ids, life \in Lifetimes : Issue(r, new, life)
  \/ Read(r)
  \/ Touch(r)
  \/ TouchMisses(r)
  \/ RevokeCurrent(r)
  \/ RevokeAll(r)
  \/ Promote(r)

Next == Tick \/ \E r \in Requests : Step(r)

Spec == Init /\ [][Next]_vars

-----------------------------------------------------------------------------
(* Properties                                                              *)

\* The types, the window that AuthSession_activity_window_check demands of a
\* row (a touch never writes a time outside of it, so the check never fails a
\* request), and which requests carry a session.
TypeOK ==
  /\ status \in [Ids -> {"absent", "live", "revoked"}]
  /\ issuedAt \in [Ids -> Nat]
  /\ lastSeenAt \in [Ids -> Nat]
  /\ expiresAt \in [Ids -> Nat]
  /\ roleAtIssue \in [Ids -> Roles]
  /\ role \in Roles
  /\ clock \in Nat
  /\ request \in [Requests -> RequestStates]
  /\ \A s \in Ids : issuedAt[s] <= lastSeenAt[s] /\ lastSeenAt[s] <= expiresAt[s]
  /\ \A r \in Requests :
       request[r].phase \in {"touch", "accepted", "refused"} =>
         /\ request[r].kind \in {"use", "logout"}
         /\ request[r].session \in Ids

\* Nobody is logged out by a race: authenticate refuses a session only if it
\* is revoked, was past its absolute limit when the request came, or had been
\* idle for too long.  In particular one retry after a lost touch is enough,
\* however many requests touch the session at the same time.
NoFalseRefusal ==
  \A r \in Requests : request[r].phase = "refused" =>
    \/ status[request[r].session] = "revoked"
    \/ expiresAt[request[r].session] <= request[r].now
    \/ request[r].seen <= request[r].now - Idle

\* A session that is not revoked was issued under the role the account has
\* now: no login that overlaps a promotion leaves a session of the old role.
LiveCarriesRole ==
  \A s \in Ids : status[s] = "live" => roleAtIssue[s] = role

\* At most MaxActive sessions of the account are active, however logins,
\* touches and the clock interleave.
AtMostMaxActive ==
  Cardinality({s \in Ids : ActiveAt(s, clock)}) <= MaxActive

\* A revoked session stays revoked and is not written again, not even by a
\* request that read it before the revocation.
RevokedForGood ==
  [][\A s \in Ids : status[s] = "revoked" =>
       /\ status'[s] = "revoked"
       /\ lastSeenAt'[s] = lastSeenAt[s]]_vars

\* A slow request never turns the time at which a session was last seen back.
SeenNeverGoesBack ==
  [][\A s \in Ids : status[s] # "absent" =>
       lastSeenAt'[s] >= lastSeenAt[s]]_vars

\* What a test of the repository says of touches: they never resurrect expired
\* rows.  A session that is no longer active does not become active again.
NeverResurrects ==
  [][\A s \in Ids : status[s] = "live" /\ ~ActiveAt(s, clock) =>
       ~(status'[s] = "live" /\ expiresAt'[s] > clock'
         /\ lastSeenAt'[s] > clock' - Idle)]_vars
=============================================================================
