--------------------------- MODULE SessionsProofs ---------------------------
(***************************************************************************)
(* Theorems about Sessions, for every number of sessions and requests, any *)
(* lifetimes and any latency.                                              *)
(***************************************************************************)
EXTENDS MCLogins, FiniteSetTheorems, TLAPS

\* What is true of a request in flight.  A touch is pending only for a row that
\* was active, and only as the first try: the row may have been touched since,
\* never set back.  A request that tries again knows that its row was revoked
\* or touched within the interval, so that it needs no second touch.
RequestOK(q) ==
  /\ q.phase # "free" /\ q.session \in Ids => status[q.session] # "absent"
  /\ q.phase = "touch" =>
       /\ ~q.retried
       /\ expiresAt[q.session] > q.now
       /\ q.seen > q.now - Idle
       /\ q.seen <= lastSeenAt[q.session]
  /\ q.phase = "begun" /\ q.kind \in {"use", "logout"} => q.session \in Ids
  /\ q.phase = "begun" /\ q.kind \in {"use", "logout"} /\ q.retried =>
       \/ status[q.session] = "revoked"
       \/ lastSeenAt[q.session] > q.now - TouchAfter
  /\ q.phase = "refused" =>
       \/ status[q.session] = "revoked"
       \/ expiresAt[q.session] <= q.now
       \/ q.seen <= q.now - Idle

\* The inductive invariant.
IInv ==
  /\ TypeOK
  /\ LiveCarriesRole
  /\ \A r \in Requests : RequestOK(request[r])

\* How a step may change the rows: none disappears, none is extended, none is
\* set back, and a revoked one does not change.
RowsEvolve ==
  \A s \in Ids : status[s] # "absent" =>
    /\ status'[s] # "absent"
    /\ expiresAt'[s] = expiresAt[s]
    /\ lastSeenAt'[s] >= lastSeenAt[s]
    /\ status[s] = "revoked" =>
         status'[s] = "revoked" /\ lastSeenAt'[s] = lastSeenAt[s]

\* What is true of a request stays true while others change the rows.
LEMMA RequestStable ==
  ASSUME TypeOK, TypeOK', RowsEvolve,
         NEW q \in RequestStates, RequestOK(q),
         q.phase \in {"touch", "accepted", "refused"} => q.session \in Ids
  PROVE  RequestOK(q)'
BY SessionsAssumption, SMT DEF RequestOK, RowsEvolve, TypeOK, RequestStates, Phases, Kinds

\* A step of one request that lets the rows evolve keeps what is true of all
\* the others.
LEMMA RequestsKept ==
  ASSUME IInv, TypeOK', RowsEvolve, NEW r \in Requests, NEW q,
         request' = [request EXCEPT ![r] = q], RequestOK(q)'
  PROVE  \A t \in Requests : RequestOK(request[t])'
<1> SUFFICES ASSUME NEW t \in Requests PROVE RequestOK(request[t])'
  OBVIOUS
<1>1. CASE t = r
  BY <1>1 DEF IInv, TypeOK, RequestOK
<1>2. CASE t # r
  <2>1. request'[t] = request[t] /\ request[t] \in RequestStates
    BY <1>2 DEF IInv, TypeOK
  <2>2. PICK p \in RequestStates : p = request[t]
    BY <2>1
  <2>3. RequestOK(p)'
    BY <2>1, <2>2, RequestStable DEF IInv, TypeOK
  <2> QED BY <2>1, <2>2, <2>3 DEF RequestOK
<1> QED BY <1>1, <1>2

-----------------------------------------------------------------------------
(* What each action does.                                                  *)

\* The invariant after the step, and how it changed the rows.
Kept == IInv' /\ RowsEvolve

LEMMA BeginKeeps ==
  ASSUME IInv, NEW r \in Requests, NEW kind \in Kinds, NEW s \in Ids \cup {NoSession},
         Begin(r, kind, s)
  PROVE  Kept
<1> PICK q : q = [phase |-> "begun", kind |-> kind, session |-> s,
                  now |-> clock, seen |-> 0, retried |-> FALSE]
  OBVIOUS
<1>1. TypeOK'
  BY SMT DEF IInv, TypeOK, Begin, rows, RequestStates, Phases
<1>2. RowsEvolve
  BY SMT DEF IInv, TypeOK, Begin, rows, RowsEvolve
<1>3. LiveCarriesRole'
  BY DEF IInv, LiveCarriesRole, Begin, rows
<1>4. RequestOK(q)'
  BY SessionsAssumption, SMT DEF Begin, rows, RequestOK
<1>5. request' = [request EXCEPT ![r] = q]
  BY DEF Begin
<1> QED BY <1>1, <1>2, <1>3, <1>4, <1>5, RequestsKept DEF Kept, IInv

LEMMA EndKeeps ==
  ASSUME IInv, NEW r \in Requests, End(r)
  PROVE  Kept
<1>1. TypeOK'
  BY SMT DEF IInv, TypeOK, End, rows, RequestStates, Phases, Kinds, Free
<1>2. RowsEvolve
  BY SMT DEF IInv, TypeOK, End, rows, RowsEvolve
<1>3. LiveCarriesRole'
  BY DEF IInv, LiveCarriesRole, End, rows
<1>4. RequestOK(Free)'
  BY DEF RequestOK, Free
<1>5. request' = [request EXCEPT ![r] = Free]
  BY DEF End
<1> QED BY <1>1, <1>2, <1>3, <1>4, <1>5, RequestsKept DEF Kept, IInv

LEMMA TickKeeps ==
  ASSUME IInv, Tick
  PROVE  Kept
<1>1. TypeOK'
  BY SMT DEF IInv, TypeOK, Tick, rows
<1>2. RowsEvolve
  BY SMT DEF IInv, TypeOK, Tick, rows, RowsEvolve
<1>3. LiveCarriesRole'
  BY DEF IInv, LiveCarriesRole, Tick, rows
<1>4. \A t \in Requests : RequestOK(request[t])'
  BY DEF IInv, RequestOK, Tick, rows
<1> QED BY <1>1, <1>2, <1>3, <1>4 DEF Kept, IInv

\* The new row carries the role that its transaction reads; the rows revoked
\* for it existed.
LEMMA IssueKeeps ==
  ASSUME IInv, NEW r \in Requests, NEW new \in Ids, NEW life \in Lifetimes,
         Issue(r, new, life)
  PROVE  Kept
<1> DEFINE now == request[r].now
           presented == {s \in Ids : s = request[r].session /\ ActiveAt(s, now)}
           active == {s \in Ids : ActiveAt(s, now)} \ presented
<1>1. PICK S \in SUBSET active :
        status' = [s \in Ids |->
          IF s = new THEN "live"
          ELSE IF s \in S \cup presented THEN "revoked"
          ELSE status[s]]
  BY DEF Issue
<1>2. \A s \in S \cup presented : s \in Ids /\ status[s] = "live"
  BY DEF ActiveAt
<1>3. now \in Nat /\ life \in Nat /\ status[new] = "absent"
  BY SessionsAssumption DEF IInv, TypeOK, RequestStates, Issue
<1>4. /\ issuedAt'    = [issuedAt EXCEPT ![new] = now]
      /\ lastSeenAt'  = [lastSeenAt EXCEPT ![new] = now]
      /\ expiresAt'   = [expiresAt EXCEPT ![new] = now + life]
      /\ roleAtIssue' = [roleAtIssue EXCEPT ![new] = role]
      /\ request' = [request EXCEPT ![r] = Free]
      /\ UNCHANGED <<role, clock>>
  BY DEF Issue
<1> HIDE DEF now, presented, active
<1>5. TypeOK'
  <2>1. request' \in [Requests -> RequestStates]
    BY <1>4 DEF IInv, TypeOK, RequestStates, Phases, Kinds, Free
  <2>2. \A t \in Requests : request'[t].phase \in {"touch", "accepted", "refused"} =>
          request'[t].kind \in {"use", "logout"} /\ request'[t].session \in Ids
    BY <1>4 DEF IInv, TypeOK, Free
  <2>3. /\ status' \in [Ids -> {"absent", "live", "revoked"}]
        /\ issuedAt' \in [Ids -> Nat]
        /\ lastSeenAt' \in [Ids -> Nat]
        /\ expiresAt' \in [Ids -> Nat]
        /\ roleAtIssue' \in [Ids -> Roles]
        /\ role' \in Roles /\ clock' \in Nat
    BY <1>1, <1>3, <1>4, SMT DEF IInv, TypeOK
  <2>4. \A s \in Ids : issuedAt'[s] <= lastSeenAt'[s] /\ lastSeenAt'[s] <= expiresAt'[s]
    BY <1>3, <1>4, SMT DEF IInv, TypeOK
  <2> QED BY <2>1, <2>2, <2>3, <2>4 DEF TypeOK
<1>6. RowsEvolve
  BY <1>1, <1>2, <1>3, <1>4, SMT DEF IInv, TypeOK, RowsEvolve
<1>7. LiveCarriesRole'
  BY <1>1, <1>2, <1>4 DEF IInv, TypeOK, LiveCarriesRole
<1>8. RequestOK(Free)'
  BY DEF RequestOK, Free
<1> QED BY <1>4, <1>5, <1>6, <1>7, <1>8, RequestsKept DEF Kept, IInv

\* Refused and due are decided on the row as it is read: a request that tries
\* again finds it revoked, or touched so recently that nothing is due.
LEMMA ReadKeeps ==
  ASSUME IInv, NEW r \in Requests, Read(r)
  PROVE  Kept
<1>1. PICK o \in RequestStates : o = request[r]
  BY DEF IInv, TypeOK
<1>2. PICK p : p = IF Refused(o.session, o.now)
                     THEN [o EXCEPT !.phase = "refused", !.seen = lastSeenAt[o.session]]
                   ELSE IF TouchDue(lastSeenAt[o.session], o.now)
                     THEN [o EXCEPT !.phase = "touch", !.seen = lastSeenAt[o.session]]
                   ELSE Accept(o)
  OBVIOUS
<1>3. request' = [request EXCEPT ![r] = p] /\ UNCHANGED <<rows, role, clock>>
  BY <1>1, <1>2 DEF Read
<1>4. o.phase = "begun" /\ o.kind \in {"use", "logout"} /\ o.session \in Ids
      /\ RequestOK(o)
  BY <1>1 DEF Read, IInv, RequestOK
<1>5. p \in RequestStates
      /\ (p.phase # "free" => p.kind \in {"use", "logout"} /\ p.session \in Ids)
  <2>1. lastSeenAt[o.session] \in Nat
    BY <1>4 DEF IInv, TypeOK
  <2>2. Accept(o) \in RequestStates
        /\ (Accept(o).phase # "free" => Accept(o).kind = "logout"
                                         /\ Accept(o).session = o.session)
    BY <1>1 DEF Accept, Free, RequestStates, Phases, Kinds
  <2> QED BY <1>1, <1>2, <1>4, <2>1, <2>2 DEF RequestStates, Phases
<1>6. TypeOK'
  BY <1>3, <1>5, SMT DEF IInv, TypeOK, rows
<1>7. RowsEvolve
  BY <1>3, SMT DEF IInv, TypeOK, rows, RowsEvolve
<1>8. LiveCarriesRole'
  BY <1>3 DEF IInv, LiveCarriesRole, rows
<1>9. RequestOK(p)'
  <2>1. status[o.session] \in {"absent", "live", "revoked"}
        /\ lastSeenAt[o.session] \in Nat /\ expiresAt[o.session] \in Nat
        /\ o.now \in Nat /\ status[o.session] # "absent"
        /\ (status[o.session] = "live" => roleAtIssue[o.session] = role)
    BY <1>1, <1>4 DEF IInv, TypeOK, LiveCarriesRole, RequestOK, RequestStates
  <2>2. CASE Refused(o.session, o.now)
    <3>1. p = [o EXCEPT !.phase = "refused", !.seen = lastSeenAt[o.session]]
      BY <1>2, <2>2
    <3>2. /\ p.phase = "refused" /\ p.session = o.session /\ p.now = o.now
          /\ p.seen = lastSeenAt[o.session]
      BY <3>1, <1>1 DEF RequestStates
    <3> QED BY <1>3, <2>1, <2>2, <3>2, SessionsAssumption, SMT
            DEF Refused, ActiveAt, RequestOK, rows
  <2>3. CASE ~Refused(o.session, o.now) /\ TouchDue(lastSeenAt[o.session], o.now)
    <3>1. p = [o EXCEPT !.phase = "touch", !.seen = lastSeenAt[o.session]]
      BY <1>2, <2>3
    <3>2. /\ p.phase = "touch" /\ p.session = o.session /\ p.now = o.now
          /\ p.seen = lastSeenAt[o.session] /\ p.retried = o.retried
      BY <3>1, <1>1 DEF RequestStates
    <3>3. ~o.retried
      BY <1>4, <2>1, <2>3, SessionsAssumption, SMT DEF Refused, ActiveAt, TouchDue, RequestOK
    <3> QED BY <1>3, <2>1, <2>3, <3>2, <3>3, SessionsAssumption, SMT
            DEF Refused, ActiveAt, RequestOK, rows
  <2>4. CASE ~Refused(o.session, o.now) /\ ~TouchDue(lastSeenAt[o.session], o.now)
    <3>1. p = Accept(o)
      BY <1>2, <2>4
    <3>2. p.phase \in {"free", "accepted"}
          /\ (p.phase = "accepted" => p.session = o.session)
      BY <3>1, <1>1 DEF Accept, Free, RequestStates
    <3> QED BY <1>3, <2>1, <3>2 DEF RequestOK, rows
  <2> QED BY <2>2, <2>3, <2>4
<1> QED BY <1>3, <1>6, <1>7, <1>8, <1>9, RequestsKept DEF Kept, IInv

LEMMA TouchKeeps ==
  ASSUME IInv, NEW r \in Requests, Touch(r)
  PROVE  Kept
<1>1. PICK o \in RequestStates : o = request[r]
  BY DEF IInv, TypeOK
<1>2. PICK p : p = Accept(o)
  OBVIOUS
<1>3. /\ request' = [request EXCEPT ![r] = p]
      /\ lastSeenAt' = [lastSeenAt EXCEPT ![o.session] = o.now]
      /\ UNCHANGED <<status, issuedAt, expiresAt, roleAtIssue, role, clock>>
      /\ Touchable(o.session, o.now)
  BY <1>1, <1>2 DEF Touch
<1>4. o.phase = "touch" /\ o.kind \in {"use", "logout"} /\ o.session \in Ids
  BY <1>1 DEF Touch, IInv, TypeOK
<1>5. p \in RequestStates /\ p.phase \in {"free", "accepted"}
      /\ (p.phase = "accepted" => p.kind = "logout" /\ p.session = o.session)
  BY <1>1, <1>2 DEF Accept, Free, RequestStates, Phases, Kinds
<1>6. /\ status[o.session] = "live"
      /\ expiresAt[o.session] > o.now
      /\ lastSeenAt[o.session] <= o.now
      /\ o.now \in Nat
  BY <1>1, <1>3, <1>4, SessionsAssumption, SMT
     DEF Touchable, ActiveAt, TouchDue, IInv, TypeOK, RequestStates
<1>7. TypeOK'
  <2>1. request' \in [Requests -> RequestStates]
        /\ \A t \in Requests : request'[t].phase \in {"touch", "accepted", "refused"} =>
             request'[t].kind \in {"use", "logout"} /\ request'[t].session \in Ids
    BY <1>3, <1>4, <1>5 DEF IInv, TypeOK
  <2>2. lastSeenAt' \in [Ids -> Nat]
        /\ \A s \in Ids : issuedAt'[s] <= lastSeenAt'[s] /\ lastSeenAt'[s] <= expiresAt'[s]
    BY <1>3, <1>4, <1>6, SMT DEF IInv, TypeOK
  <2> QED BY <1>3, <2>1, <2>2 DEF IInv, TypeOK
<1>8. RowsEvolve
  BY <1>3, <1>4, <1>6, SMT DEF IInv, TypeOK, RowsEvolve
<1>9. LiveCarriesRole'
  BY <1>3 DEF IInv, LiveCarriesRole
<1>10. RequestOK(p)'
  BY <1>3, <1>5, <1>6 DEF RequestOK
<1> QED BY <1>3, <1>7, <1>8, <1>9, <1>10, RequestsKept DEF Kept, IInv

\* A touch that misses was overtaken by a revocation or by another touch.
LEMMA MissKeeps ==
  ASSUME IInv, NEW r \in Requests, TouchMisses(r)
  PROVE  Kept
<1>1. PICK o \in RequestStates : o = request[r]
  BY DEF IInv, TypeOK
<1>2. PICK p : p = AfterMiss(o)
  OBVIOUS
<1>3. /\ request' = [request EXCEPT ![r] = p]
      /\ UNCHANGED <<rows, role, clock>>
      /\ ~Touchable(o.session, o.now)
  BY <1>1, <1>2 DEF TouchMisses
<1>4. /\ o.phase = "touch" /\ o.kind \in {"use", "logout"} /\ o.session \in Ids
      /\ RequestOK(o)
  BY <1>1 DEF TouchMisses, IInv, TypeOK
<1>5. p = [o EXCEPT !.phase = "begun", !.retried = TRUE]
  BY <1>2, <1>4 DEF AfterMiss, RequestOK
<1>6. p \in RequestStates /\ p.phase = "begun" /\ p.kind = o.kind
      /\ p.session = o.session /\ p.now = o.now
  BY <1>1, <1>5 DEF RequestStates, Phases
<1>7. /\ status[o.session] \in {"live", "revoked"}
      /\ status[o.session] = "live" => lastSeenAt[o.session] > o.now - TouchAfter
  <2>1. /\ status[o.session] \in {"live", "revoked"}
        /\ expiresAt[o.session] > o.now
        /\ lastSeenAt[o.session] > o.now - Idle
        /\ lastSeenAt[o.session] \in Nat /\ o.now \in Nat
    BY <1>1, <1>4, SessionsAssumption, SMT DEF RequestOK, IInv, TypeOK, RequestStates
  <2> QED BY <1>3, <2>1, SessionsAssumption, SMT DEF Touchable, ActiveAt, TouchDue
<1>8. TypeOK'
  BY <1>3, <1>6, SMT DEF IInv, TypeOK, rows
<1>9. RowsEvolve
  BY <1>3, SMT DEF IInv, TypeOK, rows, RowsEvolve
<1>10. LiveCarriesRole'
  BY <1>3 DEF IInv, LiveCarriesRole, rows
<1>11. RequestOK(p)'
  BY <1>3, <1>4, <1>6, <1>7 DEF RequestOK, rows
<1> QED BY <1>3, <1>8, <1>9, <1>10, <1>11, RequestsKept DEF Kept, IInv

\* Every revocation: rows that were live are revoked and the request is over.
LEMMA RevocationKeeps ==
  ASSUME IInv, NEW r \in Requests, NEW S \in SUBSET Live, NEW at,
         RevokeRows(S, at), request' = [request EXCEPT ![r] = Free],
         clock' = clock,
         role' = role \/ (role' \in Roles /\ S = Live)
  PROVE  Kept
<1>1. TypeOK'
  <2>1. request' \in [Requests -> RequestStates]
        /\ \A t \in Requests : request'[t].phase \in {"touch", "accepted", "refused"} =>
             request'[t].kind \in {"use", "logout"} /\ request'[t].session \in Ids
    BY DEF IInv, TypeOK, RequestStates, Phases, Kinds, Free
  <2> QED BY <2>1, SMT DEF IInv, TypeOK, RevokeRows
<1>2. RowsEvolve
  BY SMT DEF IInv, TypeOK, RevokeRows, Live, RowsEvolve
<1>3. LiveCarriesRole'
  BY SMT DEF IInv, TypeOK, LiveCarriesRole, RevokeRows, Live
<1>4. RequestOK(Free)'
  BY DEF RequestOK, Free
<1> QED BY <1>1, <1>2, <1>3, <1>4, RequestsKept DEF Kept, IInv

-----------------------------------------------------------------------------
(* The theorems.                                                           *)

LEMMA Initial == Init => IInv
BY SMT DEF Init, IInv, TypeOK, LiveCarriesRole, RequestOK, Free, RequestStates,
           Phases, Kinds, Roles

LEMMA StepKeeps ==
  ASSUME IInv, [Next]_vars
  PROVE  Kept
<1>1. CASE Tick
  BY <1>1, TickKeeps
<1>2. CASE \E r \in Requests : Step(r)
  <2>1. PICK r \in Requests : Step(r)
    BY <1>2
  <2>2. CASE \E kind \in Kinds, s \in Ids \cup {NoSession} : Begin(r, kind, s)
    BY <2>2, BeginKeeps
  <2>3. CASE End(r)
    BY <2>3, EndKeeps
  <2>4. CASE \E new \in Ids, life \in Lifetimes : Issue(r, new, life)
    BY <2>4, IssueKeeps
  <2>5. CASE Read(r)
    BY <2>5, ReadKeeps
  <2>6. CASE Touch(r)
    BY <2>6, TouchKeeps
  <2>7. CASE TouchMisses(r)
    BY <2>7, MissKeeps
  <2>8. CASE RevokeCurrent(r)
    <3>1. PICK S \in SUBSET Live : S = {request[r].session} \cap Live
      OBVIOUS
    <3>2. PICK at : at = clock
      OBVIOUS
    <3> QED BY <2>8, <3>1, <3>2, RevocationKeeps DEF RevokeCurrent
  <2>9. CASE RevokeAll(r)
    <3>1. PICK S \in SUBSET Live : S = Live
      OBVIOUS
    <3>2. PICK at : at = request[r].now
      OBVIOUS
    <3> QED BY <2>9, <3>1, <3>2, RevocationKeeps DEF RevokeAll
  <2>10. CASE Promote(r)
    <3>1. PICK S \in SUBSET Live : S = Live
      OBVIOUS
    <3>2. PICK at : at = request[r].now
      OBVIOUS
    <3> QED BY <2>10, <3>1, <3>2, RevocationKeeps DEF Promote, Roles
  <2> QED BY <2>1, <2>2, <2>3, <2>4, <2>5, <2>6, <2>7, <2>8, <2>9, <2>10 DEF Step
<1>3. CASE UNCHANGED vars
  <2>1. IInv'
    BY <1>3 DEF IInv, TypeOK, LiveCarriesRole, RequestOK, vars, rows
  <2>2. RowsEvolve
    BY <1>3, SMT DEF IInv, TypeOK, RowsEvolve, vars, rows
  <2> QED BY <2>1, <2>2 DEF Kept
<1> QED BY <1>1, <1>2, <1>3 DEF Next

\* The inductive invariant holds: what is known of a row when a touch is asked
\* for, and when it is tried again, is still true when it is used.
THEOREM Invariant == Spec => []IInv
<1>1. IInv /\ [Next]_vars => IInv'
  BY StepKeeps DEF Kept
<1> QED BY <1>1, Initial, PTL DEF Spec

\* Every reachable state is well typed and every row within its window: the
\* database's check on lastSeenAt never fails a request.
THEOREM TypeCorrect == Spec => []TypeOK
<1>1. IInv => TypeOK
  BY DEF IInv
<1> QED BY <1>1, Invariant, PTL

\* However many requests touch a session at once, none of them is answered 401
\* unless the session is over: one retry of authenticate is enough.
THEOREM NoRaceLogsOut == Spec => []NoFalseRefusal
<1>1. IInv => NoFalseRefusal
  BY DEF IInv, NoFalseRefusal, RequestOK
<1> QED BY <1>1, Invariant, PTL

\* No login that overlaps a promotion leaves a session of the old role.
THEOREM SessionsCarryRole == Spec => []LiveCarriesRole
<1>1. IInv => LiveCarriesRole
  BY DEF IInv
<1> QED BY <1>1, Invariant, PTL

\* No request, however slow, writes a session after its revocation.
THEOREM RevocationFinal == Spec => RevokedForGood
<1>1. IInv /\ [Next]_vars =>
        [\A s \in Ids : status[s] = "revoked" =>
           /\ status'[s] = "revoked"
           /\ lastSeenAt'[s] = lastSeenAt[s]]_vars
  BY StepKeeps DEF Kept, RowsEvolve
<1> QED BY <1>1, Invariant, PTL DEF Spec, RevokedForGood

\* Touches of requests that overtake each other only move a session forward.
THEOREM SeenMonotone == Spec => SeenNeverGoesBack
<1>1. IInv /\ [Next]_vars =>
        [\A s \in Ids : status[s] # "absent" => lastSeenAt'[s] >= lastSeenAt[s]]_vars
  BY StepKeeps DEF Kept, RowsEvolve
<1> QED BY <1>1, Invariant, PTL DEF Spec, SeenNeverGoesBack

-----------------------------------------------------------------------------
(* The limit of active sessions, for requests that take no time.           *)

Active == {s \in Ids : ActiveAt(s, clock)}

\* The invariant: the requests in flight know the time.
PromptInv ==
  /\ IInv
  /\ scenario = "prompt" =>
       /\ \A r \in Requests : request[r].phase # "free" => request[r].now = clock
       /\ IsFiniteSet(Active) /\ Cardinality(Active) <= MaxActive

\* A step after which no other session is active.
LEMMA FewerActive ==
  ASSUME IsFiniteSet(Active), Cardinality(Active) <= MaxActive, Active' \subseteq Active
  PROVE  IsFiniteSet(Active') /\ Cardinality(Active') <= MaxActive
<1>1. IsFiniteSet(Active') /\ Cardinality(Active') <= Cardinality(Active)
  BY FS_Subset
<1> QED BY <1>1, FS_CardinalityType, SessionsAssumption

\* The login that makes room for its session.
LEMMA IssueLimits ==
  ASSUME IInv, IsFiniteSet(Active), Cardinality(Active) <= MaxActive,
         NEW r \in Requests, NEW new \in Ids, NEW life \in Lifetimes, Issue(r, new, life),
         request[r].now = clock
  PROVE  IsFiniteSet(Active') /\ Cardinality(Active') <= MaxActive
<1> DEFINE presented == {s \in Ids : s = request[r].session /\ ActiveAt(s, clock)}
           others == Active \ presented
<1>1. PICK S \in SUBSET others :
        /\ IsOverflow(S, others)
        /\ status' = [s \in Ids |->
             IF s = new THEN "live"
             ELSE IF s \in S \cup presented THEN "revoked"
             ELSE status[s]]
  BY DEF Issue, Active
<1>2. /\ clock' = clock /\ \A s \in Ids \ {new} :
           lastSeenAt'[s] = lastSeenAt[s] /\ expiresAt'[s] = expiresAt[s]
  BY DEF Issue, IInv, TypeOK
<1>3. Active' \subseteq (others \ S) \cup {new}
  BY <1>1, <1>2 DEF Active, ActiveAt
<1>4. IsFiniteSet(others)
  BY FS_Subset
<1> HIDE DEF others
<1>5. /\ IsFiniteSet(S) /\ IsFiniteSet(others \ S)
      /\ Cardinality(others \ S) = Cardinality(others) - Cardinality(others \cap S)
      /\ others \cap S = S
      /\ Cardinality(others) \in Nat /\ Cardinality(S) \in Nat
  BY <1>4, FS_Subset, FS_Difference, FS_CardinalityType
<1>6. PICK rest : rest = others \ S
  OBVIOUS
<1>7. IsFiniteSet(rest) /\ Cardinality(rest) \in Nat /\ Cardinality(rest) <= MaxActive - 1
  <2>1. IsFiniteSet(rest) /\ Cardinality(rest) = Cardinality(others) - Cardinality(S)
    BY <1>5, <1>6
  <2>2. Cardinality(S) = IF Cardinality(others) - (MaxActive - 1) > 0
                         THEN Cardinality(others) - (MaxActive - 1) ELSE 0
    BY <1>1 DEF IsOverflow
  <2> HIDE <1>6
  <2> QED BY <1>5, <2>1, <2>2, SessionsAssumption
<1>8. PICK all : all = rest \cup {new}
  OBVIOUS
<1>9. IsFiniteSet(all) /\ Cardinality(all) \in Nat /\ Cardinality(all) <= MaxActive
  <2>1. /\ IsFiniteSet(all)
        /\ Cardinality(all) = IF new \in rest THEN Cardinality(rest) ELSE Cardinality(rest) + 1
    BY <1>7, <1>8, FS_AddElement
  <2> QED BY <1>7, <2>1, SessionsAssumption
<1>10. IsFiniteSet(Active') /\ Cardinality(Active') <= Cardinality(all)
  BY <1>3, <1>6, <1>8, <1>9, FS_Subset
<1> QED BY <1>9, <1>10, FS_CardinalityType, SessionsAssumption

LEMMA PromptKeeps == PromptInv /\ [ScenarioNext]_<<vars, scenario>> => PromptInv'
<1> SUFFICES ASSUME PromptInv, [ScenarioNext]_<<vars, scenario>> PROVE PromptInv'
  OBVIOUS
<1>1. IInv' /\ RowsEvolve /\ scenario' = scenario
  BY StepKeeps DEF PromptInv, ScenarioNext, Kept
<1>2. CASE UNCHANGED <<vars, scenario>>
  BY <1>1, <1>2 DEF PromptInv, vars, rows, Active, ActiveAt
<1> SUFFICES ASSUME scenario = "prompt", Next, Within'
             PROVE  /\ \A r \in Requests :
                         (request[r].phase # "free" => request[r].now = clock)'
                    /\ IsFiniteSet(Active') /\ Cardinality(Active') <= MaxActive
  BY <1>1, <1>2 DEF PromptInv, ScenarioNext
<1>3. \A r \in Requests : (request[r].phase # "free" => request[r].now = clock)'
  BY <1>1 DEF Within
<1>4. /\ IsFiniteSet(Active) /\ Cardinality(Active) <= MaxActive
      /\ \A r \in Requests : request[r].phase # "free" => request[r].now = clock
  BY DEF PromptInv
<1>5. CASE Tick
  <2>1. /\ clock' = clock + 1 /\ clock \in Nat /\ UNCHANGED rows
        /\ \A s \in Ids : lastSeenAt[s] \in Nat /\ expiresAt[s] \in Nat
    BY <1>5 DEF Tick, PromptInv, IInv, TypeOK
  <2>2. Active' \subseteq Active
    BY <2>1, SessionsAssumption DEF Active, ActiveAt, rows
  <2> QED BY <1>3, <1>4, <2>2, FewerActive
<1>6. ASSUME NEW r \in Requests, Step(r)
      PROVE  IsFiniteSet(Active') /\ Cardinality(Active') <= MaxActive
  <2>1. CASE \E new \in Ids, life \in Lifetimes : Issue(r, new, life)
    <3>1. request[r].now = clock
      BY <1>4, <2>1 DEF Issue
    <3> QED BY <1>4, <2>1, <3>1, IssueLimits DEF PromptInv
  <2>2. CASE UNCHANGED rows /\ clock' = clock
    BY <1>4, <2>2, FewerActive DEF Active, ActiveAt, rows
  <2>3. CASE Touch(r)
    <3>1. /\ request[r].now = clock /\ ActiveAt(request[r].session, clock)
          /\ lastSeenAt' = [lastSeenAt EXCEPT ![request[r].session] = clock]
          /\ UNCHANGED <<status, expiresAt, clock>>
      BY <1>4, <2>3 DEF Touch, Touchable
    <3>2. Active' \subseteq Active
      BY <3>1 DEF Active, ActiveAt, PromptInv, IInv, TypeOK
    <3> QED BY <1>4, <3>2, FewerActive
  <2>4. CASE RevokeCurrent(r) \/ RevokeAll(r) \/ Promote(r)
    <3>1. /\ \A s \in Ids : status'[s] \in {status[s], "revoked"}
          /\ UNCHANGED <<lastSeenAt, expiresAt, clock>>
      BY <2>4 DEF RevokeCurrent, RevokeAll, Promote, RevokeRows
    <3>2. Active' \subseteq Active
      BY <3>1 DEF Active, ActiveAt
    <3> QED BY <1>4, <3>2, FewerActive
  <2>5. CASE \/ \E kind \in Kinds, s \in Ids \cup {NoSession} : Begin(r, kind, s)
             \/ End(r) \/ Read(r) \/ TouchMisses(r)
    BY <2>2, <2>5 DEF Begin, End, Read, TouchMisses
  <2> QED BY <1>6, <2>1, <2>3, <2>4, <2>5 DEF Step
<1> QED BY <1>3, <1>5, <1>6 DEF Next

\* As long as no request is slow the limit of active sessions is kept, for every
\* limit and however logins, touches, revocations and the clock interleave.
THEOREM LimitKept == ScenarioSpec => []AtMostMaxActivePrompt
<1>1. ScenarioInit => PromptInv
  <2> SUFFICES ASSUME ScenarioInit PROVE PromptInv
    OBVIOUS
  <2>1. Active = {}
    BY DEF ScenarioInit, Init, Active, ActiveAt
  <2>2. \A r \in Requests : request[r].phase = "free"
    BY DEF ScenarioInit, Init, Free
  <2> QED BY <2>1, <2>2, Initial, FS_EmptySet, SessionsAssumption DEF ScenarioInit, PromptInv
<1>2. PromptInv => AtMostMaxActivePrompt
  BY DEF PromptInv, AtMostMaxActivePrompt, AtMostMaxActive, Active
<1> QED BY <1>1, <1>2, PromptKeeps, PTL DEF ScenarioSpec

=============================================================================
