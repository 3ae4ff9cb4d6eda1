--------------------------- MODULE ProfilesProofs ---------------------------
(***************************************************************************)
(* Theorems about Profiles, for every number of texts, photos, tabs,       *)
(* requests and saved forms.                                               *)
(***************************************************************************)
EXTENDS Profiles, TLAPS

\* The inductive invariant: what a save carries through its transaction was sent
\* as a whole.
IInv ==
  /\ TypeOK
  /\ SavedTogether
  /\ \A q \in Requests :
       requests[q].phase \in {"patch", "profile", "address", "commit"} =>
         <<requests[q].name, requests[q].address>> \in kept

LEMMA InitInv == Init => IInv
BY DEF Init, IInv, TypeOK, SavedTogether, Fields, Faces, Idle, Left, Stored, Form

\* The steps of a form.
LEMMA FormKeeps ==
  ASSUME IInv, NEW t \in Tabs, Open(t) \/ Opened(t) \/ Fill(t)
  PROVE  IInv'
<1>1. UNCHANGED <<rows, active, kept, requests>>
  BY DEF Open, Opened, Fill
<1>2. page' \in [Tabs -> Form]
  <2>1. CASE Open(t)
    BY <2>1 DEF IInv, TypeOK, Open, Form, Stored
  <2>2. CASE Opened(t)
    BY <2>2 DEF IInv, TypeOK, Opened, Form, Stored
  <2>3. CASE Fill(t)
    <3>1. PICK n \in Fields, a \in Fields, c \in Faces :
            page' = [page EXCEPT ![t].name = n, ![t].address = a, ![t].chosen = c]
      BY <2>3 DEF Fill
    <3>2. page[t] \in Form
      BY DEF IInv, TypeOK
    <3>3. [page[t] EXCEPT !.name = n, !.address = a, !.chosen = c] \in Form
      BY <3>2 DEF Form
    <3>4. page' = [page EXCEPT ![t] = [page[t] EXCEPT !.name = n, !.address = a, !.chosen = c]]
      BY <3>1
    <3> QED BY <3>3, <3>4 DEF IInv, TypeOK
  <2> QED BY <2>1, <2>2, <2>3
<1> QED BY <1>1, <1>2 DEF IInv, TypeOK, SavedTogether

\* A request that is sent has the fields of its page.
LEMMA SentType ==
  ASSUME TypeOK, NEW t \in Tabs, NEW q \in Requests, NEW phase \in Phases, Sends(t, q, phase)
  PROVE  requests' \in [Requests -> {Idle} \cup Sent]
<1>1. page[t] \in Form
  BY DEF TypeOK
<1>2. requests'[q] \in Sent
  BY <1>1 DEF TypeOK, Sends, Sent, Form, Faces
<1> QED BY <1>2 DEF TypeOK, Sends

LEMMA SaveKeeps ==
  ASSUME IInv, NEW t \in Tabs, NEW q \in Requests, Save(t, q)
  PROVE  IInv'
<1>1. TypeOK'
  <2>1. page[t] \in Form
    BY DEF IInv, TypeOK
  <2>2. requests' \in [Requests -> {Idle} \cup Sent]
    BY <2>1, SentType DEF IInv, TypeOK, Save, Phases
  <2>3. page' \in [Tabs -> Form]
    BY <2>1 DEF IInv, TypeOK, Save, Form
  <2>4. kept' \subseteq Fields \X Fields
    BY <2>1 DEF IInv, TypeOK, Save, Form
  <2> QED BY <2>2, <2>3, <2>4 DEF IInv, TypeOK, Save
<1>2. SavedTogether'
  BY DEF IInv, Save, SavedTogether
<1> QED BY <1>1, <1>2 DEF IInv, TypeOK, Save, Sends, Idle

LEMMA RemoveKeeps ==
  ASSUME IInv, NEW t \in Tabs, NEW q \in Requests, Remove(t, q)
  PROVE  IInv'
<1>1. TypeOK'
  <2>1. page[t] \in Form
    BY DEF IInv, TypeOK
  <2>2. requests' \in [Requests -> {Idle} \cup Sent]
    BY <2>1, SentType DEF IInv, TypeOK, Remove, Phases
  <2>3. page' \in [Tabs -> Form]
    BY <2>1 DEF IInv, TypeOK, Remove, Form
  <2>4. kept' \subseteq Fields \X Fields
    BY <2>1 DEF IInv, TypeOK, Remove, Form
  <2> QED BY <2>2, <2>3, <2>4 DEF IInv, TypeOK, Remove
<1> QED BY <1>1 DEF IInv, TypeOK, Remove, Sends, SavedTogether

\* A request that ends leaves nothing behind but its page.
LEMMA EndsKeeps ==
  ASSUME IInv, NEW q \in Requests, requests[q] # Idle,
         NEW p \in Form,
         Ends(q, p), UNCHANGED <<rows, active, kept>>
  PROVE  IInv'
<1>1. requests[q] \in Sent
  BY DEF IInv, TypeOK
<1>2. TypeOK'
  BY <1>1 DEF IInv, TypeOK, Ends, Sent
<1> QED BY <1>2 DEF IInv, TypeOK, Ends, Idle, SavedTogether

\* A step that only takes a request to its next phase, still with the fields it
\* was sent with.
LEMMA GoesKeeps ==
  ASSUME IInv, NEW q \in Requests, requests[q].phase \in Phases,
         NEW to \in Phases, Goes(q, to),
         rows' \in Stored,
         rows'.name = rows.name, rows'.address = rows.address,
         UNCHANGED <<active, kept>>,
         to \in {"profile", "address", "commit"} =>
           requests[q].phase \in {"patch", "profile", "address"},
         to # "patch"
  PROVE  IInv'
<1>1. requests[q] \in Sent
  BY DEF IInv, TypeOK, Idle, Phases
<1>2. TypeOK'
  BY <1>1 DEF IInv, TypeOK, Goes, Sent
<1> QED BY <1>1, <1>2 DEF IInv, TypeOK, Goes, SavedTogether, Sent

LEMMA GiveUpKeeps ==
  ASSUME IInv, NEW q \in Requests, GiveUp(q)
  PROVE  IInv'
<1>1. requests[q] \in Sent
  BY DEF IInv, TypeOK, GiveUp
<1>2. TypeOK'
  <2>1. page[requests[q].tab] \in Form
    BY <1>1 DEF IInv, TypeOK, Sent
  <2>2. [page[requests[q].tab] EXCEPT !.state = "ready"] \in Form
    BY <2>1 DEF Form
  <2>3. [requests[q] EXCEPT !.live = FALSE] \in Sent
    BY <1>1 DEF Sent
  <2> QED BY <2>2, <2>3 DEF IInv, TypeOK, GiveUp
<1> QED BY <1>1, <1>2 DEF IInv, TypeOK, GiveUp, SavedTogether, Sent

LEMMA SavedKeeps ==
  ASSUME IInv, NEW q \in Requests, Saved(q)
  PROVE  IInv'
<1> DEFINE r == requests[q]
           p == [page[r.tab] EXCEPT !.name = r.name, !.address = r.address, !.photo = r.read]
<1>1. r \in Sent /\ r # Idle
  BY DEF IInv, TypeOK, Saved, Idle
<1>2. /\ page[r.tab] \in Form
      /\ r.name \in Fields /\ r.address \in Fields /\ r.read \in Faces /\ r.tab \in Tabs
  BY <1>1 DEF IInv, TypeOK, Sent
<1>3. CASE Ends(q, [p EXCEPT !.state = "ready"])
  <2>1. [p EXCEPT !.state = "ready"] \in Form
    BY <1>2 DEF Form
  <2>2. PICK f \in Form : Ends(q, f)
    BY <1>3, <2>1
  <2> QED BY <1>1, <2>2, EndsKeeps DEF Saved
<1>4. CASE page' = [page EXCEPT ![r.tab] = p] /\ Sends(r.tab, q, "put")
  <2>1. TypeOK'
    <3>1. requests' \in [Requests -> {Idle} \cup Sent]
      BY <1>2, <1>4, SentType DEF IInv, Phases
    <3>2. page' \in [Tabs -> Form]
      BY <1>2, <1>4 DEF IInv, TypeOK, Form
    <3> QED BY <3>1, <3>2 DEF IInv, TypeOK, Saved
  <2> QED BY <2>1, <1>4 DEF IInv, TypeOK, Saved, Sends, SavedTogether
<1> QED BY <1>3, <1>4 DEF Saved

LEMMA PhotoAnsweredKeeps ==
  ASSUME IInv, NEW q \in Requests, PhotoAnswered(q)
  PROVE  IInv'
<1> DEFINE r == requests[q]
<1>1. r \in Sent /\ r # Idle
  BY DEF IInv, TypeOK, PhotoAnswered, Idle
<1>2. /\ page[r.tab] \in Form
      /\ r.photo \in Faces /\ None \in Faces
  BY <1>1 DEF IInv, TypeOK, Sent, Faces
<1>3. /\ [page[r.tab] EXCEPT !.photo = r.photo, !.chosen = None, !.state = "ready"] \in Form
      /\ [page[r.tab] EXCEPT !.photo = None, !.state = "ready"] \in Form
  BY <1>2 DEF Form
<1>4. PICK f \in Form : Ends(q, f)
  BY <1>3 DEF PhotoAnswered
<1> QED BY <1>1, <1>4, EndsKeeps DEF PhotoAnswered

LEMMA EndedKeeps ==
  ASSUME IInv, NEW q \in Requests, Refused(q) \/ Fail(q)
  PROVE  IInv'
<1>1. requests[q] \in Sent /\ requests[q] # Idle
  BY DEF IInv, TypeOK, Refused, Fail, Idle
<1>2. page[requests[q].tab] \in Form
  BY <1>1 DEF IInv, TypeOK, Sent
<1>3. Left \in Form /\ [page[requests[q].tab] EXCEPT !.state = "ready"] \in Form
  BY <1>2 DEF Form, Left, Fields, Faces
<1>4. PICK f \in Form : Ends(q, f)
  BY <1>3 DEF Refused, Fail
<1> QED BY <1>1, <1>4, EndsKeeps DEF Refused, Fail

\* The statements of a save before its commit, and those of the photo.
LEMMA StatementKeeps ==
  ASSUME IInv, NEW q \in Requests,
         Begin(q) \/ UpdateProfile(q) \/ UpdatePrimaryAddress(q)
           \/ SaveAvatar(q) \/ DeleteAvatar(q)
  PROVE  IInv'
<1>1. /\ rows \in Stored
      /\ requests[q].phase \in Phases => requests[q].photo \in Faces
      /\ None \in Faces
  BY DEF IInv, TypeOK, Idle, Phases, Sent, Faces
<1>2. CASE Begin(q)
  BY <1>1, <1>2, GoesKeeps DEF Begin, Phases
<1>3. CASE UpdateProfile(q)
  BY <1>1, <1>3, GoesKeeps DEF UpdateProfile, Phases
<1>4. CASE UpdatePrimaryAddress(q)
  BY <1>1, <1>4, GoesKeeps DEF UpdatePrimaryAddress, Phases
<1>5. CASE SaveAvatar(q)
  <2>1. rows' \in Stored /\ rows'.name = rows.name /\ rows'.address = rows.address
    BY <1>1, <1>5 DEF SaveAvatar, Phases, Stored
  <2> QED BY <2>1, <1>5, GoesKeeps DEF SaveAvatar, Phases
<1>6. CASE DeleteAvatar(q)
  <2>1. rows' \in Stored /\ rows'.name = rows.name /\ rows'.address = rows.address
    BY <1>1, <1>6 DEF DeleteAvatar, Stored
  <2> QED BY <2>1, <1>6, GoesKeeps DEF DeleteAvatar, Phases
<1> QED BY <1>2, <1>3, <1>4, <1>5, <1>6

LEMMA CommitKeeps ==
  ASSUME IInv, NEW q \in Requests, Commit(q)
  PROVE  IInv'
<1>1. requests[q] \in Sent
  BY DEF IInv, TypeOK, Commit, Idle
<1>2. TypeOK'
  <2>1. rows \in Stored /\ rows.photo \in Faces
    BY DEF IInv, TypeOK, Stored
  <2>2. [rows EXCEPT !.name = requests[q].name, !.address = requests[q].address] \in Stored
    BY <1>1, <2>1 DEF Stored, Sent
  <2>3. [requests[q] EXCEPT !.phase = "saved", !.read = rows.photo] \in Sent
    BY <1>1, <2>1 DEF Sent, Phases
  <2> QED BY <2>2, <2>3 DEF IInv, TypeOK, Commit
<1>3. SavedTogether'
  BY DEF IInv, TypeOK, Commit, SavedTogether
<1> QED BY <1>1, <1>2, <1>3 DEF IInv, TypeOK, Commit, Sent

THEOREM Invariant == Spec => []IInv
<1>1. IInv /\ [Next]_vars => IInv'
  <2> SUFFICES ASSUME IInv, [Next]_vars PROVE IInv'
    OBVIOUS
  <2>1. CASE UNCHANGED vars
    BY <2>1 DEF IInv, TypeOK, SavedTogether, vars
  <2>2. CASE Toggle
    BY <2>2 DEF IInv, TypeOK, SavedTogether, Toggle
  <2>3. ASSUME NEW t \in Tabs, Open(t) \/ Opened(t) \/ Fill(t) PROVE IInv'
    BY <2>3, FormKeeps
  <2>4. ASSUME NEW t \in Tabs, NEW q \in Requests, Save(t, q) \/ Remove(t, q) PROVE IInv'
    BY <2>4, SaveKeeps, RemoveKeeps
  <2>5. ASSUME NEW q \in Requests,
               GiveUp(q) \/ Saved(q) \/ PhotoAnswered(q) \/ Refused(q) \/ Fail(q)
        PROVE IInv'
    BY <2>5, GiveUpKeeps, SavedKeeps, PhotoAnsweredKeeps, EndedKeeps
  <2>6. ASSUME NEW q \in Requests,
               Begin(q) \/ UpdateProfile(q) \/ UpdatePrimaryAddress(q) \/ Commit(q)
                 \/ SaveAvatar(q) \/ DeleteAvatar(q)
        PROVE IInv'
    BY <2>6, StatementKeeps, CommitKeeps
  <2> QED BY <2>1, <2>2, <2>3, <2>4, <2>5, <2>6 DEF Next
<1> QED BY InitInv, <1>1, PTL DEF Spec

\* However many tabs save, give up and save again, the stored name and address
\* were sent together.
THEOREM SavesStayWhole == Spec => []SavedTogether
<1>1. IInv => SavedTogether
  BY DEF IInv
<1> QED BY <1>1, Invariant, PTL

=============================================================================
