------------------------------ MODULE Profiles ------------------------------
(***************************************************************************)
(* The account page: UsersService (apps/api/src/users) and                 *)
(* AccountProfileForm (apps/web/src/features/account).                     *)
(*                                                                         *)
(* A save is one transaction over two rows, the profile with the names and *)
(* the address, followed by a request of its own for a new photo.  A tab   *)
(* that has waited too long gives up, and the API goes on.  A text stands  *)
(* for the fields of a row; None is the row that is absent or empty.       *)
(***************************************************************************)
EXTENDS Integers, FiniteSets

CONSTANTS
  Texts, Photos, Tabs, Requests,
  None,
  MaxForms  \* bound: different forms that are saved

VARIABLES
  rows,      \* CustomerProfile and PrimaryAddress of the account
  active,    \* the account is active and its session is valid
  kept,      \* the names and addresses that were sent together
  requests,  \* what the API does
  page       \* the forms

vars == <<rows, active, kept, requests, page>>

-----------------------------------------------------------------------------
Idle == [phase |-> "idle"]
Left == [name |-> None, address |-> None, photo |-> None, chosen |-> None, state |-> "left"]

Fields == Texts \cup {None}
Faces  == Photos \cup {None}

Init ==
  /\ rows     = [name |-> None, address |-> None, photo |-> None]
  /\ active   = TRUE
  /\ kept     = {<<None, None>>}
  /\ requests = [q \in Requests |-> Idle]
  /\ page     = [t \in Tabs |-> Left]

Owned(q) == requests[q].live

\* The row of the profile is locked from its statement to the commit.
Locked == \E q \in Requests : requests[q].phase \in {"address", "commit"}

-----------------------------------------------------------------------------
(* The form                                                                *)

\* The session ends or the account is disabled, or another login.
Toggle ==
  /\ active' = ~ active
  /\ UNCHANGED <<rows, kept, requests, page>>

\* readCurrentUserProfile: the profile is read before the address.
Open(t) ==
  /\ page[t].state = "left" /\ active
  /\ page' = [page EXCEPT ![t].name = rows.name, ![t].photo = rows.photo, ![t].state = "opening"]
  /\ UNCHANGED <<rows, active, kept, requests>>

Opened(t) ==
  /\ page[t].state = "opening"
  /\ page' = [page EXCEPT ![t].address = rows.address, ![t].state = "ready"]
  /\ UNCHANGED <<rows, active, kept, requests>>

\* The fieldset is disabled while a request of the form is pending.
Fill(t) ==
  /\ page[t].state = "ready"
  /\ \E n, a \in Fields, c \in Faces :
       page' = [page EXCEPT ![t].name = n, ![t].address = a, ![t].chosen = c]
  /\ UNCHANGED <<rows, active, kept, requests>>

Sends(t, q, phase) ==
  requests' = [requests EXCEPT ![q] = [phase |-> phase, tab |-> t, live |-> TRUE,
    name |-> page[t].name, address |-> page[t].address, photo |-> page[t].chosen,
    read |-> None]]

Save(t, q) ==
  /\ page[t].state = "ready" /\ requests[q] = Idle
  /\ kept' = kept \cup {<<page[t].name, page[t].address>>}
  /\ Cardinality(kept') <= MaxForms
  /\ page' = [page EXCEPT ![t].state = "saving"]
  /\ Sends(t, q, "patch")
  /\ UNCHANGED <<rows, active>>

\* Only a photo that the page shows can be removed.
Remove(t, q) ==
  /\ page[t].state = "ready" /\ page[t].photo # None /\ requests[q] = Idle
  /\ page' = [page EXCEPT ![t].state = "saving"]
  /\ Sends(t, q, "delete")
  /\ UNCHANGED <<rows, active, kept>>

\* PROFILE_REQUEST_TIMEOUT_MS is over, or the answer is lost.
GiveUp(q) ==
  /\ requests[q] # Idle /\ Owned(q)
  /\ requests' = [requests EXCEPT ![q].live = FALSE]
  /\ page' = [page EXCEPT ![requests[q].tab].state = "ready"]
  /\ UNCHANGED <<rows, active, kept>>

\* A request ends, and its page, if it still waits, becomes p.
Ends(q, p) ==
  /\ requests' = [requests EXCEPT ![q] = Idle]
  /\ page' = IF Owned(q) THEN [page EXCEPT ![requests[q].tab] = p] ELSE page

\* The page shows what was read in the transaction; a chosen file follows.
Saved(q) ==
  LET r == requests[q]
      p == [page[r.tab] EXCEPT !.name = r.name, !.address = r.address, !.photo = r.read]
  IN /\ r.phase = "saved"
     /\ \/ /\ ~ (Owned(q) /\ r.photo # None)
           /\ Ends(q, [p EXCEPT !.state = "ready"])
        \/ /\ Owned(q) /\ r.photo # None
           /\ page' = [page EXCEPT ![r.tab] = p]
           /\ Sends(r.tab, q, "put")
     /\ UNCHANGED <<rows, active, kept>>

PhotoAnswered(q) ==
  LET r == requests[q]
      p == page[r.tab]
  IN /\ \/ r.phase = "stored"
           /\ Ends(q, [p EXCEPT !.photo = r.photo, !.chosen = None, !.state = "ready"])
        \/ r.phase = "deleted" /\ Ends(q, [p EXCEPT !.photo = None, !.state = "ready"])
     /\ UNCHANGED <<rows, active, kept>>

-----------------------------------------------------------------------------
(* UsersService                                                            *)

Goes(q, phase) == requests' = [requests EXCEPT ![q].phase = phase] /\ UNCHANGED page

\* The session of a request is refused, and its page goes to the login.
Refused(q) ==
  /\ requests[q].phase \in {"patch", "put", "delete"} /\ ~ active
  /\ Ends(q, Left)
  /\ UNCHANGED <<rows, active, kept>>

\* A file or a field is invalid, or the database fails: nothing is changed.
Fail(q) ==
  /\ requests[q].phase \in {"patch", "profile", "address", "commit", "put", "delete"}
  /\ Ends(q, [page[requests[q].tab] EXCEPT !.state = "ready"])
  /\ UNCHANGED <<rows, active, kept>>

\* updateCurrent finds the account active.
Begin(q) ==
  /\ requests[q].phase = "patch" /\ active
  /\ Goes(q, "profile")
  /\ UNCHANGED <<rows, active, kept>>

\* Mutant: the profile is updated outside of the transaction.
UpdateProfileAlone(q) ==
  /\ requests[q].phase = "profile" /\ ~ Locked
  /\ rows' = [rows EXCEPT !.name = requests[q].name]
  /\ Goes(q, "address")
  /\ UNCHANGED <<active, kept>>

\* updateProfile: the form always names its fields, so that the row is written.
UpdateProfile(q) ==
  /\ requests[q].phase = "profile" /\ ~ Locked
  /\ Goes(q, "address")
  /\ UNCHANGED <<rows, active, kept>>

\* updatePrimaryAddress writes or deletes a row no other save has reached.
UpdatePrimaryAddress(q) ==
  /\ requests[q].phase = "address"
  /\ Goes(q, "commit")
  /\ UNCHANGED <<rows, active, kept>>

Commit(q) ==
  LET r == requests[q] IN
  /\ r.phase = "commit"
  /\ rows' = [rows EXCEPT !.name = r.name, !.address = r.address]
  /\ requests' = [requests EXCEPT ![q].phase = "saved", ![q].read = rows.photo]
  /\ UNCHANGED <<active, kept, page>>

\* saveAvatar is one statement.
SaveAvatar(q) ==
  /\ requests[q].phase = "put" /\ active /\ ~ Locked
  /\ rows' = [rows EXCEPT !.photo = requests[q].photo]
  /\ Goes(q, "stored")
  /\ UNCHANGED <<active, kept>>

DeleteAvatar(q) ==
  /\ requests[q].phase = "delete" /\ active /\ ~ Locked
  /\ rows' = [rows EXCEPT !.photo = None]
  /\ Goes(q, "deleted")
  /\ UNCHANGED <<active, kept>>

-----------------------------------------------------------------------------
Next ==
  \/ Toggle
  \/ \E t \in Tabs : Open(t) \/ Opened(t) \/ Fill(t)
  \/ \E t \in Tabs, q \in Requests : Save(t, q) \/ Remove(t, q)
  \/ \E q \in Requests :
       \/ GiveUp(q) \/ Saved(q) \/ PhotoAnswered(q)
       \/ Refused(q) \/ Fail(q) \/ Begin(q) \/ UpdateProfile(q) \/ UpdatePrimaryAddress(q)
       \/ Commit(q) \/ SaveAvatar(q) \/ DeleteAvatar(q)

Spec == Init /\ [][Next]_vars

-----------------------------------------------------------------------------
(* Properties                                                              *)

Phases == {"patch", "profile", "address", "commit", "saved", "put", "stored", "delete", "deleted"}
Sent   == [phase : Phases, tab : Tabs, live : BOOLEAN, name : Fields, address : Fields,
           photo : Faces, read : Faces]
Stored == [name : Fields, address : Fields, photo : Faces]
Form   == [name : Fields, address : Fields, photo : Faces, chosen : Faces,
           state : {"left", "opening", "ready", "saving"}]

TypeOK ==
  /\ rows \in Stored
  /\ active \in BOOLEAN
  /\ kept \subseteq Fields \X Fields
  /\ requests \in [Requests -> {Idle} \cup Sent]
  /\ page \in [Tabs -> Form]

\* The stored name and address were sent together by one save, whatever saves of
\* two tabs, or of a tab that gave up, overlap or fail half-way.
SavedTogether == <<rows.name, rows.address>> \in kept

=============================================================================
