--------------------------- MODULE ReleaseProofs ---------------------------
(***************************************************************************)
(* Theorems about Release, the part of MCProgress whose safety is checked, *)
(* for every number of versions and every order of migrations.             *)
(***************************************************************************)
EXTENDS MCProgress, TLAPS

AllMigrations == UNION {Schema[v] : v \in Versions}

Steps == {"prepare", "activate", "own", "stop", "migrate", "migrating", "mark", "seed", "seeded",
          "start", "record", "restart", "succeed", "latest", "previous", "current", "finalize",
          "complete", "clear"}
Commands == {"deploy-initial", "deploy", "rollback"}

Receivers    == {Releases!Idle} \cup [version : Versions, action : Commands, at : Steps]
Interruptions == {None} \cup [version : Versions, action : Commands]

TypesOK ==
  /\ receiver \in Receivers
  /\ recorded \in [Versions -> (SUBSET AllMigrations) \cup {None}]
  /\ db \in SUBSET AllMigrations
  /\ unresolved \in AllMigrations \cup {None}
  /\ running \in Versions \cup {None}

\* What is true between two steps of a command.  A version that is not recorded
\* yet is migrated while nothing runs; with an unresolved migration no command is
\* beyond the migrations; one that is recorded is started only when
\* the database is as it was; and only a healthy version is linked.
ReceiverOK(r) ==
  /\ r.at \in {"migrate", "migrating"} => running = None
  /\ r.at = "migrating" => unresolved # None
  /\ unresolved # None =>
       /\ r.at \in {"idle", "prepare", "activate", "own", "stop", "migrate", "migrating"}
       /\ r.at = "stop" => r.action # "rollback"
  /\ r.at \in {"migrate", "migrating", "mark", "seed", "seeded", "start", "record"}
       => recorded[r.version] = None
  /\ r.at = "stop" /\ r.action # "rollback" => recorded[r.version] = None
  /\ r.at \in {"mark", "seed", "seeded", "start", "record"} => Schema[r.version] \subseteq db
  /\ r.at \in {"stop", "restart"} /\ r.action = "rollback"
       => r.version \in success /\ recorded[r.version] = db
  /\ r.at = "restart" => recorded[r.version] = db
  /\ r.at \in {"prepare", "activate", "own", "migrate", "migrating", "mark", "seed", "seeded",
               "start", "record"}
       => r.action # "rollback"
  /\ r.at \in {"latest", "previous", "current", "finalize", "complete", "clear"}
       => r.version \in success

RecordedOK == \A v \in Versions : recorded[v] # None => Schema[v] \subseteq recorded[v]

\* The inductive invariant behind RunsOnItsSchema.
IInv == TypesOK /\ Releases!RunsOnItsSchema /\ RecordedOK /\ ReceiverOK(receiver)

\* The same command may be given again.
Again(v, action) ==
  \/ v \in finalized /\ current = v /\ completed # None
  \/ action = "rollback" /\ Releases!RollsBack(v)
  \/ Releases!Accepts(v, action) /\ Releases!Active(v) /\ Releases!SameSchema(v)

\* How far a deployment has come, and that a rollback still has its target.
CommandOK(r) ==
  /\ r.action # "rollback" =>
       /\ r.at # "clear" => Releases!Accepts(r.version, r.action)
       /\ r.at \notin {"prepare", "activate"} => pending = r.version
       /\ r.at \in {"restart", "succeed", "latest", "previous", "current", "finalize", "complete",
                    "clear"}
            => recorded[r.version] = db
       /\ r.at \in {"finalize", "complete", "clear"} => current = r.version
       /\ r.at \in {"complete", "clear"} => r.version \in finalized
       /\ r.at = "clear" => completed # None
       /\ r.at \in {"mark", "complete"} => r.action = "deploy-initial"
  /\ r.action = "rollback" => /\ r.version \in success /\ recorded[r.version] = db
                              /\ current # None
                              /\ r.at \notin {"finalize", "complete"}

\* The catalogue is seeded before anything is recorded, linked or complete.
SeedsOK(r) ==
  /\ seeds \in {0, 1}
  /\ marks \subseteq {"started", "complete"}
  /\ "complete" \in marks => seeds = 1
  /\ marks = {} => seeds = 0
  /\ completed # None \/ current # None => seeds = 1
  /\ \A v \in Versions : recorded[v] # None => seeds = 1
  /\ r.at = "seed" => seeds = 0
  /\ r.at \in {"seed", "seeded"} => "started" \in marks
  /\ r.at \in {"seeded", "start", "record"} => seeds = 1

\* The inductive invariant behind Resumable.
ResumeInv ==
  /\ IInv
  /\ interrupted \in Interruptions
  /\ receiver # Releases!Idle => interrupted = None /\ CommandOK(receiver)
  /\ interrupted # None => Again(interrupted.version, interrupted.action)
  /\ SeedsOK(receiver)

LEMMA Nothing ==
  /\ None \notin Versions
  /\ None \notin AllMigrations
  /\ None \notin SUBSET AllMigrations
  /\ None \notin [version : Versions, action : Commands]
<1>1. None \notin SUBSET AllMigrations
  <2>1. \A s \in SUBSET AllMigrations : s # None
    BY ReleaseAssumption DEF AllMigrations
  <2> QED BY <2>1
<1> QED BY <1>1, ReleaseAssumption DEF Commands, AllMigrations

LEMMA InitInv == Releases!Init => IInv
BY Nothing DEF Releases!Init, IInv, TypesOK, Releases!RunsOnItsSchema, RecordedOK, ReceiverOK,
               Receivers, Releases!Idle, AllMigrations

\* The process goes to a step, or ends.
LEMMA GoesType ==
  ASSUME TypesOK, receiver # Releases!Idle, NEW step \in Steps, Releases!Goes(step)
  PROVE  /\ receiver' \in Receivers /\ receiver'.at = step
         /\ receiver'.version = Releases!Version /\ receiver'.action = receiver.action
         /\ Releases!Version \in Versions
BY DEF TypesOK, Receivers, Releases!Goes, Releases!Version

LEMMA EndsType == Releases!Ends => receiver' \in Receivers /\ receiver'.at = "idle"
BY DEF Releases!Ends, Receivers, Releases!Idle

LEMMA BeginKeeps ==
  ASSUME IInv, NEW v \in Versions, NEW action \in Commands, Releases!Begin(v, action)
  PROVE  IInv'
<1>1. UNCHANGED <<db, unresolved, running, recorded, success, current, previous>>
  BY DEF Releases!Begin, Releases!files, Releases!links, Releases!data, Releases!schema
<1>2. /\ receiver' \in Receivers /\ receiver'.version = v /\ receiver'.action = action
      /\ action = "rollback" => receiver'.at = "stop" /\ v \in success /\ recorded[v] = db
                                  /\ unresolved = None
      /\ action # "rollback" => receiver'.at \in {"activate", "prepare"}
  <2>1. PICK step : step = IF action = "rollback" THEN "stop"
                           ELSE IF v \in candidate THEN "activate" ELSE "prepare"
    OBVIOUS
  <2>2. receiver' = [version |-> v, action |-> action, at |-> step]
    BY <2>1 DEF Releases!Begin
  <2> QED BY <2>1, <2>2 DEF Releases!Begin, Receivers, Steps, Releases!RollsBack,
                            Releases!Fingerprint
<1> QED BY <1>1, <1>2
        DEF IInv, TypesOK, Releases!RunsOnItsSchema, Releases!SameSchema, Releases!Fingerprint,
            RecordedOK, ReceiverOK

\* Steps that touch none of the schema, the containers and the links.
LEMMA QuietKeeps ==
  ASSUME IInv,
         \/ Releases!Interrupt \/ Releases!Prepare \/ Releases!Activate \/ Releases!Own
         \/ Releases!MarkSeed \/ Releases!Seed \/ Releases!Seeded \/ Releases!TagLatest
           \/ Releases!Finalize \/ Releases!Complete \/ Releases!Clear
  PROVE  IInv'
<1>1. UNCHANGED <<db, unresolved, running, recorded, success, current, previous>>
  BY DEF Releases!Interrupt, Releases!Prepare, Releases!Activate, Releases!Own, Releases!MarkSeed,
         Releases!Seed, Releases!Seeded, Releases!TagLatest, Releases!Finalize, Releases!Complete,
         Releases!Clear, Releases!files, Releases!links, Releases!data, Releases!schema
<1>2. CASE receiver' = Releases!Idle
  BY <1>1, <1>2
  DEF IInv, TypesOK, Receivers, Releases!RunsOnItsSchema, Releases!SameSchema,
      Releases!Fingerprint, RecordedOK, ReceiverOK, Releases!Idle
<1>3. ASSUME receiver # Releases!Idle, NEW step \in Steps, Releases!Goes(step),
             \/ receiver.at \in {"prepare", "activate"} /\ step \in {"activate", "own"}
             \/ receiver.at = "own" /\ step = "stop" /\ recorded[Releases!Version] = None
                  /\ ~ Releases!Does("rollback")
             \/ receiver.at = "own" /\ step = "restart" /\ recorded[Releases!Version] = db
                  /\ unresolved = None /\ ~ Releases!Does("rollback")
             \/ receiver.at \in {"mark", "seed", "seeded"} /\ step \in {"seed", "seeded", "start"}
             \/ /\ receiver.at \in {"latest", "finalize", "complete"}
                /\ step \in {"previous", "complete", "clear"}
      PROVE IInv'
  BY <1>1, <1>3, GoesType
  DEF IInv, TypesOK, Releases!RunsOnItsSchema, Releases!SameSchema, Releases!Fingerprint,
      RecordedOK, ReceiverOK, Releases!Does, Releases!Version
<1>4. CASE Releases!Interrupt \/ Releases!Clear
  BY <1>2, <1>4 DEF Releases!Interrupt, Releases!Clear, Releases!Ends
<1>5. CASE Releases!Prepare \/ Releases!Activate
  BY <1>2, <1>3, <1>5 DEF Releases!Prepare, Releases!Activate, Releases!Ends, Releases!At,
                          Releases!Idle, Steps
<1>6. CASE Releases!Own
  <2>1. receiver # Releases!Idle /\ receiver.at = "own" /\ ~ Releases!Does("rollback")
    BY <1>6 DEF IInv, ReceiverOK, Releases!Own, Releases!At, Releases!Idle, Releases!Does
  <2>2. CASE recorded[Releases!Version] = None
    BY <1>3, <1>6, <2>1, <2>2 DEF Releases!Own, Steps
  <2>3. CASE recorded[Releases!Version] # None /\ Releases!Fingerprint(Releases!Version)
    BY <1>3, <1>6, <2>1, <2>3 DEF Releases!Own, Releases!Fingerprint, Steps
  <2>4. CASE recorded[Releases!Version] # None /\ ~ Releases!Fingerprint(Releases!Version)
    BY <1>2, <1>6, <2>4 DEF Releases!Own, Releases!Ends
  <2> QED BY <2>2, <2>3, <2>4
<1>7. CASE Releases!MarkSeed \/ Releases!Seed \/ Releases!Seeded
  BY <1>3, <1>7 DEF Releases!MarkSeed, Releases!Seed, Releases!Seeded, Releases!At, Releases!Idle,
                    Steps
<1>8. CASE Releases!TagLatest \/ Releases!Finalize \/ Releases!Complete
  BY <1>3, <1>8 DEF Releases!TagLatest, Releases!Finalize, Releases!Complete, Releases!At,
                    Releases!Idle, Steps
<1> QED BY <1>4, <1>5, <1>6, <1>7, <1>8

LEMMA StopKeeps ==
  ASSUME IInv, Releases!Stop
  PROVE  IInv'
<1>1. PICK step \in Steps :
        Releases!Goes(step) /\ step = IF Releases!Does("rollback") THEN "restart" ELSE "migrate"
  BY DEF Releases!Stop, Steps
<1>2. receiver # Releases!Idle /\ receiver.at = "stop"
  BY DEF Releases!Stop, Releases!At, Releases!Idle
<1> QED BY <1>1, <1>2, GoesType
    DEF IInv, TypesOK, Releases!RunsOnItsSchema, RecordedOK, ReceiverOK, Releases!Stop,
        Releases!Does, Releases!Version, Releases!files, Releases!links, Releases!data,
        Releases!schema

LEMMA MigrateKeeps ==
  ASSUME IInv, Releases!Migrate
  PROVE  IInv'
<1>1. /\ receiver # Releases!Idle /\ receiver.at = "migrate" /\ running = None /\ running' = None
      /\ unresolved = None
      /\ UNCHANGED <<db, recorded, success, current, previous>>
      /\ Releases!Version \in Versions
  BY DEF IInv, ReceiverOK, TypesOK, Receivers, Releases!Migrate, Releases!At, Releases!Idle,
         Releases!Version, Releases!files, Releases!links
<1>2. CASE Schema[Releases!Version] \ db = {}
  <2>1. PICK step \in {"mark", "start"} : Releases!Goes(step) /\ unresolved' = None
    BY <1>1, <1>2 DEF Releases!Migrate
  <2> QED BY <1>1, <1>2, <2>1, GoesType
      DEF IInv, TypesOK, Releases!RunsOnItsSchema, RecordedOK, ReceiverOK, Releases!Version, Steps
<1>3. CASE Schema[Releases!Version] \ db # {}
  <2>1. unresolved' \in Schema[Releases!Version] /\ Releases!Goes("migrating")
    BY <1>3 DEF Releases!Migrate
  <2>2. unresolved' \in AllMigrations /\ unresolved' # None
    BY <1>1, <2>1, Nothing DEF AllMigrations
  <2> QED BY <1>1, <2>1, <2>2, GoesType
      DEF IInv, TypesOK, Releases!RunsOnItsSchema, RecordedOK, ReceiverOK, Releases!Version, Steps
<1> QED BY <1>2, <1>3

LEMMA MigratedKeeps ==
  ASSUME IInv, Releases!Migrated
  PROVE  IInv'
<1>1. /\ receiver # Releases!Idle /\ receiver.at = "migrating" /\ running = None /\ running' = None
      /\ db' = db \cup {unresolved} /\ unresolved' = None /\ Releases!Goes("migrate")
      /\ UNCHANGED <<recorded, success, current, previous>>
      /\ unresolved \in AllMigrations
  BY DEF IInv, ReceiverOK, TypesOK, Releases!Migrated, Releases!At, Releases!Idle, Releases!files,
         Releases!links
<1> QED BY <1>1, GoesType
    DEF IInv, TypesOK, Releases!RunsOnItsSchema, RecordedOK, ReceiverOK, Releases!Version, Steps

LEMMA ResolveKeeps ==
  ASSUME IInv, Releases!Resolve
  PROVE  IInv'
<1>1. /\ receiver' = receiver /\ receiver.at # "migrating"
      /\ running = None /\ running' = None
      /\ unresolved \in AllMigrations /\ unresolved # None /\ unresolved' = None
      /\ db' \in {db, db \cup {unresolved}}
      /\ UNCHANGED <<recorded, success, current, previous>>
  BY DEF IInv, TypesOK, Releases!RunsOnItsSchema, Releases!Resolve, Releases!At, Releases!files,
         Releases!links
<1> QED BY <1>1 DEF IInv, TypesOK, Releases!RunsOnItsSchema, RecordedOK, ReceiverOK

LEMMA StartKeeps ==
  ASSUME IInv, Releases!Start \/ Releases!Restart
  PROVE  IInv'
<1>1. PICK step \in {"record", "latest", "succeed"} :
        /\ Releases!Goes(step)
        /\ step = "record" <=> receiver.at = "start"
        /\ step = "latest" <=> receiver.at = "restart" /\ Releases!Does("rollback")
  BY DEF Releases!Start, Releases!Restart, Releases!At
<1>2. /\ receiver # Releases!Idle /\ receiver.at \in {"start", "restart"}
      /\ running' = Releases!Version
      /\ UNCHANGED <<db, unresolved, recorded, success, current, previous>>
  BY DEF Releases!Start, Releases!Restart, Releases!At, Releases!Idle, Releases!files,
         Releases!links, Releases!data, Releases!schema
<1>3. /\ Releases!Version \in Versions /\ Schema[Releases!Version] \subseteq db
      /\ Releases!SameSchema(Releases!Version)
  BY <1>2, Nothing DEF IInv, TypesOK, Receivers, ReceiverOK, RecordedOK, Releases!SameSchema,
                       Releases!Fingerprint, Releases!Version
<1> QED BY <1>1, <1>2, <1>3, GoesType
    DEF IInv, TypesOK, Releases!RunsOnItsSchema, Releases!SameSchema, Releases!Fingerprint,
        RecordedOK, ReceiverOK, Releases!Does, Releases!Version, Steps

LEMMA RecordKeeps ==
  ASSUME IInv, Releases!Record
  PROVE  IInv'
<1>1. /\ receiver # Releases!Idle /\ receiver.at = "record"
      /\ Releases!Version \in Versions /\ Releases!Goes("restart")
  BY DEF IInv, TypesOK, Receivers, Releases!Record, Releases!At, Releases!Idle, Releases!Version
<1>2. /\ Schema[Releases!Version] \subseteq db
      /\ recorded' = [recorded EXCEPT ![Releases!Version] = db]
      /\ recorded[Releases!Version] = None
      /\ UNCHANGED <<db, unresolved, running, success, current, previous>>
  BY <1>1 DEF IInv, ReceiverOK, Releases!Record, Releases!Version, Releases!links, Releases!data,
              Releases!schema
<1> QED BY <1>1, <1>2, GoesType
    DEF IInv, TypesOK, Releases!RunsOnItsSchema, Releases!SameSchema, Releases!Fingerprint,
        RecordedOK, ReceiverOK, Releases!Version, Steps

LEMMA SucceedKeeps ==
  ASSUME IInv, Releases!Succeed
  PROVE  IInv'
<1>1. /\ receiver # Releases!Idle /\ receiver.at = "succeed"
      /\ Releases!Version \in Versions /\ Releases!Goes("latest")
  BY DEF IInv, TypesOK, Receivers, Releases!Succeed, Releases!At, Releases!Idle, Releases!Version
<1> QED BY <1>1, GoesType
    DEF IInv, TypesOK, Releases!RunsOnItsSchema, Releases!SameSchema, Releases!Fingerprint,
        RecordedOK, ReceiverOK, Releases!Succeed, Releases!Version, Steps, Releases!links,
        Releases!data, Releases!schema

LEMMA LinkKeeps ==
  ASSUME IInv, Releases!LinkPrevious \/ Releases!LinkCurrent
  PROVE  IInv'
<1>1. /\ receiver # Releases!Idle /\ receiver.at \in {"previous", "current"}
      /\ Releases!Version \in success
      /\ UNCHANGED <<db, unresolved, running, recorded, success>>
      /\ current' \in {current, Releases!Version} /\ previous' \in {previous, None, current}
  BY DEF IInv, ReceiverOK, Releases!LinkPrevious, Releases!LinkCurrent, Releases!At,
         Releases!Idle, Releases!Version, Releases!files, Releases!data, Releases!schema
<1>2. \/ receiver' = receiver
      \/ \E step \in {"current", "clear", "finalize"} : Releases!Goes(step)
  BY DEF Releases!LinkPrevious, Releases!LinkCurrent
<1>3. CASE receiver' = receiver
  BY <1>1, <1>3 DEF IInv, TypesOK, Releases!RunsOnItsSchema, Releases!SameSchema,
                    Releases!Fingerprint, RecordedOK, ReceiverOK
<1>4. ASSUME NEW step \in {"current", "clear", "finalize"}, Releases!Goes(step) PROVE IInv'
  BY <1>1, <1>4, GoesType
  DEF IInv, TypesOK, Releases!RunsOnItsSchema, Releases!SameSchema, Releases!Fingerprint,
      RecordedOK, ReceiverOK, Releases!Version, Steps
<1> QED BY <1>2, <1>3, <1>4

LEMMA StepKeeps == IInv /\ [Releases!Next]_(Releases!vars) => IInv'
<1> SUFFICES ASSUME IInv, [Releases!Next]_(Releases!vars) PROVE IInv'
  OBVIOUS
<1>1. CASE UNCHANGED Releases!vars
  BY <1>1 DEF IInv, TypesOK, Releases!RunsOnItsSchema, Releases!SameSchema, Releases!Fingerprint,
              RecordedOK, ReceiverOK, Releases!vars, Releases!files, Releases!links,
              Releases!data, Releases!schema
<1>2. ASSUME NEW v \in Versions, NEW action \in Commands, Releases!Begin(v, action) PROVE IInv'
  BY <1>2, BeginKeeps
<1>3. CASE Releases!Interrupt \/ Releases!Prepare \/ Releases!Activate \/ Releases!Own
             \/ Releases!MarkSeed \/ Releases!Seed \/ Releases!Seeded
             \/ Releases!TagLatest \/ Releases!Finalize \/ Releases!Complete \/ Releases!Clear
  BY <1>3, QuietKeeps
<1>4. CASE \/ Releases!Stop \/ Releases!Migrate \/ Releases!Migrated \/ Releases!Resolve
             \/ Releases!Start \/ Releases!Restart
  BY <1>4, StopKeeps, MigrateKeeps, MigratedKeeps, ResolveKeeps, StartKeeps
<1>5. CASE Releases!Record \/ Releases!Succeed \/ Releases!LinkPrevious \/ Releases!LinkCurrent
  BY <1>5, RecordKeeps, SucceedKeeps, LinkKeeps
<1> QED BY <1>1, <1>2, <1>3, <1>4, <1>5 DEF Releases!Next, Commands

-----------------------------------------------------------------------------
(* Interrupted commands                                                    *)

\* What the steps of a command share: the process goes to a step of the command.
LEMMA GoesOn ==
  ASSUME ResumeInv, IInv', receiver # Releases!Idle, NEW step \in Steps, Releases!Goes(step)
  PROVE  /\ receiver'.version = receiver.version /\ receiver'.action = receiver.action
         /\ receiver'.at = step /\ receiver' # Releases!Idle
         /\ receiver.version \in Versions
         /\ interrupted = None /\ interrupted' = None /\ CommandOK(receiver)
<1>1. receiver'.at = step /\ "idle" \notin Steps
  BY GoesType DEF ResumeInv, IInv, Steps
<1> QED BY <1>1, GoesType DEF ResumeInv, IInv, Releases!Goes, Releases!Version, Releases!Idle

LEMMA BeginResumes ==
  ASSUME ResumeInv, NEW v \in Versions, NEW action \in Commands, Releases!Begin(v, action)
  PROVE  ResumeInv'
<1>1. IInv'
  BY BeginKeeps DEF ResumeInv
<1>2. /\ UNCHANGED <<candidate, pending, initial, completed, recorded, success, finalized, latest,
                     current, previous, db, unresolved, marks, seeds>>
      /\ interrupted' = None /\ interrupted' \in Interruptions
  BY DEF Releases!Begin, Releases!files, Releases!links, Releases!data, Releases!schema,
         Interruptions
<1>3. /\ receiver'.version = v /\ receiver'.action = action
      /\ action = "rollback" => receiver'.at = "stop" /\ Releases!RollsBack(v)
      /\ action # "rollback" => /\ receiver'.at \in {"activate", "prepare"}
                                /\ Releases!Accepts(v, action)
  <2>1. PICK step : step = IF action = "rollback" THEN "stop"
                           ELSE IF v \in candidate THEN "activate" ELSE "prepare"
    OBVIOUS
  <2>2. receiver' = [version |-> v, action |-> action, at |-> step]
    BY <2>1 DEF Releases!Begin
  <2> QED BY <2>1, <2>2 DEF Releases!Begin
<1>4. CommandOK(receiver)'
  BY <1>2, <1>3 DEF CommandOK, Releases!Accepts, Releases!RollsBack, Releases!Fingerprint
<1>5. SeedsOK(receiver)'
  BY <1>2, <1>3 DEF ResumeInv, SeedsOK
<1> QED BY <1>1, <1>2, <1>4, <1>5 DEF ResumeInv

\* A command that is killed may be given again.
LEMMA InterruptResumes ==
  ASSUME ResumeInv, Releases!Interrupt
  PROVE  ResumeInv'
<1>1. IInv'
  BY QuietKeeps DEF ResumeInv
<1>2. /\ UNCHANGED <<candidate, pending, initial, completed, recorded, success, finalized, latest,
                     current, previous, db, unresolved, marks, seeds>>
      /\ receiver # Releases!Idle /\ receiver' = Releases!Idle
  BY DEF Releases!Interrupt, Releases!files, Releases!links, Releases!data, Releases!schema
<1>3. /\ receiver.version \in Versions /\ receiver.action \in Commands /\ receiver.at \in Steps
      /\ ReceiverOK(receiver) /\ CommandOK(receiver)
  BY <1>2 DEF ResumeInv, IInv, TypesOK, Receivers
<1>4. CASE interrupted' = None
  BY <1>1, <1>2, <1>4 DEF ResumeInv, SeedsOK, Interruptions, Releases!Idle
<1>5. CASE interrupted' # None
  <2>1. /\ receiver.at \notin {"prepare", "activate", "own"}
        /\ interrupted' = [version |-> receiver.version, action |-> receiver.action]
    BY <1>5 DEF Releases!Interrupt, Releases!Version
  <2>2. interrupted' \in Interruptions
    BY <1>3, <2>1 DEF Interruptions
  <2>3. Again(receiver.version, receiver.action)
    BY <1>3, <2>1
    DEF CommandOK, ReceiverOK, Again, Releases!Accepts, Releases!Active, Releases!SameSchema,
        Releases!Fingerprint, Releases!RollsBack, Releases!Fingerprint, Steps
  <2>4. Again(interrupted.version, interrupted.action)'
    BY <1>2, <2>1, <2>3
    DEF Again, Releases!Accepts, Releases!Active, Releases!SameSchema, Releases!Fingerprint,
        Releases!RollsBack, Releases!Fingerprint
  <2> QED BY <1>1, <1>2, <2>2, <2>4 DEF ResumeInv, SeedsOK, Releases!Idle
<1> QED BY <1>4, <1>5

\* The command ends.
LEMMA EndResumes ==
  ASSUME ResumeInv, IInv', receiver # Releases!Idle, Releases!Ends,
         UNCHANGED <<initial, completed, recorded, success, finalized, current, db, unresolved, marks,
                     seeds>>
  PROVE  ResumeInv'
BY DEF ResumeInv, Releases!Ends, Releases!Idle, SeedsOK

\* What is left to show of a step within a command.
LEMMA StepResumes ==
  ASSUME ResumeInv, IInv', receiver # Releases!Idle, NEW step \in Steps, Releases!Goes(step),
         CommandOK(receiver)', SeedsOK(receiver)'
  PROVE  ResumeInv'
BY GoesOn DEF ResumeInv, Interruptions

\* Up to the first step that can be interrupted.
LEMMA ReceiveResumes ==
  ASSUME ResumeInv, Releases!Prepare \/ Releases!Activate \/ Releases!Own
  PROVE  ResumeInv'
<1>1. /\ IInv' /\ receiver # Releases!Idle /\ receiver.action # "rollback"
      /\ CommandOK(receiver) /\ SeedsOK(receiver) /\ ReceiverOK(receiver)
      /\ receiver.version \in Versions
  BY QuietKeeps
  DEF ResumeInv, IInv, ReceiverOK, Releases!Prepare, Releases!Activate, Releases!Own, Releases!At,
      Releases!Idle, TypesOK, Receivers
<1>2. /\ UNCHANGED <<completed, recorded, success, finalized, current, db, unresolved, marks,
                     seeds>>
      /\ receiver.at \in {"prepare", "activate", "own"}
  BY DEF Releases!Prepare, Releases!Activate, Releases!Own, Releases!At, Releases!links,
         Releases!data, Releases!schema
<1>3. ASSUME NEW step \in {"activate", "own"}, Releases!Goes(step), initial' = initial,
             step = "own" => pending' = receiver.version
      PROVE  ResumeInv'
  <2>1. /\ receiver'.version = receiver.version /\ receiver'.action = receiver.action
        /\ receiver'.at = step
    BY <1>1, <1>3, GoesOn DEF Steps
  <2>2. CommandOK(receiver)' /\ SeedsOK(receiver)'
    BY <1>1, <1>2, <1>3, <2>1 DEF CommandOK, SeedsOK, Releases!Accepts
  <2> QED BY <1>1, <1>3, <2>2, StepResumes DEF Steps
<1>4. ASSUME Releases!Own, NEW step \in {"stop", "restart"}, Releases!Goes(step),
             step = "restart" => recorded[receiver.version] = db
      PROVE  ResumeInv'
  <2>1. /\ receiver'.version = receiver.version /\ receiver'.action = receiver.action
        /\ receiver'.at = step
    BY <1>1, <1>4, GoesOn DEF Steps
  <2>2. /\ pending = receiver.version /\ pending' = pending
        /\ receiver.action = "deploy-initial" => initial' = receiver.version
        /\ receiver.action # "deploy-initial" => initial' = initial
    BY <1>1, <1>4 DEF Releases!Own, Releases!At, CommandOK, Releases!Does, Releases!Version
  <2>3. CommandOK(receiver)' /\ SeedsOK(receiver)'
    BY <1>1, <1>2, <1>4, <2>1, <2>2 DEF CommandOK, SeedsOK, Releases!Accepts
  <2> QED BY <1>1, <1>4, <2>3, StepResumes DEF Steps
<1>5. CASE Releases!Ends
  BY <1>1, <1>2, <1>5 DEF ResumeInv, Releases!Ends, Releases!Idle, SeedsOK
<1>6. CASE Releases!Prepare \/ Releases!Activate
  BY <1>3, <1>5, <1>6 DEF Releases!Prepare, Releases!Activate, Releases!Version
<1>7. CASE Releases!Own
  <2>1. CASE recorded[Releases!Version] = None
    <3>1. recorded[Releases!Version] # db
      BY <2>1, Nothing DEF ResumeInv, IInv, TypesOK
    <3> QED BY <1>4, <1>7, <2>1, <3>1 DEF Releases!Own
  <2>2. CASE recorded[Releases!Version] # None /\ Releases!Fingerprint(Releases!Version)
    BY <1>4, <1>7, <2>2 DEF Releases!Own, Releases!Version, Releases!Fingerprint
  <2>3. CASE recorded[Releases!Version] # None /\ ~ Releases!Fingerprint(Releases!Version)
    BY <1>5, <1>7, <2>3 DEF Releases!Own
  <2> QED BY <2>1, <2>2, <2>3
<1> QED BY <1>6, <1>7

\* deploy-release.sh.
LEMMA DeployResumes ==
  ASSUME ResumeInv,
         \/ Releases!Stop \/ Releases!Migrate \/ Releases!Migrated \/ Releases!MarkSeed
         \/ Releases!Seed \/ Releases!Seeded \/ Releases!Start \/ Releases!Record
  PROVE  ResumeInv'
<1>1. /\ receiver # Releases!Idle
      /\ CommandOK(receiver) /\ SeedsOK(receiver) /\ ReceiverOK(receiver)
      /\ receiver.version \in Versions
      /\ receiver.at \in {"stop", "migrate", "migrating", "mark", "seed", "seeded", "start",
                          "record"}
      /\ receiver.at # "stop" => receiver.action # "rollback"
      /\ UNCHANGED <<pending, initial, completed, success, finalized, current>>
  BY DEF ResumeInv, IInv, ReceiverOK, Releases!Stop, Releases!Migrate, Releases!Migrated,
         Releases!MarkSeed, Releases!Seed, Releases!Seeded, Releases!Start, Releases!Record,
         Releases!At, Releases!Idle, TypesOK, Receivers, Releases!files, Releases!links
<1>2. IInv'
  BY QuietKeeps, StopKeeps, MigrateKeeps, MigratedKeeps, StartKeeps, RecordKeeps DEF ResumeInv
<1>3. CASE Releases!Stop
  <2>1. PICK step \in Steps :
          /\ Releases!Goes(step)
          /\ step = IF receiver.action = "rollback" THEN "restart" ELSE "migrate"
    BY <1>3 DEF Releases!Stop, Steps, Releases!Does
  <2>2. receiver.at = "stop" /\ UNCHANGED <<recorded, db, unresolved, marks, seeds>>
    BY <1>3 DEF Releases!Stop, Releases!At, Releases!files, Releases!data, Releases!schema
  <2>3. CommandOK(receiver)' /\ SeedsOK(receiver)'
    BY <1>1, <1>2, <2>1, <2>2, GoesOn DEF CommandOK, SeedsOK, Releases!Accepts
  <2> QED BY <1>1, <1>2, <2>1, <2>3, StepResumes
<1>4. CASE Releases!Migrate \/ Releases!Migrated
  <2>1. receiver.at \in {"migrate", "migrating"} /\ UNCHANGED <<recorded, marks, seeds>>
    BY <1>4 DEF Releases!Migrate, Releases!Migrated, Releases!At, Releases!files
  <2>2. ASSUME NEW step \in {"migrate", "migrating", "mark", "start"}, Releases!Goes(step),
               step = "mark" => receiver.action = "deploy-initial",
               step = "start" => receiver.action # "deploy-initial"
        PROVE  ResumeInv'
    <3>1. CommandOK(receiver)' /\ SeedsOK(receiver)'
      BY <1>1, <1>2, <2>1, <2>2, GoesOn DEF CommandOK, SeedsOK, Releases!Accepts, Steps
    <3> QED BY <1>1, <1>2, <2>2, <3>1, StepResumes DEF Steps
  <2> QED BY <1>4, <2>2 DEF Releases!Migrate, Releases!Migrated, Releases!Does
<1>5. CASE Releases!MarkSeed
  <2>1. receiver.at = "mark" /\ UNCHANGED <<recorded, db, unresolved, seeds>>
    BY <1>5 DEF Releases!MarkSeed, Releases!At, Releases!files, Releases!schema
  <2>2. ASSUME NEW step \in {"start", "seed"}, Releases!Goes(step),
               marks' \subseteq {"started", "complete"}, marks' # {},
               step = "seed" => seeds = 0 /\ marks' = {"started"},
               step = "start" => seeds = 1
        PROVE  ResumeInv'
    <3>1. CommandOK(receiver)' /\ SeedsOK(receiver)'
      BY <1>1, <1>2, <2>1, <2>2, GoesOn DEF CommandOK, SeedsOK, Releases!Accepts, Steps
    <3> QED BY <1>1, <1>2, <2>2, <3>1, StepResumes DEF Steps
  <2>3. CASE "complete" \in marks /\ Releases!Goes("start") /\ UNCHANGED marks
    BY <1>1, <2>2, <2>3 DEF SeedsOK
  <2>4. CASE seeds > 0 /\ Releases!Goes("start") /\ marks' = {"started", "complete"}
    BY <1>1, <2>2, <2>4 DEF SeedsOK
  <2>5. CASE marks = {"started"} /\ seeds = 0 /\ Releases!Goes("seed") /\ UNCHANGED marks
    BY <2>2, <2>5
  <2>6. CASE seeds = 0 /\ Releases!Goes("seed") /\ marks' = {"started"}
    BY <2>2, <2>6
  <2> QED BY <1>5, <2>3, <2>4, <2>5, <2>6 DEF Releases!MarkSeed
<1>6. CASE Releases!Seed
  <2>1. receiver.at = "seed" /\ UNCHANGED <<recorded, db, unresolved, marks>> /\ seeds' = 1
        /\ Releases!Goes("seeded") /\ marks # {}
    BY <1>1, <1>6 DEF Releases!Seed, Releases!At, Releases!files, Releases!schema, SeedsOK
  <2>2. CommandOK(receiver)' /\ SeedsOK(receiver)'
    BY <1>1, <1>2, <2>1, GoesOn DEF CommandOK, SeedsOK, Releases!Accepts, Steps
  <2> QED BY <1>1, <1>2, <2>1, <2>2, StepResumes DEF Steps
<1>7. CASE Releases!Seeded
  <2>1. receiver.at = "seeded" /\ UNCHANGED <<recorded, db, unresolved, seeds>>
        /\ Releases!Goes("start") /\ marks' = {"started", "complete"}
    BY <1>7 DEF Releases!Seeded, Releases!At, Releases!files, Releases!schema
  <2>2. CommandOK(receiver)' /\ SeedsOK(receiver)'
    BY <1>1, <1>2, <2>1, GoesOn DEF CommandOK, SeedsOK, Releases!Accepts, Steps
  <2> QED BY <1>1, <1>2, <2>1, <2>2, StepResumes DEF Steps
<1>8. CASE Releases!Start
  <2>1. receiver.at = "start" /\ UNCHANGED <<recorded, db, unresolved, marks, seeds>>
        /\ Releases!Goes("record")
    BY <1>8 DEF Releases!Start, Releases!At, Releases!files, Releases!data, Releases!schema
  <2>2. CommandOK(receiver)' /\ SeedsOK(receiver)'
    BY <1>1, <1>2, <2>1, GoesOn DEF CommandOK, SeedsOK, Releases!Accepts, Steps
  <2> QED BY <1>1, <1>2, <2>1, <2>2, StepResumes DEF Steps
<1>9. CASE Releases!Record
  <2>1. /\ receiver.at = "record" /\ UNCHANGED <<db, unresolved, marks, seeds>>
        /\ Releases!Goes("restart")
        /\ recorded' = [recorded EXCEPT ![receiver.version] = db]
        /\ recorded \in [Versions -> (SUBSET AllMigrations) \cup {None}]
    BY <1>9
    DEF Releases!Record, Releases!At, Releases!data, Releases!schema, Releases!Version, ResumeInv,
        IInv, TypesOK
  <2>2. CommandOK(receiver)' /\ SeedsOK(receiver)'
    BY <1>1, <1>2, <2>1, GoesOn DEF CommandOK, SeedsOK, Releases!Accepts, Steps
  <2> QED BY <1>1, <1>2, <2>1, <2>2, StepResumes DEF Steps
<1> QED BY <1>3, <1>4, <1>5, <1>6, <1>7, <1>8, <1>9

\* The operator resolves a migration: no command is beyond the migrations, and the
\* one that was interrupted has not been deployed yet.
LEMMA ResolveResumes ==
  ASSUME ResumeInv, Releases!Resolve
  PROVE  ResumeInv'
<1>1. IInv'
  BY ResolveKeeps DEF ResumeInv
<1>2. /\ UNCHANGED <<candidate, pending, initial, completed, recorded, success, finalized, latest,
                     current, previous, marks, seeds, receiver, interrupted>>
      /\ unresolved # None
  BY DEF Releases!Resolve, Releases!files, Releases!links
<1>3. receiver # Releases!Idle => CommandOK(receiver)'
  <2> SUFFICES ASSUME receiver # Releases!Idle PROVE CommandOK(receiver)'
    OBVIOUS
  <2>1. CommandOK(receiver) /\ ReceiverOK(receiver) /\ receiver.at \in Steps
    BY DEF ResumeInv, IInv, TypesOK, Receivers
  <2>2. receiver.at \in {"prepare", "activate", "own", "stop", "migrate", "migrating"}
        /\ receiver.action # "rollback"
    BY <1>2, <2>1 DEF ReceiverOK, Steps
  <2> QED BY <1>2, <2>1, <2>2 DEF CommandOK, Releases!Accepts
<1>4. interrupted # None => Again(interrupted.version, interrupted.action)'
  BY <1>2 DEF ResumeInv, Again, Releases!Accepts, Releases!Active, Releases!SameSchema,
              Releases!RollsBack, Releases!Fingerprint
<1>5. SeedsOK(receiver)'
  BY <1>2 DEF ResumeInv, SeedsOK
<1> QED BY <1>1, <1>2, <1>3, <1>4, <1>5 DEF ResumeInv

\* publish_new_success and rollback_release.
LEMMA PublishResumes ==
  ASSUME ResumeInv,
         \/ Releases!Restart \/ Releases!Succeed \/ Releases!TagLatest
         \/ Releases!LinkPrevious \/ Releases!LinkCurrent
         \/ Releases!Finalize \/ Releases!Complete \/ Releases!Clear
  PROVE  ResumeInv'
<1>1. /\ receiver # Releases!Idle
      /\ CommandOK(receiver) /\ SeedsOK(receiver) /\ ReceiverOK(receiver)
      /\ receiver.version \in Versions
      /\ receiver.at \in {"restart", "succeed", "latest", "previous", "current", "finalize",
                          "complete", "clear"}
      /\ UNCHANGED <<initial, recorded, db, unresolved, marks, seeds>>
      /\ success \subseteq success'
  BY DEF ResumeInv, IInv, Releases!Restart, Releases!Succeed, Releases!TagLatest,
         Releases!LinkPrevious, Releases!LinkCurrent, Releases!Finalize, Releases!Complete,
         Releases!Clear, Releases!At, Releases!Idle, TypesOK, Receivers, Releases!files,
         Releases!data, Releases!schema
<1>2. IInv'
  BY QuietKeeps, StartKeeps, SucceedKeeps, LinkKeeps DEF ResumeInv
<1>3. recorded[receiver.version] = db /\ db # None
  BY <1>1, Nothing DEF CommandOK, ResumeInv, IInv, TypesOK
<1>4. seeds = 1
  BY <1>1, <1>3 DEF SeedsOK
\* A step that goes on before the links are made.
<1>5. ASSUME NEW step \in {"succeed", "latest", "previous", "current"}, Releases!Goes(step),
             UNCHANGED <<pending, completed, finalized, current>>,
             receiver.at \in {"restart", "succeed", "latest", "previous"}
      PROVE  ResumeInv'
  <2>1. CommandOK(receiver)' /\ SeedsOK(receiver)'
    BY <1>1, <1>2, <1>5, GoesOn DEF CommandOK, SeedsOK, Releases!Accepts, Steps
  <2> QED BY <1>1, <1>2, <1>5, <2>1, StepResumes DEF Steps
<1>6. CASE Releases!Restart \/ Releases!Succeed \/ Releases!TagLatest
  BY <1>5, <1>6
  DEF Releases!Restart, Releases!Succeed, Releases!TagLatest, Releases!At, Releases!files,
      Releases!links
<1>7. CASE Releases!LinkPrevious
  <2>1. CASE receiver' = receiver /\ interrupted' = interrupted
    BY <1>1, <1>2, <1>7, <2>1
    DEF Releases!LinkPrevious, Releases!files, ResumeInv, CommandOK, SeedsOK, Releases!Accepts
  <2> QED BY <1>5, <1>7, <2>1 DEF Releases!LinkPrevious, Releases!At, Releases!files
<1>8. CASE Releases!LinkCurrent
  <2>1. PICK step \in {"clear", "finalize"} :
          Releases!Goes(step) /\ step = IF receiver.action = "rollback" THEN "clear" ELSE "finalize"
    BY <1>8 DEF Releases!LinkCurrent, Releases!Does
  <2>2. /\ receiver.at = "current" /\ current' = receiver.version
        /\ UNCHANGED <<pending, completed, finalized>>
    BY <1>8 DEF Releases!LinkCurrent, Releases!At, Releases!Version, Releases!files
  <2>3. receiver.version # None
    BY <1>1, Nothing
  <2>4. CommandOK(receiver)' /\ SeedsOK(receiver)'
    BY <1>1, <1>2, <1>3, <1>4, <2>1, <2>2, <2>3, GoesOn
    DEF CommandOK, SeedsOK, Releases!Accepts, Steps
  <2> QED BY <1>1, <1>2, <2>1, <2>4, StepResumes DEF Steps
<1>9. CASE Releases!Finalize
  <2>1. PICK step \in {"complete", "clear"} :
          /\ Releases!Goes(step)
          /\ step = IF receiver.action = "deploy-initial" THEN "complete" ELSE "clear"
    BY <1>9 DEF Releases!Finalize, Releases!Does
  <2>2. /\ receiver.at = "finalize" /\ finalized' = finalized \cup {receiver.version}
        /\ UNCHANGED <<pending, completed, current>>
    BY <1>9 DEF Releases!Finalize, Releases!At, Releases!Version, Releases!links
  <2>3. receiver.action # "rollback" /\ current = receiver.version
    BY <1>1, <2>2 DEF CommandOK
  <2>4. CommandOK(receiver)' /\ SeedsOK(receiver)'
    BY <1>1, <1>2, <1>4, <2>1, <2>2, <2>3, GoesOn DEF CommandOK, SeedsOK, Releases!Accepts, Steps
  <2> QED BY <1>1, <1>2, <2>1, <2>4, StepResumes DEF Steps
<1>10. CASE Releases!Complete
  <2>1. /\ receiver.at = "complete" /\ completed' = receiver.version
        /\ Releases!Goes("clear") /\ UNCHANGED <<pending, finalized, current>>
    BY <1>10 DEF Releases!Complete, Releases!At, Releases!Version, Releases!links
  <2>2. receiver.version # None
    BY <1>1, Nothing
  <2>3. CommandOK(receiver)' /\ SeedsOK(receiver)'
    BY <1>1, <1>2, <1>4, <2>1, <2>2, GoesOn DEF CommandOK, SeedsOK, Steps
  <2> QED BY <1>1, <1>2, <2>1, <2>3, StepResumes DEF Steps
<1>11. CASE Releases!Clear
  BY <1>1, <1>2, <1>11, EndResumes DEF Releases!Clear, Releases!links
<1> QED BY <1>6, <1>7, <1>8, <1>9, <1>10, <1>11

-----------------------------------------------------------------------------
(* Theorems                                                                *)

\* A part that is not the subject does not move.
LEMMA ReleasesMove == [AllNext]_<<subject, vars, pageVars, draftVars, releaseVars>>
                        => [Releases!Next]_(Releases!vars)
BY DEF AllNext, releaseVars, Releases!vars, Releases!files, Releases!links, Releases!data,
       Releases!schema

\* Wherever commands are interrupted, what runs was deployed with the schema that
\* the database has, with no migration unresolved, and what is linked was healthy.
THEOREM SchemaFits == AllSpec => []RunsOnItsSchema
<1>1. AllInit => IInv
  BY InitInv DEF AllInit
<1>2. IInv => RunsOnItsSchema
  BY DEF IInv, RunsOnItsSchema
<1> QED BY <1>1, <1>2, StepKeeps, ReleasesMove, PTL DEF AllSpec

\* A command that ended half-way may be given again, once the migration it may have
\* left unresolved is resolved, and the catalogue is seeded once before anything is
\* served.
THEOREM InterruptionsResume == AllSpec => []Resumable
<1>1. AllInit => ResumeInv
  BY InitInv
  DEF AllInit, Releases!Init, ResumeInv, SeedsOK, Interruptions, Releases!Idle
<1>2. ResumeInv /\ [Releases!Next]_(Releases!vars) => ResumeInv'
  <2> SUFFICES ASSUME ResumeInv, [Releases!Next]_(Releases!vars) PROVE ResumeInv'
    OBVIOUS
  <2>1. CASE UNCHANGED Releases!vars
    <3>1. IInv'
      BY <2>1, StepKeeps DEF ResumeInv
    <3> QED BY <2>1, <3>1
        DEF ResumeInv, Releases!vars, Releases!files, Releases!links, Releases!data,
            Releases!schema, CommandOK, SeedsOK, Again, Releases!Accepts, Releases!Active,
            Releases!SameSchema, Releases!Fingerprint, Releases!RollsBack, Releases!Fingerprint
  <2>2. ASSUME NEW v \in Versions, NEW action \in Commands, Releases!Begin(v, action)
        PROVE ResumeInv'
    BY <2>2, BeginResumes
  <2>3. CASE Releases!Interrupt \/ Releases!Prepare \/ Releases!Activate \/ Releases!Own
    BY <2>3, InterruptResumes, ReceiveResumes
  <2>4. CASE \/ Releases!Stop \/ Releases!Migrate \/ Releases!Migrated \/ Releases!MarkSeed
             \/ Releases!Seed \/ Releases!Seeded \/ Releases!Start \/ Releases!Record
    BY <2>4, DeployResumes
  <2>6. CASE Releases!Resolve
    BY <2>6, ResolveResumes
  <2>5. CASE \/ Releases!Restart \/ Releases!Succeed \/ Releases!TagLatest
             \/ Releases!LinkPrevious \/ Releases!LinkCurrent
             \/ Releases!Finalize \/ Releases!Complete \/ Releases!Clear
    BY <2>5, PublishResumes
  <2> QED BY <2>1, <2>2, <2>3, <2>4, <2>5, <2>6 DEF Releases!Next, Commands
<1>3. ResumeInv => Resumable
  BY DEF ResumeInv, Resumable, Releases!Resumable, Again, SeedsOK
<1> QED BY <1>1, <1>2, <1>3, ReleasesMove, PTL DEF AllSpec

=============================================================================
