------------------------------ MODULE Release ------------------------------
(***************************************************************************)
(* The receiver of releases and the deployment it runs                     *)
(* (deploy/receive-release.py, deploy/deploy-release.sh): one process under*)
(* a lock carries out one command, and may end between any two writes.     *)
(* What a later command finds is the files under ROOT, the containers and  *)
(* the database.  The archive, the images and their aliases, whose         *)
(* identities are fixed by a version's tag, stand behind the version.      *)
(***************************************************************************)
EXTENDS Integers, FiniteSets

CONSTANTS
  Versions,  \* tagged versions, each of one commit
  Schema,    \* [Versions -> the migrations in the version's images]
  None

VARIABLES
  candidate,    \* versions with a candidate.json
  pending,      \* pending.json
  owner,        \* initial.json
  completed,    \* initial-complete.json
  recorded,     \* the migration_fingerprint in each version's deployment.json
  success,      \* versions with a success.json
  finalized,    \* versions with a finalized.json
  latest,       \* latest.json and the images' latest tag
  current,      \* the link current
  previous,     \* the link previous
  db,           \* applied migrations
  unresolved,   \* the migration that has begun and neither finished nor been rolled back
  marks,        \* seed-started and seed-complete
  seeds,        \* how often the seed's transaction was committed
  running,      \* the version of the api, web and caddy containers
  receiver,     \* what the process is about to do
  interrupted   \* the command that ended half-way, until another one begins

files == <<candidate, pending, owner, completed, recorded, success, finalized, latest>>
links == <<current, previous>>
schema == <<db, unresolved>>
data == <<schema, marks, seeds>>
vars == <<files, links, data, running, receiver, interrupted>>

-----------------------------------------------------------------------------
Idle == [at |-> "idle"]

Init ==
  /\ candidate = {} /\ success = {} /\ finalized = {}
  /\ pending = None /\ owner = None /\ completed = None /\ latest = None
  /\ recorded = [v \in Versions |-> None]
  /\ current = None /\ previous = None
  /\ db = {} /\ unresolved = None /\ marks = {} /\ seeds = 0
  /\ running = None
  /\ receiver = Idle /\ interrupted = None

Version == receiver.version
Does(action) == receiver.action = action
At(step) == receiver.at = step
Goes(step) == receiver' = [receiver EXCEPT !.at = step] /\ UNCHANGED interrupted
Ends == receiver' = Idle /\ UNCHANGED interrupted

-----------------------------------------------------------------------------
(* Commands                                                                *)

\* Historical versions are append-only; one release owns the initial deployment,
\* and no other one is deployed before it is complete.
Accepts(v, action) ==
  /\ v \in finalized => current = v
  /\ IF action = "deploy-initial" THEN completed = None /\ owner \in {None, v}
                                  ELSE completed # None

\* Mutant: a release that succeeded is always history.
ActiveIfCurrent(v) == v \in success => current = v

\* A release that succeeded and was not finished is resumed while it is pending.
Active(v) == v \in success /\ current # v => pending = v

\* Mutant: the query for migrations that are neither finished nor rolled back is left
\* out.
FingerprintOfFinished(v) == recorded[v] = db

\* The database has no unresolved migration and is as it was when the version was
\* deployed.
Fingerprint(v) == unresolved = None /\ recorded[v] = db

\* What the schema has to be for a version to be deployed or promoted again.
SameSchema(v) == recorded[v] = None \/ Fingerprint(v)

\* load_success and the fingerprint.
RollsBack(v) == v \in success /\ current # None /\ Fingerprint(v)

Begin(v, action) ==
  /\ receiver = Idle
  /\ \/ action = "rollback" /\ RollsBack(v)
     \/ action # "rollback" /\ Accepts(v, action)
  /\ receiver' = [version |-> v, action |-> action,
                  at |-> IF action = "rollback" THEN "stop"
                         ELSE IF v \in candidate THEN "activate" ELSE "prepare"]
  /\ interrupted' = None
  /\ UNCHANGED <<files, links, data, running>>

\* The process is killed, or a step of it fails: the archive, Docker, a migration
\* (which stays unresolved when it had begun), the seed, the health of the new
\* containers.
Interrupt ==
  /\ receiver # Idle
  /\ receiver' = Idle
  /\ interrupted' = IF receiver.at \in {"prepare", "activate", "own"} THEN None
                    ELSE [version |-> Version, action |-> receiver.action]
  /\ UNCHANGED <<files, links, data, running>>

-----------------------------------------------------------------------------
(* deploy_release                                                          *)

\* The images are received and loaded.
Prepare ==
  /\ At("prepare")
  /\ candidate' = candidate \cup {Version}
  /\ Goes("activate")
  /\ UNCHANGED <<pending, owner, completed, recorded, success, finalized, latest,
                 links, data, running>>

\* reconcile_pending: a newer release supersedes the one that failed.
Activate ==
  /\ At("activate")
  /\ IF Active(Version) THEN pending' = Version /\ Goes("own") ELSE UNCHANGED pending /\ Ends
  /\ UNCHANGED <<candidate, owner, completed, recorded, success, finalized, latest,
                 links, data, running>>

\* Initial ownership; then the release is deployed, or promoted if it was deployed
\* before and the database has not changed since.
Own ==
  /\ At("own")
  /\ owner' = IF Does("deploy-initial") THEN Version ELSE owner
  /\ CASE recorded[Version] = None -> Goes("stop")
       [] recorded[Version] # None /\ Fingerprint(Version) -> Goes("restart")
       [] OTHER -> Ends
  /\ UNCHANGED <<candidate, pending, completed, recorded, success, finalized, latest,
                 links, data, running>>

-----------------------------------------------------------------------------
(* deploy-release.sh                                                       *)

\* The containers stop before the schema changes under them.
Stop ==
  /\ At("stop")
  /\ running' = None
  /\ Goes(IF Does("rollback") THEN "restart" ELSE "migrate")
  /\ UNCHANGED <<files, links, data>>

\* prisma migrate deploy: one migration after the other.  It refuses to begin one
\* while another, of this or an earlier command, is unresolved.
Migrate ==
  /\ At("migrate")
  /\ unresolved = None
  /\ LET missing == Schema[Version] \ db IN
       IF missing = {}
       THEN /\ Goes(IF Does("deploy-initial") THEN "mark" ELSE "start")
            /\ UNCHANGED unresolved
       ELSE /\ unresolved' \in missing
            /\ Goes("migrating")
  /\ UNCHANGED <<files, links, db, marks, seeds, running>>

\* The migration that began is finished.
Migrated ==
  /\ At("migrating")
  /\ db' = db \cup {unresolved}
  /\ unresolved' = None
  /\ Goes("migrate")
  /\ UNCHANGED <<files, links, marks, seeds, running>>

\* The operator who diagnosed it has an unresolved migration rolled back or applied.
Resolve ==
  /\ unresolved # None /\ ~ At("migrating")
  /\ db' \in {db, db \cup {unresolved}}
  /\ unresolved' = None
  /\ UNCHANGED <<files, links, marks, seeds, running, receiver, interrupted>>

\* What seed-started, seed-complete and the catalogue say of an earlier attempt: a
\* populated catalogue after a started attempt is its committed transaction.
MarkSeed ==
  /\ At("mark")
  /\ \/ "complete" \in marks /\ Goes("start") /\ UNCHANGED marks
     \/ marks = {"started"} /\ seeds > 0 /\ Goes("start") /\ marks' = {"started", "complete"}
     \/ marks = {"started"} /\ seeds = 0 /\ Goes("seed") /\ UNCHANGED marks
     \/ marks = {} /\ seeds = 0 /\ Goes("seed") /\ marks' = {"started"}
  /\ UNCHANGED <<files, links, schema, seeds, running>>

Seed ==
  /\ At("seed") /\ seeds < 2
  /\ seeds' = seeds + 1
  /\ Goes("seeded")
  /\ UNCHANGED <<files, links, schema, marks, running>>

Seeded ==
  /\ At("seeded")
  /\ marks' = {"started", "complete"}
  /\ Goes("start")
  /\ UNCHANGED <<files, links, schema, seeds, running>>

Start ==
  /\ At("start")
  /\ running' = Version
  /\ Goes("record")
  /\ UNCHANGED <<files, links, data>>

\* deployment.json.
Record ==
  /\ At("record")
  /\ recorded' = [recorded EXCEPT ![Version] = db]
  /\ Goes("restart")
  /\ UNCHANGED <<candidate, pending, owner, completed, success, finalized, latest,
                 links, data, running>>

-----------------------------------------------------------------------------
(* publish_new_success, and the same steps of rollback_release             *)

Restart ==
  /\ At("restart")
  /\ running' = Version
  /\ Goes(IF Does("rollback") THEN "latest" ELSE "succeed")
  /\ UNCHANGED <<files, links, data>>

\* The public URLs are healthy: success.json.
Succeed ==
  /\ At("succeed")
  /\ success' = success \cup {Version}
  /\ Goes("latest")
  /\ UNCHANGED <<candidate, pending, owner, completed, recorded, finalized, latest,
                 links, data, running>>

TagLatest ==
  /\ At("latest")
  /\ latest' = Version
  /\ Goes("previous")
  /\ UNCHANGED <<candidate, pending, owner, completed, recorded, success, finalized,
                 links, data, running>>

\* promote_links, in two steps: previous is unlinked before it is made again.
LinkPrevious ==
  /\ At("previous")
  /\ \/ current \in {None, Version} /\ UNCHANGED previous /\ Goes("current")
     \/ /\ current \notin {None, Version}
        /\ \/ previous' = None /\ UNCHANGED <<receiver, interrupted>>
           \/ previous' = current /\ Goes("current")
  /\ UNCHANGED <<files, current, data, running>>

LinkCurrent ==
  /\ At("current")
  /\ current' = Version
  /\ Goes(IF Does("rollback") THEN "clear" ELSE "finalize")
  /\ UNCHANGED <<files, previous, data, running>>

Finalize ==
  /\ At("finalize")
  /\ finalized' = finalized \cup {Version}
  /\ Goes(IF Does("deploy-initial") THEN "complete" ELSE "clear")
  /\ UNCHANGED <<candidate, pending, owner, completed, recorded, success, latest,
                 links, data, running>>

Complete ==
  /\ At("complete")
  /\ completed' = Version
  /\ Goes("clear")
  /\ UNCHANGED <<candidate, pending, owner, recorded, success, finalized, latest,
                 links, data, running>>

\* clear_pending; a rollback forgets every pending release.
Clear ==
  /\ At("clear")
  /\ pending' = IF Does("rollback") \/ pending = Version THEN None ELSE pending
  /\ Ends
  /\ UNCHANGED <<candidate, owner, completed, recorded, success, finalized, latest,
                 links, data, running>>

-----------------------------------------------------------------------------
Next ==
  \/ \E v \in Versions, action \in {"deploy-initial", "deploy", "rollback"} : Begin(v, action)
  \/ Interrupt
  \/ Prepare \/ Activate \/ Own
  \/ Stop \/ Migrate \/ Migrated \/ Resolve \/ MarkSeed \/ Seed \/ Seeded \/ Start \/ Record
  \/ Restart \/ Succeed \/ TagLatest \/ LinkPrevious \/ LinkCurrent
  \/ Finalize \/ Complete \/ Clear

Spec == Init /\ [][Next]_vars

-----------------------------------------------------------------------------
(* Properties                                                              *)

\* The containers that run find the schema they were deployed with, whatever was
\* migrated, rolled back or interrupted since; none runs on a schema with an
\* unresolved migration, whichever command is given; and the links lead to versions
\* that were healthy once.
RunsOnItsSchema ==
  /\ running # None =>
       /\ unresolved = None
       /\ Schema[running] \subseteq db
       /\ SameSchema(running)
  /\ {current, previous} \subseteq success \cup {None}

\* A command that ended anywhere half-way has either been carried out, or the files
\* and the database accept the same command again, at once or, when it left a
\* migration unresolved, as soon as that is resolved, whichever way; and neither it
\* nor any other command seeds the catalogue again, or promotes a release over an
\* empty one.
Resumable ==
  /\ receiver = Idle /\ interrupted # None /\ unresolved = None =>
       LET v      == interrupted.version
           action == interrupted.action
       IN
       \/ v \in finalized /\ current = v /\ completed # None
       \/ action = "rollback" /\ RollsBack(v)
       \/ Accepts(v, action) /\ Active(v) /\ SameSchema(v)
  /\ current # None => seeds = 1
  /\ seeds <= 1

=============================================================================
