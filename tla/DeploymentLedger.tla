--------------------------- MODULE DeploymentLedger ---------------------------
(***************************************************************************)
(* The deployment ledger kept by internal/sqlite/deployment.go: what       *)
(* SaveDeployment and SaveDeploymentSource do to its tables.  A request is *)
(* one validated ledger, read from a file or fetched from GitHub Actions;  *)
(* it is saved in one immediate SQLite transaction, and its records are    *)
(* resolved against the artifacts, commits and services that runtime       *)
(* refreshes have stored by then.  A conflict, an error or a crash before  *)
(* the commit leaves nothing behind.                                       *)
(*                                                                         *)
(* A record holds the fields its fingerprint covers, so records are equal  *)
(* when their fingerprints are.  Evidence, limitations and the wording of  *)
(* the basis follow from the resolution and are left out.                  *)
(***************************************************************************)
EXTENDS Integers, Sequences, FiniteSets

CONSTANTS Requests,    \* the ledgers that may be saved
          Inventories, \* what a runtime refresh may store
          Latest,      \* the last instant the clock reaches (a bound)
          None         \* NULL, or no such row

Records ==
  UNION {{request.records[n] : n \in 1..Len(request.records)} : request \in Requests}

Artifacts == UNION {i.artifacts : i \in Inventories}
Commits   == UNION {i.commits : i \in Inventories}
Services  == UNION {i.services : i \in Inventories}

\* A request has source, hash, observedAt, records and fetch: the GitHub
\* artifact it was fetched as, with its metadata, or None for a file.
ASSUME LedgerAssumption ==
  /\ Latest \in Nat
  /\ IsFiniteSet(Artifacts) /\ IsFiniteSet(Commits)
  /\ \A record \in Records : record.deployedAt \in Int
  /\ None \notin Requests /\ None \notin Artifacts /\ None \notin Commits
  \* The hash covers the content of the ledger.
  /\ \A r1, r2 \in Requests : r1.hash = r2.hash => r1.records = r2.records
  /\ \A request \in Requests :
       /\ DOMAIN request = {"source", "hash", "observedAt", "records", "fetch"}
       /\ request.observedAt \in Nat
       /\ request.records \in Seq(Records)
       /\ request.fetch = None \/ DOMAIN request.fetch = {"artifact", "metadata"}

VARIABLES inventory, \* the artifacts, commits and services stored by refreshes
          now,       \* the clock
          db,        \* the ledger's tables as the open transaction sees them
          committed, \* the ledger's tables as of the last commit
          saving,    \* the request being saved, None when no transaction is open
          step,      \* where its transaction is
          pending,   \* the records of it not yet written
          history    \* the requests committed so far (history variable)
vars == <<inventory, now, db, committed, saving, step, pending, history>>

Steps == {"idle", "identities", "records"}

-----------------------------------------------------------------------------
(* Resolution of one record against the inventory                          *)

\* Wrong variant: the first of several rows is taken.
ResolvedToFirst(candidates) ==
  IF candidates = {} THEN [state |-> "unresolved", row |-> None]
  ELSE [state |-> "matched", row |-> CHOOSE c \in candidates : TRUE]

\* Nothing, one row, or several: an ambiguous claim is never chosen from.
Resolved(candidates) ==
  CASE candidates = {}            -> [state |-> "unresolved", row |-> None]
    [] Cardinality(candidates) = 1 ->
         [state |-> "matched", row |-> CHOOSE c \in candidates : TRUE]
    [] Cardinality(candidates) > 1 -> [state |-> "contradicted", row |-> None]

\* The immutable identities a record claims.
Claims(record) == {record.image, record.digest} \ {None}

resolveArtifact(stored, record) ==
  Resolved({a \in stored.artifacts : {a.identity, a.image} \cap Claims(record) # {}})

\* One SHA may be a commit of several repositories.
resolveCommit(stored, record) ==
  Resolved(IF record.verified THEN {c \in stored.commits : c.sha = record.revision} ELSE {})

Contradicted(artifact, commit) == "contradicted" \in {artifact.state, commit.state}

\* A deployment in the future keeps its links but carries no conclusion.
Status(artifact, commit, deployedAt, at) ==
  CASE Contradicted(artifact, commit) -> "CONTRADICTED"
    [] ~Contradicted(artifact, commit) /\ deployedAt > at -> "UNKNOWN"
    [] ~Contradicted(artifact, commit) /\ deployedAt <= at ->
         CASE artifact.row # None /\ commit.row # None -> "MATCHED"
           [] (artifact.row = None) # (commit.row = None) -> "PARTIAL"
           [] artifact.row = None /\ commit.row = None -> "UNKNOWN"

resolveDeployment(stored, record, at) ==
  LET artifact == resolveArtifact(stored, record)
      commit   == resolveCommit(stored, record)
      service  == [environment |-> record.environment, key |-> record.service]
  IN  [service  |-> service \in stored.services,
       artifact |-> IF Contradicted(artifact, commit) THEN None ELSE artifact.row,
       commit   |-> IF Contradicted(artifact, commit) THEN None ELSE commit.row,
       status   |-> Status(artifact, commit, record.deployedAt, at)]

-----------------------------------------------------------------------------
(* The tables: functions on the unique keys of their rows                  *)

IngestionKey(request) == <<request.source, request.hash>>

\* UNIQUE(source_id, external_id, service_key): the environment is not in it.
Key(request, record) == <<request.source, record.id, record.service>>

FetchKey(request) == <<request.source, request.fetch.artifact>>

RecordsOf(request) == {request.records[n] : n \in 1..Len(request.records)}

With(table, key, row) ==
  [k \in DOMAIN table \cup {key} |-> IF k = key THEN row ELSE table[k]]

Empty == [key \in {} |-> None]

EmptyLedger ==
  [source |-> Empty, ingestion |-> Empty, deployment |-> Empty, fetch |-> Empty]

Init ==
  /\ inventory = [artifacts |-> {}, commits |-> {}, services |-> {}]
  /\ now = 0
  /\ db = EmptyLedger
  /\ committed = EmptyLedger
  /\ saving = None
  /\ step = "idle"
  /\ pending = <<>>
  /\ history = {}

\* The image of an artifact is the one its first observation gave.
NewArtifacts(artifacts) ==
  {a \in artifacts : \A b \in inventory.artifacts : b.identity # a.identity}

\* A runtime refresh commits: rows are added to the inventory, never removed.
RuntimeSnapshotSaved ==
  /\ saving = None
  /\ \E i \in Inventories :
       inventory' = [artifacts |-> inventory.artifacts \cup NewArtifacts(i.artifacts),
                     commits   |-> inventory.commits \cup i.commits,
                     services  |-> inventory.services \cup i.services]
  /\ UNCHANGED <<now, db, committed, saving, step, pending, history>>

Tick ==
  /\ saving = None
  /\ now < Latest
  /\ now' = now + 1
  /\ UNCHANGED <<inventory, db, committed, saving, step, pending, history>>

\* ensureSource with status "success": only the last sync moves.
SourceSaved(d, request) ==
  LET s == request.source
  IN  [d EXCEPT !.source =
         With(@, s, IF s \in DOMAIN @ /\ request.observedAt <= @[s]
                    THEN @[s] ELSE request.observedAt)]

\* Wrong variant: a ledger that was ingested before is checked and written again.
BeginAgain ==
  /\ saving = None
  /\ \E request \in Requests :
       /\ saving' = request
       /\ db' = SourceSaved(db, request)
       /\ step' = "identities"
  /\ pending' = <<>>
  /\ UNCHANGED <<inventory, now, committed, history>>

\* The source and hash of an earlier ingestion make this one a replay of it.
Begin ==
  /\ saving = None
  /\ \E request \in Requests :
       /\ saving' = request
       /\ db' = SourceSaved(db, request)
       /\ step' = IF IngestionKey(request) \in DOMAIN db.ingestion
                  THEN "records" ELSE "identities"
  /\ pending' = <<>>
  /\ UNCHANGED <<inventory, now, committed, history>>

Known(request) ==
  {n \in DOMAIN request.records : Key(request, request.records[n]) \in DOMAIN db.deployment}

\* Wrong variant: a known identity is not compared.
IdentityUnchecked(request) == FALSE

\* deployment identity changed: a known key with another fingerprint.
IdentityConflict(request) ==
  \E n \in Known(request) :
    db.deployment[Key(request, request.records[n])].record # request.records[n]

\* Wrong variant: records that were there already are counted as inserted.
InspectCountingAll ==
  /\ step = "identities"
  /\ ~IdentityConflict(saving)
  /\ db' = [db EXCEPT !.ingestion =
              With(@, IngestionKey(saving),
                   [seen     |-> Len(saving.records),
                    inserted |-> Len(saving.records),
                    existing |-> Cardinality(Known(saving))])]
  /\ pending' = saving.records
  /\ step' = "records"
  /\ UNCHANGED <<inventory, now, committed, saving, history>>

\* No record is refused: the ingestion row is written with its counts.
InspectIdentities ==
  /\ step = "identities"
  /\ ~IdentityConflict(saving)
  /\ db' = [db EXCEPT !.ingestion =
              With(@, IngestionKey(saving),
                   [seen     |-> Len(saving.records),
                    inserted |-> Len(saving.records) - Cardinality(Known(saving)),
                    existing |-> Cardinality(Known(saving))])]
  /\ pending' = saving.records
  /\ step' = "records"
  /\ UNCHANGED <<inventory, now, committed, saving, history>>

Deployment(request, record) ==
  [record |-> record, first |-> request.hash,
   resolution |-> resolveDeployment(inventory, record, now)]

\* Wrong variant: a known deployment is resolved again.
SaveRecordAgain ==
  /\ step = "records"
  /\ pending # <<>>
  /\ LET key == Key(saving, Head(pending))
     IN  db' = [db EXCEPT !.deployment = With(@, key, Deployment(saving, Head(pending)))]
  /\ pending' = Tail(pending)
  /\ UNCHANGED <<inventory, now, committed, saving, step, history>>

\* A key that is already there is passed over, whatever its fingerprint.
SaveRecord ==
  /\ step = "records"
  /\ pending # <<>>
  /\ LET key == Key(saving, Head(pending))
     IN  db' = IF key \in DOMAIN db.deployment THEN db
               ELSE [db EXCEPT !.deployment = With(@, key, Deployment(saving, Head(pending)))]
  /\ pending' = Tail(pending)
  /\ UNCHANGED <<inventory, now, committed, saving, step, history>>

\* GitHub Actions artifact metadata changed.
FetchConflict(request) ==
  /\ request.fetch # None
  /\ FetchKey(request) \in DOMAIN db.fetch
  /\ db.fetch[FetchKey(request)] # [hash |-> request.hash, metadata |-> request.fetch.metadata]

FetchSaved(d, request) ==
  IF request.fetch = None THEN d
  ELSE [d EXCEPT !.fetch = With(@, FetchKey(request),
                                [hash |-> request.hash, metadata |-> request.fetch.metadata])]

\* ErrConflict: the deferred rollback undoes the whole request.
RejectIdentity ==
  /\ step = "identities"
  /\ IdentityConflict(saving)
  /\ db' = committed
  /\ saving' = None
  /\ step' = "idle"
  /\ UNCHANGED <<inventory, now, committed, pending, history>>

\* Wrong variant: the ledger was already committed when its fetch is refused.
RejectFetchKeepingLedger ==
  /\ step = "records"
  /\ pending = <<>>
  /\ FetchConflict(saving)
  /\ committed' = db
  /\ saving' = None
  /\ step' = "idle"
  /\ UNCHANGED <<inventory, now, db, pending, history>>

RejectFetch ==
  /\ step = "records"
  /\ pending = <<>>
  /\ FetchConflict(saving)
  /\ db' = committed
  /\ saving' = None
  /\ step' = "idle"
  /\ UNCHANGED <<inventory, now, committed, pending, history>>

\* A cancelled context, a busy database, a driver error or a crash before the
\* commit.  The retry of a busy database is a new request.
Abort ==
  /\ saving # None
  /\ db' = committed
  /\ saving' = None
  /\ step' = "idle"
  /\ pending' = <<>>
  /\ UNCHANGED <<inventory, now, committed, history>>

Commit ==
  /\ step = "records"
  /\ pending = <<>>
  /\ ~FetchConflict(saving)
  /\ db' = FetchSaved(db, saving)
  /\ committed' = db'
  /\ history' = history \cup {saving}
  /\ saving' = None
  /\ step' = "idle"
  /\ UNCHANGED <<inventory, now, pending>>

Next ==
  \/ RuntimeSnapshotSaved
  \/ Tick
  \/ Begin
  \/ InspectIdentities
  \/ SaveRecord
  \/ RejectIdentity
  \/ RejectFetch
  \/ Abort
  \/ Commit

Spec == Init /\ [][Next]_vars

-----------------------------------------------------------------------------
(* Types and references                                                    *)

Sources == {request.source : request \in Requests}
Hashes  == {request.hash : request \in Requests}

Resolutions ==
  [service : BOOLEAN, artifact : Artifacts \cup {None}, commit : Commits \cup {None},
   status : {"MATCHED", "PARTIAL", "UNKNOWN", "CONTRADICTED"}]

Deployments == [record : Records, first : Hashes, resolution : Resolutions]

\* The values of the ledger's tables.
TablesOK(d) ==
  /\ DOMAIN d = DOMAIN EmptyLedger
  /\ DOMAIN d.source \subseteq Sources
  /\ \A s \in DOMAIN d.source : d.source[s] \in Nat
  /\ \A k \in DOMAIN d.ingestion :
       /\ DOMAIN d.ingestion[k] = {"seen", "inserted", "existing"}
       /\ d.ingestion[k].inserted + d.ingestion[k].existing = d.ingestion[k].seen
  /\ \A k \in DOMAIN d.deployment : d.deployment[k] \in Deployments

\* Rows are stored under their own keys, below an ingestion of their source.
ReferencesOK(d) ==
  /\ \A k \in DOMAIN d.ingestion : k[1] \in DOMAIN d.source
  /\ \A k \in DOMAIN d.deployment :
       /\ k = <<k[1], d.deployment[k].record.id, d.deployment[k].record.service>>
       /\ <<k[1], d.deployment[k].first>> \in DOMAIN d.ingestion
  /\ \A k \in DOMAIN d.fetch : <<k[1], d.fetch[k].hash>> \in DOMAIN d.ingestion

\* The values of the variables, the foreign keys and the CHECK constraints.
TypeOK ==
  /\ inventory \in [artifacts : SUBSET Artifacts, commits : SUBSET Commits,
                    services : SUBSET Services]
  /\ now \in 0..Latest
  /\ TablesOK(db) /\ ReferencesOK(db)
  /\ TablesOK(committed) /\ ReferencesOK(committed)
  /\ saving \in Requests \cup {None}
  /\ step \in Steps
  /\ saving = None <=> step = "idle"
  /\ saving = None => pending = <<>> /\ db = committed
  /\ history \subseteq Requests

-----------------------------------------------------------------------------
(* What the ledger promises                                                *)

\* A ledger is stored whole or not at all: every committed row comes from an
\* accepted request, and every key of an accepted request has its row
\* (the transaction of saveDeployment and saveDeploymentSource).
WholeLedgers ==
  /\ \A k \in DOMAIN committed.deployment :
       \E request \in history :
         /\ IngestionKey(request) = <<k[1], committed.deployment[k].first>>
         /\ committed.deployment[k].record \in RecordsOf(request)
  /\ DOMAIN committed.ingestion = {IngestionKey(request) : request \in history}
  /\ DOMAIN committed.fetch = {FetchKey(request) : request \in {r \in history : r.fetch # None}}
  /\ \A request \in history :
       \A record \in RecordsOf(request) : Key(request, record) \in DOMAIN committed.deployment

\* A ledger that names no identity in two environments.
SingleEnvironment(request) ==
  \A r1, r2 \in RecordsOf(request) : Key(request, r1) = Key(request, r2) => r1 = r2

\* What such a ledger claimed when it was accepted is what the database holds:
\* no other claim took its key, whatever was accepted before or after
\* (saveDeploymentTx, the comparison of fingerprints).
AcceptedIsStored ==
  \A request \in history :
    SingleEnvironment(request) =>
      \A record \in RecordsOf(request) :
        committed.deployment[Key(request, record)].record = record

\* Two accepted ledgers, or one, never claim the same (source, deployment_id,
\* service) with different fingerprints, as ADR-020 says of saveDeploymentTx.
ReuseIsConflict ==
  \A r1, r2 \in history :
    \A record1 \in RecordsOf(r1), record2 \in RecordsOf(r2) :
      Key(r1, record1) = Key(r2, record2) => record1 = record2

\* The first claim of a deployment, and the provenance resolved for it, are
\* never changed or removed by a later ledger, a replay or a refresh.
FirstClaimStands ==
  [][LET old == committed.deployment
         new == committed'.deployment
     IN  DOMAIN old \subseteq DOMAIN new /\ \A k \in DOMAIN old : new[k] = old[k]]_vars

\* A replay of an accepted request is not refused, and leaves everything but
\* the last sync of its source as it was: the counts of the first ingestion are
\* still the ones it returns (existingDeploymentIngestion).
ReplayHarmless ==
  [][(saving \in history) =>
       /\ \A table \in {"ingestion", "deployment", "fetch"} :
            committed'[table] = committed[table]
       /\ ~RejectIdentity /\ ~RejectFetch]_vars

\* A deployment is linked to an artifact or a commit only when no other
\* persisted row answers to what its record claims, and it is MATCHED only when
\* both are and the deployment is not in the future of its ingestion.
LinksUnambiguous ==
  [][\A k \in DOMAIN db'.deployment \ DOMAIN db.deployment :
       LET record     == db'.deployment[k].record
           resolution == db'.deployment[k].resolution
       IN  /\ resolution.artifact # None =>
                \A a \in inventory.artifacts \ {resolution.artifact} :
                  {a.identity, a.image} \cap Claims(record) = {}
           /\ resolution.commit # None =>
                \A c \in inventory.commits \ {resolution.commit} : c.sha # record.revision
           /\ resolution.status = "MATCHED" =>
                /\ resolution.artifact # None /\ resolution.commit # None
                /\ record.verified /\ record.deployedAt <= now]_vars
=============================================================================
