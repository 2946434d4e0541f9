------------------------ MODULE DeploymentLedger_proofs ------------------------
(***************************************************************************)
(* Theorems about DeploymentLedger for every set of ledgers, inventories   *)
(* and instants: the tables are well typed, a ledger is stored whole, what *)
(* it claimed is what is stored, a first claim stands, a replay is         *)
(* harmless, and no link was chosen among several candidates.              *)
(***************************************************************************)
EXTENDS DeploymentLedger, FiniteSetTheorems, TLAPS

-----------------------------------------------------------------------------
(* Sequences and tables                                                    *)

Elements(q) == {q[n] : n \in 1..Len(q)}

\* A nonempty sequence consists of its head and its tail.
LEMMA HeadAndTail ==
  ASSUME NEW S, NEW q \in Seq(S), q # <<>>
  PROVE  /\ Head(q) \in S
         /\ Tail(q) \in Seq(S)
         /\ Elements(q) = {Head(q)} \cup Elements(Tail(q))
<1>1. Len(q) \in Nat /\ Len(q) >= 1 /\ Head(q) = q[1] /\ Head(q) \in S
  OBVIOUS
<1>2. Tail(q) \in Seq(S) /\ Len(Tail(q)) = Len(q) - 1
  OBVIOUS
<1>3. \A n \in 1..Len(Tail(q)) : Tail(q)[n] = q[n + 1]
  OBVIOUS
<1>4. Elements(q) \subseteq {Head(q)} \cup Elements(Tail(q))
  <2> SUFFICES ASSUME NEW n \in 1..Len(q), n # 1
               PROVE  q[n] \in Elements(Tail(q))
    BY <1>1 DEF Elements
  <2>1. n - 1 \in 1..Len(Tail(q)) /\ Tail(q)[n - 1] = q[n]
    BY <1>1, <1>2, <1>3
  <2> QED
    BY <2>1 DEF Elements
<1>5. {Head(q)} \cup Elements(Tail(q)) \subseteq Elements(q)
  <2>1. \A n \in 1..Len(Tail(q)) : n + 1 \in 1..Len(q)
    BY <1>1, <1>2
  <2> QED
    BY <1>1, <1>2, <1>3, <2>1 DEF Elements
<1> QED
  BY <1>1, <1>2, <1>4, <1>5

\* The records of a request are records, and an empty sequence has none.
LEMMA RequestRecords ==
  ASSUME NEW request \in Requests
  PROVE  /\ request.records \in Seq(Records)
         /\ RecordsOf(request) \subseteq Records
         /\ Elements(request.records) = RecordsOf(request)
         /\ Elements(<<>>) = {}
<1>1. request.records \in Seq(Records)
  BY LedgerAssumption
<1> QED
  BY <1>1 DEF RecordsOf, Elements, Records

-----------------------------------------------------------------------------
(* Resolution                                                              *)

\* A row is taken only when it is the one candidate, and one of the three
\* outcomes always applies.
LEMMA ResolvedIsOnly ==
  ASSUME NEW S, IsFiniteSet(S), None \notin S
  PROVE  /\ Resolved(S).row \in S \cup {None}
         /\ Resolved(S).row # None => S = {Resolved(S).row}
         /\ Resolved(S).state \in {"unresolved", "matched", "contradicted"}
         /\ Resolved(S).state # "contradicted" =>
              (Resolved(S).row = None <=> S = {})
<1>1. CASE S = {}
  BY <1>1 DEF Resolved
<1>2. CASE S # {} /\ Cardinality(S) = 1
  <2>1. PICK x : S = {x}
    BY <1>2, FS_Singleton
  <2> QED
    BY <1>2, <2>1 DEF Resolved
<1>3. CASE S # {} /\ Cardinality(S) # 1
  <2>1. Cardinality(S) > 1
    BY <1>3, FS_CardinalityType, FS_EmptySet
  <2> QED
    BY <1>3, <2>1 DEF Resolved
<1> QED
  BY <1>1, <1>2, <1>3

StoredArtifacts(stored, record) ==
  {a \in stored.artifacts : {a.identity, a.image} \cap Claims(record) # {}}

StoredCommits(stored, record) ==
  IF record.verified THEN {c \in stored.commits : c.sha = record.revision} ELSE {}

InventoryOK(stored) ==
  stored \in [artifacts : SUBSET Artifacts, commits : SUBSET Commits,
              services : SUBSET Services]

\* Candidates are finitely many rows of the inventory, so ResolvedIsOnly applies.
LEMMA Candidates ==
  ASSUME NEW stored, InventoryOK(stored), NEW record
  PROVE  LET artifact == resolveArtifact(stored, record)
             commit   == resolveCommit(stored, record)
         IN  /\ artifact.row \in Artifacts \cup {None}
             /\ artifact.row # None => StoredArtifacts(stored, record) = {artifact.row}
             /\ commit.row \in Commits \cup {None}
             /\ commit.row # None => StoredCommits(stored, record) = {commit.row}
<1>1. /\ StoredArtifacts(stored, record) \subseteq Artifacts
      /\ StoredCommits(stored, record) \subseteq Commits
  BY DEF InventoryOK, StoredArtifacts, StoredCommits
<1>2. /\ IsFiniteSet(StoredArtifacts(stored, record))
      /\ IsFiniteSet(StoredCommits(stored, record))
      /\ None \notin StoredArtifacts(stored, record)
      /\ None \notin StoredCommits(stored, record)
  BY <1>1, FS_Subset, LedgerAssumption
<1>3. /\ resolveArtifact(stored, record) = Resolved(StoredArtifacts(stored, record))
      /\ resolveCommit(stored, record) = Resolved(StoredCommits(stored, record))
  BY DEF resolveArtifact, resolveCommit, StoredArtifacts, StoredCommits
<1> QED
  BY <1>1, <1>2, <1>3, ResolvedIsOnly

\* What a resolution may say, and when it may link or call a record MATCHED.
LEMMA ResolutionType ==
  ASSUME NEW stored, InventoryOK(stored), NEW record \in Records, NEW at \in Int
  PROVE  LET resolution == resolveDeployment(stored, record, at)
         IN  /\ resolution \in Resolutions
             /\ resolution.artifact # None =>
                  StoredArtifacts(stored, record) = {resolution.artifact}
             /\ resolution.commit # None =>
                  StoredCommits(stored, record) = {resolution.commit}
             /\ resolution.status = "MATCHED" =>
                  /\ resolution.artifact # None /\ resolution.commit # None
                  /\ record.deployedAt <= at
<1> DEFINE artifact     == resolveArtifact(stored, record)
           commit       == resolveCommit(stored, record)
           contradicted == Contradicted(artifact, commit)
           resolution   == resolveDeployment(stored, record, at)
           status       == Status(artifact, commit, record.deployedAt, at)
<1>1. /\ artifact.row \in Artifacts \cup {None}
      /\ artifact.row # None => StoredArtifacts(stored, record) = {artifact.row}
      /\ commit.row \in Commits \cup {None}
      /\ commit.row # None => StoredCommits(stored, record) = {commit.row}
  BY Candidates
<1>2. /\ status \in {"MATCHED", "PARTIAL", "UNKNOWN", "CONTRADICTED"}
      /\ status = "MATCHED" => /\ ~contradicted
                              /\ artifact.row # None /\ commit.row # None
                              /\ record.deployedAt <= at
  <2>1. record.deployedAt > at <=> ~(record.deployedAt <= at)
    BY LedgerAssumption
  <2> QED
    BY <2>1 DEF Status
<1>3. resolution \in Resolutions
  BY <1>1, <1>2 DEF resolveDeployment, Resolutions
<1> QED
  BY <1>1, <1>2, <1>3 DEF resolveDeployment

-----------------------------------------------------------------------------
(* The statements of a transaction keep the tables typed and referenced    *)

Sound(d) == TablesOK(d) /\ ReferencesOK(d)

IngestionSaved(d, request, row) ==
  [d EXCEPT !.ingestion = With(@, IngestionKey(request), row)]

DeploymentSaved(d, request, record) ==
  [d EXCEPT !.deployment = With(@, Key(request, record), Deployment(request, record))]

\* An empty ledger is sound.
LEMMA EmptyLedgerSound == Sound(EmptyLedger)
BY DEF Sound, TablesOK, ReferencesOK, EmptyLedger, Empty

\* ensureSource touches the source alone, and leaves one.
LEMMA SourceSavedSound ==
  ASSUME NEW d, Sound(d), NEW request \in Requests
  PROVE  LET e == SourceSaved(d, request)
         IN  /\ Sound(e)
             /\ request.source \in DOMAIN e.source
             /\ e.ingestion = d.ingestion
             /\ e.deployment = d.deployment
             /\ e.fetch = d.fetch
<1> DEFINE e == SourceSaved(d, request)
           s == request.source
<1>1. /\ DOMAIN e = DOMAIN EmptyLedger /\ DOMAIN d = DOMAIN EmptyLedger
      /\ e.ingestion = d.ingestion /\ e.deployment = d.deployment /\ e.fetch = d.fetch
      /\ e.source = With(d.source, s, IF s \in DOMAIN d.source /\ request.observedAt <= d.source[s]
                                      THEN d.source[s] ELSE request.observedAt)
  BY DEF Sound, TablesOK, SourceSaved, EmptyLedger
<1>2. s \in Sources /\ request.observedAt \in Nat
  BY LedgerAssumption DEF Sources
<1>3. /\ DOMAIN e.source = DOMAIN d.source \cup {s}
      /\ \A k \in DOMAIN e.source : e.source[k] \in Nat
  BY <1>1, <1>2 DEF With, Sound, TablesOK
<1> QED
  BY <1>1, <1>2, <1>3 DEF Sound, TablesOK, ReferencesOK

\* Writing the ingestion row with counts that add up.
LEMMA IngestionSavedSound ==
  ASSUME NEW d, Sound(d), NEW request \in Requests, request.source \in DOMAIN d.source,
         NEW seen \in Nat, NEW known \in Nat
  PROVE  LET row == [seen |-> seen, inserted |-> seen - known, existing |-> known]
             e   == IngestionSaved(d, request, row)
         IN  /\ Sound(e)
             /\ e.ingestion = With(d.ingestion, IngestionKey(request), row)
             /\ DOMAIN e.ingestion = DOMAIN d.ingestion \cup {IngestionKey(request)}
             /\ e.source = d.source
             /\ e.deployment = d.deployment
             /\ e.fetch = d.fetch
<1> DEFINE row == [seen |-> seen, inserted |-> seen - known, existing |-> known]
           e   == IngestionSaved(d, request, row)
           key == IngestionKey(request)
<1>1. /\ DOMAIN e = DOMAIN EmptyLedger /\ DOMAIN d = DOMAIN EmptyLedger
      /\ e.source = d.source /\ e.deployment = d.deployment /\ e.fetch = d.fetch
      /\ e.ingestion = With(d.ingestion, key, row)
  BY DEF Sound, TablesOK, IngestionSaved, EmptyLedger
<1>2. /\ DOMAIN e.ingestion = DOMAIN d.ingestion \cup {key}
      /\ \A k \in DOMAIN e.ingestion :
           e.ingestion[k] = IF k = key THEN row ELSE d.ingestion[k]
  BY <1>1 DEF With
<1>3. /\ DOMAIN row = {"seen", "inserted", "existing"}
      /\ row.inserted + row.existing = row.seen
  OBVIOUS
<1>4. TablesOK(e)
  <2>1. \A k \in DOMAIN e.ingestion :
          /\ DOMAIN e.ingestion[k] = {"seen", "inserted", "existing"}
          /\ e.ingestion[k].inserted + e.ingestion[k].existing = e.ingestion[k].seen
    <3> HIDE DEF row, e
    <3> QED BY <1>2, <1>3 DEF Sound, TablesOK
  <2> HIDE DEF e
  <2> QED BY <1>1, <2>1 DEF Sound, TablesOK
<1>5. key[1] \in DOMAIN e.source
  BY <1>1 DEF IngestionKey
<1>6. ReferencesOK(e)
  <2> HIDE DEF e, key, row
  <2> QED BY <1>1, <1>2, <1>5 DEF Sound, ReferencesOK
<1> QED
  BY <1>1, <1>2, <1>4, <1>6 DEF Sound

\* Writing the row of a record below an ingestion that is there.
LEMMA DeploymentSavedSound ==
  ASSUME NEW d, Sound(d), NEW request \in Requests, NEW record \in Records,
         IngestionKey(request) \in DOMAIN d.ingestion,
         Deployment(request, record) \in Deployments
  PROVE  LET e == DeploymentSaved(d, request, record)
         IN  /\ Sound(e)
             /\ DOMAIN e.deployment = DOMAIN d.deployment \cup {Key(request, record)}
             /\ \A k \in DOMAIN e.deployment :
                  e.deployment[k] = IF k = Key(request, record)
                                    THEN Deployment(request, record) ELSE d.deployment[k]
             /\ e.source = d.source
             /\ e.ingestion = d.ingestion
             /\ e.fetch = d.fetch
<1> DEFINE e   == DeploymentSaved(d, request, record)
           key == Key(request, record)
           row == Deployment(request, record)
<1>1. /\ DOMAIN e = DOMAIN EmptyLedger /\ DOMAIN d = DOMAIN EmptyLedger
      /\ e.source = d.source /\ e.ingestion = d.ingestion /\ e.fetch = d.fetch
      /\ e.deployment = With(d.deployment, key, row)
  BY DEF Sound, TablesOK, DeploymentSaved, EmptyLedger
<1>2. /\ DOMAIN e.deployment = DOMAIN d.deployment \cup {key}
      /\ \A k \in DOMAIN e.deployment :
           e.deployment[k] = IF k = key THEN row ELSE d.deployment[k]
  BY <1>1 DEF With
<1>3. /\ key = <<key[1], row.record.id, row.record.service>>
      /\ <<key[1], row.first>> = IngestionKey(request)
  BY DEF Key, Deployment, IngestionKey
<1>4. TablesOK(e)
  <2> HIDE DEF e, row, key
  <2> QED BY <1>1, <1>2 DEF Sound, TablesOK, row
<1>5. ReferencesOK(e)
  <2> HIDE DEF e, row, key
  <2> QED BY <1>1, <1>2, <1>3 DEF Sound, ReferencesOK
<1> QED
  BY <1>1, <1>2, <1>4, <1>5 DEF Sound

\* Writing the metadata of the fetch touches nothing else.
LEMMA FetchSavedSound ==
  ASSUME NEW d, Sound(d), NEW request \in Requests,
         IngestionKey(request) \in DOMAIN d.ingestion
  PROVE  LET e == FetchSaved(d, request)
         IN  /\ Sound(e)
             /\ e.source = d.source
             /\ e.ingestion = d.ingestion
             /\ e.deployment = d.deployment
<1>1. CASE request.fetch = None
  BY <1>1 DEF FetchSaved
<1>2. CASE request.fetch # None
  <2> DEFINE e   == FetchSaved(d, request)
             key == FetchKey(request)
             row == [hash |-> request.hash, metadata |-> request.fetch.metadata]
  <2>1. /\ DOMAIN e = DOMAIN EmptyLedger /\ DOMAIN d = DOMAIN EmptyLedger
        /\ e.source = d.source /\ e.ingestion = d.ingestion /\ e.deployment = d.deployment
        /\ e.fetch = With(d.fetch, key, row)
    BY <1>2 DEF Sound, TablesOK, FetchSaved, EmptyLedger
  <2>2. /\ DOMAIN e.fetch = DOMAIN d.fetch \cup {key}
        /\ \A k \in DOMAIN e.fetch : e.fetch[k] = IF k = key THEN row ELSE d.fetch[k]
    BY <2>1 DEF With
  <2>3. <<key[1], row.hash>> = IngestionKey(request)
    BY DEF FetchKey, IngestionKey
  <2>4. TablesOK(e)
    <3> HIDE DEF e
    <3> QED BY <2>1 DEF Sound, TablesOK
  <2>5. ReferencesOK(e)
    <3> HIDE DEF e, key, row
    <3> QED BY <2>1, <2>2, <2>3 DEF Sound, ReferencesOK
  <2> QED
    BY <2>1, <2>4, <2>5 DEF Sound
<1> QED
  BY <1>1, <1>2

-----------------------------------------------------------------------------
(* Types, references and where a transaction is                            *)

Flow ==
  /\ pending \in Seq(Records)
  /\ step # "records" => pending = <<>>
  /\ saving # None => Elements(pending) \subseteq RecordsOf(saving)
  /\ saving # None => saving.source \in DOMAIN db.source
  /\ step = "records" => IngestionKey(saving) \in DOMAIN db.ingestion

TypeInv == TypeOK /\ Flow

\* The counts of an ingestion are natural numbers.
LEMMA KnownCounted ==
  ASSUME NEW request \in Requests
  PROVE  Len(request.records) \in Nat /\ Cardinality(Known(request)) \in Nat
<1>1. request.records \in Seq(Records)
  BY RequestRecords
<1>2. Len(request.records) \in Nat /\ DOMAIN request.records = 1..Len(request.records)
  BY <1>1
<1>3. IsFiniteSet(Known(request))
  <2>1. IsFiniteSet(1..Len(request.records))
    BY <1>2, FS_Interval
  <2>2. Known(request) \in SUBSET (1..Len(request.records))
    BY <1>2 DEF Known
  <2> QED
    BY <2>1, <2>2, FS_Subset
<1> QED
  BY <1>2, <1>3, FS_CardinalityType

\* The row written for a record is a deployment.
LEMMA DeploymentType ==
  ASSUME TypeOK, NEW request \in Requests, NEW record \in Records
  PROVE  Deployment(request, record) \in Deployments
<1>1. InventoryOK(inventory) /\ now \in Int
  BY LedgerAssumption DEF TypeOK, InventoryOK
<1>2. resolveDeployment(inventory, record, now) \in Resolutions
  BY <1>1, ResolutionType
<1>3. request.hash \in Hashes
  BY DEF Hashes
<1> QED
  BY <1>2, <1>3 DEF Deployment, Deployments

\* Nothing is stored and no transaction is open at the start.
LEMMA InitTypeInv == Init => TypeInv
<1> SUFFICES ASSUME Init PROVE TypeInv
  OBVIOUS
<1>1. Sound(EmptyLedger)
  BY EmptyLedgerSound
<1>2. pending = <<>> /\ pending \in Seq(Records) /\ saving = None /\ step = "idle"
  BY DEF Init
<1> QED
  BY <1>1, <1>2, LedgerAssumption DEF Init, TypeInv, TypeOK, Flow, Sound, Steps

\* Every step keeps the types, and the transaction in order.
LEMMA NextTypeInv == TypeInv /\ [Next]_vars => TypeInv'
<1> SUFFICES ASSUME TypeInv, [Next]_vars PROVE TypeInv'
  OBVIOUS
<1> USE DEF TypeInv
<1>0. /\ Sound(db) /\ Sound(committed)
      /\ saving # None => saving \in Requests
      /\ step = "idle" <=> saving = None
      /\ <<>> \in Seq(Records) /\ Elements(<<>>) = {}
  BY DEF TypeOK, Sound, Elements
<1>1. CASE RuntimeSnapshotSaved
  <2>1. inventory' \in [artifacts : SUBSET Artifacts, commits : SUBSET Commits,
                        services : SUBSET Services]
    BY <1>1 DEF RuntimeSnapshotSaved, TypeOK, Artifacts, Commits, Services, NewArtifacts
  <2> QED
    BY <1>1, <2>1 DEF RuntimeSnapshotSaved, TypeOK, Flow
<1>2. CASE Tick
  <2>1. now' \in 0..Latest
    BY <1>2, LedgerAssumption DEF Tick, TypeOK
  <2> QED
    BY <1>2, <2>1 DEF Tick, TypeOK, Flow
<1>3. CASE Begin
  <2>1. PICK request \in Requests :
          /\ saving' = request
          /\ db' = SourceSaved(db, request)
          /\ step' = IF IngestionKey(request) \in DOMAIN db.ingestion
                     THEN "records" ELSE "identities"
    BY <1>3 DEF Begin
  <2>2. pending' = <<>> /\ UNCHANGED <<inventory, now, committed, history>>
    BY <1>3 DEF Begin
  <2>3. /\ Sound(db') /\ request.source \in DOMAIN db'.source
        /\ db'.ingestion = db.ingestion
    BY <1>0, <2>1, SourceSavedSound
  <2>4. request # None
    BY LedgerAssumption
  <2>5. TypeOK'
    BY <2>1, <2>2, <2>3, <2>4 DEF TypeOK, Sound, Steps
  <2>6. Flow'
    BY <1>0, <2>1, <2>2, <2>3 DEF Flow
  <2> QED
    BY <2>5, <2>6
<1>4. CASE InspectIdentities
  <2>1. saving \in Requests /\ saving.source \in DOMAIN db.source
    BY <1>0, <1>4 DEF InspectIdentities, Flow
  <2>2. /\ Sound(db') /\ db'.source = db.source
        /\ IngestionKey(saving) \in DOMAIN db'.ingestion
    <3> DEFINE seen  == Len(saving.records)
               known == Cardinality(Known(saving))
    <3>1. db' = IngestionSaved(db, saving, [seen |-> seen, inserted |-> seen - known,
                                            existing |-> known])
      BY <1>4 DEF InspectIdentities, IngestionSaved
    <3>2. seen \in Nat /\ known \in Nat
      BY <2>1, KnownCounted
    <3> HIDE DEF seen, known
    <3> QED
      BY <1>0, <2>1, <3>1, <3>2, IngestionSavedSound
  <2>3. /\ pending' \in Seq(Records) /\ Elements(pending') = RecordsOf(saving)
        /\ step' = "records" /\ saving' = saving
        /\ UNCHANGED <<inventory, now, committed, history>>
    BY <1>4, <2>1, RequestRecords DEF InspectIdentities
  <2>4. saving # None
    BY <2>1, LedgerAssumption
  <2>5. TypeOK'
    BY <2>1, <2>2, <2>3, <2>4 DEF TypeOK, Sound, Steps
  <2>6. Flow'
    BY <2>1, <2>2, <2>3 DEF Flow
  <2> QED
    BY <2>5, <2>6
<1>5. CASE SaveRecord
  <2> DEFINE record == Head(pending)
  <2>1. saving \in Requests /\ saving # None /\ IngestionKey(saving) \in DOMAIN db.ingestion
    BY <1>0, <1>5 DEF SaveRecord, Flow
  <2>2. /\ record \in Records
        /\ pending' \in Seq(Records)
        /\ Elements(pending') \subseteq RecordsOf(saving)
    BY <1>5, <2>1, HeadAndTail DEF SaveRecord, Flow
  <2>3. Deployment(saving, record) \in Deployments
    BY <2>1, <2>2, DeploymentType
  <2>4. \/ db' = db
        \/ db' = DeploymentSaved(db, saving, record)
    BY <1>5 DEF SaveRecord, DeploymentSaved
  <2>5. Sound(db') /\ db'.source = db.source /\ db'.ingestion = db.ingestion
    BY <1>0, <2>1, <2>2, <2>3, <2>4, DeploymentSavedSound
  <2>6. TypeOK'
    BY <1>5, <2>1, <2>5 DEF SaveRecord, TypeOK, Sound
  <2>7. Flow'
    BY <1>5, <2>1, <2>2, <2>5 DEF SaveRecord, Flow
  <2> QED
    BY <2>6, <2>7
<1>6. CASE RejectIdentity \/ RejectFetch \/ Abort
  <2>1. /\ db' = committed /\ saving' = None /\ step' = "idle" /\ pending' = <<>>
        /\ UNCHANGED <<inventory, now, committed, history>>
    BY <1>6 DEF RejectIdentity, RejectFetch, Abort, Flow
  <2> QED
    BY <1>0, <2>1 DEF TypeOK, Flow, Sound, Steps
<1>7. CASE Commit
  <2>1. saving \in Requests /\ IngestionKey(saving) \in DOMAIN db.ingestion
    BY <1>0, <1>7 DEF Commit, Flow
  <2>2. Sound(db')
    BY <1>0, <1>7, <2>1, FetchSavedSound DEF Commit
  <2>3. /\ committed' = db' /\ saving' = None /\ step' = "idle" /\ pending' = <<>>
        /\ history' \subseteq Requests
        /\ UNCHANGED <<inventory, now>>
    BY <1>7, <2>1 DEF Commit, TypeOK
  <2> QED
    BY <1>0, <2>2, <2>3 DEF TypeOK, Flow, Sound, Steps
<1>8. CASE UNCHANGED vars
  BY <1>8 DEF vars, TypeOK, Flow
<1> QED
  BY <1>1, <1>2, <1>3, <1>4, <1>5, <1>6, <1>7, <1>8 DEF Next

\* TypeInv holds of every reachable state.
LEMMA TypeInvariance == Spec => []TypeInv
BY InitTypeInv, NextTypeInv, PTL DEF Spec

\* The rows keep their types, keys and references, the counts of an ingestion
\* add up, and without a transaction nothing is pending.
THEOREM TypeCorrect == Spec => []TypeOK
<1>1. TypeInv => TypeOK
  BY DEF TypeInv
<1> QED
  BY <1>1, TypeInvariance, PTL

-----------------------------------------------------------------------------
(* What the tables owe to the requests                                     *)

\* Every deployment is a claim of one of the requests of S, and there is an
\* ingestion for each of them and for no other.
FromRequests(d, S) ==
  /\ \A k \in DOMAIN d.deployment :
       \E request \in S :
         /\ IngestionKey(request) = <<k[1], d.deployment[k].first>>
         /\ d.deployment[k].record \in RecordsOf(request)
  /\ DOMAIN d.ingestion = {IngestionKey(request) : request \in S}

FetchRow(request) == [hash |-> request.hash, metadata |-> request.fetch.metadata]

\* The fetches are those of the requests of S.
FetchesOf(d, S) ==
  /\ d.fetch = [k \in DOMAIN d.fetch |-> d.fetch[k]]
  /\ DOMAIN d.fetch = {FetchKey(request) : request \in {r \in S : r.fetch # None}}
  /\ \A request \in S :
       request.fetch # None => d.fetch[FetchKey(request)] = FetchRow(request)

\* Every key of the request has its row.
Written(d, request) ==
  \A record \in RecordsOf(request) : Key(request, record) \in DOMAIN d.deployment

\* No row under a key of the request holds another claim.
Honoured(d, request) ==
  SingleEnvironment(request) =>
    \A record \in RecordsOf(request) :
      Key(request, record) \in DOMAIN d.deployment =>
        d.deployment[Key(request, record)].record = record

Extends(d, e) ==
  /\ DOMAIN d.deployment \subseteq DOMAIN e.deployment
  /\ \A k \in DOMAIN d.deployment : e.deployment[k] = d.deployment[k]

SameLedger(d, e) == d.ingestion = e.ingestion /\ d.deployment = e.deployment

\* A request stored with all its claims stays so when rows are added.
LEMMA ExtensionHonours ==
  ASSUME NEW d, NEW e, Extends(d, e), NEW request, Written(d, request), Honoured(d, request)
  PROVE  Written(e, request) /\ Honoured(e, request)
BY DEF Extends, Written, Honoured

\* A request whose ingestion is there repeats one that was stored.
LEMMA ReplayOfStored ==
  ASSUME NEW d, NEW S \in SUBSET Requests, FromRequests(d, S),
         \A r \in S : Written(d, r) /\ Honoured(d, r),
         NEW request \in Requests, IngestionKey(request) \in DOMAIN d.ingestion
  PROVE  /\ Written(d, request) /\ Honoured(d, request)
         /\ FromRequests(d, S \cup {request})
<1>1. PICK r \in S : IngestionKey(request) = IngestionKey(r)
  BY DEF FromRequests
<1>2. r.source = request.source /\ r.hash = request.hash
  BY <1>1 DEF IngestionKey
<1>3. r.records = request.records
  BY <1>2, LedgerAssumption
<1>4. /\ RecordsOf(r) = RecordsOf(request)
      /\ \A record : Key(r, record) = Key(request, record)
  BY <1>2, <1>3 DEF RecordsOf, Key
<1>5. SingleEnvironment(request) => SingleEnvironment(r)
  BY <1>4 DEF SingleEnvironment
<1>6. Written(d, request) /\ Honoured(d, request)
  BY <1>4, <1>5 DEF Written, Honoured
<1>7. FromRequests(d, S \cup {request})
  BY <1>1 DEF FromRequests
<1> QED
  BY <1>6, <1>7

\* Storing a fetch that no other description contradicts.
LEMMA FetchSavedFetches ==
  ASSUME NEW d, Sound(d), NEW S, FetchesOf(d, S), NEW request,
         request.fetch # None /\ FetchKey(request) \in DOMAIN d.fetch =>
           d.fetch[FetchKey(request)] = FetchRow(request)
  PROVE  FetchesOf(FetchSaved(d, request), S \cup {request})
<1>1. CASE request.fetch = None
  BY <1>1 DEF FetchSaved, FetchesOf
<1>2. CASE request.fetch # None
  <2> DEFINE e   == FetchSaved(d, request)
             key == FetchKey(request)
             row == FetchRow(request)
  <2>1. e.fetch = With(d.fetch, key, row)
    BY <1>2 DEF Sound, TablesOK, FetchSaved, EmptyLedger, FetchRow
  <2>2. /\ e.fetch = [k \in DOMAIN e.fetch |-> e.fetch[k]]
        /\ DOMAIN e.fetch = DOMAIN d.fetch \cup {key}
        /\ \A k \in DOMAIN e.fetch : e.fetch[k] = IF k = key THEN row ELSE d.fetch[k]
    BY <2>1 DEF With
  <2> HIDE DEF e
  <2>3. DOMAIN e.fetch = {FetchKey(r) : r \in {q \in S \cup {request} : q.fetch # None}}
    BY <1>2, <2>2 DEF FetchesOf
  <2>4. ASSUME NEW r \in S \cup {request}, r.fetch # None
        PROVE  e.fetch[FetchKey(r)] = FetchRow(r)
    <3>1. CASE r = request
      BY <2>2, <3>1
    <3>2. CASE r \in S
      <4>1. FetchKey(r) \in DOMAIN d.fetch /\ d.fetch[FetchKey(r)] = FetchRow(r)
        BY <2>4, <3>2 DEF FetchesOf
      <4>2. FetchKey(r) = key => FetchRow(r) = row
        BY <1>2, <4>1
      <4> QED
        BY <2>2, <4>1, <4>2
    <3> QED
      BY <3>1, <3>2
  <2> QED
    BY <2>2, <2>3, <2>4 DEF FetchesOf, e
<1> QED
  BY <1>1, <1>2

-----------------------------------------------------------------------------
(* The inductive invariant                                                 *)

\* Committed are the accepted requests, whole; an open transaction has added
\* to them only rows of its own request, and a replay has added nothing.
LedgerInv ==
  /\ FromRequests(committed, history)
  /\ FetchesOf(committed, history)
  /\ \A request \in history : Written(committed, request) /\ Honoured(committed, request)
  /\ db.fetch = committed.fetch
  /\ Extends(committed, db)
  /\ step # "records" => SameLedger(db, committed)
  /\ step = "identities" => IngestionKey(saving) \notin DOMAIN db.ingestion
  /\ step = "records" =>
       /\ FromRequests(db, history \cup {saving})
       /\ \A record \in RecordsOf(saving) :
            Key(saving, record) \in DOMAIN db.deployment \/ record \in Elements(pending)
       /\ Honoured(db, saving)
       /\ IngestionKey(saving) \in DOMAIN committed.ingestion =>
            SameLedger(db, committed) /\ pending = <<>>

\* LedgerInv holds at the start.
LEMMA InitLedgerInv == Init => LedgerInv
BY DEF Init, LedgerInv, FromRequests, FetchesOf, Extends, SameLedger, EmptyLedger, Empty

\* Begin: the source moves, and a replay is recognised by its ingestion.
LEMMA BeginLedgerInv ==
  ASSUME TypeInv, LedgerInv, Begin
  PROVE  LedgerInv'
<1>1. PICK request \in Requests :
        /\ saving' = request
        /\ db' = SourceSaved(db, request)
        /\ step' = IF IngestionKey(request) \in DOMAIN db.ingestion
                   THEN "records" ELSE "identities"
  BY DEF Begin
<1>2. pending' = <<>> /\ UNCHANGED <<inventory, now, committed, history>>
  BY DEF Begin
<1>3. Sound(db) /\ step = "idle" /\ history \subseteq Requests
  BY DEF TypeInv, TypeOK, Sound, Begin
<1>4. db'.ingestion = db.ingestion /\ db'.deployment = db.deployment /\ db'.fetch = db.fetch
  BY <1>1, <1>3, SourceSavedSound
<1>5. SameLedger(db', committed) /\ Extends(committed, db')
  BY <1>3, <1>4 DEF LedgerInv, SameLedger, Extends
<1>6. CASE IngestionKey(request) \in DOMAIN db.ingestion
  <2>1. IngestionKey(request) \in DOMAIN committed.ingestion
    BY <1>3, <1>6 DEF LedgerInv, SameLedger
  <2>2. /\ Written(committed, request) /\ Honoured(committed, request)
        /\ FromRequests(committed, history \cup {request})
    BY <1>3, <2>1, ReplayOfStored DEF LedgerInv
  <2>3. /\ Written(db', request) /\ Honoured(db', request)
        /\ FromRequests(db', history \cup {request})
    BY <1>5, <2>2 DEF Written, Honoured, FromRequests, SameLedger
  <2> QED
    BY <1>1, <1>2, <1>4, <1>5, <1>6, <2>3 DEF LedgerInv, Written
<1>7. CASE IngestionKey(request) \notin DOMAIN db.ingestion
  BY <1>1, <1>2, <1>4, <1>5, <1>7 DEF LedgerInv
<1> QED
  BY <1>6, <1>7

\* InspectIdentities: the ingestion is written, and no row contradicts a claim.
LEMMA InspectLedgerInv ==
  ASSUME TypeInv, LedgerInv, InspectIdentities
  PROVE  LedgerInv'
<1> DEFINE seen  == Len(saving.records)
           known == Cardinality(Known(saving))
<1>1. /\ Sound(db) /\ saving \in Requests /\ saving.source \in DOMAIN db.source
      /\ step = "identities"
  BY LedgerAssumption DEF TypeInv, TypeOK, Flow, Sound, InspectIdentities
<1>2. seen \in Nat /\ known \in Nat
  BY <1>1, KnownCounted
<1>3. db' = IngestionSaved(db, saving, [seen |-> seen, inserted |-> seen - known,
                                        existing |-> known])
  BY DEF InspectIdentities, IngestionSaved
<1>4. /\ DOMAIN db'.ingestion = DOMAIN db.ingestion \cup {IngestionKey(saving)}
      /\ db'.deployment = db.deployment /\ db'.fetch = db.fetch
  <2> HIDE DEF seen, known
  <2> QED BY <1>1, <1>2, <1>3, IngestionSavedSound
<1>5. /\ pending' = saving.records /\ step' = "records"
      /\ UNCHANGED <<inventory, now, committed, saving, history>>
  BY DEF InspectIdentities
<1>6. SameLedger(db, committed) /\ IngestionKey(saving) \notin DOMAIN committed.ingestion
  BY <1>1 DEF LedgerInv, SameLedger
<1>7. FromRequests(db', history \cup {saving})
  BY <1>4, <1>6 DEF LedgerInv, FromRequests, SameLedger
<1>8. Elements(pending') = RecordsOf(saving)
  BY <1>1, <1>5, RequestRecords
<1>9. ASSUME NEW record \in RecordsOf(saving), Key(saving, record) \in DOMAIN db.deployment
      PROVE  db.deployment[Key(saving, record)].record = record
  <2>1. PICK n \in 1..Len(saving.records) : record = saving.records[n]
    BY DEF RecordsOf
  <2>2. n \in DOMAIN saving.records
    BY <1>1, RequestRecords
  <2>3. n \in Known(saving)
    BY <1>9, <2>1, <2>2 DEF Known
  <2> QED
    BY <2>1, <2>3 DEF InspectIdentities, IdentityConflict
<1>10. Honoured(db', saving)
  BY <1>4, <1>9 DEF Honoured
<1>11. Extends(committed, db')
  BY <1>4 DEF LedgerInv, Extends
<1> QED
  BY <1>4, <1>5, <1>6, <1>7, <1>8, <1>10, <1>11 DEF LedgerInv

\* SaveRecord: one more claim of the request has its row, and no other loses it.
LEMMA SaveRecordLedgerInv ==
  ASSUME TypeInv, LedgerInv, SaveRecord
  PROVE  LedgerInv'
<1> DEFINE record == Head(pending)
           key    == Key(saving, record)
<1>1. /\ Sound(db) /\ saving \in Requests /\ saving # None /\ step = "records"
      /\ IngestionKey(saving) \in DOMAIN db.ingestion
      /\ pending # <<>> /\ pending \in Seq(Records)
  BY LedgerAssumption DEF TypeInv, TypeOK, Flow, Sound, SaveRecord
<1>2. /\ pending' = Tail(pending)
      /\ UNCHANGED <<inventory, now, committed, saving, step, history>>
  BY DEF SaveRecord
<1>3. /\ record \in Records /\ record \in RecordsOf(saving)
      /\ Elements(pending) = {record} \cup Elements(pending')
  BY <1>1, <1>2, HeadAndTail DEF TypeInv, Flow
<1>4. IngestionKey(saving) \notin DOMAIN committed.ingestion
  BY <1>1 DEF LedgerInv
<1>5. CASE key \in DOMAIN db.deployment
  <2>1. db' = db
    BY <1>5 DEF SaveRecord
  <2>2. \A r \in RecordsOf(saving) :
          Key(saving, r) \in DOMAIN db.deployment \/ r \in Elements(pending')
    BY <1>1, <1>3, <1>5 DEF LedgerInv
  <2> QED
    BY <1>1, <1>2, <1>4, <2>1, <2>2 DEF LedgerInv
<1>6. CASE key \notin DOMAIN db.deployment
  <2>1. db' = DeploymentSaved(db, saving, record)
    BY <1>6 DEF SaveRecord, DeploymentSaved
  <2>2. Deployment(saving, record) \in Deployments
    BY <1>1, <1>3, DeploymentType DEF TypeInv
  <2>3. /\ DOMAIN db'.deployment = DOMAIN db.deployment \cup {key}
        /\ \A k \in DOMAIN db'.deployment :
             db'.deployment[k] = IF k = key THEN Deployment(saving, record)
                                 ELSE db.deployment[k]
        /\ db'.ingestion = db.ingestion /\ db'.fetch = db.fetch
    BY <1>1, <1>3, <2>1, <2>2, DeploymentSavedSound
  <2>4. Extends(db, db')
    BY <1>6, <2>3 DEF Extends
  <2>5. Extends(committed, db')
    BY <2>4 DEF LedgerInv, Extends
  <2>6. FromRequests(db', history \cup {saving})
    <3>1. /\ IngestionKey(saving) = <<key[1], Deployment(saving, record).first>>
          /\ Deployment(saving, record).record = record
      BY DEF IngestionKey, Key, Deployment
    <3> HIDE DEF key, record
    <3> QED
      BY <1>1, <1>3, <2>3, <3>1 DEF LedgerInv, FromRequests
  <2>7. \A r \in RecordsOf(saving) :
          Key(saving, r) \in DOMAIN db'.deployment \/ r \in Elements(pending')
    BY <1>1, <1>3, <2>3 DEF LedgerInv
  <2>8. Honoured(db', saving)
    <3> SUFFICES ASSUME SingleEnvironment(saving), NEW r \in RecordsOf(saving),
                        Key(saving, r) \in DOMAIN db'.deployment
                 PROVE  db'.deployment[Key(saving, r)].record = r
      BY DEF Honoured
    <3>1. CASE Key(saving, r) = key
      <4>1. r = record
        BY <1>3, <3>1 DEF SingleEnvironment
      <4>2. Deployment(saving, record).record = record
        BY DEF Deployment
      <4> QED
        BY <2>3, <3>1, <4>1, <4>2
    <3>2. CASE Key(saving, r) # key
      <4>1. Key(saving, r) \in DOMAIN db.deployment
        BY <2>3, <3>2
      <4> QED
        BY <1>1, <2>3, <3>2, <4>1 DEF LedgerInv, Honoured
    <3> QED
      BY <3>1, <3>2
  <2> QED
    BY <1>1, <1>2, <1>4, <2>3, <2>5, <2>6, <2>7, <2>8 DEF LedgerInv
<1> QED
  BY <1>5, <1>6

\* Commit: the request, now whole, joins the accepted ones.
LEMMA CommitLedgerInv ==
  ASSUME TypeInv, LedgerInv, Commit
  PROVE  LedgerInv'
<1>1. /\ Sound(db) /\ saving \in Requests /\ step = "records" /\ pending = <<>>
      /\ IngestionKey(saving) \in DOMAIN db.ingestion
      /\ Elements(pending) = {}
  BY LedgerAssumption DEF TypeInv, TypeOK, Flow, Sound, Commit, Elements
<1>2. /\ db' = FetchSaved(db, saving) /\ committed' = db'
      /\ history' = history \cup {saving} /\ saving' = None /\ step' = "idle"
      /\ UNCHANGED <<inventory, now, pending>>
  BY DEF Commit
<1>3. SameLedger(db', db)
  BY <1>1, <1>2, FetchSavedSound DEF SameLedger
<1>4. FromRequests(committed', history')
  BY <1>1, <1>2, <1>3 DEF LedgerInv, FromRequests, SameLedger
<1>5. FetchesOf(committed', history')
  <2>1. FetchesOf(db, history)
    BY DEF LedgerInv, FetchesOf
  <2>2. saving.fetch # None /\ FetchKey(saving) \in DOMAIN db.fetch =>
          db.fetch[FetchKey(saving)] = FetchRow(saving)
    BY DEF Commit, FetchConflict, FetchRow
  <2> QED
    BY <1>1, <1>2, <2>1, <2>2, FetchSavedFetches
<1>6. Written(db, saving) /\ Honoured(db, saving)
  BY <1>1 DEF LedgerInv, Written
<1>7. ASSUME NEW request \in history
      PROVE  Written(db, request) /\ Honoured(db, request)
  BY ExtensionHonours DEF LedgerInv
<1>8. Extends(db, db')
  BY <1>3 DEF SameLedger, Extends
<1>9. \A request \in history' : Written(committed', request) /\ Honoured(committed', request)
  BY <1>2, <1>6, <1>7, <1>8, ExtensionHonours
<1> QED
  BY <1>2, <1>4, <1>5, <1>9 DEF LedgerInv, Extends, SameLedger

\* Every step keeps LedgerInv.
LEMMA NextLedgerInv == TypeInv /\ LedgerInv /\ [Next]_vars => LedgerInv'
<1> SUFFICES ASSUME TypeInv, LedgerInv, [Next]_vars PROVE LedgerInv'
  OBVIOUS
<1>1. CASE RuntimeSnapshotSaved \/ Tick \/ UNCHANGED vars
  <2>1. UNCHANGED <<db, committed, saving, step, pending, history>>
    BY <1>1 DEF RuntimeSnapshotSaved, Tick, vars
  <2> QED
    BY <2>1 DEF LedgerInv
<1>2. CASE RejectIdentity \/ RejectFetch \/ Abort
  <2>1. db' = committed /\ step' = "idle" /\ UNCHANGED <<committed, history>>
    BY <1>2 DEF RejectIdentity, RejectFetch, Abort
  <2> QED
    BY <2>1 DEF LedgerInv, Extends, SameLedger
<1> QED
  BY <1>1, <1>2, BeginLedgerInv, InspectLedgerInv, SaveRecordLedgerInv, CommitLedgerInv
     DEF Next

\* LedgerInv holds of every reachable state.
LEMMA LedgerInvariance == Spec => []LedgerInv
BY TypeInvariance, InitLedgerInv, NextLedgerInv, PTL DEF Spec

-----------------------------------------------------------------------------
(* The theorems                                                            *)

\* A ledger is stored whole or not at all, whatever happened in between.
THEOREM LedgersAreWhole == Spec => []WholeLedgers
<1>1. LedgerInv => WholeLedgers
  BY DEF LedgerInv, WholeLedgers, FromRequests, FetchesOf, Written
<1> QED
  BY <1>1, LedgerInvariance, PTL

\* What an accepted ledger of single environments claimed is what is stored.
THEOREM ClaimsAreStored == Spec => []AcceptedIsStored
<1>1. LedgerInv => AcceptedIsStored
  BY DEF LedgerInv, AcceptedIsStored, Written, Honoured
<1> QED
  BY <1>1, LedgerInvariance, PTL

\* Only a commit changes what is committed, to what its transaction holds.
LEMMA OnlyCommitChanges ==
  ASSUME [Next]_vars
  PROVE  committed' = committed \/ Commit
BY DEF Next, vars, RuntimeSnapshotSaved, Tick, Begin, InspectIdentities, SaveRecord,
       RejectIdentity, RejectFetch, Abort

\* No later ledger, replay or refresh changes a deployment or its provenance.
THEOREM FirstClaimsStand == Spec => FirstClaimStands
<1>1. TypeInv /\ LedgerInv /\ [Next]_vars =>
        LET old == committed.deployment
            new == committed'.deployment
        IN  DOMAIN old \subseteq DOMAIN new /\ \A k \in DOMAIN old : new[k] = old[k]
  <2> SUFFICES ASSUME TypeInv, LedgerInv, [Next]_vars
               PROVE  Extends(committed, committed')
    BY DEF Extends
  <2>1. CASE committed' = committed
    BY <2>1 DEF Extends
  <2>2. CASE Commit
    <3>1. Sound(db) /\ saving \in Requests /\ IngestionKey(saving) \in DOMAIN db.ingestion
      BY <2>2, LedgerAssumption DEF TypeInv, TypeOK, Flow, Sound, Commit
    <3>2. committed'.deployment = db.deployment
      BY <2>2, <3>1, FetchSavedSound DEF Commit
    <3> QED
      BY <3>2 DEF LedgerInv, Extends
  <2> QED
    BY <2>1, <2>2, OnlyCommitChanges
<1> QED
  BY <1>1, TypeInvariance, LedgerInvariance, PTL DEF Spec, FirstClaimStands

\* Saving an accepted request again is not refused and changes nothing but the
\* last sync of its source.
THEOREM ReplaysAreHarmless == Spec => ReplayHarmless
<1>1. ASSUME TypeInv, LedgerInv, [Next]_vars, saving \in history
      PROVE  /\ committed'.ingestion = committed.ingestion
             /\ committed'.deployment = committed.deployment
             /\ committed'.fetch = committed.fetch
  <2>1. CASE committed' = committed
    BY <2>1
  <2>2. CASE Commit
    <3>1. /\ Sound(db) /\ saving \in Requests /\ step = "records"
          /\ IngestionKey(saving) \in DOMAIN db.ingestion
      BY <1>1, <2>2, LedgerAssumption DEF TypeInv, TypeOK, Flow, Sound, Commit
    <3>2. IngestionKey(saving) \in DOMAIN committed.ingestion
      BY <1>1 DEF LedgerInv, FromRequests
    <3>3. SameLedger(db, committed)
      BY <1>1, <3>1, <3>2 DEF LedgerInv
    <3>4. committed'.ingestion = db.ingestion /\ committed'.deployment = db.deployment
      BY <2>2, <3>1, FetchSavedSound DEF Commit
    <3>5. committed'.fetch = committed.fetch
      <4>1. CASE saving.fetch = None
        BY <1>1, <2>2, <4>1 DEF Commit, FetchSaved, LedgerInv
      <4>2. CASE saving.fetch # None
        <5> DEFINE key == FetchKey(saving)
                   row == FetchRow(saving)
        <5>1. committed'.fetch = With(committed.fetch, key, row)
          BY <1>1, <2>2, <3>1, <4>2
             DEF Commit, FetchSaved, LedgerInv, Sound, TablesOK, EmptyLedger, FetchRow
        <5>2. /\ key \in DOMAIN committed.fetch /\ committed.fetch[key] = row
              /\ committed.fetch = [k \in DOMAIN committed.fetch |-> committed.fetch[k]]
          BY <1>1, <4>2 DEF LedgerInv, FetchesOf
        <5> HIDE DEF key, row
        <5>3. With(committed.fetch, key, row) =
                [k \in DOMAIN committed.fetch |-> committed.fetch[k]]
          BY <5>2 DEF With
        <5> QED
          BY <5>1, <5>2, <5>3
      <4> QED
        BY <4>1, <4>2
    <3> QED
      BY <3>3, <3>4, <3>5 DEF SameLedger
  <2> QED
    BY <1>1, <2>1, <2>2, OnlyCommitChanges
<1>2. ASSUME TypeInv, LedgerInv, saving \in history
      PROVE  ~RejectIdentity /\ ~RejectFetch
  <2>1. IngestionKey(saving) \in DOMAIN committed.ingestion
    BY <1>2 DEF LedgerInv, FromRequests
  <2>2. step # "identities"
    BY <1>2, <2>1 DEF LedgerInv, SameLedger
  <2>3. ~FetchConflict(saving)
    BY <1>2 DEF FetchConflict, LedgerInv, FetchesOf, FetchRow
  <2> QED
    BY <2>2, <2>3 DEF RejectIdentity, RejectFetch
<1>3. TypeInv /\ LedgerInv /\ [Next]_vars =>
        ((saving \in history) =>
           /\ \A table \in {"ingestion", "deployment", "fetch"} :
                committed'[table] = committed[table]
           /\ ~RejectIdentity /\ ~RejectFetch)
  BY <1>1, <1>2
<1> QED
  BY <1>3, TypeInvariance, LedgerInvariance, PTL DEF Spec, ReplayHarmless

\* A row that answers to its own claims alone.
Unambiguous(row) ==
  /\ row.resolution.artifact # None =>
       \A a \in inventory.artifacts \ {row.resolution.artifact} :
         {a.identity, a.image} \cap Claims(row.record) = {}
  /\ row.resolution.commit # None =>
       \A c \in inventory.commits \ {row.resolution.commit} : c.sha # row.record.revision
  /\ row.resolution.status = "MATCHED" =>
       /\ row.resolution.artifact # None /\ row.resolution.commit # None
       /\ row.record.verified /\ row.record.deployedAt <= now

\* A deployment is linked only to what no other persisted row answers to.
THEOREM LinksAreUnambiguous == Spec => LinksUnambiguous
<1>1. TypeInv /\ LedgerInv /\ [Next]_vars =>
        \A k \in DOMAIN db'.deployment \ DOMAIN db.deployment : Unambiguous(db'.deployment[k])
  <2> SUFFICES ASSUME TypeInv, LedgerInv, [Next]_vars,
                      NEW k \in DOMAIN db'.deployment \ DOMAIN db.deployment
               PROVE  Unambiguous(db'.deployment[k])
    OBVIOUS
  <2>1. CASE SaveRecord
    <3> DEFINE record == Head(pending)
               resolution == resolveDeployment(inventory, record, now)
    <3>1. record \in Records
      BY <2>1, HeadAndTail DEF TypeInv, Flow, SaveRecord
    <3>2. InventoryOK(inventory) /\ now \in Int
      BY LedgerAssumption DEF TypeInv, TypeOK, InventoryOK
    <3>3. db'.deployment[k] = Deployment(saving, record)
      <4>1. /\ Sound(db) /\ saving \in Requests /\ step = "records"
            /\ IngestionKey(saving) \in DOMAIN db.ingestion
        BY <2>1, LedgerAssumption DEF TypeInv, TypeOK, Flow, Sound, SaveRecord
      <4>2. Deployment(saving, record) \in Deployments
        BY <3>1, <4>1, DeploymentType DEF TypeInv
      <4>3. db' = db \/ db' = DeploymentSaved(db, saving, record)
        BY <2>1 DEF SaveRecord, DeploymentSaved
      <4> QED
        BY <3>1, <4>1, <4>2, <4>3, DeploymentSavedSound
    <3>4. /\ db'.deployment[k].record = record
          /\ db'.deployment[k].resolution = resolution
      BY <3>3 DEF Deployment
    <3>5. /\ resolution.artifact # None =>
               StoredArtifacts(inventory, record) = {resolution.artifact}
          /\ resolution.commit # None =>
               StoredCommits(inventory, record) = {resolution.commit}
          /\ resolution.status = "MATCHED" =>
               /\ resolution.artifact # None /\ resolution.commit # None
               /\ record.deployedAt <= now
      BY <3>1, <3>2, ResolutionType
    <3> HIDE DEF record, resolution
    <3>6. resolution.commit # None => record.verified
      BY <3>5 DEF StoredCommits
    <3> QED
      BY <3>4, <3>5, <3>6 DEF StoredArtifacts, StoredCommits, Unambiguous
  <2>2. CASE ~SaveRecord
    <3>1. Sound(db) /\ (saving # None => saving \in Requests)
      BY DEF TypeInv, TypeOK, Sound
    <3>2. CASE Begin
      BY <3>1, <3>2, SourceSavedSound DEF Begin
    <3>3. CASE InspectIdentities
      BY <3>1, <3>3 DEF InspectIdentities, Sound, TablesOK, EmptyLedger
    <3>4. CASE Commit
      <4>1. saving \in Requests /\ IngestionKey(saving) \in DOMAIN db.ingestion
        BY <3>4, LedgerAssumption DEF TypeInv, TypeOK, Flow, Commit
      <4> QED
        BY <3>1, <3>4, <4>1, FetchSavedSound DEF Commit
    <3>5. CASE RejectIdentity \/ RejectFetch \/ Abort
      BY <3>5 DEF RejectIdentity, RejectFetch, Abort, LedgerInv, Extends
    <3>6. CASE RuntimeSnapshotSaved \/ Tick \/ UNCHANGED vars
      BY <3>6 DEF RuntimeSnapshotSaved, Tick, vars
    <3> QED
      BY <2>2, <3>2, <3>3, <3>4, <3>5, <3>6 DEF Next
  <2> QED
    BY <2>1, <2>2
<1> QED
  BY <1>1, TypeInvariance, LedgerInvariance, PTL DEF Spec, LinksUnambiguous, Unambiguous
=============================================================================
