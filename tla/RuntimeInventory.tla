-------------------------- MODULE RuntimeInventory --------------------------
(***************************************************************************)
(* The runtime inventory kept by internal/sqlite/inventory.go: what        *)
(* SaveRuntimeSnapshot does to its tables.  A snapshot is saved in one     *)
(* immediate SQLite transaction, item by item; a conflict, a cancellation, *)
(* a driver error or a crash before the commit leaves nothing behind.      *)
(*                                                                         *)
(* Snapshots arrive in any order of their observed_at, several times, and  *)
(* with several observations of one container at one instant.              *)
(*                                                                         *)
(* Generated row identifiers, ingested_at and updated_at are left out, and *)
(* a container's name, state, health, restart count, image reference and   *)
(* start time are one value, metadata: the code compares them as one.      *)
(* References and aliases are integers in their textual order.             *)
(***************************************************************************)
EXTENDS Integers, FiniteSets, Sequences

CONSTANTS Containers,   \* external IDs of containers
          Times,        \* observation instants
          Services,     \* logical service keys
          Metadata,     \* what else a container shows
          Artifacts,    \* records with kind and id
          Images,       \* image IDs
          Revisions,    \* OCI revisions
          Aliases,      \* image references and tags
          Commits,
          Derivations,  \* records with artifact, commit and result
          Priority,     \* derivation_priority of each derivation
          Fingerprint,  \* derivation_fingerprint of each derivation
          Repositories, \* what Git says of the repository
          Snapshots,    \* the snapshots that may be saved
          None          \* NULL, or no such row

Items ==
  [container : Containers, at : Times, service : Services, metadata : Metadata,
   artifact : Artifacts, image : Images \cup {None}, reference : Aliases,
   revision : Revisions \cup {None}, aliases : SUBSET Aliases,
   commit : Commits \cup {None}, derivation : Derivations]

ASSUME InventoryAssumption ==
  /\ Times \subseteq Int /\ IsFiniteSet(Times)
  /\ Aliases \subseteq Int
  /\ None \notin Times /\ None \notin Artifacts
  /\ None \notin Derivations /\ None \notin Snapshots
  /\ Priority \in [Derivations -> Nat]
  /\ Fingerprint \in [Derivations -> Int]
  /\ \A d, e \in Derivations : Fingerprint[d] = Fingerprint[e] => d = e
  /\ Snapshots \subseteq [observedAt : Times, partial : BOOLEAN,
                          repository : Repositories \cup {None}, items : Seq(Items)]

VARIABLES db,        \* the tables as the open transaction sees them
          committed, \* the tables as of the last commit
          saving,    \* the snapshot being saved, None when no transaction is open
          pending,   \* the items of it not yet written
          history    \* the snapshots committed so far (history variable)
vars == <<db, committed, saving, pending, history>>

-----------------------------------------------------------------------------
(* Sources, repositories, services, artifacts.  A table is a function on   *)
(* the keys of its rows.                                                   *)

\* The statuses of a source, by the writer and by what is stored.
\* Wrong variant: the last snapshot saved decides.
SourceStatusLastWriter(row, status, at) == status

SourceStatus(row, status, at) ==
  IF row.lastSync < at THEN status
  ELSE IF row.lastSync = at /\ "partial" \in {row.status, status}
  THEN "partial" ELSE row.status

EnsureSource(rows, kind, status, at) ==
  [k \in DOMAIN rows \cup {kind} |->
     IF k # kind THEN rows[k]
     ELSE IF k \notin DOMAIN rows THEN [lastSync |-> at, status |-> status]
     ELSE [lastSync |-> IF rows[k].lastSync < at THEN at ELSE rows[k].lastSync,
           status   |-> SourceStatus(rows[k], status, at)]]

EnsureRepository(row, repository, at) ==
  IF row = None \/ row.at <= at THEN [at |-> at, repository |-> repository] ELSE row

\* Wrong variant: a late observation does not reach back.
EnsureServiceForward(rows, service, at) ==
  [k \in DOMAIN rows \cup {service} |->
     IF k # service THEN rows[k]
     ELSE IF k \notin DOMAIN rows THEN [first |-> at, last |-> at]
     ELSE [rows[k] EXCEPT !.last = IF @ < at THEN at ELSE @]]

EnsureService(rows, service, at) ==
  [k \in DOMAIN rows \cup {service} |->
     IF k # service THEN rows[k]
     ELSE IF k \notin DOMAIN rows THEN [first |-> at, last |-> at]
     ELSE [first |-> IF rows[k].first > at THEN at ELSE rows[k].first,
           last  |-> IF rows[k].last < at THEN at ELSE rows[k].last]]

artifactIdentityRank(kind) ==
  CASE kind = "repo_digest" -> 3
    [] kind = "image_id"    -> 2
    [] kind = "mutable_tag" -> 1
    [] OTHER                -> 0

Rank(artifact) == artifactIdentityRank(artifact.kind)

\* Two revisions of one artifact at one instant: an absent one yields.
MetadataConflict(rows, item) ==
  /\ item.artifact \in DOMAIN rows
  /\ rows[item.artifact].at = item.at
  /\ rows[item.artifact].revision # item.revision
  /\ rows[item.artifact].revision # None /\ item.revision # None

\* mergeArtifactMetadata: the latest observation decides, and observations at
\* the same instant are merged.  The image ID stays what the first one said.
MergeArtifact(row, item) ==
  CASE row.at < item.at ->
         [row EXCEPT !.at = item.at, !.reference = item.reference, !.revision = item.revision]
    [] row.at = item.at ->
         [row EXCEPT !.reference = IF item.reference < @ THEN item.reference ELSE @,
                     !.revision  = IF @ = None THEN item.revision ELSE @]
    [] row.at > item.at -> row

EnsureArtifact(rows, item) ==
  [k \in DOMAIN rows \cup {item.artifact} |->
     IF k # item.artifact THEN rows[k]
     ELSE IF k \notin DOMAIN rows
     THEN [at |-> item.at, reference |-> item.reference, revision |-> item.revision,
           image |-> item.image]
     ELSE MergeArtifact(rows[k], item)]

-----------------------------------------------------------------------------
(* Artifact aliases: observations, and the intervals rebuilt from them     *)

\* What is known of an alias or a container is a function on the instants at
\* which it was observed.

Earliest(ts) == IF ts = {} THEN None ELSE CHOOSE t \in ts : \A u \in ts : t <= u

\* The earliest of the instants in ts after t, None when there is none.
NextAfter(ts, t) == Earliest({u \in ts : u > t})

\* u is the last of the instants in ts before t.
IsPredecessor(ts, u, t) ==
  /\ u \in ts
  /\ u < t
  /\ \A v \in ts : v < t => v <= u

AliasConflict(observations, item) ==
  \E alias \in item.aliases :
    LET seen == observations[alias]
    IN  /\ item.at \in DOMAIN seen
        /\ seen[item.at] # item.artifact
        /\ Rank(seen[item.at]) = Rank(item.artifact)

\* Wrong variant: the artifact seen last replaces the one stored for the instant.
ObserveArtifactLast(seen, item) ==
  [t \in DOMAIN seen \cup {item.at} |-> IF t = item.at THEN item.artifact ELSE seen[t]]

\* A stronger identity replaces a weaker one seen at the same instant.
ObserveArtifact(seen, item) ==
  [t \in DOMAIN seen \cup {item.at} |->
     IF t = item.at /\ (t \notin DOMAIN seen \/ Rank(item.artifact) > Rank(seen[t]))
     THEN item.artifact ELSE seen[t]]

ObserveAliases(observations, item) ==
  [alias \in Aliases |->
     IF alias \in item.aliases THEN ObserveArtifact(observations[alias], item)
     ELSE observations[alias]]

\* The instants at which the alias is seen to move to another artifact.
Moves(seen) ==
  {t \in DOMAIN seen :
     \A u \in DOMAIN seen : IsPredecessor(DOMAIN seen, u, t) => seen[u] # seen[t]}

rebuildArtifactAliasIntervals(seen) ==
  {[artifact |-> seen[t], from |-> t, to |-> NextAfter(Moves(seen), t)] : t \in Moves(seen)}

\* Wrong variant: intervals are only ever appended, never rebuilt.
AppendAliasIntervals(intervals, before, after, item) ==
  [alias \in Aliases |->
     IF alias \in item.aliases /\ before[alias] # after[alias]
     THEN intervals[alias] \cup {[artifact |-> item.artifact, from |-> item.at, to |-> None]}
     ELSE intervals[alias]]

\* Only an alias whose observations changed is rebuilt.
AliasIntervals(intervals, before, after, item) ==
  [alias \in Aliases |->
     IF alias \in item.aliases /\ before[alias] # after[alias]
     THEN rebuildArtifactAliasIntervals(after[alias]) ELSE intervals[alias]]

-----------------------------------------------------------------------------
(* Runtime instances: one row for each container and instant, valid from   *)
(* that instant until the container's next row.                            *)

RepoDigest(artifact) == IF artifact.kind = "repo_digest" THEN artifact ELSE None

RuntimeConflict(row, item) ==
  \/ row.service # item.service
  \/ row.metadata # item.metadata
  \/ row.artifact # item.artifact /\ Rank(row.artifact) = Rank(item.artifact)
  \/ row.image # None /\ item.image # None /\ row.image # item.image

\* Wrong variant: the artifact seen last replaces the stored one.
MergeRuntimeLastArtifact(row, item) ==
  [row EXCEPT !.artifact = item.artifact,
              !.digest   = RepoDigest(item.artifact),
              !.image    = IF @ = None THEN item.image ELSE @]

\* Reprocessing an instant: a stronger artifact identity, a missing image ID.
MergeRuntime(row, item) ==
  LET stronger == Rank(item.artifact) > Rank(row.artifact)
  IN  [row EXCEPT !.artifact = IF stronger THEN item.artifact ELSE @,
                  !.digest   = IF stronger THEN RepoDigest(item.artifact) ELSE @,
                  !.image    = IF @ = None THEN item.image ELSE @]

NewRuntime(item, validTo) ==
  [service |-> item.service, metadata |-> item.metadata, artifact |-> item.artifact,
   digest |-> RepoDigest(item.artifact), image |-> item.image, validTo |-> validTo]

\* Wrong variant: a new row is taken for the newest and left open.
InsertRuntimeAsNewest(rows, item) ==
  [t \in DOMAIN rows \cup {item.at} |->
     IF t = item.at THEN NewRuntime(item, None)
     ELSE IF IsPredecessor(DOMAIN rows, t, item.at)
     THEN [rows[t] EXCEPT !.validTo = item.at] ELSE rows[t]]

\* The new row ends at its successor, and its predecessor ends at it.
InsertRuntime(rows, item) ==
  [t \in DOMAIN rows \cup {item.at} |->
     IF t = item.at THEN NewRuntime(item, NextAfter(DOMAIN rows, item.at))
     ELSE IF IsPredecessor(DOMAIN rows, t, item.at)
     THEN [rows[t] EXCEPT !.validTo = item.at] ELSE rows[t]]

EnsureRuntime(rows, item) ==
  IF item.at \in DOMAIN rows THEN [rows EXCEPT ![item.at] = MergeRuntime(@, item)]
  ELSE InsertRuntime(rows, item)

-----------------------------------------------------------------------------
(* Correlations: the derivations of a runtime row, one of them current     *)

Outranks(d, e) ==
  \/ Priority[d] > Priority[e]
  \/ Priority[d] = Priority[e] /\ Fingerprint[d] < Fingerprint[e]

\* Wrong variant: the newest derivation is current.
LatestCurrent(derivations, derivation) == derivation

\* Wrong variant: current is chosen before the new derivation is inserted.
CurrentBeforeInsert(derivations, derivation) ==
  IF derivations = {derivation} THEN None
  ELSE CHOOSE d \in derivations \ {derivation} :
         \A e \in derivations \ {derivation} : e = d \/ Outranks(d, e)

\* reconcileCorrelation, once the derivation is among those of the row.
CurrentDerivation(derivations, derivation) ==
  CHOOSE d \in derivations : \A e \in derivations : e = d \/ Outranks(d, e)

-----------------------------------------------------------------------------
(* The transaction                                                         *)

Empty == [key \in {} |-> None]

EmptyDatabase ==
  [source           |-> Empty,
   repository       |-> None,
   service          |-> Empty,
   artifact         |-> Empty,
   aliasObservation |-> [l \in Aliases |-> Empty],
   aliasInterval    |-> [l \in Aliases |-> {}],
   commit           |-> {},
   runtime          |-> [c \in Containers |-> Empty],
   derivation       |-> [c \in Containers |-> [t \in Times |-> {}]],
   current          |-> [c \in Containers |-> [t \in Times |-> None]]]

Init ==
  /\ db = EmptyDatabase
  /\ committed = EmptyDatabase
  /\ saving = None
  /\ pending = <<>>
  /\ history = {}

\* The effect of the statements before the loop over the items.
SourcesSaved(d, snapshot) ==
  LET status == IF snapshot.partial THEN "partial" ELSE "success"
      docker == EnsureSource(d.source, "docker", status, snapshot.observedAt)
  IN  IF snapshot.repository = None THEN [d EXCEPT !.source = docker]
      ELSE [d EXCEPT
              !.source     = EnsureSource(docker, "git", "success", snapshot.observedAt),
              !.repository = EnsureRepository(@, snapshot.repository, snapshot.observedAt)]

\* The first statement that finds an identity or metadata conflict returns.
Conflict(d, item) ==
  \/ MetadataConflict(d.artifact, item)
  \/ AliasConflict(d.aliasObservation, item)
  \/ /\ item.at \in DOMAIN d.runtime[item.container]
     /\ RuntimeConflict(d.runtime[item.container][item.at], item)

\* The effect of one turn of the loop.  A commit is kept only with its repository.
ItemSaved(d, snapshot, item) ==
  LET c == item.container
      t == item.at
      observations == ObserveAliases(d.aliasObservation, item)
      derivations  == d.derivation[c][t] \cup {item.derivation}
  IN  [source           |-> d.source,
       repository       |-> d.repository,
       service          |-> EnsureService(d.service, item.service, t),
       artifact         |-> EnsureArtifact(d.artifact, item),
       aliasObservation |-> observations,
       aliasInterval    |-> AliasIntervals(d.aliasInterval, d.aliasObservation,
                                           observations, item),
       commit           |-> IF item.commit # None /\ snapshot.repository # None
                            THEN d.commit \cup {item.commit} ELSE d.commit,
       runtime          |-> [d.runtime EXCEPT ![c] = EnsureRuntime(@, item)],
       derivation       |-> [d.derivation EXCEPT ![c][t] = derivations],
       current          |-> [d.current EXCEPT ![c][t] =
                               CurrentDerivation(derivations, item.derivation)]]

BeginSave ==
  /\ saving = None
  /\ \E snapshot \in Snapshots :
       /\ saving' = snapshot
       /\ pending' = snapshot.items
       /\ db' = SourcesSaved(db, snapshot)
  /\ UNCHANGED <<committed, history>>

SaveItem ==
  /\ saving # None
  /\ pending # <<>>
  /\ ~Conflict(db, Head(pending))
  /\ db' = ItemSaved(db, saving, Head(pending))
  /\ pending' = Tail(pending)
  /\ UNCHANGED <<committed, saving, history>>

\* Wrong variant: the conflict ends the save but keeps what was written before.
RejectKeepingPart ==
  /\ saving # None
  /\ pending # <<>>
  /\ Conflict(db, Head(pending))
  /\ committed' = db
  /\ saving' = None
  /\ pending' = <<>>
  /\ UNCHANGED <<db, history>>

\* ErrConflict: the deferred rollback undoes the whole snapshot.
RejectConflict ==
  /\ saving # None
  /\ pending # <<>>
  /\ Conflict(db, Head(pending))
  /\ db' = committed
  /\ saving' = None
  /\ pending' = <<>>
  /\ UNCHANGED <<committed, history>>

\* A cancelled context, a driver error or a crash at any point before the commit.
Abort ==
  /\ saving # None
  /\ db' = committed
  /\ saving' = None
  /\ pending' = <<>>
  /\ UNCHANGED <<committed, history>>

Commit ==
  /\ saving # None
  /\ pending = <<>>
  /\ committed' = db
  /\ history' = history \cup {saving}
  /\ saving' = None
  /\ UNCHANGED <<db, pending>>

Next ==
  \/ BeginSave
  \/ SaveItem
  \/ RejectConflict
  \/ Abort
  \/ Commit

Spec == Init /\ [][Next]_vars

-----------------------------------------------------------------------------
(* Types and the constraints of the schema                                 *)

Runtimes ==
  [service : Services, metadata : Metadata, artifact : Artifacts,
   digest : Artifacts \cup {None}, image : Images \cup {None},
   validTo : Times \cup {None}]

SourceRows == [lastSync : Times, status : {"success", "partial"}]

ServiceRows == [first : Times, last : Times]

ArtifactRows ==
  [at : Times, reference : Aliases, revision : Revisions \cup {None}, image : Images \cup {None}]

AliasIntervalRows == [artifact : Artifacts, from : Times, to : Times \cup {None}]

\* f is a table with keys in S and rows in T.
Table(f, S, T) == DOMAIN f \subseteq S /\ f \in [DOMAIN f -> T]

TablesOK(d) ==
  /\ DOMAIN d = DOMAIN EmptyDatabase
  /\ Table(d.source, {"docker", "git"}, SourceRows)
  /\ d.repository \in [at : Times, repository : Repositories] \cup {None}
  /\ Table(d.service, Services, ServiceRows)
  /\ Table(d.artifact, Artifacts, ArtifactRows)
  /\ DOMAIN d.aliasObservation = Aliases
  /\ \A l \in Aliases : Table(d.aliasObservation[l], Times, Artifacts)
  /\ d.aliasInterval \in [Aliases -> SUBSET AliasIntervalRows]
  /\ d.commit \subseteq Commits
  /\ DOMAIN d.runtime = Containers
  /\ \A c \in Containers : Table(d.runtime[c], Times, Runtimes)
  /\ d.derivation \in [Containers -> [Times -> SUBSET Derivations]]
  /\ d.current \in [Containers -> [Times -> Derivations \cup {None}]]

\* What a runtime row refers to exists, and it has exactly one current
\* derivation, which is one of its own.
ReferencesOK(d) ==
  \A c \in Containers, t \in Times :
    /\ t \in DOMAIN d.runtime[c] <=> d.current[c][t] # None
    /\ t \in DOMAIN d.runtime[c] <=> d.derivation[c][t] # {}
    /\ t \in DOMAIN d.runtime[c] =>
         /\ d.runtime[c][t].service \in DOMAIN d.service
         /\ d.runtime[c][t].artifact \in DOMAIN d.artifact
         /\ d.current[c][t] \in d.derivation[c][t]

\* The values of the tables, and their foreign keys and unique indexes.
TypeOK ==
  /\ \A d \in {db, committed} : TablesOK(d) /\ ReferencesOK(d)
  /\ saving \in Snapshots \cup {None}
  /\ saving = None => pending = <<>> /\ db = committed
  /\ history \subseteq Snapshots

-----------------------------------------------------------------------------
(* Intervals, whatever the order in which the instants arrive              *)

\* The instants of ts that are the latest up to instant at: one, or none.
LatestUpTo(ts, at) == {t \in ts : t <= at /\ \A u \in ts : u <= at => u <= t}

InInterval(from, to, at) == from <= at /\ (to = None \/ at < to)

ValidAt(rows, at) == {t \in DOMAIN rows : InInterval(t, rows[t].validTo, at)}

\* At every instant a container has one valid row, the last one observed up to
\* then, and none before its first: ensureRuntime leaves no gap and no overlap.
PointInTimeExact ==
  \A d \in {db, committed}, c \in Containers, at \in Times :
    ValidAt(d.runtime[c], at) = LatestUpTo(DOMAIN d.runtime[c], at)

\* At every instant the valid intervals of an alias name exactly the artifact
\* last observed under it: observeArtifactAlias keeps the rebuilt intervals
\* in step with the observations, also when evidence arrives late or is replaced.
AliasPointInTime ==
  \A d \in {db, committed}, l \in Aliases, at \in Times :
    LET seen  == d.aliasObservation[l]
        valid == {i \in d.aliasInterval[l] : InInterval(i.from, i.to, at)}
    IN  /\ {i.artifact : i \in valid} = {seen[t] : t \in LatestUpTo(DOMAIN seen, at)}
        /\ \A i, j \in valid : i = j

-----------------------------------------------------------------------------
(* The tables as a function of the facts stored: invariant 14 of the       *)
(* specification, the order of arrival does not change the result          *)

HistoryItems == UNION {{s.items[n] : n \in 1..Len(s.items)} : s \in history}

ItemsOf(c, t) == {i \in HistoryItems : i.container = c /\ i.at = t}

\* Stored are exactly the facts of the snapshots that were saved.
FactsStored ==
  /\ \A c \in Containers, t \in Times :
       /\ t \in DOMAIN committed.runtime[c] <=> ItemsOf(c, t) # {}
       /\ committed.derivation[c][t] = {i.derivation : i \in ItemsOf(c, t)}
  /\ \A l \in Aliases :
       DOMAIN committed.aliasObservation[l] = {i.at : i \in {j \in HistoryItems : l \in j.aliases}}

StrongestOf(items) == {i.artifact : i \in {j \in items : \A k \in items : Rank(k.artifact) <= Rank(j.artifact)}}

\* Whatever the order of arrival, a row and an alias keep the strongest identity
\* seen at the instant, and the image ID if any observation had one.
StrongestIdentityWins ==
  /\ \A c \in Containers : \A t \in DOMAIN committed.runtime[c] :
       LET row == committed.runtime[c][t]
       IN  /\ StrongestOf(ItemsOf(c, t)) = {row.artifact}
           /\ row.digest = RepoDigest(row.artifact)
           /\ {i.image : i \in ItemsOf(c, t)} \subseteq {row.image, None}
           /\ row.image \in {i.image : i \in ItemsOf(c, t)}
  /\ \A l \in Aliases : \A t \in DOMAIN committed.aliasObservation[l] :
       StrongestOf({i \in HistoryItems : l \in i.aliases /\ i.at = t})
         = {committed.aliasObservation[l][t]}

\* Whatever the order of arrival, the current derivation of a row is the one
\* of highest priority, and of smallest fingerprint among those.
CurrentIsBest ==
  \A d \in {db, committed}, c \in Containers, t \in Times :
    \A e \in d.derivation[c][t] :
      e = d.current[c][t] \/ Outranks(d.current[c][t], e)

\* Whatever the order of arrival, a service spans all its observations, an
\* artifact shows its latest one, and a source the status of its latest
\* snapshot, partial if any snapshot of that instant was.
MetadataFollowsLatest ==
  /\ \A s \in Services :
       LET seen == {i.at : i \in {j \in HistoryItems : j.service = s}}
       IN  seen # {} =>
             /\ {committed.service[s].first, committed.service[s].last} \subseteq seen
             /\ \A t \in seen : committed.service[s].first <= t /\ t <= committed.service[s].last
  /\ \A a \in Artifacts :
       LET items  == {i \in HistoryItems : i.artifact = a}
           latest == {i \in items : \A j \in items : j.at <= i.at}
       IN  items # {} =>
             /\ {i.at : i \in latest} = {committed.artifact[a].at}
             /\ committed.artifact[a].reference \in {i.reference : i \in latest}
             /\ \A i \in latest : committed.artifact[a].reference <= i.reference
             /\ {i.revision : i \in latest} \subseteq {committed.artifact[a].revision, None}
  /\ history # {} =>
       LET latest == {s \in history : \A u \in history : u.observedAt <= s.observedAt}
           row    == committed.source["docker"]
       IN  /\ {s.observedAt : s \in latest} = {row.lastSync}
           /\ row.status = "partial" <=> \E s \in latest : s.partial

\* What is committed depends on the snapshots saved and not on their order: no fact is
\* lost, none is left of a snapshot that was rejected or cut short, the strongest
\* identity of an instant stands, and the latest of what may change.
CommittedIsHistory == FactsStored /\ StrongestIdentityWins /\ MetadataFollowsLatest

-----------------------------------------------------------------------------
(* What a step may never do                                                *)

Preserves(before, after) ==
  /\ \A c \in Containers :
       /\ \A t \in Times : before.derivation[c][t] \subseteq after.derivation[c][t]
       /\ \A t \in DOMAIN before.runtime[c] :
            /\ t \in DOMAIN after.runtime[c]
            /\ Rank(before.runtime[c][t].artifact) <= Rank(after.runtime[c][t].artifact)
  /\ \A l \in Aliases : \A t \in DOMAIN before.aliasObservation[l] :
       /\ t \in DOMAIN after.aliasObservation[l]
       /\ Rank(before.aliasObservation[l][t]) <= Rank(after.aliasObservation[l][t])

\* Saving never erases valid history (ADR-009): no committed row, derivation or
\* alias observation vanishes, and no identity gives way to a weaker one.
HistoryPreserved == [][Preserves(committed, committed')]_vars

\* A conclusion once current gives way only to one of higher rank: a favourable
\* derivation never hides a contradiction, nor an outage of Git an answer of it.
ConclusionNeverWeakens ==
  [][\A c \in Containers : \A t \in DOMAIN committed.runtime[c] :
       LET before == committed.current[c][t]
           after  == committed'.current[c][t]
       IN  after = before \/ Outranks(after, before)]_vars

TablesButRepository == [committed EXCEPT !.repository = None]

\* Saving a snapshot that is already stored is never a conflict, and changes
\* nothing (ADR-009).  The repository is left out: it follows the last writer
\* among equal instants.
ReplayHarmless ==
  [][(saving \in history) =>
       ~RejectConflict /\ TablesButRepository' = TablesButRepository]_vars
=============================================================================
