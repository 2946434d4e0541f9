---------------------------- MODULE RuntimeItems ----------------------------
(***************************************************************************)
(* How the inventory package turns one Docker observation and one Git      *)
(* lookup into the item the store saves: the artifact identity is chosen   *)
(* from the repository digests, the image ID or the mutable reference, the *)
(* lookup becomes a revision state, and the provenance is evaluated.       *)
(*                                                                         *)
(* An observation is a record with container, at, service, metadata,       *)
(* reference, imageID, digests, tags, revision and created.  Digests are   *)
(* integers in their textual order; a value that does not parse is absent, *)
(* except a revision, which the code keeps apart as "<invalid>".           *)
(***************************************************************************)
EXTENDS Provenance, FiniteSets

Invalid == "<invalid>"

\* parseRepositoryDigest over every digest found more than one distinct value.
DigestsConflict(observation) == Cardinality(observation.digests) > 1

\* The identity the artifact is stored under: the smallest digest wins.
ArtifactOf(observation) ==
  IF observation.digests # {}
  THEN [kind |-> "repo_digest",
        id   |-> CHOOSE d \in observation.digests :
                   \A e \in observation.digests : d <= e]
  ELSE IF observation.imageID # None
       THEN [kind |-> "image_id", id |-> observation.imageID]
       ELSE [kind |-> "mutable_tag", id |-> observation.reference]

\* The aliases of the artifact: the tags and the reference the container was run with.
AliasesOf(observation) == observation.tags \cup {observation.reference}

\* The revision NormalizeArtifact keeps once an invalid one is set aside.
DeclaredRevision(observation) ==
  IF observation.revision = Invalid THEN None ELSE observation.revision

\* Git is asked only about a valid revision of an unambiguous image.
NeedsLookup(observation, repositoryAvailable) ==
  /\ DeclaredRevision(observation) # None
  /\ ~DigestsConflict(observation)
  /\ repositoryAvailable

(***************************************************************************)
(* The revision state of the refresh loop.  A lookup is a record with      *)
(* outcome, sha and time: the commit Git returned, or why it returned none.*)
(***************************************************************************)
RevisionState(observation, repositoryAvailable, lookup) ==
  LET asked == NeedsLookup(observation, repositoryAvailable)
  IN  CASE observation.revision = Invalid -> "invalid"
        [] observation.revision = None    -> "not_applicable"
        [] DeclaredRevision(observation) # None /\ DigestsConflict(observation) ->
             "query_not_executed"
        [] asked /\ lookup.outcome = "commit" /\ lookup.sha = observation.revision ->
             "resolved"
        [] asked /\ lookup.outcome = "commit" /\ lookup.sha # observation.revision ->
             "mismatched"
        [] asked /\ lookup.outcome = "conflict"  -> "mismatched"
        [] asked /\ lookup.outcome = "not_found" -> "not_found"
        [] OTHER -> "source_unavailable"

ProvenanceInput(observation, repositoryAvailable, lookup) ==
  LET artifact == ArtifactOf(observation)
      state    == RevisionState(observation, repositoryAvailable, lookup)
  IN  [immutable   |-> IF artifact.kind = "mutable_tag" THEN None ELSE artifact.id,
       alias       |-> observation.reference,
       revision    |-> DeclaredRevision(observation),
       state       |-> state,
       resolvedSHA |-> IF state = "resolved" THEN lookup.sha ELSE None,
       conflict    |-> DigestsConflict(observation),
       createdAt   |-> observation.created,
       commitTime  |-> IF state = "resolved" THEN lookup.time ELSE None,
       observedAt  |-> observation.at]

\* The SnapshotItem appended for one observation.
SnapshotItem(observation, repositoryAvailable, lookup) ==
  LET in == ProvenanceInput(observation, repositoryAvailable, lookup)
  IN  [container |-> observation.container,
       at        |-> observation.at,
       service   |-> observation.service,
       metadata  |-> observation.metadata,
       artifact  |-> ArtifactOf(observation),
       image     |-> observation.imageID,
       reference |-> observation.reference,
       revision  |-> observation.revision,
       aliases   |-> AliasesOf(observation),
       commit    |-> in.resolvedSHA,
       result    |-> EvaluateProvenance(in)]
=============================================================================
