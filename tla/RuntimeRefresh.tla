--------------------------- MODULE RuntimeRefresh ---------------------------
(***************************************************************************)
(* One run of inventory.Refresher.Refresh: inspect Docker, find the Git    *)
(* repository, resolve each observation in turn, and only then hand one    *)
(* snapshot to the store.  Git may fail between any two lookups.           *)
(***************************************************************************)
EXTENDS RuntimeItems, Sequences

CONSTANTS Batches,  \* what InspectRuntime may return
          Lookups   \* what ResolveCommit may return

VARIABLES phase,       \* where the refresh is
          batch,       \* the Docker batch, None before it is read
          repository,  \* TRUE when the Git repository was found
          items,       \* the items built so far, in batch order
          lookups,     \* the lookup each of them was built from (history)
          saved        \* the snapshot handed to the store, None before
vars == <<phase, batch, repository, items, lookups, saved>>

Phases == {"inspect", "repository", "resolve", "save", "done", "failed"}

NoLookup == [outcome |-> "none", sha |-> None, time |-> None]

\* What a batch of Docker and an answer of Git are, as far as the proofs need it: a container
\* always has the reference it was run with, and a commit has a time.
RefreshAssumption ==
  /\ None \notin Int /\ None # Invalid /\ None \notin Batches
  /\ \A b \in Batches :
       /\ Len(b.observations) \in Nat
       /\ DOMAIN b.observations = 1..Len(b.observations)
       /\ b.observedAt \in Int
       /\ \A n \in DOMAIN b.observations :
            LET o == b.observations[n]
            IN  /\ IsFiniteSet(o.digests) /\ o.reference # None
                /\ o.at \in Int /\ o.created \in Int \cup {None}
  /\ \A l \in Lookups :
       /\ l.outcome \in {"commit", "conflict", "not_found", "unavailable"}
       /\ l.outcome = "commit" => l.time \in Int /\ l.sha # None

Init ==
  /\ phase = "inspect"
  /\ batch = None
  /\ repository = FALSE
  /\ items = <<>>
  /\ lookups = <<>>
  /\ saved = None

\* Any error or cancellation returns before the store is called.
Fail ==
  /\ phase \in {"inspect", "repository", "resolve", "save"}
  /\ phase' = "failed"
  /\ UNCHANGED <<batch, repository, items, lookups, saved>>

InspectRuntime ==
  /\ phase = "inspect"
  /\ \E b \in Batches : batch' = b
  /\ phase' = "repository"
  /\ UNCHANGED <<repository, items, lookups, saved>>

\* Not found and unavailable are warnings; the refresh goes on without Git.
FindRepository ==
  /\ phase = "repository"
  /\ repository' \in BOOLEAN
  /\ phase' = "resolve"
  /\ UNCHANGED <<batch, items, lookups, saved>>

\* One turn of the loop over batch.Observations.
ResolveObservation ==
  /\ phase = "resolve"
  /\ Len(items) < Len(batch.observations)
  /\ LET observation == batch.observations[Len(items) + 1]
     IN  \E lookup \in IF NeedsLookup(observation, repository)
                       THEN Lookups ELSE {NoLookup} :
           /\ items' = Append(items, SnapshotItem(observation, repository, lookup))
           /\ lookups' = Append(lookups, lookup)
  /\ UNCHANGED <<phase, batch, repository, saved>>

\* Wrong variant: the loop may be left before the last observation.
FinishLoopEarly ==
  /\ phase = "resolve"
  /\ phase' = "save"
  /\ UNCHANGED <<batch, repository, items, lookups, saved>>

FinishLoop ==
  /\ phase = "resolve"
  /\ Len(items) = Len(batch.observations)
  /\ phase' = "save"
  /\ UNCHANGED <<batch, repository, items, lookups, saved>>

\* snapshot.ObservedAt: the batch time, or a later observation's.
SnapshotTime ==
  LET times == {batch.observedAt} \cup {items[n].at : n \in DOMAIN items}
  IN  CHOOSE t \in times : \A u \in times : u <= t

SaveRuntimeSnapshot ==
  /\ phase = "save"
  /\ saved' = [observedAt |-> SnapshotTime,
               partial    |-> batch.rejected > 0,
               repository |-> repository,
               items      |-> items]
  /\ phase' = "done"
  /\ UNCHANGED <<batch, repository, items, lookups>>

Next ==
  \/ InspectRuntime
  \/ FindRepository
  \/ ResolveObservation
  \/ FinishLoop
  \/ SaveRuntimeSnapshot
  \/ Fail

Spec == Init /\ [][Next]_vars

-----------------------------------------------------------------------------
\* EXACT is never a guess: the running image has an immutable identity, Git
\* returned the very revision the image declares, before the image was built
\* as far as the timestamps say, and the commit is handed to the store.
ExactIsVerified ==
  \A n \in DOMAIN items :
    LET observation == batch.observations[n]
    IN  items[n].result.level = "EXACT" =>
          /\ items[n].artifact.kind # "mutable_tag"
          /\ Cardinality(observation.digests) <= 1
          /\ lookups[n].outcome = "commit"
          /\ lookups[n].sha = observation.revision
          /\ items[n].commit = observation.revision
          /\ observation.created # None =>
               /\ lookups[n].time <= observation.created
               /\ observation.created <= observation.at + MaxImageCreatedClockSkew

\* The level never exceeds a hard cap the same evaluation recorded.
LevelRespectsHardCaps ==
  \A n \in DOMAIN items : \A cap \in items[n].result.hardCaps :
    LevelRank[items[n].result.level] <= LevelRank[CapLevel(cap)]

\* The priority of what can be concluded from one observation: a contradiction outranks
\* every favourable conclusion, whichever answers Git gives on other occasions, and
\* one made while Git was unreachable outranks none made with an answer of it.
PriorityOrdersEvidence ==
  \A n \in DOMAIN items :
    LET result   == items[n].result
        others   == {SnapshotItem(batch.observations[n], TRUE, l).result : l \in Lookups}
        unlooked == SnapshotItem(batch.observations[n], FALSE, NoLookup).result
    IN  /\ DerivationPriority(unlooked) <= DerivationPriority(result)
        /\ result.contradictions # {} =>
             \A other \in others : other.contradictions = {} =>
               DerivationPriority(other) < DerivationPriority(result)

\* A level, and its priority among others, is earned by what was verified, whatever else
\* speaks for it.
LevelIsEarned == ExactIsVerified /\ LevelRespectsHardCaps /\ PriorityOrdersEvidence

\* What reaches the store is the whole batch: one item for each observation, a
\* repository whenever an item carries a commit, and a time not before any item.
SavedIsWholeBatch ==
  saved # None =>
    /\ Len(saved.items) = Len(batch.observations)
    /\ \A n \in DOMAIN saved.items :
         /\ saved.items[n].container = batch.observations[n].container
         /\ saved.items[n].at <= saved.observedAt
         /\ saved.items[n].commit # None => saved.repository
    /\ saved.partial <=> batch.rejected > 0

\* A refresh saves the whole batch or nothing, and each level in it, and its priority among
\* others, is earned by what Docker and Git said.
SavedIsEarned == SavedIsWholeBatch /\ LevelIsEarned
=============================================================================
