------------------------- MODULE MCRuntimeInventory -------------------------
(***************************************************************************)
(* Small instances of RuntimeInventory.  Every item is the SnapshotItem of *)
(* an observation and of an answer of Git, as a refresh makes them; the    *)
(* snapshots may be saved in any order and any number of times.            *)
(***************************************************************************)
EXTENDS RuntimeQueries, SequencesExt

R == INSTANCE RuntimeItems WITH MaxImageCreatedClockSkew <- 1

Observation(container, at, digests, imageID, reference) ==
  [container |-> container, at |-> at, service |-> IF container = "c3" THEN "web" ELSE "api",
   metadata |-> "running", reference |-> reference, imageID |-> imageID, digests |-> digests,
   tags |-> {1}, revision |-> "r1", created |-> None]

Found(sha)  == [outcome |-> "commit", sha |-> sha, time |-> 0]
Unavailable == [outcome |-> "unavailable", sha |-> None, time |-> None]
Absent      == [outcome |-> "not_found", sha |-> None, time |-> None]

MakeItem(observation, lookup) ==
  LET item == R!SnapshotItem(observation, TRUE, lookup)
  IN  [n \in DOMAIN item \ {"result"} |-> item[n]] @@
      [derivation |-> [artifact |-> item.artifact, commit |-> item.commit, result |-> item.result]]

\* A refresh, before its items are made: each container with what Git answered.
Refresh(at, partial, repository, seen) ==
  [observedAt |-> at, partial |-> partial, repository |-> repository, seen |-> seen]

\* A refresh of one container.
One(observation, lookup) ==
  Refresh(observation.at, FALSE, "repo", <<<<observation, lookup>>>>)

SnapshotsOf(refreshes) ==
  {[observedAt |-> r.observedAt, partial |-> r.partial, repository |-> r.repository,
    items |-> [n \in DOMAIN r.seen |-> MakeItem(r.seen[n][1], r.seen[n][2])]] : r \in refreshes}

-----------------------------------------------------------------------------
(* Arrivals: one alias moves between two images over four instants, seen   *)
(* through three containers, and the snapshots arrive in any order.        *)

Seen(container, at, image) ==
  <<Observation(container, at, {}, image, IF container = "c3" THEN 2 ELSE 1), Found("r1")>>

MCArrivals ==
  SnapshotsOf(
    {Refresh(1, FALSE, "repo", <<Seen("c1", 1, 1)>>),
     Refresh(2, FALSE, "repo", <<Seen("c1", 2, 2), Seen("c3", 2, 2)>>),
     Refresh(3, TRUE, "moved", <<Seen("c1", 3, 1)>>),
     Refresh(4, FALSE, "moved", <<Seen("c1", 4, 1), Seen("c3", 4, 1)>>),
     \* A registry digest known later for what ran at 2.
     One(Observation("c2", 2, {1}, 2, 1), Found("r1")),
     \* No container running, the Git repository not found.
     Refresh(3, FALSE, None, <<>>),
     Refresh(4, TRUE, None, <<>>)})

-----------------------------------------------------------------------------
(* Evidence: one container at one instant, described again and again with  *)
(* more evidence, less, or evidence that disagrees.                        *)

Tagged  == Observation("c1", 1, {}, None, 1)
Imaged  == Observation("c1", 1, {}, 1, 1)
Digest  == Observation("c1", 1, {1}, 1, 1)
Another == Observation("c2", 1, {1}, 1, 2)

MCEvidence ==
  SnapshotsOf(
    {One(Tagged, Found("r1")),
     One(Imaged, Unavailable),
     One(Imaged, Found("r1")),
     One(Imaged, Absent),
     One(Imaged, Found("r2")),
     One(Digest, Unavailable),
     \* Two digests of one image, another image, another digest, another state.
     One([Digest EXCEPT !.digests = {1, 2}], Absent),
     One([Imaged EXCEPT !.imageID = 2], Absent),
     One([Digest EXCEPT !.digests = {2}, !.imageID = None], Absent),
     \* Another container, whose image of the same reference declares another revision.
     One([Observation("c2", 1, {}, None, 1) EXCEPT !.revision = "r2"], Found("r2")),
     \* The second container of the batch is the one in conflict.
     Refresh(1, TRUE, "repo",
             <<<<Another, Found("r1")>>, <<[Imaged EXCEPT !.metadata = "exited"], Unavailable>>>>)})

-----------------------------------------------------------------------------
MCSnapshots == MCArrivals \cup MCEvidence

\* Every history of the one kind or of the other, and those of four snapshots of both.
FewTogether ==
  \/ \E S \in {MCArrivals, MCEvidence} : history \cup ({saving} \ {None}) \subseteq S
  \/ Cardinality(history) <= 4

MCItems == UNION {ToSet(s.items) : s \in MCSnapshots}

MCDerivations == {i.derivation : i \in MCItems}

MCPriority == [d \in MCDerivations |-> R!DerivationPriority(d.result)]

\* Any injective numbering stands for the hash.
MCFingerprint ==
  LET numbered[S \in SUBSET MCDerivations] ==
        IF S = {} THEN <<>>
        ELSE LET d == CHOOSE e \in S : TRUE
             IN  numbered[S \ {d}] @@ (d :> Cardinality(S))
  IN  numbered[MCDerivations]

MCArtifacts == [kind : {"repo_digest", "image_id", "mutable_tag"}, id : {1, 2}]
=============================================================================
