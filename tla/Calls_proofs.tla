------------------------------ MODULE Calls_proofs ------------------------------
(***************************************************************************)
(* Proofs about the calls, for every value of their constants: each        *)
(* component has an invariant of its own, which its steps keep, and a      *)
(* behaviour of Calls keeps them all.                                      *)
(***************************************************************************)
EXTENDS Calls, FiniteSetTheorems, SequenceTheorems, WellFoundedInduction, TLAPS

-----------------------------------------------------------------------------
(* The refresh: what it hands to the store is the whole batch, and each    *)
(* conclusion in it is earned.  Lemmas about the pure provenance algorithm *)
(* come first, for one observation and one lookup; the invariant then says *)
(* that every item was built from its observation and a lookup of it.      *)

\* An observation and an answer of Git as RefreshAssumption has them.
Observed(o) ==
  /\ IsFiniteSet(o.digests) /\ o.reference # None
  /\ o.at \in Int /\ o.created \in Int \cup {None}

Answered(l) ==
  \/ l = NoLookup
  \/ /\ l.outcome \in {"commit", "conflict", "not_found", "unavailable"}
     /\ l.outcome = "commit" => l.time \in Int /\ l.sha # None

\* The lookups from which the loop may build an item.
LookupsOf(o, available) == IF NeedsLookup(o, available) THEN Lookups ELSE {NoLookup}

\* The set of evidence is empty exactly when nothing contradicts.
Contradicting(in) ==
  \/ FutureCreated(in) \/ IdentityConflict(in)
  \/ RevisionDeclared(in) /\ in.state = "mismatched"
  \/ RevisionDeclared(in) /\ in.state = "resolved" /\ ~CommitResolved(in)
  \/ CommitAfterImage(in)

\* Contradictions is not empty exactly when one of the five checks of the code contradicts.
LEMMA ContradictedMeans ==
  ASSUME NEW in
  PROVE  Contradictions(in) # {} <=> Contradicting(in)
<1>1. ASSUME Contradictions(in) # {} PROVE Contradicting(in)
  <2>1. PICK c : c \in Contradictions(in)
    BY <1>1
  <2>. QED  BY <2>1 DEF Contradictions, Contradicting
<1>2. FutureCreated(in) => "future_image_creation" \in Contradictions(in)
  BY DEF Contradictions
<1>3. IdentityConflict(in) => "identity_contradiction" \in Contradictions(in)
  BY DEF Contradictions
<1>4. RevisionDeclared(in) /\ in.state = "mismatched"
        => "revision_mismatch" \in Contradictions(in)
  BY DEF Contradictions
<1>5. RevisionDeclared(in) /\ in.state = "resolved" /\ ~CommitResolved(in)
        => "invalid_resolution_result" \in Contradictions(in)
  BY DEF Contradictions
<1>6. CommitAfterImage(in) => "commit_after_image" \in Contradictions(in)
  BY DEF Contradictions
<1>. QED  BY <1>1, <1>2, <1>3, <1>4, <1>5, <1>6 DEF Contradicting

\* The fields of what is built from one observation, under names of their own.
LEMMA ItemMeans ==
  ASSUME NEW o, NEW available, NEW l
  PROVE  LET in   == ProvenanceInput(o, available, l)
             item == SnapshotItem(o, available, l)
         IN  /\ item.container = o.container /\ item.at = o.at
             /\ item.artifact = ArtifactOf(o)
             /\ item.commit = in.resolvedSHA
             /\ item.result.level = Level(in)
             /\ item.result.contradictions = Contradictions(in)
             /\ item.result.hardCaps = Contradictions(in) \cup WeaknessCaps(in)
             /\ item.result.attempts = {in.state} \ {"not_applicable"}
BY DEF SnapshotItem, EvaluateProvenance

\* The fields of the input, under names of their own.
LEMMA InputMeans ==
  ASSUME NEW o, NEW available, NEW l
  PROVE  LET in    == ProvenanceInput(o, available, l)
             state == RevisionState(o, available, l)
         IN  /\ in.immutable = (IF ArtifactOf(o).kind = "mutable_tag"
                                THEN None ELSE ArtifactOf(o).id)
             /\ in.alias = o.reference
             /\ in.revision = DeclaredRevision(o)
             /\ in.state = state
             /\ in.resolvedSHA = (IF state = "resolved" THEN l.sha ELSE None)
             /\ in.conflict = DigestsConflict(o)
             /\ in.createdAt = o.created
             /\ in.commitTime = (IF state = "resolved" THEN l.time ELSE None)
             /\ in.observedAt = o.at
BY DEF ProvenanceInput

\* A revision is resolved only when Git was asked and returned that very revision.
LEMMA StateMeans ==
  ASSUME RefreshAssumption, NEW o, NEW available \in BOOLEAN,
         NEW l \in LookupsOf(o, available)
  PROVE  LET state == RevisionState(o, available, l)
         IN  /\ state \in {"invalid", "not_applicable", "query_not_executed",
                           "source_unavailable", "resolved", "mismatched", "not_found"}
             /\ state = "resolved" =>
                  /\ NeedsLookup(o, available)
                  /\ l.outcome = "commit" /\ l.sha = o.revision
             /\ o.revision = Invalid <=> state = "invalid"
             /\ o.revision = None <=> state = "not_applicable"
<1>1. CASE NeedsLookup(o, available)
  <2>1. l.outcome \in {"commit", "conflict", "not_found", "unavailable"}
    BY <1>1 DEF RefreshAssumption, LookupsOf
  <2>. QED  BY <1>1, <2>1 DEF RevisionState, NeedsLookup, DeclaredRevision, RefreshAssumption
<1>2. CASE ~NeedsLookup(o, available)
  BY <1>2 DEF RevisionState, NeedsLookup, DeclaredRevision, RefreshAssumption
<1>. QED  BY <1>1, <1>2

\* Without a repository the state is that of the observation, or that Git was not reached.
LEMMA UnlookedState ==
  ASSUME RefreshAssumption, NEW o, NEW available \in BOOLEAN,
         NEW l \in LookupsOf(o, available)
  PROVE  LET state    == RevisionState(o, available, l)
             unlooked == RevisionState(o, FALSE, NoLookup)
         IN  unlooked = state \/
             /\ unlooked = "source_unavailable"
             /\ DeclaredRevision(o) # None /\ ~DigestsConflict(o)
             /\ o.revision # Invalid
<1>1. CASE DeclaredRevision(o) # None /\ ~DigestsConflict(o)
  BY <1>1 DEF RevisionState, NeedsLookup, DeclaredRevision, RefreshAssumption
<1>2. CASE o.revision = Invalid
  BY <1>2 DEF RevisionState, NeedsLookup, DeclaredRevision, RefreshAssumption
<1>3. CASE o.revision = None
  BY <1>3 DEF RevisionState, NeedsLookup, DeclaredRevision, RefreshAssumption
<1>4. CASE DeclaredRevision(o) # None /\ DigestsConflict(o)
  BY <1>4 DEF RevisionState, NeedsLookup, DeclaredRevision, RefreshAssumption
<1>. QED  BY <1>1, <1>2, <1>3, <1>4 DEF DeclaredRevision

\* What is EXACT has an immutable identity and a commit Git returned, in order of time.
LEMMA ExactMeans ==
  ASSUME SkewAssumption, RefreshAssumption, NEW o, Observed(o),
         NEW available \in BOOLEAN, NEW l \in LookupsOf(o, available),
         Level(ProvenanceInput(o, available, l)) = "EXACT"
  PROVE  /\ ArtifactOf(o).kind # "mutable_tag"
         /\ Cardinality(o.digests) <= 1
         /\ l.outcome = "commit" /\ l.sha = o.revision
         /\ ProvenanceInput(o, available, l).resolvedSHA = o.revision
         /\ o.created # None =>
              /\ l.time <= o.created
              /\ o.created <= o.at + MaxImageCreatedClockSkew
<1>. DEFINE in == ProvenanceInput(o, available, l)
            state == RevisionState(o, available, l)
<1>1. /\ in.immutable = (IF ArtifactOf(o).kind = "mutable_tag" THEN None ELSE ArtifactOf(o).id)
      /\ in.state = state /\ in.conflict = DigestsConflict(o)
      /\ in.resolvedSHA = (IF state = "resolved" THEN l.sha ELSE None)
      /\ in.commitTime = (IF state = "resolved" THEN l.time ELSE None)
      /\ in.createdAt = o.created /\ in.observedAt = o.at
  BY InputMeans
<1>2. state = "resolved" => l.outcome = "commit" /\ l.sha = o.revision
                            /\ NeedsLookup(o, available)
  BY StateMeans
<1>. HIDE DEF in, state
<1>3. RevisionDeclared(in) /\ Contradictions(in) = {} /\ CommitResolved(in)
        /\ in.immutable # None
  BY DEF Level, in
<1>4. state = "resolved"
  BY <1>1, <1>3 DEF CommitResolved
<1>5. ~FutureCreated(in) /\ ~IdentityConflict(in) /\ ~CommitAfterImage(in)
  BY <1>3, ContradictedMeans DEF Contradicting
<1>6. Cardinality(o.digests) <= 1
  <2>1. Cardinality(o.digests) \in Nat
    BY FS_CardinalityType DEF Observed
  <2>2. ~in.conflict
    BY <1>5 DEF IdentityConflict
  <2>3. ~DigestsConflict(o)
    BY <1>1, <2>2, Zenon
  <2>. QED  BY <2>1, <2>3 DEF DigestsConflict
<1>7. l.time \in Int
  BY <1>2, <1>4 DEF LookupsOf, RefreshAssumption
<1>8. ASSUME o.created # None
      PROVE  l.time <= o.created /\ o.created <= o.at + MaxImageCreatedClockSkew
  <2>1. o.created \in Int /\ o.at \in Int
    BY <1>8 DEF Observed
  <2>2. in.createdAt = o.created /\ in.commitTime = l.time /\ in.observedAt = o.at
    BY <1>1, <1>4
  <2>3. in.commitTime # None
    BY <1>7, <2>2 DEF RefreshAssumption
  <2>4. ~(l.time > o.created)
    BY <1>3, <1>5, <1>8, <2>2, <2>3 DEF CommitAfterImage
  <2>5. ~(o.created > o.at + MaxImageCreatedClockSkew)
    BY <1>5, <1>8, <2>2 DEF FutureCreated
  <2>. QED  BY <1>7, <2>1, <2>4, <2>5 DEF SkewAssumption
<1>. QED  BY <1>1, <1>2, <1>3, <1>4, <1>6, <1>8 DEF in

\* A level that is not UNKNOWN contradicts nothing and, without an immutable identity, is LOW.
LEMMA LevelMeans ==
  ASSUME NEW in
  PROVE  /\ Level(in) \in {"EXACT", "LOW", "UNKNOWN"}
         /\ Level(in) = "EXACT" => in.immutable # None
         /\ Contradicting(in) => Level(in) = "UNKNOWN"
         /\ RevisionInvalid(in) => Level(in) = "UNKNOWN"
         /\ RevisionDeclared(in) /\ in.state # "resolved" => Level(in) = "UNKNOWN"
         /\ RevisionAbsent(in) /\ (in.immutable # None \/ in.alias = None)
              => Level(in) = "UNKNOWN"
<1>1. Contradicting(in) => Level(in) = "UNKNOWN"
  BY ContradictedMeans
  DEF Level, Contradicting, IdentityConflict, CommitAfterImage, CommitResolved,
      RevisionDeclared, RevisionAbsent
<1>2. RevisionInvalid(in) => Level(in) = "UNKNOWN"
  BY DEF Level, RevisionInvalid, RevisionDeclared, RevisionAbsent
<1>3. RevisionDeclared(in) /\ in.state # "resolved" => Level(in) = "UNKNOWN"
  BY DEF Level, CommitResolved
<1>4. RevisionAbsent(in) => ~RevisionDeclared(in)
  BY DEF RevisionAbsent, RevisionDeclared
<1>5. RevisionAbsent(in) /\ (in.immutable # None \/ in.alias = None) => Level(in) = "UNKNOWN"
  BY <1>4 DEF Level
<1>6. Level(in) \in {"EXACT", "LOW", "UNKNOWN"}
  BY DEF Level
<1>7. Level(in) = "EXACT" => in.immutable # None
  BY DEF Level
<1>. QED  BY <1>1, <1>2, <1>3, <1>5, <1>6, <1>7

\* No cap recorded of one observation is exceeded, an alias being always known.
LEMMA CapsHold ==
  ASSUME NEW in, in.alias # None, NEW cap \in Contradictions(in) \cup WeaknessCaps(in)
  PROVE  LevelRank[Level(in)] <= LevelRank[CapLevel(cap)]
<1>1. CASE cap = "mutable_artifact_identity"
  <2>1. in.immutable = None
    BY <1>1 DEF Contradictions, WeaknessCaps
  <2>2. Level(in) \in {"LOW", "UNKNOWN"}
    BY <2>1, LevelMeans
  <2>. QED  BY <1>1, <2>2 DEF LevelRank, CapLevel
<1>2. CASE cap # "mutable_artifact_identity"
  <2>1. CASE cap \in Contradictions(in)
    <3>1. Contradicting(in)
      BY <2>1, ContradictedMeans
    <3>. QED  BY <3>1, LevelMeans, <1>2 DEF LevelRank, CapLevel
  <2>2. CASE cap \in WeaknessCaps(in)
    <3>1. \/ RevisionInvalid(in)
          \/ RevisionDeclared(in) /\ in.state # "resolved"
          \/ RevisionAbsent(in) /\ (in.immutable # None \/ in.alias = None)
      BY <1>2, <2>2 DEF WeaknessCaps
    <3>2. Level(in) = "UNKNOWN"
      BY <3>1, LevelMeans
    <3>. QED  BY <3>2, <1>2 DEF LevelRank, CapLevel
  <2>. QED  BY <2>1, <2>2
<1>. QED  BY <1>1, <1>2

\* The priority in the terms of each of its cases.
LEMMA PriorityMeans ==
  ASSUME NEW r
  PROVE  /\ r.contradictions # {} => DerivationPriority(r) = 400
         /\ r.contradictions = {} => DerivationPriority(r) \in {0, 100, 200, 300}
         /\ /\ r.contradictions = {} /\ r.level = "UNKNOWN"
            /\ r.attempts \cap {"source_unavailable", "query_not_executed"} # {}
            => DerivationPriority(r) = 0
BY DEF DerivationPriority

\* Without a repository a conclusion never ranks above what an answer of Git would make it.
LEMMA UnlookedRanksLowest ==
  ASSUME RefreshAssumption, NEW o, NEW available \in BOOLEAN,
         NEW l \in LookupsOf(o, available)
  PROVE  DerivationPriority(SnapshotItem(o, FALSE, NoLookup).result)
           <= DerivationPriority(SnapshotItem(o, available, l).result)
<1>. DEFINE in == ProvenanceInput(o, available, l)
            un == ProvenanceInput(o, FALSE, NoLookup)
            result == SnapshotItem(o, available, l).result
            unlooked == SnapshotItem(o, FALSE, NoLookup).result
<1>. SUFFICES DerivationPriority(unlooked) <= DerivationPriority(result)
  BY Zenon
<1>1. /\ unlooked.level = Level(un) /\ unlooked.contradictions = Contradictions(un)
      /\ unlooked.attempts = {un.state} \ {"not_applicable"}
      /\ result.contradictions = Contradictions(in)
  BY DEF SnapshotItem, EvaluateProvenance
<1>2. in = un => result = unlooked
  BY DEF SnapshotItem
<1>3. /\ un.state = RevisionState(o, FALSE, NoLookup) /\ un.revision = DeclaredRevision(o)
      /\ un.conflict = DigestsConflict(o)
      /\ un.createdAt = in.createdAt /\ un.observedAt = in.observedAt
  BY DEF ProvenanceInput
<1>4. /\ RevisionState(o, FALSE, NoLookup) = RevisionState(o, available, l)
      /\ RevisionState(o, FALSE, NoLookup) # "resolved"
      => in = un
  BY DEF ProvenanceInput
<1>. HIDE DEF in, un, result, unlooked
<1>5. DerivationPriority(result) \in {0, 100, 200, 300, 400}
  BY PriorityMeans
<1>6. CASE RevisionState(o, FALSE, NoLookup) = RevisionState(o, available, l)
  <2>1. RevisionState(o, FALSE, NoLookup) # "resolved"
    <3>1. NoLookup \in LookupsOf(o, FALSE)
      BY DEF LookupsOf, NeedsLookup
    <3>. QED  BY <3>1, StateMeans DEF NeedsLookup
  <2>2. result = unlooked
    BY <1>6, <1>2, <1>4, <2>1
  <2>. QED  BY <1>5, <2>2
<1>7. CASE /\ RevisionState(o, FALSE, NoLookup) = "source_unavailable"
           /\ DeclaredRevision(o) # None /\ ~DigestsConflict(o)
           /\ o.revision # Invalid
  <2>1. ~un.conflict
    BY <1>7, <1>3, Zenon
  <2>2. RevisionDeclared(un)
    BY <1>7, <1>3, <2>1 DEF RevisionDeclared
  <2>3. Level(un) = "UNKNOWN"
    BY <1>7, <1>3, <2>2, LevelMeans
  <2>4. CASE FutureCreated(un)
    <3>1. FutureCreated(in)
      BY <1>3, <2>4 DEF FutureCreated
    <3>2. Contradictions(in) # {} /\ Contradictions(un) # {}
      BY <3>1, <2>4, ContradictedMeans DEF Contradicting
    <3>. QED  BY <1>1, <3>2, PriorityMeans
  <2>5. CASE ~FutureCreated(un)
    <3>1. ~Contradicting(un)
      BY <1>7, <1>3, <2>1, <2>5
      DEF Contradicting, IdentityConflict, CommitAfterImage, CommitResolved
    <3>2. Contradictions(un) = {}
      BY <3>1, ContradictedMeans
    <3>3. "source_unavailable" \in unlooked.attempts
      BY <1>7, <1>3, <1>1
    <3>4. unlooked.attempts \cap {"source_unavailable", "query_not_executed"} # {}
      BY <3>3
    <3>5. DerivationPriority(unlooked) = 0
      BY <1>1, <2>3, <3>2, <3>4, PriorityMeans
    <3>. QED  BY <1>5, <3>5
  <2>. QED  BY <2>4, <2>5
<1>. QED  BY <1>6, <1>7, UnlookedState

-----------------------------------------------------------------------------
(* The invariant *)

AnswersOfGit == Lookups \cup {NoLookup}

Built == {SnapshotItem(b.observations[n], available, l) :
            b \in Batches, n \in Nat, available \in BOOLEAN, l \in AnswersOfGit}

TypeOK ==
  /\ phase \in Phases
  /\ batch \in Batches \cup {None}
  /\ repository \in BOOLEAN
  /\ items \in Seq(Built)
  /\ lookups \in Seq(AnswersOfGit)

\* Items are built in the phase of the loop, and the phases after it have all of them.
PhaseOK ==
  /\ Len(lookups) = Len(items)
  /\ (phase \in {"inspect", "repository"} \/ batch = None) => items = <<>>
  /\ phase \in {"repository", "resolve", "save", "done"} => batch # None
  /\ phase \in {"save", "done"} => Len(items) = Len(batch.observations)

\* Each item comes from its observation and a lookup of it.
ItemsOK ==
  batch # None =>
    /\ Len(items) <= Len(batch.observations)
    /\ \A n \in 1..Len(items) :
         /\ lookups[n] \in LookupsOf(batch.observations[n], repository)
         /\ items[n] = SnapshotItem(batch.observations[n], repository, lookups[n])

\* The times among which that of the snapshot is chosen have a latest.
Times == {batch.observedAt} \cup {items[n].at : n \in DOMAIN items}

LatestOK == batch # None => \E t \in Times : t \in Int /\ \A u \in Times : u \in Int /\ u <= t

SavedOK ==
  saved # None =>
    /\ phase = "done"
    /\ saved = [observedAt |-> SnapshotTime, partial |-> batch.rejected > 0,
                repository |-> repository, items |-> items]

IInv == TypeOK /\ PhaseOK /\ ItemsOK /\ LatestOK /\ SavedOK

\* Nothing is there before Docker was asked.
LEMMA InitInv == Init => IInv
<1>. SUFFICES ASSUME Init PROVE IInv
  OBVIOUS
<1>1. TypeOK
  <2>1. items \in Seq(Built) /\ lookups \in Seq(AnswersOfGit)
    BY EmptySeq DEF Init
  <2>. QED  BY <2>1 DEF Init, TypeOK, Phases
<1>2. PhaseOK
  BY DEF Init, PhaseOK
<1>3. ItemsOK /\ LatestOK /\ SavedOK
  BY DEF Init, ItemsOK, LatestOK, SavedOK
<1>. QED  BY <1>1, <1>2, <1>3 DEF IInv

\* A turn of the loop keeps the items built before it and adds that of the next observation.
LEMMA ResolveStep ==
  ASSUME RefreshAssumption, IInv, ResolveObservation
  PROVE  IInv'
<1>. DEFINE o == batch.observations[Len(items) + 1]
<1>1. PICK l \in LookupsOf(o, repository) :
        /\ items' = Append(items, SnapshotItem(o, repository, l))
        /\ lookups' = Append(lookups, l)
  BY DEF ResolveObservation, LookupsOf
<1>2. /\ phase = "resolve" /\ Len(items) < Len(batch.observations)
      /\ UNCHANGED <<phase, batch, repository, saved>>
  BY DEF ResolveObservation
<1>3. /\ batch \in Batches /\ batch # None
      /\ items \in Seq(Built) /\ lookups \in Seq(AnswersOfGit) /\ Len(lookups) = Len(items)
      /\ repository \in BOOLEAN /\ Len(items) \in Nat /\ Len(batch.observations) \in Nat
  BY <1>2, LenProperties DEF IInv, TypeOK, PhaseOK, RefreshAssumption
<1>4. l \in AnswersOfGit
  BY <1>1 DEF LookupsOf, AnswersOfGit
<1>5. SnapshotItem(o, repository, l) \in Built
  <2>1. PICK n \in Nat : o = batch.observations[n]
    BY <1>3
  <2>2. SnapshotItem(batch.observations[n], repository, l) \in Built
    BY <1>3, <1>4 DEF Built
  <2>. QED  BY <2>1, <2>2
<1>6. TypeOK'
  <2>1. items' \in Seq(Built)
    BY <1>1, <1>3, <1>5, AppendProperties
  <2>2. lookups' \in Seq(AnswersOfGit)
    BY <1>1, <1>3, <1>4, AppendProperties
  <2>. QED  BY <1>2, <2>1, <2>2 DEF IInv, TypeOK
<1>7. Len(items') = Len(items) + 1 /\ Len(lookups') = Len(items) + 1
  BY <1>1, <1>3, <1>4, <1>5, AppendProperties
<1>8. PhaseOK'
  BY <1>2, <1>3, <1>7 DEF PhaseOK
<1>9. ItemsOK'
  <2>1. ASSUME NEW n \in 1..Len(items')
        PROVE  /\ lookups'[n] \in LookupsOf(batch.observations[n], repository)
               /\ items'[n] = SnapshotItem(batch.observations[n], repository, lookups'[n])
    <3>1. CASE n = Len(items) + 1
      <4>1. items'[n] = SnapshotItem(o, repository, l) /\ lookups'[n] = l
        BY <1>1, <1>3, <1>4, <1>5, <3>1, AppendProperties
      <4>. QED  BY <1>1, <3>1, <4>1
    <3>2. CASE n \in 1..Len(items)
      <4>1. items'[n] = items[n] /\ lookups'[n] = lookups[n]
        BY <1>1, <1>3, <1>4, <1>5, <3>2, AppendProperties
      <4>. QED  BY <1>3, <3>2, <4>1 DEF IInv, ItemsOK
    <3>. QED  BY <1>3, <1>7, <3>1, <3>2
  <2>. QED  BY <1>2, <1>3, <1>7, <2>1 DEF ItemsOK
<1>10. LatestOK'
  <2>1. PICK t \in Times : t \in Int /\ \A u \in Times : u \in Int /\ u <= t
    BY <1>3 DEF IInv, LatestOK
  <2>2. o.at \in Int
    <3>1. Len(items) + 1 \in DOMAIN batch.observations
      BY <1>2, <1>3 DEF RefreshAssumption
    <3>. QED  BY <1>3, <3>1 DEF RefreshAssumption
  <2>3. Times' = Times \cup {o.at}
    <3>1. SnapshotItem(o, repository, l).at = o.at
      BY DEF SnapshotItem
    <3>2. DOMAIN items = 1..Len(items) /\ DOMAIN items' = 1..(Len(items) + 1)
      BY <1>3, <1>6, <1>7, LenProperties DEF TypeOK
    <3>3. \A n \in DOMAIN items : items'[n] = items[n]
      BY <1>1, <1>3, <1>5, <3>2, AppendProperties
    <3>4. items'[Len(items) + 1] = SnapshotItem(o, repository, l)
      BY <1>1, <1>3, <1>5, AppendProperties
    <3>5. DOMAIN items' = DOMAIN items \cup {Len(items) + 1}
      BY <1>3, <3>2
    <3>. QED  BY <1>2, <3>1, <3>3, <3>4, <3>5 DEF Times
  <2>4. CASE o.at <= t
    BY <2>1, <2>2, <2>3, <2>4 DEF LatestOK
  <2>5. CASE ~(o.at <= t)
    <3>1. \A u \in Times' : u \in Int /\ u <= o.at
      BY <2>1, <2>2, <2>3, <2>5
    <3>. QED  BY <2>2, <2>3, <3>1 DEF LatestOK
  <2>. QED  BY <2>4, <2>5
<1>11. SavedOK'
  BY <1>2 DEF IInv, SavedOK
<1>. QED  BY <1>6, <1>8, <1>9, <1>10, <1>11 DEF IInv

\* Every other step leaves the items as they are.
LEMMA StepInv ==
  ASSUME RefreshAssumption, IInv, [Next]_vars
  PROVE  IInv'
<1>. USE DEF IInv
<1>1. CASE InspectRuntime
  <2>1. items = <<>> /\ Len(items) = 0 /\ DOMAIN items = {} /\ saved = None
    BY <1>1 DEF InspectRuntime, PhaseOK, SavedOK
  <2>2. batch' \in Batches /\ batch' # None /\ batch'.observedAt \in Int
        /\ Len(batch'.observations) \in Nat
    BY <1>1 DEF InspectRuntime, RefreshAssumption
  <2>3. Times' = {batch'.observedAt}
    BY <1>1, <2>1 DEF InspectRuntime, Times
  <2>4. LatestOK'
    BY <2>2, <2>3 DEF LatestOK
  <2>. QED  BY <1>1, <2>1, <2>2, <2>4 DEF InspectRuntime, TypeOK, PhaseOK, ItemsOK, SavedOK, Phases
<1>2. CASE FindRepository
  <2>1. items = <<>> /\ Len(items) = 0 /\ saved = None /\ UNCHANGED <<batch, items, lookups, saved>>
    BY <1>2 DEF FindRepository, PhaseOK, SavedOK
  <2>2. LatestOK'
    BY <2>1 DEF LatestOK, Times
  <2>. QED  BY <1>2, <2>1, <2>2 DEF FindRepository, TypeOK, PhaseOK, ItemsOK, SavedOK, Phases
<1>3. CASE ResolveObservation
  BY <1>3, ResolveStep
<1>4. CASE FinishLoop
  <2>1. LatestOK'
    BY <1>4 DEF FinishLoop, LatestOK, Times
  <2>. QED  BY <1>4, <2>1 DEF FinishLoop, TypeOK, PhaseOK, ItemsOK, SavedOK, Phases
<1>5. CASE SaveRuntimeSnapshot
  <2>1. LatestOK'
    BY <1>5 DEF SaveRuntimeSnapshot, LatestOK, Times
  <2>2. SavedOK'
    BY <1>5 DEF SaveRuntimeSnapshot, SavedOK, SnapshotTime
  <2>. QED  BY <1>5, <2>1, <2>2 DEF SaveRuntimeSnapshot, TypeOK, PhaseOK, ItemsOK, Phases
<1>6. CASE Fail
  <2>1. LatestOK' /\ saved = None
    BY <1>6 DEF Fail, LatestOK, Times, SavedOK
  <2>. QED  BY <1>6, <2>1 DEF Fail, TypeOK, PhaseOK, ItemsOK, SavedOK, Phases
<1>7. CASE UNCHANGED vars
  BY <1>7 DEF vars, TypeOK, PhaseOK, ItemsOK, LatestOK, Times, SavedOK, SnapshotTime
<1>. QED  BY <1>1, <1>2, <1>3, <1>4, <1>5, <1>6, <1>7 DEF Next

-----------------------------------------------------------------------------
(* The theorem *)

\* An item of the invariant satisfies what SavedIsEarned asks of each item.
LEMMA ItemFacts ==
  ASSUME RefreshAssumption, IInv, batch # None, NEW n \in DOMAIN items
  PROVE  LET o == batch.observations[n]
         IN  /\ n \in 1..Len(items) /\ n \in DOMAIN lookups
             /\ n \in DOMAIN batch.observations
             /\ Observed(o) /\ lookups[n] \in LookupsOf(o, repository)
             /\ items[n] = SnapshotItem(o, repository, lookups[n])
             /\ repository \in BOOLEAN
<1>1. /\ n \in 1..Len(items) /\ Len(items) \in Nat /\ Len(lookups) = Len(items)
      /\ batch \in Batches /\ repository \in BOOLEAN
      /\ DOMAIN lookups = 1..Len(items)
  BY LenProperties DEF IInv, TypeOK, PhaseOK
<1>2. Len(batch.observations) \in Nat
      /\ DOMAIN batch.observations = 1..Len(batch.observations)
  BY <1>1 DEF RefreshAssumption
<1>3. n \in DOMAIN batch.observations
  BY <1>1, <1>2 DEF IInv, ItemsOK
<1>4. Observed(batch.observations[n])
  BY <1>1, <1>3 DEF RefreshAssumption, Observed
<1>. QED  BY <1>1, <1>3, <1>4 DEF IInv, ItemsOK

\* The level of each item is earned.
LEMMA LevelInv ==
  ASSUME SkewAssumption, RefreshAssumption, IInv
  PROVE  LevelIsEarned
<1>. SUFFICES ASSUME NEW n \in DOMAIN items
     PROVE  LET o    == batch.observations[n]
                item == items[n]
            IN  /\ item.result.level = "EXACT" =>
                     /\ item.artifact.kind # "mutable_tag"
                     /\ Cardinality(o.digests) <= 1
                     /\ lookups[n].outcome = "commit" /\ lookups[n].sha = o.revision
                     /\ item.commit = o.revision
                     /\ o.created # None =>
                          /\ lookups[n].time <= o.created
                          /\ o.created <= o.at + MaxImageCreatedClockSkew
                /\ \A cap \in item.result.hardCaps :
                     LevelRank[item.result.level] <= LevelRank[CapLevel(cap)]
                /\ LET others   == {SnapshotItem(o, TRUE, l).result : l \in Lookups}
                       unlooked == SnapshotItem(o, FALSE, NoLookup).result
                   IN  /\ DerivationPriority(unlooked) <= DerivationPriority(item.result)
                       /\ item.result.contradictions # {} =>
                            \A other \in others : other.contradictions = {} =>
                              DerivationPriority(other) < DerivationPriority(item.result)
  BY DEF LevelIsEarned, ExactIsVerified, LevelRespectsHardCaps, PriorityOrdersEvidence
<1>. DEFINE o == batch.observations[n]
            l == lookups[n]
            in == ProvenanceInput(o, repository, l)
<1>1. batch # None
  BY DEF IInv, PhaseOK
<1>2. /\ Observed(o) /\ l \in LookupsOf(o, repository) /\ repository \in BOOLEAN
      /\ items[n] = SnapshotItem(o, repository, l)
  BY <1>1, ItemFacts
<1>3. /\ items[n].artifact = ArtifactOf(o) /\ items[n].commit = in.resolvedSHA
      /\ items[n].result.level = Level(in)
      /\ items[n].result.contradictions = Contradictions(in)
      /\ items[n].result.hardCaps = Contradictions(in) \cup WeaknessCaps(in)
      /\ in.alias = o.reference
  BY <1>2, ItemMeans, InputMeans
<1>. HIDE DEF o, l, in
<1>4. ASSUME items[n].result.level = "EXACT"
      PROVE  /\ items[n].artifact.kind # "mutable_tag"
             /\ Cardinality(o.digests) <= 1
             /\ l.outcome = "commit" /\ l.sha = o.revision
             /\ items[n].commit = o.revision
             /\ o.created # None =>
                  /\ l.time <= o.created
                  /\ o.created <= o.at + MaxImageCreatedClockSkew
  <2>1. Level(ProvenanceInput(o, repository, l)) = "EXACT"
    BY <1>3, <1>4 DEF in
  <2>2. /\ ArtifactOf(o).kind # "mutable_tag" /\ Cardinality(o.digests) <= 1
        /\ l.outcome = "commit" /\ l.sha = o.revision
        /\ ProvenanceInput(o, repository, l).resolvedSHA = o.revision
        /\ o.created # None =>
             /\ l.time <= o.created /\ o.created <= o.at + MaxImageCreatedClockSkew
    BY <1>2, <2>1, ExactMeans
  <2>3. items[n].commit = ProvenanceInput(o, repository, l).resolvedSHA
    BY <1>3 DEF in
  <2>. QED  BY <1>3, <2>2, <2>3
<1>5. ASSUME NEW cap \in items[n].result.hardCaps
      PROVE  LevelRank[items[n].result.level] <= LevelRank[CapLevel(cap)]
  <2>1. in.alias # None
    BY <1>2, <1>3 DEF Observed
  <2>. QED  BY <1>3, <2>1, CapsHold
<1>6. DerivationPriority(SnapshotItem(o, FALSE, NoLookup).result)
        <= DerivationPriority(items[n].result)
  BY <1>2, UnlookedRanksLowest
<1>7. ASSUME items[n].result.contradictions # {}, NEW m \in Lookups,
             SnapshotItem(o, TRUE, m).result.contradictions = {}
      PROVE  DerivationPriority(SnapshotItem(o, TRUE, m).result)
               < DerivationPriority(items[n].result)
  <2>. DEFINE other == SnapshotItem(o, TRUE, m).result
  <2>1. other.contradictions = {}
    BY <1>7, Zenon
  <2>. SUFFICES DerivationPriority(other) < DerivationPriority(items[n].result)
    BY Zenon
  <2>. HIDE DEF other
  <2>2. DerivationPriority(items[n].result) = 400
    BY <1>7, PriorityMeans
  <2>3. DerivationPriority(other) \in {0, 100, 200, 300}
    BY <2>1, PriorityMeans
  <2>. QED  BY <2>2, <2>3
<1>. QED  BY <1>4, <1>5, <1>6, <1>7 DEF o, l

\* What has been saved is the whole batch.
LEMMA SavedInv ==
  ASSUME RefreshAssumption, IInv
  PROVE  SavedIsWholeBatch
<1>. SUFFICES ASSUME saved # None PROVE SavedIsWholeBatch
  BY DEF SavedIsWholeBatch
<1>1. /\ phase = "done" /\ batch # None /\ Len(items) = Len(batch.observations)
      /\ saved = [observedAt |-> SnapshotTime, partial |-> batch.rejected > 0,
                  repository |-> repository, items |-> items]
  BY DEF IInv, SavedOK, PhaseOK
<1>2. SnapshotTime \in Times /\ \A u \in Times : u <= SnapshotTime
  <2>1. SnapshotTime = CHOOSE t \in Times : \A u \in Times : u <= t
    BY DEF SnapshotTime, Times
  <2>2. \E t \in Times : \A u \in Times : u <= t
    BY <1>1 DEF IInv, LatestOK
  <2>. QED  BY <2>1, <2>2
<1>3. ASSUME NEW n \in DOMAIN items
      PROVE  /\ items[n].container = batch.observations[n].container
             /\ items[n].at <= SnapshotTime
             /\ items[n].commit # None => repository
  <2>. DEFINE o == batch.observations[n]
              state == RevisionState(o, repository, lookups[n])
  <2>1. /\ lookups[n] \in LookupsOf(o, repository) /\ repository \in BOOLEAN
        /\ items[n] = SnapshotItem(o, repository, lookups[n])
    BY <1>1, ItemFacts
  <2>2. /\ items[n].container = o.container
        /\ items[n].commit = (IF state = "resolved" THEN lookups[n].sha ELSE None)
    BY <2>1, ItemMeans, InputMeans
  <2>3. items[n].at \in Times
    BY DEF Times
  <2>4. state = "resolved" => repository
    BY <2>1, StateMeans DEF NeedsLookup
  <2>. QED  BY <1>2, <2>2, <2>3, <2>4
<1>. QED  BY <1>1, <1>3 DEF SavedIsWholeBatch

\* Whatever the batch and the answers of Git: a refresh hands the store the whole batch or
\* nothing, and every level in it, and its priority, is earned (inventory.Refresher.Refresh
\* and correlation.EvaluateProvenance).
THEOREM SavingIsEarned ==
  ASSUME SkewAssumption, RefreshAssumption
  PROVE  Spec => []SavedIsEarned
<1>1. Init => IInv
  BY InitInv
<1>2. IInv /\ [Next]_vars => IInv'
  BY StepInv
<1>3. IInv => SavedIsEarned
  BY LevelInv, SavedInv DEF SavedIsEarned
<1>. QED  BY <1>1, <1>2, <1>3, PTL DEF Spec

-----------------------------------------------------------------------------
(* The lookups of Git                                                      *)

\* Before the first lookup no revision is asked about; while one is, what the history records
\* includes how Git stands to it, and once it has been verified, that it was there.
AskedOK ==
  /\ gitPhase \in {"toplevel", "origin"} => asking = None
  /\ gitPhase \in {"verify", "show"} => G!Standing(asking) \in was
  /\ gitPhase = "show" => "present" \in was /\ PeelsTo[asking] = asking

GitInv == AskedOK /\ G!LookupIsTrue

\* How Git may stand to a revision.
LEMMA StandingIs ==
  ASSUME NEW r
  PROVE  G!Standing(r) \in {"unusable", "present", "absent"}
BY DEF G!Standing

\* No lookup has been made at first.
LEMMA GitInit == G!Init => GitInv
BY DEF G!Init, GitInv, AskedOK, G!LookupIsTrue

\* A change of the repository is recorded while a revision is asked about; later ones do not
\* touch what was answered.
LEMMA ChangesKeep ==
  ASSUME GitInv, G!RepositoryChanges
  PROVE  GitInv'
<1>1. UNCHANGED <<gitPhase, asking, answer>> /\ was \subseteq was'
  BY DEF G!RepositoryChanges
<1>2. gitPhase \in {"verify", "show"} => G!Standing(asking)' \in was'
  BY DEF G!RepositoryChanges
<1>3. AskedOK'
  BY <1>1, <1>2 DEF GitInv, AskedOK
<1>4. G!LookupIsTrue'
  BY <1>1 DEF GitInv, G!LookupIsTrue
<1> QED BY <1>3, <1>4 DEF GitInv

\* The search for the repository asks about no revision.
LEMMA RepositoryKeeps ==
  ASSUME GitInv, G!FindToplevel \/ G!ReadOrigin
  PROVE  GitInv'
<1>1. asking' = None /\ gitPhase' \in {"origin", "idle", "done"}
  BY DEF GitInv, AskedOK, G!FindToplevel, G!ReadOrigin, G!NoRepository, G!Repository
<1> QED BY <1>1 DEF GitInv, AskedOK, G!LookupIsTrue

\* What VerifyRevision returns is borne out by how Git stands to the revision.
LEMMA VerifyKeeps ==
  ASSUME GitInv, G!VerifyRevision
  PROVE  GitInv'
<1>1. UNCHANGED <<place, objects, asking, was>> /\ G!Standing(asking) \in was
  BY DEF GitInv, AskedOK, G!VerifyRevision
<1>2. G!Standing(asking)' = G!Standing(asking)
  BY <1>1 DEF G!Standing, G!Whole
<1>3. CASE gitPhase' = "show"
  <2>1. G!Standing(asking) = "present" /\ PeelsTo[asking] = asking
    BY <1>3 DEF G!VerifyRevision, G!Return
  <2> QED BY <1>1, <1>2, <1>3, <2>1 DEF GitInv, AskedOK, G!LookupIsTrue
<1>4. CASE gitPhase' # "show"
  <2>1. /\ gitPhase' = IF answer'.outcome = "context" THEN "done" ELSE "idle"
        /\ \/ answer'.outcome = "context"
           \/ answer'.outcome = "conflict" /\ G!Standing(asking) = "present"
              /\ PeelsTo[asking] # asking
           \/ answer'.outcome = "not_found" /\ G!Standing(asking) = "absent"
           \/ answer'.outcome = "unavailable" /\ G!Standing(asking) = "unusable"
    BY <1>4 DEF G!VerifyRevision, G!Return, G!classify, G!Codes
  <2>2. gitPhase' \in {"idle", "done"}
    BY <2>1
  <2>3. AskedOK'
    BY <2>2 DEF AskedOK
  <2>4. G!LookupIsTrue'
    BY <1>1, <2>1 DEF G!LookupIsTrue
  <2> QED BY <2>3, <2>4 DEF GitInv
<1> QED BY <1>3, <1>4

\* So is what ShowCommit returns: the commit was there when it was verified.
LEMMA ShowKeeps ==
  ASSUME GitInv, G!ShowCommit
  PROVE  GitInv'
<1>1. /\ UNCHANGED <<place, objects, asking, was>>
      /\ G!Standing(asking) \in was /\ "present" \in was /\ PeelsTo[asking] = asking
  BY DEF GitInv, AskedOK, G!ShowCommit
<1>2. /\ gitPhase' = IF answer'.outcome = "context" THEN "done" ELSE "idle"
      /\ \/ answer'.outcome = "context"
         \/ answer'.outcome = "commit" /\ answer'.sha = asking
         \/ answer'.outcome = "unavailable"
            /\ (asking \in Long \/ G!Standing(asking) \in {"absent", "unusable"})
  BY StandingIs DEF G!ShowCommit, G!Return, G!classify
<1>3. gitPhase' \in {"idle", "done"}
  BY <1>2
<1>4. AskedOK'
  BY <1>3 DEF AskedOK
<1>5. G!LookupIsTrue'
  BY <1>1, <1>2 DEF G!LookupIsTrue
<1> QED BY <1>4, <1>5 DEF GitInv

\* A command that is killed gives no answer.
LEMMA KillKeeps ==
  ASSUME GitInv, G!Kill
  PROVE  GitInv'
<1>1. CASE gitPhase \in {"toplevel", "origin"}
  <2>1. asking' = None /\ gitPhase' = "done"
    BY <1>1 DEF GitInv, AskedOK, G!Kill, G!NoRepository
  <2> QED BY <2>1 DEF GitInv, AskedOK, G!LookupIsTrue
<1>2. CASE gitPhase \notin {"toplevel", "origin"}
  <2>1. gitPhase' = "done" /\ answer'.outcome = "context"
    BY <1>2 DEF G!Kill, G!Return, G!classify
  <2> QED BY <2>1 DEF GitInv, AskedOK, G!LookupIsTrue
<1> QED BY <1>1, <1>2

\* Every step keeps the invariant.
LEMMA GitNext == GitInv /\ [G!Next]_G!vars => GitInv'
<1> SUFFICES ASSUME GitInv, [G!Next]_G!vars PROVE GitInv'
  OBVIOUS
<1>1. CASE G!RepositoryChanges
  BY <1>1, ChangesKeep
<1>2. CASE G!Expire \/ G!Cancel
  BY <1>2 DEF GitInv, AskedOK, G!LookupIsTrue, G!Expire, G!Cancel, G!Standing, G!Whole
<1>3. CASE G!FindToplevel \/ G!ReadOrigin
  BY <1>3, RepositoryKeeps
<1>4. CASE G!Ask
  BY <1>4 DEF GitInv, AskedOK, G!LookupIsTrue, G!Ask, G!Standing, G!Whole
<1>5. CASE G!VerifyRevision
  BY <1>5, VerifyKeeps
<1>6. CASE G!ShowCommit
  BY <1>6, ShowKeeps
<1>7. CASE G!Kill
  BY <1>7, KillKeeps
<1>8. CASE G!Finish
  BY <1>8 DEF GitInv, AskedOK, G!LookupIsTrue, G!Finish
<1>9. CASE UNCHANGED G!vars
  BY <1>9 DEF GitInv, AskedOK, G!LookupIsTrue, G!vars, G!Standing, G!Whole
<1> QED BY <1>1, <1>2, <1>3, <1>4, <1>5, <1>6, <1>7, <1>8, <1>9 DEF G!Next

\* ResolveCommit returns a commit, or says that there is none, only if that was so between
\* its call and its return, however the repository changes; an interrupted command is never
\* taken for an answer.
THEOREM AnswersAreTrue == G!Spec => []G!LookupIsTrue
<1>1. G!Init => GitInv
  BY GitInit
<1>2. GitInv /\ [G!Next]_G!vars => GitInv'
  BY GitNext
<1>3. GitInv => G!LookupIsTrue
  BY DEF GitInv
<1> QED BY <1>1, <1>2, <1>3, PTL DEF G!Spec

-----------------------------------------------------------------------------
(* The saves of a store                                                    *)

\* The types of the variables.
StoreTypeOK ==
  /\ pooled \in Int \cup {None}
  /\ inUse \in BOOLEAN /\ lowered \in BOOLEAN
  /\ lock \in {"free", "own", "other"}
  /\ step \in {"idle", "begin", "wait", "pause", "work"}
  /\ left \in Nat \cup {None}
  /\ wait \in Nat /\ tries \in Nat /\ saves \in Nat

\* The connection is held while BEGIN waits and while the save works, and the lock in the
\* latter; the timeout is the full one unless the save that holds the connection lowered it.
ConnectionOK ==
  /\ inUse <=> step \in {"wait", "work"}
  /\ lock = "own" => step = "work"
  /\ lowered => inUse
  /\ ~ lowered => pooled \in {None, Full}

\* BEGIN waits no longer than its caller does.
WaitOK == (step = "wait" /\ left # None) => wait <= left

StoreInv == StoreTypeOK /\ ConnectionOK /\ WaitOK

\* The invariant holds of a store that has just been opened.
LEMMA StoreInit == ASSUME T!TransactionAssumption PROVE T!Init => StoreInv
<1> SUFFICES ASSUME T!Init PROVE StoreInv
  OBVIOUS
<1>1. StoreTypeOK
  <2>1. inUse \in BOOLEAN /\ lowered \in BOOLEAN
    BY DEF T!Init
  <2> QED BY <2>1 DEF T!TransactionAssumption, T!Init, StoreTypeOK
<1>2. ConnectionOK
  BY DEF T!Init, ConnectionOK
<1>3. WaitOK
  BY DEF T!Init, WaitOK
<1> QED BY <1>1, <1>2, <1>3 DEF StoreInv

\* Whoever takes the lock meanwhile, the save keeps what it has.
LEMMA OtherStoresKeep ==
  ASSUME T!TransactionAssumption, StoreInv, T!OtherLocks \/ T!Tick
  PROVE  StoreInv'
<1>1. CASE T!OtherLocks
  BY <1>1 DEF StoreInv, StoreTypeOK, ConnectionOK, WaitOK, T!OtherLocks
<1>2. CASE T!Tick
  BY <1>2 DEF T!TransactionAssumption, StoreInv, StoreTypeOK, ConnectionOK, WaitOK, T!Tick
<1> QED BY <1>1, <1>2

\* The wait that BEGIN starts is within the deadline: the timeout of the connection is the
\* full one and the deadline is later, or it was lowered to the deadline.
LEMMA BeginKeeps ==
  ASSUME T!TransactionAssumption, StoreInv, T!BeginPlain \/ T!BeginLowered \/ T!PragmaFails
  PROVE  StoreInv'
<1>1. ~ lowered /\ T!Connection = Full
  BY DEF StoreInv, StoreTypeOK, ConnectionOK, T!BeginPlain, T!BeginLowered, T!PragmaFails,
         T!Connection
<1>2. CASE T!BeginPlain
  <2>1. left = None \/ (left \in Nat /\ Full <= left)
    BY <1>2 DEF T!TransactionAssumption, StoreInv, StoreTypeOK, T!BeginPlain, T!Ample
  <2> QED
    BY <1>1, <1>2, <2>1
    DEF T!TransactionAssumption, StoreInv, StoreTypeOK, ConnectionOK, WaitOK, T!BeginPlain
<1>3. CASE T!BeginLowered
  <2>1. left \in Nat
    BY <1>3 DEF T!TransactionAssumption, StoreInv, StoreTypeOK, T!BeginLowered, T!Ample
  <2> QED
    BY <1>3, <2>1 DEF StoreInv, StoreTypeOK, ConnectionOK, WaitOK, T!BeginLowered
<1>4. CASE T!PragmaFails
  BY <1>1, <1>4
  DEF T!TransactionAssumption, StoreInv, StoreTypeOK, ConnectionOK, WaitOK, T!PragmaFails
<1> QED BY <1>2, <1>3, <1>4

\* A connection that is given back has the full timeout, or is not there any more.
LEMMA GiveBackRestores ==
  ASSUME T!TransactionAssumption, StoreInv, T!GiveBack
  PROVE  ~ inUse' /\ ~ lowered' /\ pooled' \in {None, Full}
BY DEF StoreInv, ConnectionOK, T!GiveBack

\* The ends of an attempt and of a save.
LEMMA EndsKeep ==
  ASSUME T!TransactionAssumption, StoreInv, T!Locked \/ T!Busy \/ T!Finish
  PROVE  StoreInv'
<1>1. CASE T!Locked
  BY <1>1 DEF T!TransactionAssumption, StoreInv, StoreTypeOK, ConnectionOK, WaitOK, T!Locked
<1>2. CASE T!Busy
  <2>1. T!GiveBack
    BY <1>2 DEF T!Busy
  <2>2. ~ inUse' /\ ~ lowered' /\ pooled' \in {None, Full}
    BY <2>1, GiveBackRestores
  <2>3. step' \in {"idle", "pause"}
    BY <1>2 DEF T!Busy
  <2>4. StoreTypeOK'
    <3>1. inUse' \in BOOLEAN /\ lowered' \in BOOLEAN
      BY <2>1 DEF T!GiveBack
    <3> QED
      BY <1>2, <2>2, <2>3, <3>1 DEF T!TransactionAssumption, StoreInv, StoreTypeOK, T!Busy
  <2>5. ConnectionOK'
    BY <1>2, <2>2, <2>3 DEF StoreInv, StoreTypeOK, ConnectionOK, T!Busy
  <2>6. WaitOK'
    BY <2>3 DEF WaitOK
  <2> QED
    BY <2>4, <2>5, <2>6 DEF StoreInv
<1>3. CASE T!Finish
  <2>1. T!GiveBack
    BY <1>3 DEF T!Finish
  <2>2. ~ inUse' /\ ~ lowered' /\ pooled' \in {None, Full}
    BY <2>1, GiveBackRestores
  <2>3. step' \in {"idle", "pause"}
    BY <1>3 DEF T!Finish
  <2>4. StoreTypeOK'
    <3>1. inUse' \in BOOLEAN /\ lowered' \in BOOLEAN
      BY <2>1 DEF T!GiveBack
    <3> QED
      BY <1>3, <2>2, <2>3, <3>1 DEF T!TransactionAssumption, StoreInv, StoreTypeOK, T!Finish
  <2>5. ConnectionOK'
    BY <1>3, <2>2, <2>3 DEF StoreInv, StoreTypeOK, ConnectionOK, T!Finish
  <2>6. WaitOK'
    BY <2>3 DEF WaitOK
  <2> QED
    BY <2>4, <2>5, <2>6 DEF StoreInv
<1> QED BY <1>1, <1>2, <1>3

\* Every step keeps the invariant.
LEMMA StoreNext == ASSUME T!TransactionAssumption PROVE StoreInv /\ [T!Next]_T!vars => StoreInv'
<1> SUFFICES ASSUME StoreInv, [T!Next]_T!vars PROVE StoreInv'
  OBVIOUS
<1>1. CASE T!OtherLocks \/ T!Tick
  BY <1>1, OtherStoresKeep
<1>2. CASE T!BeginPlain \/ T!BeginLowered \/ T!PragmaFails
  BY <1>2, BeginKeeps
<1>3. CASE T!Locked \/ T!Busy \/ T!Finish
  BY <1>3, EndsKeep
<1>4. CASE T!Save
  BY <1>4 DEF T!TransactionAssumption, StoreInv, StoreTypeOK, ConnectionOK, WaitOK, T!Save
<1>5. CASE T!Expired \/ T!Again \/ T!GiveUp
  BY <1>5 DEF StoreInv, StoreTypeOK, ConnectionOK, WaitOK, T!Expired, T!Again, T!GiveUp
<1>6. CASE UNCHANGED T!vars
  BY <1>6 DEF StoreInv, StoreTypeOK, ConnectionOK, WaitOK, T!vars
<1> QED BY <1>1, <1>2, <1>3, <1>4, <1>5, <1>6 DEF T!Next

\* A connection that is not in use is as the pool made it.
LEMMA StoreInvRestored == ASSUME T!TransactionAssumption PROVE StoreInv => T!PoolIsRestored
BY DEF StoreInv, StoreTypeOK, ConnectionOK, WaitOK, T!PoolIsRestored

\* beginTransaction never waits past its caller's deadline, and whichever step of a save
\* fails, the connection goes back with the full timeout and without a transaction, or is
\* dropped.
THEOREM ConnectionIsRestored ==
  ASSUME T!TransactionAssumption PROVE T!Spec => []T!PoolIsRestored
<1>1. T!Init => StoreInv
  BY StoreInit
<1>2. StoreInv /\ [T!Next]_T!vars => StoreInv'
  BY StoreNext
<1>3. StoreInv => T!PoolIsRestored
  BY StoreInvRestored
<1> QED BY <1>1, <1>2, <1>3, PTL DEF T!Spec

-----------------------------------------------------------------------------
(* The requests of a fetch                                                 *)

\* The instances count as this module does.
LEMMA SameCounts ==
  \A S : /\ H!Cardinality(S) = Cardinality(S) /\ (H!IsFiniteSet(S) <=> IsFiniteSet(S))
         /\ D!Cardinality(S) = Cardinality(S) /\ (D!IsFiniteSet(S) <=> IsFiniteSet(S))
<1>1. \A S : H!Cardinality(S) = Cardinality(S)
  BY DEF H!Cardinality, Cardinality
<1>2. \A S : D!Cardinality(S) = Cardinality(S)
  BY DEF D!Cardinality, Cardinality
<1>3. \A S : H!IsFiniteSet(S) <=> IsFiniteSet(S)
  BY DEF H!IsFiniteSet, IsFiniteSet
<1>4. \A S : D!IsFiniteSet(S) <=> IsFiniteSet(S)
  BY DEF D!IsFiniteSet, IsFiniteSet
<1> QED BY <1>1, <1>2, <1>3, <1>4

\* The constants of a fetch.
LEMMA FetchFacts ==
  /\ Artifacts \subseteq Int /\ IsFiniteSet(Artifacts) /\ Created \in [Artifacts -> Int]
  /\ PageSize \in Nat \ {0} /\ MaxPages \in Nat \ {0} /\ MaxAttempts \in Nat \ {0}
  /\ MaxRedirects \in Nat /\ MaxBudget \in Nat /\ Waits \subseteq Int
  /\ None \notin Urls \cup {Endpoint} /\ Endpoint \notin Unsafe
  /\ None \notin Artifacts /\ None # H!Error("absent")
BY CallsAssumption, SameCounts DEF H!FetchAssumption

\* The exchanges that are over: the pages listed and the URLs of the download before the
\* present one.
Over == IF url = None THEN page - 1 ELSE page - 1 + Cardinality(visited)

FetchTypeOK ==
  /\ fetchPhase \in {"start", "send", "flight", "sleep", "done"}
  /\ page \in 1..MaxPages
  /\ attempt \in 0..(MaxAttempts - 1)
  /\ waited \in Nat /\ requests \in Nat

\* The download began at the API, was led to safe URLs only and not too often, and whoever has
\* the token has never been away from the API's host.
DownloadOK ==
  /\ url = None => visited = {}
  /\ url # None => url \in visited
  /\ IsFiniteSet(visited) /\ Cardinality(visited) <= MaxRedirects + 1
  /\ visited \cap Unsafe = {}
  /\ auth => \A u \in visited : HostOf[u] = HostOf[Endpoint]

\* Each exchange that is over took at most all its attempts; the present one has taken those
\* counted, and one more once it is on its way.
CountOK ==
  requests <= MaxAttempts * Over + attempt + (IF fetchPhase \in {"flight", "done"} THEN 1 ELSE 0)

PauseOK == attempt <= waited /\ waited <= MaxBudget

FetchInv == FetchTypeOK /\ DownloadOK /\ CountOK /\ PauseOK

\* Multiplication by a number of attempts.
LEMMA TimesNext == \A m, n \in Nat : m * (n + 1) = m * n + m
OBVIOUS

\* More exchanges are not fewer requests.
LEMMA TimesMonotone ==
  ASSUME NEW m \in Nat, NEW n \in Nat, NEW k \in Nat, n <= k
  PROVE  m * n <= m * k
<1>1. PICK d \in Nat : k = n + d
  <2>1. k - n \in Nat /\ k = n + (k - n)
    OBVIOUS
  <2> QED BY <2>1
<1>2. m * k = m * n + m * d
  BY <1>1
<1>3. m * d \in Nat /\ m * n \in Nat /\ m * k \in Nat
  OBVIOUS
<1> QED BY <1>2, <1>3

\* The number of exchanges is bounded by the pages and the redirects.
LEMMA OverBounded ==
  ASSUME FetchTypeOK, DownloadOK
  PROVE  Over \in Nat /\ Over + 1 <= MaxPages + MaxRedirects + 1
<1>1. Cardinality(visited) \in Nat
  BY FS_CardinalityType DEF DownloadOK
<1> QED BY <1>1, FetchFacts DEF Over, FetchTypeOK, DownloadOK

\* Nothing has been asked of GitHub at first.
LEMMA FetchInit == H!Init => FetchInv
<1> SUFFICES ASSUME H!Init PROVE FetchInv
  OBVIOUS
<1>1. FetchTypeOK
  BY FetchFacts DEF H!Init, FetchTypeOK
<1>2. DownloadOK
  BY FS_EmptySet, FetchFacts DEF H!Init, DownloadOK
<1>3. Over = 0
  BY DEF H!Init, Over
<1>4. CountOK
  BY <1>3, FetchFacts DEF H!Init, CountOK
<1>5. PauseOK
  BY FetchFacts DEF H!Init, PauseOK
<1> QED BY <1>1, <1>2, <1>4, <1>5 DEF FetchInv

\* Steps that neither send, retry nor go on to another exchange; the last of them end the
\* command.
LEMMA OtherRequestsKeep ==
  ASSUME FetchInv,
         UNCHANGED <<page, H!request, H!download, requests>>,
         \/ fetchPhase' = fetchPhase
         \/ fetchPhase \in {"start", "sleep"} /\ fetchPhase' = "send"
         \/ fetchPhase' = "done"
  PROVE  FetchInv'
<1>1. FetchTypeOK'
  BY DEF FetchInv, FetchTypeOK, H!request
<1>2. DownloadOK'
  BY DEF FetchInv, DownloadOK, H!download
<1>3. Over' = Over
  BY DEF Over, H!download
<1>4. PauseOK'
  BY DEF FetchInv, PauseOK, H!request
<1>5. CountOK'
  <2>1. Over \in Nat
    BY OverBounded DEF FetchInv
  <2>2. MaxAttempts * Over \in Nat
    BY <2>1, FetchFacts
  <2> DEFINE P == MaxAttempts * Over
  <2>3. P \in Nat /\ requests <= P + attempt + (IF fetchPhase \in {"flight", "done"} THEN 1 ELSE 0)
    BY <2>2 DEF FetchInv, CountOK
  <2> HIDE DEF P
  <2>4. requests' <= P + attempt' + (IF fetchPhase' \in {"flight", "done"} THEN 1 ELSE 0)
    BY <2>3 DEF FetchInv, FetchTypeOK, H!request
  <2> QED BY <2>4, <1>3 DEF CountOK, P
<1> QED BY <1>1, <1>2, <1>4, <1>5 DEF FetchInv

\* One request more.
LEMMA SendKeeps == ASSUME FetchInv, H!Send PROVE FetchInv'
<1>1. FetchTypeOK'
  BY DEF FetchInv, FetchTypeOK, H!Send, H!request, H!listing
<1>2. DownloadOK' /\ Over' = Over
  BY DEF FetchInv, DownloadOK, Over, H!Send, H!download, H!listing
<1>3. PauseOK'
  BY DEF FetchInv, PauseOK, H!Send, H!request
<1>4. CountOK'
  <2> DEFINE P == MaxAttempts * Over
  <2>1. P \in Nat
    BY OverBounded, FetchFacts DEF FetchInv
  <2>2. requests <= P + attempt
    BY <2>1 DEF FetchInv, FetchTypeOK, CountOK, H!Send
  <2> HIDE DEF P
  <2>3. requests' <= P + attempt' + 1 /\ fetchPhase' = "flight"
    BY <2>1, <2>2 DEF FetchInv, FetchTypeOK, H!Send, H!request
  <2> QED BY <2>3, <1>2 DEF CountOK, P
<1> QED BY <1>1, <1>2, <1>3, <1>4 DEF FetchInv

\* One attempt more, after a pause of at least a second within the budget.
LEMMA RetryKeeps == ASSUME FetchInv, H!Retry PROVE FetchInv'
<1>1. PICK w \in Waits : waited + H!Delay(w) <= MaxBudget /\ waited' = waited + H!Delay(w)
  BY DEF H!Retry
<1>2. H!Delay(w) \in Nat /\ H!Delay(w) >= 1
  BY FetchFacts DEF H!Delay
<1>3. FetchTypeOK'
  BY <1>1, <1>2, FetchFacts DEF FetchInv, FetchTypeOK, H!Retry, H!listing
<1>4. DownloadOK' /\ Over' = Over
  BY DEF FetchInv, DownloadOK, Over, H!Retry, H!download, H!listing
<1>5. PauseOK'
  BY <1>1, <1>2, FetchFacts DEF FetchInv, FetchTypeOK, PauseOK, H!Retry
<1>6. CountOK'
  <2> DEFINE P == MaxAttempts * Over
  <2>1. P \in Nat
    BY OverBounded, FetchFacts DEF FetchInv
  <2>2. requests <= P + attempt + 1
    BY DEF FetchInv, CountOK, H!Retry
  <2> HIDE DEF P
  <2>3. requests' <= P + attempt' /\ fetchPhase' = "sleep"
    BY <2>1, <2>2 DEF FetchInv, FetchTypeOK, H!Retry
  <2>4. P + attempt' + 0 = P + attempt'
    BY <2>1, <1>3 DEF FetchTypeOK
  <2> QED BY <2>3, <2>4, <1>4 DEF CountOK, P
<1> QED BY <1>3, <1>4, <1>5, <1>6 DEF FetchInv

\* Another exchange begins: its attempts are those of nobody before it.
LEMMA ExchangeCounts ==
  ASSUME FetchInv, fetchPhase = "flight", fetchPhase' = "send", attempt' = 0, waited' = 0,
         UNCHANGED requests, Over' = Over + 1
  PROVE  CountOK' /\ PauseOK'
<1>1. Over \in Nat
  BY OverBounded DEF FetchInv
<1>2. MaxAttempts * (Over + 1) = MaxAttempts * Over + MaxAttempts
  BY <1>1, TimesNext, FetchFacts
<1> DEFINE P == MaxAttempts * Over
<1>3. P \in Nat /\ requests <= P + attempt + 1
  BY <1>1, FetchFacts DEF FetchInv, CountOK
<1>4. MaxAttempts * Over' = P + MaxAttempts
  BY <1>2
<1> HIDE DEF P
<1>5. requests' <= P + MaxAttempts
  BY <1>3, FetchFacts DEF FetchInv, FetchTypeOK
<1>6. CountOK'
  BY <1>3, <1>4, <1>5, FetchFacts DEF CountOK, FetchInv, FetchTypeOK
<1> QED BY <1>6, FetchFacts DEF PauseOK

\* The listing goes on to its next page, or to the download.
LEMMA PagesKeep == ASSUME FetchInv, H!NextPage \/ H!LastPage PROVE FetchInv'
<1>1. CASE H!NextPage
  <2>1. page # MaxPages
    BY <1>1 DEF H!NextPage, H!Last
  <2>2. FetchTypeOK'
    BY <1>1, <2>1, FetchFacts DEF FetchInv, FetchTypeOK, H!NextPage
  <2>3. DownloadOK' /\ Over' = Over + 1
    BY <1>1 DEF FetchInv, FetchTypeOK, DownloadOK, Over, H!NextPage, H!download
  <2> QED BY <1>1, <2>2, <2>3, ExchangeCounts DEF FetchInv, H!NextPage
<1>2. CASE H!LastPage
  <2>1. FetchTypeOK'
    BY <1>2, FetchFacts DEF FetchInv, FetchTypeOK, H!LastPage
  <2>2. IsFiniteSet({Endpoint}) /\ Cardinality({Endpoint}) = 1
    BY FS_Singleton
  <2>3. DownloadOK'
    BY <1>2, <2>2, FetchFacts DEF FetchInv, DownloadOK, H!LastPage
  <2>4. Over' = Over + 1
    BY <1>2, <2>2, FetchFacts DEF FetchInv, FetchTypeOK, DownloadOK, Over, H!LastPage
  <2> QED BY <1>2, <2>1, <2>3, <2>4, ExchangeCounts DEF FetchInv, H!LastPage
<1> QED BY <1>1, <1>2

\* A redirect leads to a URL that was not visited; the token is kept only from host to same
\* host.
LEMMA RedirectKeeps == ASSUME FetchInv, H!Redirect PROVE FetchInv'
<1>1. PICK next \in Urls :
        H!MayFollow(next) /\ auth' = H!KeepsToken(next) /\ url' = next
        /\ visited' = visited \cup {next}
  BY DEF H!Redirect
<1>2. /\ IsFiniteSet(visited') /\ Cardinality(visited') = Cardinality(visited) + 1
      /\ Cardinality(visited) \in Nat
  BY <1>1, FS_AddElement, FS_CardinalityType DEF FetchInv, DownloadOK, H!MayFollow
<1>3. FetchTypeOK'
  BY FetchFacts DEF FetchInv, FetchTypeOK, H!Redirect, H!listing
<1>4. url # None /\ url' # None /\ url \in visited
  BY <1>1, FetchFacts DEF FetchInv, DownloadOK, H!Redirect
<1>5. DownloadOK'
  <2>1. Cardinality(visited') <= MaxRedirects + 1
    BY <1>1, <1>2, FetchFacts, SameCounts DEF H!MayFollow
  <2>2. visited' \cap Unsafe = {}
    BY <1>1 DEF FetchInv, DownloadOK, H!MayFollow
  <2>3. auth' => \A u \in visited' : HostOf[u] = HostOf[Endpoint]
    BY <1>1, <1>4 DEF FetchInv, DownloadOK, H!KeepsToken
  <2> QED BY <1>1, <1>2, <1>4, <2>1, <2>2, <2>3 DEF DownloadOK
<1>6. Over' = Over + 1
  BY <1>2, <1>4 DEF FetchInv, FetchTypeOK, Over, H!Redirect, H!listing
<1> QED BY <1>3, <1>5, <1>6, ExchangeCounts DEF FetchInv, H!Redirect

\* Every step keeps the invariant.
LEMMA FetchNext == FetchInv /\ [H!Next]_H!vars => FetchInv'
<1> SUFFICES ASSUME FetchInv, [H!Next]_H!vars PROVE FetchInv'
  OBVIOUS
<1>1. CASE H!Upload \/ H!Delete \/ H!Expire \/ UNCHANGED H!vars
  BY <1>1, OtherRequestsKeep
  DEF H!Upload, H!Delete, H!Expire, H!vars, H!request, H!listing, H!download
<1>2. CASE H!Start \/ H!Wake
  BY <1>2, OtherRequestsKeep DEF H!Start, H!Wake, H!listing
<1>3. CASE \/ H!Refuse \/ H!Interrupted \/ H!TransportFails \/ H!BudgetExhausted \/ H!Refused
           \/ H!NoneUsable \/ H!RedirectRefused \/ H!Downloaded \/ H!DownloadRefused \/ H!StoreFails
  <2>1. fetchPhase' = "done" /\ UNCHANGED <<page, H!request, H!download, requests>>
    BY <1>3
    DEF H!Refuse, H!Interrupted, H!TransportFails, H!BudgetExhausted, H!Refused, H!NoneUsable,
        H!RedirectRefused, H!Downloaded, H!DownloadRefused, H!StoreFails, H!Fails, H!End, H!listing
  <2> QED BY <2>1, OtherRequestsKeep
<1>4. CASE H!Send
  BY <1>4, SendKeeps
<1>5. CASE H!Retry
  BY <1>5, RetryKeeps
<1>6. CASE H!NextPage \/ H!LastPage
  BY <1>6, PagesKeep
<1>7. CASE H!Redirect
  BY <1>7, RedirectKeeps
<1> QED BY <1>1, <1>2, <1>3, <1>4, <1>5, <1>6, <1>7 DEF H!Next

\* The invariant says what is promised.
LEMMA FetchInvContained == FetchInv => H!RequestsContained
<1> SUFFICES ASSUME FetchInv PROVE H!RequestsContained
  OBVIOUS
<1>1. Over \in Nat /\ Over + 1 <= MaxPages + MaxRedirects + 1
  BY OverBounded DEF FetchInv
<1>2. MaxPages + MaxRedirects + 1 \in Nat
  BY FetchFacts
<1>3. MaxAttempts * (Over + 1) <= MaxAttempts * (MaxPages + MaxRedirects + 1)
  BY <1>1, <1>2, TimesMonotone, FetchFacts
<1>4. MaxAttempts * (Over + 1) = MaxAttempts * Over + MaxAttempts
  BY <1>1, TimesNext, FetchFacts
<1> DEFINE P == MaxAttempts * Over
           Q == MaxAttempts * (MaxPages + MaxRedirects + 1)
<1>5. P \in Nat /\ Q \in Nat /\ P + MaxAttempts <= Q
  BY <1>1, <1>2, <1>3, <1>4, FetchFacts
<1>6. requests <= P + attempt + 1
  BY <1>5, FetchFacts DEF FetchInv, CountOK, FetchTypeOK
<1> HIDE DEF P, Q
<1>7. requests <= Q
  BY <1>5, <1>6, FetchFacts DEF FetchInv, FetchTypeOK
<1>8. requests <= MaxAttempts * (MaxPages + MaxRedirects + 1)
  BY <1>7 DEF Q
<1> QED BY <1>8 DEF FetchInv, DownloadOK, PauseOK, H!RequestsContained

\* The token goes to the API's host only and is lost once a redirect has left it, no refused
\* URL is asked, and getResponse and selectArtifact send a bounded number of requests, with
\* pauses between the attempts that do not exceed the budget.
THEOREM FetchIsContained == H!Spec => []H!RequestsContained
<1>1. H!Init => FetchInv
  BY FetchInit
<1>2. FetchInv /\ [H!Next]_H!vars => FetchInv'
  BY FetchNext
<1>3. FetchInv => H!RequestsContained
  BY FetchInvContained
<1> QED BY <1>1, <1>2, <1>3, PTL DEF H!Spec

-----------------------------------------------------------------------------
(* Finite sets of integers                                                 *)

\* The elements up to a and from a on.
UpTo(S, a) == {b \in S : b <= a}
From(S, a) == {b \in S : b >= a}

\* The elements of a finite set of integers are numbered in their order, without a gap.
LEMMA Numbered ==
  ASSUME NEW S, S \subseteq Int, IsFiniteSet(S)
  PROVE  /\ Cardinality(S) \in Nat
         /\ \A a \in S : Cardinality(UpTo(S, a)) \in 1..Cardinality(S)
         /\ \A a, b \in S : a < b => Cardinality(UpTo(S, a)) < Cardinality(UpTo(S, b))
         /\ \A k \in 1..Cardinality(S) : \E a \in S : Cardinality(UpTo(S, a)) = k
<1> DEFINE C == Cardinality(S)
           number == [a \in S |-> Cardinality(UpTo(S, a))]
<1>1. C \in Nat
  BY FS_CardinalityType
<1>2. ASSUME NEW a \in S
      PROVE  /\ IsFiniteSet(UpTo(S, a)) /\ Cardinality(UpTo(S, a)) \in Nat
             /\ Cardinality(UpTo(S, a)) <= C /\ Cardinality(UpTo(S, a)) # 0
  <2>1. UpTo(S, a) \in SUBSET S /\ a \in UpTo(S, a)
    BY DEF UpTo
  <2> QED BY <2>1, FS_Subset, FS_CardinalityType, FS_EmptySet
<1>3. ASSUME NEW a \in S, NEW b \in S, a < b
      PROVE  Cardinality(UpTo(S, a)) < Cardinality(UpTo(S, b))
  <2>0. \A c \in S : c \in Int
    OBVIOUS
  <2>1. /\ \A c \in UpTo(S, a) : c \in UpTo(S, b)
        /\ b \in UpTo(S, b) /\ b \notin UpTo(S, a)
    BY <1>3, <2>0 DEF UpTo
  <2>2. UpTo(S, a) # UpTo(S, b)
    BY <2>1
  <2>3. IsFiniteSet(UpTo(S, b))
    BY <1>2
  <2>4. /\ Cardinality(UpTo(S, a)) <= Cardinality(UpTo(S, b))
        /\ Cardinality(UpTo(S, b)) = Cardinality(UpTo(S, a)) => UpTo(S, b) = UpTo(S, a)
    <3>1. UpTo(S, a) \in SUBSET UpTo(S, b)
      BY <2>1
    <3> QED BY <2>3, <3>1, FS_Subset
  <2>5. Cardinality(UpTo(S, a)) \in Nat /\ Cardinality(UpTo(S, b)) \in Nat
    BY <1>2
  <2> QED BY <2>2, <2>4, <2>5
<1>4. number \in Surjection(S, 1..C)
  <2>1. number \in [S -> 1..C]
    BY <1>1, <1>2
  <2>2. \A a, b \in S : number[a] = number[b] => a = b
    <3> SUFFICES ASSUME NEW a \in S, NEW b \in S, a # b PROVE number[a] # number[b]
      OBVIOUS
    <3>1. a < b \/ b < a
      OBVIOUS
    <3>2. number[a] \in Nat /\ number[b] \in Nat
      BY <1>2
    <3> QED BY <1>3, <3>1, <3>2
  <2>3. number \in Injection(S, 1..C)
    BY <2>1, <2>2 DEF Injection, IsInjective
  <2>4. IsFiniteSet(1..C) /\ Cardinality(1..C) = C
    BY <1>1, FS_Interval
  <2> HIDE DEF number
  <2> QED BY <2>3, <2>4, FS_Injection
<1>5. \A k \in 1..C : \E a \in S : Cardinality(UpTo(S, a)) = k
  BY <1>4 DEF Surjection
<1>6. \A a \in S : Cardinality(UpTo(S, a)) \in 1..C
  BY <1>1, <1>2
<1> QED BY <1>1, <1>3, <1>5, <1>6

\* So are they from the last to the first.
LEMMA NumberedDown ==
  ASSUME NEW S, S \subseteq Int, IsFiniteSet(S)
  PROVE  /\ Cardinality(S) \in Nat
         /\ \A a \in S : Cardinality(From(S, a)) \in 1..Cardinality(S)
         /\ \A a, b \in S : a < b => Cardinality(From(S, b)) < Cardinality(From(S, a))
         /\ \A k \in 1..Cardinality(S) : \E a \in S : Cardinality(From(S, a)) = k
<1>1. Cardinality(S) \in Nat
  BY FS_CardinalityType
<1>2. ASSUME NEW a \in S
      PROVE  Cardinality(From(S, a)) = Cardinality(S) + 1 - Cardinality(UpTo(S, a))
  <2>0. \A c \in S : c \in Int
    OBVIOUS
  <2>1. /\ From(S, a) \in SUBSET S /\ UpTo(S, a) \in SUBSET S
        /\ From(S, a) \cup UpTo(S, a) = S /\ From(S, a) \cap UpTo(S, a) = {a}
    <3>1. /\ \A c \in From(S, a) : c \in S /\ c >= a
          /\ \A c \in UpTo(S, a) : c \in S /\ c <= a
          /\ \A c \in S : c \in From(S, a) \/ c \in UpTo(S, a)
          /\ a \in From(S, a) /\ a \in UpTo(S, a)
      BY <2>0 DEF From, UpTo
    <3>2. \A c \in S : c \in From(S, a) /\ c \in UpTo(S, a) => c = a
      BY <2>0, <3>1
    <3> QED BY <3>1, <3>2
  <2>2. IsFiniteSet(From(S, a)) /\ IsFiniteSet(UpTo(S, a))
    BY <2>1, FS_Subset
  <2>3. Cardinality(From(S, a)) \in Nat /\ Cardinality(UpTo(S, a)) \in Nat
    BY <2>2, FS_CardinalityType
  <2>4. Cardinality(From(S, a) \cup UpTo(S, a))
          = Cardinality(From(S, a)) + Cardinality(UpTo(S, a))
            - Cardinality(From(S, a) \cap UpTo(S, a))
    BY <2>2, FS_Union
  <2>5. Cardinality(S) = Cardinality(From(S, a)) + Cardinality(UpTo(S, a)) - 1
    BY <2>1, <2>4, FS_Singleton
  <2> QED BY <1>1, <2>3, <2>5
<1>3. /\ \A a \in S : Cardinality(UpTo(S, a)) \in 1..Cardinality(S)
      /\ \A a, b \in S : a < b => Cardinality(UpTo(S, a)) < Cardinality(UpTo(S, b))
      /\ \A k \in 1..Cardinality(S) : \E a \in S : Cardinality(UpTo(S, a)) = k
  BY Numbered
<1>4. \A a \in S : Cardinality(From(S, a)) \in 1..Cardinality(S)
  BY <1>1, <1>2, <1>3
<1>5. ASSUME NEW a \in S, NEW b \in S, a < b
      PROVE  Cardinality(From(S, b)) < Cardinality(From(S, a))
  <2>1. /\ Cardinality(UpTo(S, a)) \in Int /\ Cardinality(UpTo(S, b)) \in Int
        /\ Cardinality(UpTo(S, a)) < Cardinality(UpTo(S, b))
    BY <1>3, <1>5
  <2> QED BY <1>1, <1>2, <2>1
<1>6. ASSUME NEW k \in 1..Cardinality(S)
      PROVE  \E a \in S : Cardinality(From(S, a)) = k
  <2>1. PICK a \in S : Cardinality(UpTo(S, a)) = Cardinality(S) + 1 - k
    BY <1>1, <1>3
  <2>2. Cardinality(From(S, a)) = k
    BY <1>1, <1>2, <2>1
  <2> QED BY <2>2
<1> QED BY <1>1, <1>4, <1>5, <1>6

\* A finite set of integers that is not empty has a greatest one.
LEMMA Greatest ==
  ASSUME NEW S, S \subseteq Int, IsFiniteSet(S), S # {}
  PROVE  \E a \in S : \A b \in S : b <= a
<1>1. Cardinality(S) \in Nat /\ Cardinality(S) # 0
  BY FS_CardinalityType, FS_EmptySet
<1>2. PICK a \in S : Cardinality(From(S, a)) = 1
  <2>1. 1 \in 1..Cardinality(S)
    BY <1>1
  <2> QED BY <2>1, NumberedDown
<1>3. ASSUME NEW b \in S, a < b PROVE FALSE
  <2>1. Cardinality(From(S, b)) < 1 /\ Cardinality(From(S, b)) \in 1..Cardinality(S)
    BY <1>2, <1>3, NumberedDown
  <2> QED BY <1>1, <2>1
<1> QED BY <1>3

-----------------------------------------------------------------------------
(* The newest artifact                                                     *)

\* The place of an artifact in the listing, as GitHub has it now.
RankOf(a) == Cardinality(From(uploaded, a))

\* The elements of S whose places are among the size after lo.
Placed(S, lo, size) == {b \in S : Cardinality(From(S, b)) \in (lo + 1)..(lo + size)}

\* A set of which some element has a number beyond an interval fills the interval.
LEMMA PageIsFull ==
  ASSUME NEW S, S \subseteq Int, IsFiniteSet(S), NEW lo \in Nat, NEW size \in Nat,
         NEW a \in S, Cardinality(From(S, a)) > lo + size
  PROVE  Cardinality(Placed(S, lo, size)) >= size
<1> DEFINE I == (lo + 1)..(lo + size)
           L == {b \in S : Cardinality(From(S, b)) \in I}
           rank == [b \in L |-> Cardinality(From(S, b))]
<1>1. IsFiniteSet(I) /\ Cardinality(I) = size
  BY FS_Interval
<1>2. IsFiniteSet(L)
  <2>1. L \in SUBSET S
    OBVIOUS
  <2> HIDE DEF L
  <2> QED BY <2>1, FS_Subset
<1>3. I \subseteq 1..Cardinality(S)
  <2>1. Cardinality(From(S, a)) \in 1..Cardinality(S) /\ Cardinality(S) \in Nat
    BY NumberedDown
  <2> QED BY <2>1
<1>4. rank \in Surjection(L, I)
  <2>1. rank \in [L -> I]
    OBVIOUS
  <2>2. ASSUME NEW k \in I PROVE \E b \in L : rank[b] = k
    <3>1. PICK b \in S : Cardinality(From(S, b)) = k
      BY <1>3, NumberedDown
    <3> QED BY <3>1
  <2> QED BY <2>1, <2>2 DEF Surjection
<1>5. Cardinality(I) <= Cardinality(L)
  <2> HIDE DEF rank, L, I
  <2> QED BY <1>2, <1>4, FS_Surjection
<1>6. Cardinality(L) \in Nat
  BY <1>2, FS_CardinalityType
<1>7. Cardinality(L) >= size
  BY <1>1, <1>5, <1>6
<1> QED BY <1>7 DEF Placed

\* A page of the listing, in terms of the places.
LEMMA ListedMeans ==
  ASSUME NEW n \in Nat \ {0}
  PROVE  /\ (n - 1) * PageSize \in Nat
         /\ n * PageSize = (n - 1) * PageSize + PageSize
         /\ H!Listed(n) = {a \in uploaded : RankOf(a) \in ((n - 1) * PageSize + 1)
                                                         ..((n - 1) * PageSize + PageSize)}
<1>1. PageSize \in Nat
  BY FetchFacts
<1>2. PICK m \in Nat : n = m + 1
  <2>1. n - 1 \in Nat /\ n = (n - 1) + 1
    OBVIOUS
  <2> QED BY <2>1
<1>3. m * PageSize \in Nat /\ (m + 1) * PageSize = m * PageSize + PageSize
  BY <1>1
<1>4. n - 1 = m
  BY <1>2
<1>5. (n - 1) * PageSize \in Nat /\ n * PageSize = (n - 1) * PageSize + PageSize
  BY <1>2, <1>3, <1>4
<1>6. \A a : H!Cardinality({b \in uploaded : b >= a}) = RankOf(a)
  BY SameCounts DEF RankOf, From
<1>7. H!Listed(n) = {a \in uploaded : RankOf(a) \in ((n - 1) * PageSize + 1)..(n * PageSize)}
  BY <1>6 DEF H!Listed
<1> QED BY <1>5, <1>7

\* A page with room is the last one: no artifact has a place after it.
LEMMA LastPageMeans ==
  ASSUME NEW n \in Nat \ {0}, uploaded \subseteq Artifacts,
         Cardinality(H!Listed(n)) < PageSize, NEW a \in uploaded
  PROVE  RankOf(a) <= n * PageSize
<1> DEFINE lo == (n - 1) * PageSize
<1>1. lo \in Nat /\ n * PageSize = lo + PageSize
      /\ H!Listed(n) = {b \in uploaded : RankOf(b) \in (lo + 1)..(lo + PageSize)}
  BY ListedMeans
<1>2. PageSize \in Nat /\ uploaded \subseteq Int /\ IsFiniteSet(uploaded)
  <2>1. uploaded \in SUBSET Artifacts
    OBVIOUS
  <2> QED BY <2>1, FetchFacts, FS_Subset
<1> HIDE DEF lo
<1>3. RankOf(a) \in Nat
  <2>1. RankOf(a) \in 1..Cardinality(uploaded) /\ Cardinality(uploaded) \in Nat
    BY <1>2, NumberedDown DEF RankOf
  <2> QED BY <2>1
<1>4. ASSUME RankOf(a) > lo + PageSize PROVE FALSE
  <2>1. Cardinality({b \in uploaded : RankOf(b) \in (lo + 1)..(lo + PageSize)}) >= PageSize
    <3>1. Cardinality(From(uploaded, a)) > lo + PageSize
      BY <1>4 DEF RankOf
    <3>2. Cardinality(Placed(uploaded, lo, PageSize)) >= PageSize
      <4>1. lo \in Nat
        BY <1>1
      <4>2. PageSize \in Nat
        BY <1>2
      <4>3. uploaded \subseteq Int
        BY <1>2
      <4>4. IsFiniteSet(uploaded)
        BY <1>2
      <4> QED BY <3>1, <4>1, <4>2, <4>3, <4>4, PageIsFull
    <3> QED BY <3>2 DEF RankOf, Placed
  <2>2. Cardinality(H!Listed(n)) \in Nat
    <3>1. H!Listed(n) \in SUBSET uploaded
      BY <1>1
    <3> QED BY <1>2, <3>1, FS_Subset, FS_CardinalityType
  <2> QED BY <1>1, <1>2, <2>1, <2>2
<1> QED BY <1>1, <1>2, <1>3, <1>4

\* Of artifacts, one is newer than every other.
LEMMA NewestIs ==
  ASSUME NEW S, S \subseteq Artifacts, S # {}
  PROVE  /\ H!Newest(S) \in S
         /\ \A a \in S \ {H!Newest(S)} :
              /\ Created[a] <= Created[H!Newest(S)]
              /\ Created[a] = Created[H!Newest(S)] => a < H!Newest(S)
<1>1. /\ IsFiniteSet(S) /\ \A a \in S : a \in Int /\ a \in Artifacts /\ Created[a] \in Int
  <2>1. S \in SUBSET Artifacts
    OBVIOUS
  <2> QED BY <2>1, FetchFacts, FS_Subset
<1>2. PICK t \in {Created[a] : a \in S} : \A u \in {Created[a] : a \in S} : u <= t
  <2> DEFINE Dates == {Created[a] : a \in S}
             time == [a \in S |-> Created[a]]
  <2>1. time \in Surjection(S, Dates)
    BY DEF Surjection
  <2>2. Dates \subseteq Int /\ Dates # {}
    BY <1>1
  <2>3. IsFiniteSet(Dates)
    <3> HIDE DEF Dates, time
    <3> QED BY <1>1, <2>1, FS_Surjection
  <2>4. \E t \in Dates : \A u \in Dates : u <= t
    <3> HIDE DEF Dates
    <3> QED BY <2>2, <2>3, Greatest
  <2> QED BY <2>4
<1>3. PICK m \in {a \in S : Created[a] = t} : \A b \in {a \in S : Created[a] = t} : b <= m
  <2> DEFINE L == {a \in S : Created[a] = t}
  <2>1. L \in SUBSET S /\ L # {} /\ L \subseteq Int
    BY <1>1, <1>2
  <2>2. \E m \in L : \A b \in L : b <= m
    <3> HIDE DEF L
    <3>1. IsFiniteSet(L)
      BY <1>1, <2>1, FS_Subset
    <3> QED BY <2>1, <3>1, Greatest
  <2> QED BY <2>2
<1>4. m \in S /\ Created[m] = t
  OBVIOUS
<1>5. ASSUME NEW a \in S \ {m} PROVE H!Newer(m, a)
  <2>1. Created[a] <= t /\ Created[a] \in Int /\ t \in Int /\ a \in Int /\ m \in Int
    BY <1>1, <1>2, <1>4
  <2>2. Created[a] = t => a <= m
    BY <1>3
  <2> QED BY <1>4, <2>1, <2>2 DEF H!Newer
<1>6. H!Newest(S) = CHOOSE a \in S : \A b \in S \ {a} : H!Newer(a, b)
  BY DEF H!Newest
<1>7. H!Newest(S) \in S /\ \A b \in S \ {H!Newest(S)} : H!Newer(H!Newest(S), b)
  BY <1>4, <1>5, <1>6
<1> QED
  <2> DEFINE n == H!Newest(S)
  <2>1. n \in S /\ n \in Int /\ Created[n] \in Int
    BY <1>1, <1>7
  <2> HIDE DEF n
  <2>2. ASSUME NEW a \in S \ {n}, H!Newer(n, a)
        PROVE  Created[a] <= Created[n] /\ (Created[a] = Created[n] => a < n)
    BY <1>1, <2>1, <2>2 DEF H!Newer
  <2> QED BY <1>7, <2>2 DEF n

\* Unless one was deleted, the artifacts GitHub had at first are still there.
ArtifactsOK ==
  /\ uploaded \subseteq Artifacts /\ before \subseteq Artifacts
  /\ usable \subseteq Artifacts \cap Compatible
  /\ url = None <=> chosen = None
  /\ ~deleted => before \subseteq uploaded

\* Those that are not among the pages listed have a place after them.
ListedOK ==
  (chosen = None /\ ~deleted) =>
    \A a \in before \cap Compatible : a \in usable \/ RankOf(a) > (page - 1) * PageSize

\* The one that is chosen is the newest of those listed, which are all of them.
ChosenOK ==
  chosen # None =>
    /\ usable # {} /\ chosen = H!Newest(usable)
    /\ (~deleted /\ H!Fits) => before \cap Compatible \subseteq usable

OutcomeOK ==
  /\ fetchPhase # "done" => outcome = None
  /\ (outcome = H!Error("absent") /\ ~deleted /\ H!Fits) => before \cap Compatible = {}
  /\ (outcome # None /\ outcome.kind = "stored") =>
       /\ outcome.artifact = chosen /\ outcome.ledger = chosen
       /\ chosen # None /\ chosen \in Agreeing

NewestInv == FetchTypeOK /\ ArtifactsOK /\ ListedOK /\ ChosenOK /\ OutcomeOK

\* Nothing has been listed at first.
LEMMA NewestInit == H!Init => NewestInv
<1> SUFFICES ASSUME H!Init PROVE NewestInv
  OBVIOUS
<1>1. FetchTypeOK
  BY FetchInit DEF FetchInv
<1>2. ArtifactsOK
  BY FetchFacts DEF H!Init, ArtifactsOK
<1>3. ListedOK
  <2>1. page = 1 /\ (page - 1) * PageSize = 0
    BY FetchFacts DEF H!Init
  <2>2. ASSUME NEW a \in uploaded PROVE RankOf(a) > 0
    <3>1. uploaded \subseteq Int /\ IsFiniteSet(uploaded)
      BY FetchFacts, FS_Subset DEF H!Init
    <3>2. RankOf(a) \in 1..Cardinality(uploaded) /\ Cardinality(uploaded) \in Nat
      BY <3>1, NumberedDown DEF RankOf
    <3> QED BY <3>2
  <2> QED BY <2>1, <2>2 DEF H!Init, ListedOK
<1>4. ChosenOK /\ OutcomeOK
  BY FetchFacts DEF H!Init, ChosenOK, OutcomeOK
<1> QED BY <1>1, <1>2, <1>3, <1>4 DEF NewestInv

\* An upload moves no artifact to the front, and leaves room only where there was.
LEMMA UploadKeeps ==
  ASSUME NewestInv, H!Upload, FetchTypeOK'
  PROVE  NewestInv'
<1>1. /\ UNCHANGED <<before, usable, url, chosen, deleted, page, fetchPhase, outcome>>
      /\ uploaded \subseteq uploaded' /\ uploaded' \subseteq Artifacts
  BY DEF H!Upload, H!listing, H!download, NewestInv, ArtifactsOK
<1>2. IsFiniteSet(uploaded') /\ IsFiniteSet(uploaded)
  <2>1. uploaded' \in SUBSET Artifacts /\ uploaded \in SUBSET Artifacts
    BY <1>1
  <2> QED BY <2>1, FetchFacts, FS_Subset
<1>3. ASSUME NEW a PROVE RankOf(a) \in Nat /\ RankOf(a)' \in Nat /\ RankOf(a) <= RankOf(a)'
  <2>1. /\ From(uploaded, a) \in SUBSET uploaded /\ From(uploaded', a) \in SUBSET uploaded'
        /\ From(uploaded, a) \in SUBSET From(uploaded', a)
    BY <1>1 DEF From
  <2>2. IsFiniteSet(From(uploaded, a)) /\ IsFiniteSet(From(uploaded', a))
    BY <1>2, <2>1, FS_Subset
  <2> QED BY <2>1, <2>2, FS_Subset, FS_CardinalityType DEF RankOf
<1>4. H!Fits' => H!Fits
  <2>1. /\ H!Cardinality(uploaded) = Cardinality(uploaded)
        /\ H!Cardinality(uploaded') = Cardinality(uploaded')
    BY SameCounts
  <2>2. /\ Cardinality(uploaded) <= Cardinality(uploaded')
        /\ Cardinality(uploaded) \in Nat /\ Cardinality(uploaded') \in Nat
    BY <1>1, <1>2, FS_Subset, FS_CardinalityType
  <2>3. MaxPages * PageSize \in Nat
    BY FetchFacts
  <2> QED BY <2>1, <2>2, <2>3 DEF H!Fits
<1>5. ListedOK'
  <2>1. SUFFICES ASSUME chosen = None, ~deleted, NEW a \in before \cap Compatible, a \notin usable
                 PROVE  RankOf(a)' > (page - 1) * PageSize
    BY <1>1 DEF ListedOK
  <2>2. RankOf(a) > (page - 1) * PageSize
    BY <2>1 DEF NewestInv, ListedOK
  <2>3. (page - 1) * PageSize \in Nat
    BY ListedMeans, FetchFacts DEF FetchTypeOK, NewestInv
  <2> QED BY <1>3, <2>2, <2>3
<1>6. ArtifactsOK' /\ ChosenOK' /\ OutcomeOK'
  BY <1>1, <1>4 DEF NewestInv, ArtifactsOK, ChosenOK, OutcomeOK
<1> QED BY <1>5, <1>6 DEF NewestInv

\* Once one was deleted nothing is promised of the others.
LEMMA DeleteKeeps ==
  ASSUME NewestInv, H!Delete, FetchTypeOK'
  PROVE  NewestInv'
<1>1. /\ UNCHANGED <<before, usable, url, chosen, page, fetchPhase, outcome>>
      /\ deleted' = TRUE /\ uploaded' \subseteq Artifacts
  BY DEF H!Delete, H!listing, H!download, NewestInv, ArtifactsOK
<1> QED BY <1>1 DEF NewestInv, ArtifactsOK, ListedOK, ChosenOK, OutcomeOK

\* Steps that neither touch GitHub nor the listing, and do not end with an answer.
LEMMA OtherListingsKeep ==
  ASSUME NewestInv, FetchTypeOK',
         UNCHANGED <<uploaded, deleted, before, usable, chosen, page>>,
         url' = url \/ (url # None /\ url' # None),
         \/ UNCHANGED <<fetchPhase, outcome>>
         \/ fetchPhase # "done" /\ outcome' = outcome
         \/ outcome'.kind = "error" /\ outcome'.cause # "absent" /\ fetchPhase' = "done"
  PROVE  NewestInv'
<1>1. ArtifactsOK'
  BY DEF NewestInv, ArtifactsOK
<1>2. ListedOK'
  BY DEF NewestInv, ListedOK, RankOf
<1>3. H!Fits' = H!Fits
  BY DEF H!Fits
<1>4. ChosenOK'
  BY <1>3 DEF NewestInv, ChosenOK
<1>5. OutcomeOK'
  <2>1. H!Error("absent").cause = "absent"
    BY DEF H!Error
  <2>2. CASE outcome' = outcome
    <3>1. fetchPhase' # "done" => outcome = None
      BY <2>2 DEF NewestInv, OutcomeOK
    <3> QED BY <1>3, <2>2, <3>1 DEF NewestInv, OutcomeOK
  <2>3. CASE outcome'.kind = "error" /\ outcome'.cause # "absent" /\ fetchPhase' = "done"
    BY <2>1, <2>3 DEF OutcomeOK
  <2> QED BY <2>2, <2>3
<1> QED BY <1>1, <1>2, <1>4, <1>5 DEF NewestInv

\* What is on the page, or was before, is listed; the others come after it.
LEMMA PageLists ==
  ASSUME NewestInv, chosen = None, ~deleted, NEW a \in before \cap Compatible
  PROVE  /\ RankOf(a) \in Nat /\ page * PageSize \in Nat
         /\ a \in H!ListedSoFar \/ RankOf(a) > page * PageSize
         /\ Cardinality(H!Listed(page)) < PageSize => a \in H!ListedSoFar
<1>1. /\ a \in uploaded /\ a \in Compatible /\ page \in Nat \ {0}
      /\ uploaded \subseteq Int /\ IsFiniteSet(uploaded) /\ uploaded \subseteq Artifacts
  <2>1. uploaded \in SUBSET Artifacts /\ page \in 1..MaxPages /\ a \in uploaded
    BY DEF NewestInv, ArtifactsOK, FetchTypeOK
  <2>2. IsFiniteSet(uploaded)
    BY <2>1, FetchFacts, FS_Subset
  <2>3. page \in Nat \ {0} /\ uploaded \subseteq Int
    BY <2>1, FetchFacts
  <2> QED BY <2>1, <2>2, <2>3
<1> DEFINE lo == (page - 1) * PageSize
<1>2. /\ lo \in Nat /\ page * PageSize = lo + PageSize /\ PageSize \in Nat
      /\ H!Listed(page) = {b \in uploaded : RankOf(b) \in (lo + 1)..(lo + PageSize)}
  BY <1>1, ListedMeans, FetchFacts
<1>3. a \in usable \/ RankOf(a) > lo
  BY DEF NewestInv, ListedOK
<1> HIDE DEF lo
<1>4. RankOf(a) \in Nat
  <2>1. RankOf(a) \in 1..Cardinality(uploaded) /\ Cardinality(uploaded) \in Nat
    BY <1>1, NumberedDown DEF RankOf
  <2> QED BY <2>1
<1>5. a \in H!ListedSoFar \/ RankOf(a) > lo + PageSize
  BY <1>1, <1>2, <1>3, <1>4 DEF H!ListedSoFar
<1>6. Cardinality(H!Listed(page)) < PageSize => RankOf(a) <= page * PageSize
  BY <1>1, LastPageMeans
<1> QED BY <1>2, <1>4, <1>5, <1>6

\* A page that is not the last.
LEMMA NextPageLists ==
  ASSUME NewestInv, H!NextPage, FetchTypeOK'
  PROVE  NewestInv'
<1>1. /\ UNCHANGED <<uploaded, deleted, before, chosen, url, outcome>>
      /\ usable' = H!ListedSoFar /\ page' = page + 1 /\ fetchPhase = "flight"
      /\ url = None /\ chosen = None /\ page \in Nat
  BY DEF H!NextPage, H!github, H!download, NewestInv, ArtifactsOK, FetchTypeOK
<1>2. ArtifactsOK'
  BY <1>1 DEF NewestInv, ArtifactsOK, H!ListedSoFar, H!Listed
<1>3. ListedOK'
  <2>1. SUFFICES ASSUME ~deleted, NEW a \in before \cap Compatible
                 PROVE  a \in H!ListedSoFar \/ RankOf(a)' > (page' - 1) * PageSize
    BY <1>1 DEF ListedOK
  <2>2. RankOf(a)' = RankOf(a) /\ page' - 1 = page
    BY <1>1 DEF RankOf
  <2> QED BY <1>1, <2>1, <2>2, PageLists
<1>4. ChosenOK'
  BY <1>1 DEF ChosenOK
<1>5. OutcomeOK'
  <2>1. outcome' = None /\ None # H!Error("absent")
    BY <1>1, FetchFacts DEF NewestInv, OutcomeOK
  <2> QED BY <2>1 DEF OutcomeOK
<1> QED BY <1>2, <1>3, <1>4, <1>5 DEF NewestInv

\* The last page has room, or no artifact can have a place after it.
LEMMA LastPageLists ==
  ASSUME NewestInv, chosen = None, H!Last(H!Listed(page)), ~deleted, H!Fits
  PROVE  before \cap Compatible \subseteq H!ListedSoFar
<1> SUFFICES ASSUME NEW a \in before \cap Compatible PROVE a \in H!ListedSoFar
  OBVIOUS
<1>1. CASE H!Cardinality(H!Listed(page)) < PageSize
  BY <1>1, SameCounts, PageLists
<1>2. CASE page = MaxPages
  <2>1. uploaded \subseteq Int /\ IsFiniteSet(uploaded) /\ a \in uploaded
    BY FetchFacts, FS_Subset DEF NewestInv, ArtifactsOK
  <2>2. RankOf(a) \in 1..Cardinality(uploaded) /\ Cardinality(uploaded) \in Nat
    BY <2>1, NumberedDown DEF RankOf
  <2>3. Cardinality(uploaded) <= MaxPages * PageSize
    BY SameCounts DEF H!Fits
  <2>4. a \in H!ListedSoFar \/ RankOf(a) > MaxPages * PageSize
    BY <1>2, PageLists
  <2>5. MaxPages * PageSize \in Nat
    BY FetchFacts
  <2> QED BY <2>2, <2>3, <2>4, <2>5
<1> QED BY <1>1, <1>2 DEF H!Last

\* The last page: the newest of all is chosen, or there is none.
LEMMA LastPageChooses ==
  ASSUME NewestInv, H!LastPage \/ H!NoneUsable, FetchTypeOK'
  PROVE  NewestInv'
<1>1. /\ UNCHANGED <<uploaded, deleted, before>> /\ H!Last(H!Listed(page))
      /\ url = None /\ chosen = None /\ fetchPhase = "flight"
  BY DEF H!LastPage, H!NoneUsable, H!Fails, H!github, NewestInv, ArtifactsOK
<1>2. (~deleted /\ H!Fits) => before \cap Compatible \subseteq H!ListedSoFar
  BY <1>1, LastPageLists
<1>3. H!Fits' = H!Fits
  BY <1>1 DEF H!Fits
<1>4. H!ListedSoFar \subseteq Artifacts \cap Compatible
  BY DEF NewestInv, ArtifactsOK, H!ListedSoFar, H!Listed
<1>5. outcome = None
  BY <1>1 DEF NewestInv, OutcomeOK
<1>6. CASE H!LastPage
  <2>1. /\ usable' = H!ListedSoFar /\ H!ListedSoFar # {} /\ chosen' = H!Newest(usable')
        /\ url' = Endpoint /\ outcome' = None
    BY <1>5, <1>6 DEF H!LastPage
  <2>2. chosen' \in Artifacts /\ chosen' # None /\ url' # None
    BY <1>4, <2>1, NewestIs, FetchFacts
  <2>3. ArtifactsOK'
    BY <1>1, <1>4, <2>1, <2>2 DEF NewestInv, ArtifactsOK
  <2>4. ListedOK' /\ ChosenOK'
    BY <1>1, <1>2, <1>3, <2>1, <2>2 DEF ListedOK, ChosenOK
  <2>5. OutcomeOK'
    BY <2>1, FetchFacts DEF OutcomeOK
  <2> QED BY <2>3, <2>4, <2>5 DEF NewestInv
<1>7. CASE H!NoneUsable
  <2>1. /\ UNCHANGED <<usable, chosen, url, page>> /\ H!ListedSoFar = {}
        /\ outcome' = H!Error("absent") /\ fetchPhase' = "done"
    BY <1>7 DEF H!NoneUsable, H!Fails, H!End, H!listing, H!download
  <2>2. ArtifactsOK'
    BY <1>1, <2>1 DEF NewestInv, ArtifactsOK
  <2>3. ListedOK' /\ ChosenOK'
    BY <1>1, <2>1 DEF NewestInv, ListedOK, ChosenOK, RankOf
  <2>4. OutcomeOK'
    BY <1>1, <1>2, <1>3, <2>1 DEF OutcomeOK, H!Error
  <2> QED BY <2>2, <2>3, <2>4 DEF NewestInv
<1> QED BY <1>6, <1>7

\* What is stored is the artifact chosen, and agrees with its run.
LEMMA DownloadStores ==
  ASSUME NewestInv, H!Downloaded, FetchTypeOK'
  PROVE  NewestInv'
<1>1. PICK a \in Artifacts : /\ H!DigestMatches(a) /\ H!LedgerAgrees(a)
                             /\ H!End(H!Stored(chosen, a))
  BY DEF H!Downloaded
<1>2. /\ UNCHANGED <<uploaded, deleted, before, usable, chosen, page, url>>
      /\ url # None /\ chosen # None
  BY DEF H!Downloaded, H!github, H!listing, H!download, NewestInv, ArtifactsOK
<1>3. ArtifactsOK' /\ ListedOK'
  BY <1>2 DEF NewestInv, ArtifactsOK, ListedOK
<1>4. ChosenOK'
  BY <1>2 DEF NewestInv, ChosenOK, H!Fits
<1>5. /\ outcome' = [kind |-> "stored", artifact |-> chosen, ledger |-> a]
      /\ a = chosen /\ a \in Agreeing /\ fetchPhase' = "done"
  BY <1>1 DEF H!DigestMatches, H!LedgerAgrees, H!End, H!Stored
<1>6. outcome' # H!Error("absent")
  <2>1. outcome'.kind = "stored" /\ H!Error("absent").kind = "error"
    BY <1>5 DEF H!Error
  <2> QED BY <2>1
<1>7. OutcomeOK'
  BY <1>2, <1>5, <1>6 DEF OutcomeOK
<1> QED BY <1>3, <1>4, <1>7 DEF NewestInv

\* Every step keeps the invariant.
LEMMA NewestNext == FetchInv /\ NewestInv /\ [H!Next]_(H!vars) => NewestInv'
<1> SUFFICES ASSUME FetchInv, NewestInv, [H!Next]_(H!vars) PROVE NewestInv'
  OBVIOUS
<1>1. FetchTypeOK'
  BY FetchNext DEF FetchInv
<1>2. CASE H!Upload
  BY <1>1, <1>2, UploadKeeps
<1>3. CASE H!Delete
  BY <1>1, <1>3, DeleteKeeps
<1>4. CASE H!Expire \/ UNCHANGED H!vars
  BY <1>1, <1>4, OtherListingsKeep
  DEF H!Expire, H!vars, H!github, H!listing, H!download
<1>5. CASE H!Start \/ H!Send \/ H!Retry \/ H!Wake
  <2>1. /\ UNCHANGED <<uploaded, deleted, before, usable, chosen, page, url, outcome>>
        /\ fetchPhase # "done"
    BY <1>5 DEF H!Start, H!Send, H!Retry, H!Wake, H!github, H!listing, H!download
  <2> QED BY <1>1, <2>1, OtherListingsKeep
<1>6. CASE H!Redirect
  <2>1. /\ UNCHANGED <<uploaded, deleted, before, usable, chosen, page, outcome>>
        /\ fetchPhase # "done" /\ url # None /\ url' # None
    BY <1>6, FetchFacts DEF H!Redirect, H!github, H!listing
  <2> QED BY <1>1, <2>1, OtherListingsKeep
<1>7. CASE \/ H!Refuse \/ H!Interrupted \/ H!TransportFails \/ H!BudgetExhausted \/ H!Refused
           \/ H!RedirectRefused \/ H!DownloadRefused \/ H!StoreFails
  <2>1. /\ UNCHANGED <<uploaded, deleted, before, usable, chosen, page, url>>
        /\ \E cause : cause # "absent" /\ H!End(H!Error(cause))
    BY <1>7
    DEF H!Refuse, H!Interrupted, H!TransportFails, H!BudgetExhausted, H!Refused,
        H!RedirectRefused, H!DownloadRefused, H!StoreFails, H!Fails,
        H!github, H!listing, H!download
  <2>2. outcome'.kind = "error" /\ outcome'.cause # "absent" /\ fetchPhase' = "done"
    BY <2>1 DEF H!End, H!Error
  <2> QED BY <1>1, <2>1, <2>2, OtherListingsKeep
<1>8. CASE H!NextPage
  BY <1>1, <1>8, NextPageLists
<1>9. CASE H!LastPage \/ H!NoneUsable
  BY <1>1, <1>9, LastPageChooses
<1>10. CASE H!Downloaded
  BY <1>1, <1>10, DownloadStores
<1> QED BY <1>2, <1>3, <1>4, <1>5, <1>6, <1>7, <1>8, <1>9, <1>10 DEF H!Next

\* The invariant says what is promised.
LEMMA NewestInvStored == NewestInv => H!NewestIsStored
<1> SUFFICES ASSUME NewestInv PROVE H!NewestIsStored
  OBVIOUS
<1>1. ASSUME chosen # None
      PROVE  /\ chosen \in usable
             /\ \A a \in usable \ {chosen} :
                  /\ Created[a] <= Created[chosen]
                  /\ Created[a] = Created[chosen] => a < chosen
  BY <1>1, NewestIs DEF NewestInv, ArtifactsOK, ChosenOK
<1> QED BY <1>1 DEF NewestInv, ArtifactsOK, ChosenOK, OutcomeOK, H!NewestIsStored

-----------------------------------------------------------------------------
(* Docker                                                                  *)

\* A function on an interval from 1 is a sequence.
LEMMA FunctionIsSeq ==
  ASSUME NEW n \in Nat, NEW S, NEW f \in [1..n -> S]
  PROVE  f \in Seq(S) /\ Len(f) = n
<1>1. f \in Seq(S)
  BY SeqDef
<1>2. Len(f) \in Nat /\ DOMAIN f = 1..Len(f) /\ DOMAIN f = 1..n
  BY <1>1, LenProperties
<1> QED BY <1>1, <1>2

\* Sorted enumerates a finite set of integers in their order.
LEMMA SortedIs ==
  ASSUME NEW S, S \subseteq Int, IsFiniteSet(S)
  PROVE  /\ Cardinality(S) \in Nat
         /\ D!Sorted(S) \in [1..Cardinality(S) -> S]
         /\ \A m, n \in 1..Cardinality(S) : m < n => D!Sorted(S)[m] < D!Sorted(S)[n]
         /\ \A a \in S : \E n \in 1..Cardinality(S) : D!Sorted(S)[n] = a
<1> DEFINE C == Cardinality(S)
           q == [k \in 1..C |-> CHOOSE a \in S : Cardinality(UpTo(S, a)) = k]
<1>1. C \in Nat
  BY Numbered
<1>2. \A k \in 1..C : q[k] \in S /\ Cardinality(UpTo(S, q[k])) = k
  BY Numbered
<1>3. ASSUME NEW m \in 1..C, NEW n \in 1..C, m < n
      PROVE  q[m] < q[n]
  <2>1. q[m] \in Int /\ q[n] \in Int
    BY <1>2
  <2>2. q[m] # q[n]
    BY <1>2, <1>3
  <2>3. ASSUME q[n] < q[m] PROVE FALSE
    <3>1. Cardinality(UpTo(S, q[n])) < Cardinality(UpTo(S, q[m]))
      BY <1>2, <2>3, Numbered
    <3> QED BY <1>1, <1>2, <1>3, <3>1
  <2> QED BY <2>1, <2>2, <2>3
<1> DEFINE Good(p) == \A m, n \in DOMAIN p : m < n => p[m] < p[n]
<1>4. q \in [1..C -> S] /\ Good(q)
  BY <1>2, <1>3
<1>5. D!Sorted(S) = CHOOSE p \in [1..C -> S] : Good(p)
  BY SameCounts DEF D!Sorted
<1>6. D!Sorted(S) \in [1..C -> S] /\ Good(D!Sorted(S))
  <2> HIDE DEF q, Good, C
  <2> QED BY <1>4, <1>5
<1> DEFINE p == D!Sorted(S)
<1>7. p \in Surjection(1..C, S)
  <2>1. \A m, n \in 1..C : m < n => p[m] < p[n]
    BY <1>6
  <2>2. \A m \in 1..C : p[m] \in Int
    BY <1>6
  <2>3. p \in Injection(1..C, S)
    <3>1. \A m, n \in 1..C : p[m] = p[n] => m = n
      BY <1>1, <2>1, <2>2
    <3> QED BY <1>6, <3>1 DEF Injection, IsInjective
  <2>4. Cardinality(1..C) = C
    BY <1>1, FS_Interval
  <2> HIDE DEF p
  <2> QED BY <2>3, <2>4, FS_Injection
<1>8. \A a \in S : \E n \in 1..C : p[n] = a
  BY <1>7 DEF Surjection
<1> QED BY <1>1, <1>6, <1>8

Jobs == [index : DOMAIN listed, container : Containers, stage : {"container", "image"}]

\* The list is sorted, and nothing is listed before.
ListOK ==
  /\ alive \subseteq Containers
  /\ listed \in Seq(Containers) /\ Len(listed) <= Cardinality(Containers)
  /\ \A m, n \in 1..Len(listed) : m < n => listed[m] < listed[n]
  /\ dockerPhase = "list" => listed = <<>> /\ results = <<>>
  /\ dockerPhase = "inspect" => listed # <<>>
  /\ DOMAIN results = 1..Len(listed)

\* Each worker has a job of the list or none, and none when it has ended; once one that was
\* needed has ended, no job is left in the channel.
WorkOK ==
  /\ queue \in Seq(1..Len(listed)) /\ exited \subseteq D!Workers
  /\ work \in [D!Workers -> Jobs \cup {None}]
  /\ \A w \in D!Workers : work[w] # None => work[w].container = listed[work[w].index]
  /\ \A w \in exited : work[w] = None
  /\ dockerPhase # "inspect" => \A w \in D!Workers : work[w] = None
  /\ (\E w \in exited : w <= Len(listed)) => queue = <<>>

Given(n) ==
  results[n] \in [kind : {"observed", "disappeared", "unavailable", "failed", "context"},
                  container : {listed[n]}]

Queued(n) == \E k \in 1..Len(queue) : queue[k] = n

Worked(n) == \E w \in D!Workers : work[w] # None /\ work[w].index = n

\* No container of the list is lost: it has its result, it waits, or a worker has it.
ResultsOK ==
  /\ dockerPhase = "inspect" => \A n \in 1..Len(listed) : Given(n) \/ Queued(n) \/ Worked(n)
  /\ \A n \in 1..Len(listed) :
       Given(n) /\ results[n].kind = "disappeared" =>
         listed[n] \notin alive \/ ImageOf[listed[n]] \notin images

DockerInv ==
  /\ ListOK /\ WorkOK /\ ResultsOK
  /\ dockerPhase # "done" => dockerOutcome = None
  /\ D!BatchAccountsForAll

\* The constants of a call.
LEMMA DockerFacts ==
  /\ Containers \subseteq Int /\ IsFiniteSet(Containers) /\ DOMAIN ImageOf = Containers
  /\ Concurrency \in Nat \ {0} /\ Cardinality(Containers) \in Nat
  /\ None \notin Containers
  /\ \A n \in 1..Cardinality(Containers), c \in Containers, s \in {"container", "image"} :
       [index |-> n, container |-> c, stage |-> s] # None
  /\ None \notin [kind : {"observed", "disappeared", "unavailable", "failed", "context"},
                  container : Containers]
BY CallsAssumption, SameCounts, FS_CardinalityType DEF D!DockerAssumption

\* A job is never taken for none.
LEMMA JobIsOne ==
  ASSUME ListOK, NEW j \in Jobs
  PROVE  j # None
<1>1. j = [index |-> j.index, container |-> j.container, stage |-> j.stage]
  BY DEF Jobs
<1>2. /\ j.index \in 1..Cardinality(Containers) /\ j.container \in Containers
      /\ j.stage \in {"container", "image"}
  <2>1. j.index \in DOMAIN listed /\ DOMAIN listed = 1..Len(listed) /\ Len(listed) \in Nat
    BY LenProperties DEF Jobs, ListOK
  <2> QED BY <2>1, DockerFacts DEF Jobs, ListOK
<1> QED BY <1>1, <1>2, DockerFacts

\* A call that has not ended has no outcome.
LEMMA NoBatchYet ==
  ASSUME dockerOutcome = None \/ \E cause : dockerOutcome = D!Error(cause)
  PROVE  D!BatchAccountsForAll
BY DEF D!BatchAccountsForAll, D!IsBatch, D!Error

\* The invariant holds at first.
LEMMA DockerInit == D!Init => DockerInv
<1> SUFFICES ASSUME D!Init PROVE DockerInv
  OBVIOUS
<1> USE DEF D!Init
<1>1. ListOK
  BY DockerFacts DEF ListOK
<1>2. WorkOK
  BY <1>1 DEF WorkOK
<1>3. ResultsOK
  BY DEF ResultsOK
<1> QED BY <1>1, <1>2, <1>3, NoBatchYet DEF DockerInv

\* Containers and images are only ever removed, which no part of the invariant is hurt by.
LEMMA RemovalKeeps ==
  ASSUME DockerInv, alive' \subseteq alive, images' \subseteq images,
         UNCHANGED <<dockerPhase, listed, queue, work, exited, results, dockerOutcome>>
  PROVE  DockerInv'
<1>1. ListOK'
  BY DEF DockerInv, ListOK
<1>2. WorkOK'
  BY DEF DockerInv, WorkOK, Jobs
<1>3. ResultsOK'
  BY DEF DockerInv, ResultsOK, Given, Queued, Worked
<1>4. D!BatchAccountsForAll'
  BY DEF DockerInv, D!BatchAccountsForAll, D!IsBatch
<1> QED BY <1>1, <1>2, <1>3, <1>4 DEF DockerInv

\* The list is sorted, and each of its containers becomes a job.
LEMMA ListKeeps == DockerInv /\ D!List => DockerInv'
<1> SUFFICES ASSUME DockerInv, D!List PROVE DockerInv'
  OBVIOUS
<1> DEFINE C == Cardinality(alive)
<1>1. /\ C \in Nat /\ C <= Cardinality(Containers) /\ IsFiniteSet(alive)
      /\ listed' \in [1..C -> alive] /\ listed' \in Seq(alive) /\ Len(listed') = C
      /\ \A m, n \in 1..C : m < n => listed'[m] < listed'[n]
  <2>1. alive \in SUBSET Containers /\ alive \subseteq Int
    BY DockerFacts DEF DockerInv, ListOK
  <2>2. IsFiniteSet(alive) /\ C <= Cardinality(Containers)
    BY <2>1, DockerFacts, FS_Subset
  <2>3. listed' = D!Sorted(alive)
    BY DEF D!List
  <2>4. /\ C \in Nat /\ listed' \in [1..C -> alive]
        /\ \A m, n \in 1..C : m < n => listed'[m] < listed'[n]
    BY <2>1, <2>2, <2>3, SortedIs
  <2>5. listed' \in Seq(alive) /\ Len(listed') = C
    BY <2>4, FunctionIsSeq
  <2> QED BY <2>2, <2>4, <2>5
<1>2. /\ alive' = alive /\ images' = images /\ work' = work /\ D!Cardinality(alive) = C
      /\ dockerPhase = "list" /\ listed = <<>> /\ results = <<>>
      /\ \A w \in D!Workers : work[w] = None
      /\ work \in [D!Workers -> Jobs \cup {None}] /\ queue \in Seq(1..Len(listed))
      /\ exited \subseteq D!Workers /\ dockerOutcome = None
  BY SameCounts DEF D!List, D!environment, DockerInv, ListOK, WorkOK
<1>3. CASE alive = {}
  <2>1. /\ dockerOutcome' = D!Batch(<<>>, 0) /\ dockerPhase' = "done"
        /\ queue' = queue /\ exited' = exited /\ results' = results
    BY <1>3 DEF D!List
  <2>2. C = 0
    BY <1>3, FS_EmptySet
  <2>3. listed' = <<>> /\ queue = <<>>
    BY <1>1, <1>2, <2>2, EmptySeq
  <2>4. ListOK'
    BY <1>1, <1>2, <2>1, <2>3, <2>2, DockerFacts DEF ListOK, DockerInv
  <2>5. WorkOK'
    BY <1>2, <2>1, <2>3 DEF WorkOK, Jobs, D!Workers
  <2>6. ResultsOK'
    BY <2>1, <2>3 DEF ResultsOK
  <2>7. D!BatchAccountsForAll'
    BY <1>2, <2>1, <2>3 DEF D!BatchAccountsForAll, D!Batch
  <2> QED BY <2>1, <2>4, <2>5, <2>6, <2>7 DEF DockerInv
<1>4. CASE alive # {}
  <2>1. /\ queue' = [n \in 1..C |-> n] /\ results' = [n \in 1..C |-> None]
        /\ exited' = {w \in D!Workers : w > C} /\ dockerPhase' = "inspect"
        /\ dockerOutcome' = dockerOutcome
    BY <1>2, <1>4 DEF D!List
  <2>2. C # 0
    BY <1>1, <1>4, FS_EmptySet
  <2>3. queue' \in Seq(1..C) /\ Len(queue') = C
    <3>1. queue' \in [1..C -> 1..C]
      BY <2>1
    <3> QED BY <1>1, <3>1, FunctionIsSeq
  <2>4. ListOK'
    <3>1. listed' # <<>>
      BY <1>1, <2>2
    <3>2. alive \subseteq Containers /\ listed' \in Seq(Containers)
      <4>1. alive \subseteq Containers
        BY DEF DockerInv, ListOK
      <4>2. listed' \in [1..C -> Containers]
        BY <4>1, <1>1
      <4> QED BY <4>1, <4>2, <1>1, FunctionIsSeq
    <3> QED BY <1>1, <1>2, <2>1, <3>1, <3>2 DEF ListOK
  <2>5. WorkOK'
    <3>1. \A w \in exited' : w <= Len(listed') => FALSE
      BY <1>1, <2>1 DEF D!Workers
    <3> QED BY <1>1, <1>2, <2>1, <2>3, <3>1 DEF WorkOK, Jobs, D!Workers
  <2>6. ResultsOK'
    <3>1. \A n \in 1..C : Queued(n)'
      BY <1>1, <2>1, <2>3 DEF Queued
    <3>2. \A n \in 1..C : ~Given(n)'
      <4>1. \A n \in 1..C : listed'[n] \in Containers
        BY <1>1 DEF DockerInv, ListOK
      <4>2. \A n \in 1..C : None \notin [kind : {"observed", "disappeared", "unavailable",
                                "failed", "context"}, container : {listed'[n]}]
        BY <4>1, DockerFacts
      <4> QED BY <2>1, <4>2 DEF Given
    <3> QED BY <1>1, <3>1, <3>2 DEF ResultsOK
  <2>7. D!BatchAccountsForAll'
    BY <1>2, <2>1 DEF D!BatchAccountsForAll, D!IsBatch
  <2> QED BY <1>2, <2>1, <2>4, <2>5, <2>6, <2>7 DEF DockerInv
<1> QED BY <1>3, <1>4

\* A list that cannot be taken ends the call with an error.
LEMMA ListFailsKeeps == DockerInv /\ D!ListFails => DockerInv'
<1> SUFFICES ASSUME DockerInv, D!ListFails PROVE DockerInv'
  OBVIOUS
<1>1. /\ UNCHANGED <<alive, images, listed, queue, work, exited, results>>
      /\ dockerPhase = "list" /\ dockerPhase' = "done"
      /\ \E cause : dockerOutcome' = D!Error(cause)
  BY DEF D!ListFails, D!environment
<1>2. ListOK'
  BY <1>1 DEF DockerInv, ListOK
<1>3. WorkOK'
  BY <1>1 DEF DockerInv, WorkOK, Jobs, D!Workers
<1>4. ResultsOK'
  BY <1>1 DEF DockerInv, ListOK, ResultsOK
<1>5. D!BatchAccountsForAll'
  BY <1>1 DEF D!BatchAccountsForAll, D!IsBatch, D!Error
<1> QED BY <1>1, <1>2, <1>3, <1>4, <1>5 DEF DockerInv

\* A worker has something to do only while the call inspects.
LEMMA BusyInspects ==
  ASSUME DockerInv, NEW w \in D!Workers, work[w] # None
  PROVE  /\ dockerPhase = "inspect" /\ w \notin exited
         /\ work[w] \in Jobs /\ work[w].container = listed[work[w].index]
BY DEF DockerInv, WorkOK

\* A job that is taken is with its worker and no longer in the channel.
LEMMA TakeKeeps ==
  ASSUME DockerInv, NEW w \in D!Workers, D!TakeJob(w)
  PROVE  DockerInv'
<1> DEFINE h == Head(queue)
           j == D!Job(h, "container")
<1>1. /\ UNCHANGED <<alive, images, listed, dockerPhase, exited, results, dockerOutcome>>
      /\ dockerPhase = "inspect" /\ w \notin exited /\ work[w] = None /\ queue # <<>>
      /\ work' = [work EXCEPT ![w] = j] /\ queue' = Tail(queue)
  BY DEF D!TakeJob, D!Idle, D!environment
<1>2. /\ h \in 1..Len(listed) /\ h = queue[1] /\ Len(queue) \in Nat \ {0}
      /\ queue' \in Seq(1..Len(listed)) /\ Len(queue') = Len(queue) - 1
      /\ \A k \in 1..Len(queue') : queue'[k] = queue[k + 1]
  BY <1>1, HeadTailProperties DEF DockerInv, WorkOK
<1>3. j \in Jobs /\ j.index = h /\ j.container = listed[h]
  BY <1>2 DEF D!Job, Jobs, DockerInv, ListOK
<1>4. j # None
  BY <1>3, JobIsOne DEF DockerInv
<1>5. ListOK'
  BY <1>1 DEF DockerInv, ListOK
<1>6. /\ work' \in [D!Workers -> Jobs \cup {None}] /\ work'[w] = j
      /\ \A v \in D!Workers \ {w} : work'[v] = work[v]
  BY <1>1, <1>3 DEF DockerInv, WorkOK
<1>7. WorkOK'
  <2>1. \A v \in D!Workers : work'[v] # None => work'[v].container = listed'[work'[v].index]
    BY <1>1, <1>3, <1>6 DEF DockerInv, WorkOK
  <2>2. \A v \in exited' : work'[v] = None
    BY <1>1, <1>6 DEF DockerInv, WorkOK
  <2>3. Jobs' = Jobs
    BY <1>1 DEF Jobs
  <2>4. ~ \E v \in exited : v <= Len(listed)
    BY <1>1 DEF DockerInv, WorkOK
  <2>5. exited' \subseteq D!Workers
    BY <1>1 DEF DockerInv, WorkOK
  <2> QED BY <1>1, <1>2, <1>6, <2>1, <2>2, <2>3, <2>4, <2>5 DEF WorkOK
<1>8. ResultsOK'
  <2>1. \A n \in 1..Len(listed) : Given(n)' <=> Given(n)
    BY <1>1 DEF Given
  <2>2. ASSUME NEW n \in 1..Len(listed), Queued(n)
        PROVE  Queued(n)' \/ Worked(n)'
    <3>1. PICK k \in 1..Len(queue) : queue[k] = n
      BY <2>2 DEF Queued
    <3>2. CASE k = 1
      BY <1>2, <1>3, <1>4, <1>6, <3>1, <3>2 DEF Worked
    <3>3. CASE k # 1
      <4>1. k - 1 \in 1..Len(queue') /\ queue'[k - 1] = n
        BY <1>2, <3>1, <3>3
      <4> QED BY <4>1 DEF Queued
    <3> QED BY <3>2, <3>3
  <2>3. \A n \in 1..Len(listed) : Worked(n) => Worked(n)'
    BY <1>1, <1>6 DEF Worked
  <2> QED BY <1>1, <2>1, <2>2, <2>3 DEF DockerInv, ResultsOK
<1> QED BY <1>1, <1>5, <1>7, <1>8, NoBatchYet DEF DockerInv, D!BatchAccountsForAll, D!IsBatch

\* A worker ends when no job is left.
LEMMA ExitKeeps ==
  ASSUME DockerInv, NEW w \in D!Workers, D!Exit(w)
  PROVE  DockerInv'
<1>1. /\ UNCHANGED <<alive, images, listed, dockerPhase, queue, work, results, dockerOutcome>>
      /\ dockerPhase = "inspect" /\ work[w] = None /\ queue = <<>>
      /\ exited' = exited \cup {w}
  BY DEF D!Exit, D!Idle, D!environment
<1>2. ListOK'
  BY <1>1 DEF DockerInv, ListOK
<1>3. WorkOK'
  BY <1>1 DEF DockerInv, WorkOK, Jobs, D!Workers
<1>4. ResultsOK'
  BY <1>1 DEF DockerInv, ResultsOK, Given, Queued, Worked
<1> QED BY <1>1, <1>2, <1>3, <1>4 DEF DockerInv, D!BatchAccountsForAll, D!IsBatch

\* A worker goes on from its container to the image.
LEMMA ContainerInspectedKeeps ==
  ASSUME DockerInv, NEW w \in D!Workers, D!ContainerInspected(w)
  PROVE  DockerInv'
<1> DEFINE j == [work[w] EXCEPT !.stage = "image"]
<1>1. /\ UNCHANGED <<alive, images, listed, dockerPhase, queue, exited, results, dockerOutcome>>
      /\ work[w] # None /\ work' = [work EXCEPT ![w] = j]
  BY DEF D!ContainerInspected, D!Busy, D!environment
<1>2. /\ dockerPhase = "inspect" /\ w \notin exited /\ work[w] \in Jobs
      /\ work[w].container = listed[work[w].index]
  BY <1>1, BusyInspects
<1>3. j \in Jobs /\ j.index = work[w].index /\ j.container = work[w].container
  BY <1>2 DEF Jobs
<1>4. j # None
  BY <1>3, JobIsOne DEF DockerInv
<1>5. ListOK'
  BY <1>1 DEF DockerInv, ListOK
<1>6. /\ work' \in [D!Workers -> Jobs \cup {None}] /\ work'[w] = j
      /\ \A v \in D!Workers \ {w} : work'[v] = work[v]
  BY <1>1, <1>3 DEF DockerInv, WorkOK
<1>7. WorkOK'
  <2>1. \A v \in D!Workers : work'[v] # None => work'[v].container = listed'[work'[v].index]
    BY <1>1, <1>2, <1>3, <1>6 DEF DockerInv, WorkOK
  <2>2. \A v \in exited' : work'[v] = None
    BY <1>1, <1>2, <1>6 DEF DockerInv, WorkOK
  <2>3. Jobs' = Jobs
    BY <1>1 DEF Jobs
  <2> QED BY <1>1, <1>2, <1>6, <2>1, <2>2, <2>3 DEF DockerInv, WorkOK
<1>8. ResultsOK'
  <2>1. \A n \in 1..Len(listed) : Worked(n) => Worked(n)'
    BY <1>3, <1>4, <1>6 DEF Worked
  <2> QED BY <1>1, <2>1 DEF DockerInv, ResultsOK, Given, Queued
<1> QED BY <1>1, <1>2, <1>5, <1>7, <1>8 DEF DockerInv, D!BatchAccountsForAll, D!IsBatch

\* A worker stores the result of its container, in whichever way it is done with it; one it
\* says has disappeared is gone.
LEMMA AnswerKeeps ==
  ASSUME DockerInv, NEW w \in D!Workers, work[w] # None,
         NEW k \in {"observed", "disappeared", "unavailable", "failed", "context"},
         D!Answer(w, k),
         k = "disappeared" => \/ work[w].container \notin alive
                              \/ ImageOf[work[w].container] \notin images
  PROVE  DockerInv'
<1> DEFINE i == work[w].index
           r == [kind |-> k, container |-> work[w].container]
<1>1. /\ UNCHANGED <<alive, images, listed, dockerPhase, queue, exited, dockerOutcome>>
      /\ work' = [work EXCEPT ![w] = None] /\ results' = [results EXCEPT ![i] = r]
  BY DEF D!Answer, D!Slot, D!environment
<1>2. /\ dockerPhase = "inspect" /\ w \notin exited /\ work[w] \in Jobs
      /\ work[w].container = listed[i]
  BY BusyInspects
<1>3. i \in 1..Len(listed) /\ r \in [kind : {k}, container : {listed[i]}]
  BY <1>2 DEF Jobs, DockerInv, ListOK
<1>4. /\ DOMAIN results' = 1..Len(listed) /\ results'[i] = r
      /\ \A n \in 1..Len(listed) : n # i => results'[n] = results[n]
  BY <1>1, <1>3 DEF DockerInv, ListOK
<1>5. ListOK'
  BY <1>1, <1>2, <1>4 DEF DockerInv, ListOK
<1>6. WorkOK'
  BY <1>1, <1>2 DEF DockerInv, WorkOK, Jobs
<1>7. ResultsOK'
  <2>1. ASSUME NEW n \in 1..Len(listed), n = i PROVE Given(n)'
    BY <1>1, <1>3, <1>4, <2>1 DEF Given
  <2>2. \A n \in 1..Len(listed) : n # i => (Given(n)' <=> Given(n)) /\ results'[n] = results[n]
    BY <1>1, <1>4 DEF Given
  <2>3. \A n \in 1..Len(listed) : n # i /\ Worked(n) => Worked(n)'
    BY <1>1 DEF Worked, DockerInv, WorkOK
  <2>4. \A n \in 1..Len(listed) : Queued(n)' <=> Queued(n)
    BY <1>1 DEF Queued
  <2>5. results'[i].kind = k /\ (k = "disappeared" =>
           listed[i] \notin alive \/ ImageOf[listed[i]] \notin images)
    BY <1>2, <1>4
  <2> QED BY <1>1, <2>1, <2>2, <2>3, <2>4, <2>5 DEF DockerInv, ResultsOK
<1> QED BY <1>1, <1>2, <1>5, <1>6, <1>7 DEF DockerInv, D!BatchAccountsForAll, D!IsBatch

\* The results of some kinds, and how many there are.
LEMMA KindsAre ==
  ASSUME DockerInv, NEW K
  PROVE  /\ D!Kinds(K) = {n \in 1..Len(listed) : results[n].kind \in K}
         /\ D!Kinds(K) \subseteq 1..Len(listed) /\ D!Kinds(K) \subseteq Int
         /\ IsFiniteSet(D!Kinds(K)) /\ Cardinality(D!Kinds(K)) \in Nat
         /\ D!Cardinality(D!Kinds(K)) = Cardinality(D!Kinds(K))
<1> DEFINE S == D!Kinds(K)
<1>1. S = {n \in 1..Len(listed) : results[n].kind \in K}
  BY DEF D!Kinds, DockerInv, ListOK
<1>2. Len(listed) \in Nat /\ IsFiniteSet(1..Len(listed))
  BY LenProperties, FS_Interval DEF DockerInv, ListOK
<1>3. S \in SUBSET (1..Len(listed))
  BY <1>1
<1>4. IsFiniteSet(S)
  BY <1>2, <1>3, FS_Subset
<1>5. Cardinality(S) \in Nat
  BY <1>4, FS_CardinalityType
<1>6. D!Cardinality(S) = Cardinality(S)
  BY SameCounts
<1>7. S \subseteq 1..Len(listed) /\ S \subseteq Int
  BY <1>3
<1> QED BY <1>1, <1>4, <1>5, <1>6, <1>7

\* How many numbers there are from 1.
LEMMA IntervalSize ==
  ASSUME NEW n \in Nat
  PROVE  IsFiniteSet(1..n) /\ Cardinality(1..n) = n
BY FS_Interval

\* The workers have ended, and every container has its result.
LEMMA AllGiven ==
  ASSUME DockerInv, dockerPhase = "inspect", exited = D!Workers
  PROVE  \A n \in 1..Len(listed) : Given(n)
<1>1. 1 \in D!Workers
  BY DockerFacts DEF D!Workers
<1>2. Len(listed) \in Nat /\ Len(listed) # 0
  BY LenProperties, EmptySeq DEF DockerInv, ListOK
<1>3. queue = <<>>
  BY <1>1, <1>2 DEF DockerInv, WorkOK
<1>4. \A w \in D!Workers : work[w] = None
  BY DEF DockerInv, WorkOK
<1> QED BY <1>3, <1>4 DEF DockerInv, ResultsOK, Queued, Worked

\* What is returned lists what was observed, in order and without a gap, and counts the rest.
LEMMA BatchIsComplete ==
  ASSUME DockerInv, dockerPhase = "inspect", exited = D!Workers,
         \A n \in 1..Len(listed) : results[n].kind \notin {"context", "unavailable"},
         ~ (D!Observations = <<>> /\ D!Rejected > 0),
         dockerOutcome' = D!Batch(D!Observations, D!Rejected),
         UNCHANGED <<alive, images, listed, results>>
  PROVE  D!BatchAccountsForAll'
<1> DEFINE L == Len(listed)
           O == D!Kinds({"observed"})
           R == D!Kinds({"failed", "disappeared"})
           C == Cardinality(O)
           p == D!Sorted(O)
<1>1. /\ L \in Nat /\ listed \in Seq(Containers) /\ DOMAIN results = 1..L
      /\ \A n \in 1..L : listed[n] \in Int
      /\ \A m, n \in 1..L : m < n => listed[m] < listed[n]
  <2>1. L \in Nat /\ DOMAIN listed = 1..L /\ \A n \in 1..L : listed[n] \in Containers
    BY LenProperties, ElementOfSeq DEF DockerInv, ListOK
  <2> QED BY <2>1, DockerFacts DEF DockerInv, ListOK
<1>2. \A n \in 1..L : Given(n)
  BY AllGiven
<1>3. \A n \in 1..L : results[n].container = listed[n]
                      /\ results[n].kind \in {"observed", "failed", "disappeared"}
  BY <1>2 DEF Given
<1>4. /\ O = {n \in 1..L : results[n].kind \in {"observed"}} /\ C \in Nat /\ IsFiniteSet(O)
      /\ O \subseteq Int /\ R = {n \in 1..L : results[n].kind \in {"failed", "disappeared"}}
      /\ IsFiniteSet(R) /\ Cardinality(R) \in Nat /\ D!Rejected = Cardinality(R)
  BY KindsAre DEF D!Rejected
<1>5. C + Cardinality(R) = L
  <2>1. O \cup R = 1..L /\ O \cap R = {}
    BY <1>3, <1>4
  <2>2. Cardinality(1..L) = L /\ Cardinality({}) = 0
    BY <1>1, IntervalSize, FS_EmptySet
  <2>3. Cardinality(O \cup R) = C + Cardinality(R) - Cardinality(O \cap R)
    BY <1>4, FS_Union
  <2>4. Cardinality(O \cup R) = L /\ Cardinality(O \cap R) = 0
    BY <2>1, <2>2
  <2>5. C \in Nat /\ Cardinality(R) \in Nat
    BY <1>4
  <2> HIDE DEF O, R, L, C
  <2> QED BY <2>3, <2>4, <2>5
<1>6. /\ p \in [1..C -> O] /\ \A m, n \in 1..C : m < n => p[m] < p[n]
      /\ \A a \in O : \E n \in 1..C : p[n] = a
  BY <1>4, SortedIs
<1> DEFINE q == D!Observations
<1>7. /\ q \in [1..C -> Containers] /\ \A n \in 1..C : q[n] = listed[p[n]]
  <2>1. \A n \in 1..C : p[n] \in 1..L /\ results[p[n]].container = listed[p[n]]
    BY <1>3, <1>4, <1>6
  <2>2. DOMAIN p = 1..C
    BY <1>6
  <2>3. q = [n \in 1..C |-> results[p[n]].container]
    BY <2>2 DEF D!Observations
  <2>4. \A n \in 1..C : listed[p[n]] \in Containers
    BY <1>1, <2>1
  <2> HIDE DEF p, C
  <2> QED BY <2>1, <2>3, <2>4
<1>8. Len(q) = C
  BY <1>4, <1>7, FunctionIsSeq
<1>9. \A m, n \in 1..C : m < n => q[m] < q[n]
  <2>1. \A m \in 1..C : p[m] \in 1..L
    BY <1>4, <1>6
  <2> QED BY <1>1, <1>6, <1>7, <2>1
<1>10. C = 0 => L = 0
  <2>1. C = 0 => q = <<>>
    <3>1. q \in Seq(Containers)
      BY <1>4, <1>7, FunctionIsSeq
    <3> HIDE DEF q
    <3> QED BY <1>8, <3>1, EmptySeq
  <2> QED BY <1>4, <1>5, <2>1
<1>11. \A n \in 1..L : \/ \E m \in 1..C : q[m] = listed[n]
                       \/ results[n].kind = "failed"
                       \/ listed[n] \notin alive \/ ImageOf[listed[n]] \notin images
  <2> SUFFICES ASSUME NEW n \in 1..L, results[n].kind # "failed"
               PROVE  \/ \E m \in 1..C : q[m] = listed[n]
                      \/ listed[n] \notin alive \/ ImageOf[listed[n]] \notin images
    OBVIOUS
  <2>1. CASE results[n].kind = "observed"
    <3>1. n \in O
      BY <1>4, <2>1
    <3>2. PICK m \in 1..C : p[m] = n
      BY <1>6, <3>1
    <3> QED BY <1>7, <3>2
  <2>2. CASE results[n].kind = "disappeared"
    BY <1>2, <2>2 DEF DockerInv, ResultsOK
  <2> QED BY <1>3, <2>1, <2>2
<1>12. L = 0 => listed = <<>>
  BY <1>1, EmptySeq
<1>13. /\ dockerOutcome'.observations = q /\ dockerOutcome'.rejected = Cardinality(R)
  BY <1>4 DEF D!Batch
<1>14. DOMAIN q = 1..C /\ DOMAIN listed = 1..L
  BY <1>1, <1>7
<1>15. q = <<>> => listed = <<>>
  BY <1>8, <1>10, <1>12
<1> HIDE DEF q, C, R, O, L, p
<1>16. /\ \A m, n \in DOMAIN dockerOutcome'.observations :
            m < n => dockerOutcome'.observations[m] < dockerOutcome'.observations[n]
       /\ Len(dockerOutcome'.observations) + dockerOutcome'.rejected = Len(listed)
       /\ dockerOutcome'.observations = <<>> => listed = <<>>
  BY <1>5, <1>8, <1>9, <1>13, <1>14, <1>15 DEF L
<1>17. \A n \in DOMAIN listed :
         \/ \E m \in DOMAIN dockerOutcome'.observations :
              dockerOutcome'.observations[m] = listed[n]
         \/ results[n].kind = "failed"
         \/ listed[n] \notin alive \/ ImageOf[listed[n]] \notin images
  BY <1>11, <1>13, <1>14
<1>18. \A n \in DOMAIN results : results[n].kind \notin {"unavailable", "context"}
  BY <1>1, <1>3
<1> QED BY <1>16, <1>17, <1>18 DEF D!BatchAccountsForAll

\* The call returns with what the workers have found.
LEMMA CollectKeeps == DockerInv /\ D!Collect => DockerInv'
<1> SUFFICES ASSUME DockerInv, D!Collect PROVE DockerInv'
  OBVIOUS
<1>1. /\ UNCHANGED <<alive, images, listed, queue, work, exited, results>>
      /\ dockerPhase = "inspect" /\ dockerPhase' = "done" /\ exited = D!Workers
      /\ dockerOutcome' = IF dockerExpired THEN D!Error("context") ELSE D!Collected
  BY DEF D!Collect, D!environment
<1>2. ListOK'
  BY <1>1 DEF DockerInv, ListOK
<1>3. WorkOK'
  BY <1>1 DEF DockerInv, WorkOK, Jobs, D!Workers
<1>4. ResultsOK'
  BY <1>1 DEF DockerInv, ResultsOK, Given
<1>5. D!BatchAccountsForAll'
  <2>1. CASE \E cause : dockerOutcome' = D!Error(cause)
    BY <2>1 DEF D!BatchAccountsForAll, D!IsBatch, D!Error
  <2>2. CASE ~ \E cause : dockerOutcome' = D!Error(cause)
    <3>1. ~dockerExpired /\ dockerOutcome' = D!Collected
      BY <1>1, <2>2
    <3>2. ~ \E n \in DOMAIN results : D!Fatal(n)
      BY <2>2, <3>1 DEF D!Collected
    <3>3. ~ (D!Observations = <<>> /\ D!Rejected > 0)
      BY <2>2, <3>1, <3>2 DEF D!Collected
    <3>4. dockerOutcome' = D!Batch(D!Observations, D!Rejected)
      BY <3>1, <3>2, <3>3 DEF D!Collected
    <3>5. \A n \in 1..Len(listed) : results[n].kind \notin {"context", "unavailable"}
      BY <3>2 DEF D!Fatal, DockerInv, ListOK
    <3> QED BY <1>1, <3>3, <3>4, <3>5, BatchIsComplete
  <2> QED BY <2>1, <2>2
<1> QED BY <1>1, <1>2, <1>3, <1>4, <1>5 DEF DockerInv

\* Every step of Docker, its daemon and the workers keeps the invariant.
LEMMA DockerNext == DockerInv /\ [D!Next]_(D!vars) => DockerInv'
<1> SUFFICES ASSUME DockerInv, [D!Next]_(D!vars) PROVE DockerInv'
  OBVIOUS
<1>1. CASE \/ UNCHANGED D!vars
           \/ D!RemoveContainer \/ D!RemoveImage \/ D!DaemonTurns \/ D!Expire
  <2>1. /\ alive' \subseteq alive /\ images' \subseteq images
        /\ UNCHANGED <<dockerPhase, listed, queue, work, exited, results, dockerOutcome>>
    BY <1>1 DEF D!vars, D!environment, D!RemoveContainer, D!RemoveImage, D!DaemonTurns, D!Expire
  <2> QED BY <2>1, RemovalKeeps
<1>2. CASE D!List
  BY <1>2, ListKeeps
<1>3. CASE D!ListFails
  BY <1>3, ListFailsKeeps
<1>4. ASSUME NEW w \in D!Workers, D!TakeJob(w) PROVE DockerInv'
  BY <1>4, TakeKeeps
<1>5. ASSUME NEW w \in D!Workers, D!Exit(w) PROVE DockerInv'
  BY <1>5, ExitKeeps
<1>6. ASSUME NEW w \in D!Workers, D!ContainerInspected(w) PROVE DockerInv'
  BY <1>6, ContainerInspectedKeeps
<1>7. ASSUME NEW w \in D!Workers,
             D!ImageInspected(w) \/ D!Unavailable(w) \/ D!ItemFails(w) \/ D!Interrupted(w)
      PROVE  DockerInv'
  <2>1. work[w] # None /\ \E k \in {"observed", "unavailable", "failed", "context"} :
                             D!Answer(w, k)
    BY <1>7 DEF D!ImageInspected, D!Unavailable, D!ItemFails, D!Interrupted, D!Busy
  <2>2. PICK k \in {"observed", "unavailable", "failed", "context"} : D!Answer(w, k)
    BY <2>1
  <2> QED BY <2>1, <2>2, AnswerKeeps
<1>8. ASSUME NEW w \in D!Workers, D!Disappeared(w) PROVE DockerInv'
  <2>1. /\ work[w] # None /\ D!Answer(w, "disappeared")
        /\ work[w].container \notin alive \/ ImageOf[work[w].container] \notin images
    BY <1>8 DEF D!Disappeared, D!Busy
  <2> QED BY <2>1, AnswerKeeps
<1>9. CASE D!Collect
  BY <1>9, CollectKeeps
<1> QED BY <1>1, <1>2, <1>3, <1>4, <1>5, <1>6, <1>7, <1>8, <1>9 DEF D!Next

-----------------------------------------------------------------------------
(* Files                                                                   *)

\* The file an inspection of the call is about.
Judged == IF kind = "ledger" THEN at ELSE opened

File == [content : Seq(Nat), mtime : Int]

\* No file is from the future.
FileTypeOK ==
  /\ kind \in {"ledger", "telemetry"}
  /\ clock \in Int /\ writes \in Nat
  /\ files \in Seq(File) /\ at \in {1, 2} /\ Len(files) = at
  /\ \A n \in 1..at : files[n].mtime <= clock
  /\ got \in Seq(Nat) /\ shown \in Seq(Nat) \cup {None}

\* Where the call is, and what it has done by then.
StageOK ==
  /\ reading \in {"inspect", "open", "read", "recheck", "done"}
  /\ reading \in {"inspect", "open"} => got = <<>>
  /\ reading \in {"read", "recheck"} => opened \in 1..at
  /\ reading = "inspect" /\ kind = "telemetry" => opened \in 1..at
  /\ reading # "done" => loaded = None
  /\ rested => /\ reading # "inspect" /\ shown \in Seq(Nat)
               /\ reading = "open" => kind = "ledger"

\* Until the call ends: a file that had been at rest is as it was inspected, and then what has
\* been read so far is a part of that, or shows a later time.
RestOK ==
  (rested /\ reading # "done") =>
    /\ info.mtime \in Int /\ info.mtime < clock
    /\ \/ info.mtime < files[Judged].mtime
       \/ /\ files[Judged].mtime = info.mtime /\ files[Judged].content = shown
          /\ reading \in {"read", "recheck"} =>
               /\ opened = Judged
               /\ Len(got) <= Len(shown) /\ \A n \in 1..Len(got) : got[n] = shown[n]
          /\ reading = "recheck" => Len(got) = Len(shown)

FileInv == FileTypeOK /\ StageOK /\ RestOK /\ F!LoadedAsInspected

LEMMA FileInit == CallsAssumption /\ F!Init => FileInv
<1> SUFFICES ASSUME CallsAssumption, F!Init PROVE FileInv
  OBVIOUS
<1>1. [content |-> [b \in 1..Blocks |-> 0], mtime |-> 0] \in File
  <2>1. [b \in 1..Blocks |-> 0] \in Seq(Nat)
    BY SeqDef DEF CallsAssumption, F!FileAssumption
  <2> QED BY <2>1 DEF File
<1>2. files \in Seq(File) /\ Len(files) = 1
  BY <1>1 DEF F!Init
<1>3. FileTypeOK
  <2>1. at = 1 /\ clock \in Int /\ writes \in Nat /\ got = <<>> /\ shown = None
        /\ kind \in {"ledger", "telemetry"} /\ files[1].mtime = 0 /\ 0 <= clock
    BY DEF F!Init
  <2>2. \A n \in 1..at : files[n].mtime <= clock
    BY <2>1
  <2> QED BY <1>2, <2>1, <2>2 DEF FileTypeOK
<1>4. StageOK
  BY DEF F!Init, StageOK
<1> QED BY <1>3, <1>4 DEF F!Init, FileInv, RestOK, F!LoadedAsInspected

\* The content a write leaves is a sequence again.
LEMMA ContentAfter ==
  ASSUME NEW old \in Seq(Nat), NEW x \in Nat,
         NEW new \in {[old EXCEPT ![b] = x] : b \in DOMAIN old}
                     \cup {Append(old, x), SubSeq(old, 1, Len(old) - 1)}
  PROVE  new \in Seq(Nat)
<1>1. CASE \E b \in DOMAIN old : new = [old EXCEPT ![b] = x]
  BY <1>1, ExceptSeq
<1>2. CASE new = Append(old, x)
  BY <1>2, AppendProperties
<1>3. CASE new = SubSeq(old, 1, Len(old) - 1)
  <2>1. Len(old) \in Nat /\ \A n \in 1..Len(old) : old[n] \in Nat
    BY LenProperties, ElementOfSeq
  <2>2. \A n \in 1..(Len(old) - 1) : old[n] \in Nat
    BY <2>1
  <2> QED BY <1>3, <2>1, <2>2, SubSeqProperties
<1> QED BY <1>1, <1>2, <1>3

\* What the invariant says of the file that is judged: it exists, and is of the type of files.
LEMMA JudgedIs ==
  ASSUME FileTypeOK, NEW n \in 1..at
  PROVE  files[n] \in File /\ files[n].mtime \in Int /\ files[n].content \in Seq(Nat)
<1>1. files[n] \in File
  BY ElementOfSeq DEF FileTypeOK
<1> QED BY <1>1 DEF File

\* A block is written: the file shows the present then, which is later than an inspection that
\* found it at rest.
LEMMA WriteKeeps == FileInv /\ F!Write => FileInv'
<1> SUFFICES ASSUME FileInv, F!Write PROVE FileInv'
  OBVIOUS
<1>1. /\ UNCHANGED <<kind, at, clock, reading, opened, info, rested, shown, got, loaded>>
      /\ writes' = writes + 1
  BY DEF F!Write
<1>2. PICK new \in {[files[at].content EXCEPT ![b] = writes'] : b \in DOMAIN files[at].content}
                   \cup {Append(files[at].content, writes'),
                         SubSeq(files[at].content, 1, Len(files[at].content) - 1)} :
              files' = [files EXCEPT ![at] = F!Rewrites(new)]
  BY DEF F!Write
<1>3. writes' \in Nat /\ at \in 1..at /\ at \in 1..Len(files)
  BY <1>1 DEF FileInv, FileTypeOK
<1>4. new \in Seq(Nat)
  <2>1. files[at].content \in Seq(Nat)
    BY <1>3, JudgedIs DEF FileInv
  <2> QED BY <1>2, <1>3, <2>1, ContentAfter
<1>5. F!Rewrites(new) \in File /\ F!Rewrites(new).mtime = clock
  BY <1>4 DEF F!Rewrites, File, FileInv, FileTypeOK
<1>6. /\ files' \in Seq(File) /\ Len(files') = at /\ files'[at] = F!Rewrites(new)
      /\ \A n \in 1..at : n # at => files'[n] = files[n]
  BY <1>2, <1>3, <1>5, ExceptSeq DEF FileInv, FileTypeOK
<1>7. FileTypeOK'
  BY <1>1, <1>3, <1>5, <1>6 DEF FileInv, FileTypeOK
<1>8. StageOK'
  BY <1>1 DEF FileInv, StageOK
<1>9. RestOK'
  BY <1>1, <1>3, <1>5, <1>6 DEF FileInv, FileTypeOK, StageOK, RestOK, Judged
<1> QED BY <1>1, <1>7, <1>8, <1>9 DEF FileInv, F!LoadedAsInspected

\* Another file is put in the place of the first, and shows the present as well.
LEMMA ReplaceKeeps == CallsAssumption /\ FileInv /\ F!Replace => FileInv'
<1> SUFFICES ASSUME CallsAssumption, FileInv, F!Replace PROVE FileInv'
  OBVIOUS
<1>1. /\ UNCHANGED <<kind, clock, reading, opened, info, rested, shown, got, loaded>>
      /\ writes' = writes + 1 /\ at = 1 /\ at' = 2
      /\ files' = Append(files, F!Rewrites([b \in 1..Blocks |-> writes']))
  BY DEF F!Replace
<1>2. writes' \in Nat /\ Blocks \in Nat /\ files \in Seq(File) /\ Len(files) = 1
  BY <1>1 DEF FileInv, FileTypeOK, CallsAssumption, F!FileAssumption
<1>3. \E f \in File : f.mtime = clock /\ files' = Append(files, f)
  <2>1. [b \in 1..Blocks |-> writes'] \in Seq(Nat)
    BY <1>2, SeqDef
  <2>2. F!Rewrites([b \in 1..Blocks |-> writes']) \in File
    BY <2>1 DEF F!Rewrites, File, FileInv, FileTypeOK
  <2>3. F!Rewrites([b \in 1..Blocks |-> writes']).mtime = clock
    BY DEF F!Rewrites
  <2> QED BY <1>1, <2>2, <2>3
<1>4. PICK new \in File : new.mtime = clock /\ files' = Append(files, new)
  BY <1>3
<1>5. files' \in Seq(File) /\ Len(files') = 2 /\ files'[1] = files[1] /\ files'[2] = new
  <2>1. files \in Seq(File) /\ new \in File
    BY <1>2
  <2>2. Append(files, new) \in Seq(File) /\ Len(Append(files, new)) = Len(files) + 1
    BY <2>1, AppendProperties
  <2>3. \A n \in 1..Len(files) : Append(files, new)[n] = files[n]
    BY <2>1, AppendProperties
  <2>4. Append(files, new)[Len(files) + 1] = new
    BY <2>1, AppendProperties
  <2>5. 1 \in 1..Len(files) /\ Len(files) = 1
    BY <1>2
  <2>6. files'[1] = files[1]
    BY <1>4, <2>3, <2>5
  <2>7. files'[2] = new
    <3>1. Len(files) + 1 = 2
      BY <2>5
    <3> QED BY <1>4, <2>4, <3>1
  <2> QED BY <1>4, <2>2, <2>5, <2>6, <2>7
<1>6. FileTypeOK'
  <2>1. \A n \in 1..at' : files'[n].mtime <= clock'
    BY <1>1, <1>4, <1>5 DEF FileInv, FileTypeOK
  <2> QED BY <1>1, <1>2, <1>5, <2>1 DEF FileInv, FileTypeOK
<1>7. StageOK'
  BY <1>1 DEF FileInv, StageOK
<1>8. RestOK'
  BY <1>1, <1>4, <1>5 DEF FileInv, FileTypeOK, StageOK, RestOK, Judged
<1> QED BY <1>1, <1>6, <1>7, <1>8 DEF FileInv, F!LoadedAsInspected

\* The first inspection.
LEMMA InspectKeeps == FileInv /\ F!Inspect => FileInv'
<1> SUFFICES ASSUME FileInv, F!Inspect PROVE FileInv'
  OBVIOUS
<1>1. /\ UNCHANGED <<kind, files, at, clock, writes, opened, got, loaded>>
      /\ reading = "inspect" /\ info' = F!Facts(F!Inspected)
      /\ rested' = (F!Inspected.mtime < clock) /\ shown' = F!Inspected.content
      /\ reading' = IF kind = "ledger" THEN "open" ELSE "read"
  BY DEF F!Inspect, F!world
<1>2. Judged \in 1..at /\ F!Inspected = files[Judged]
  BY <1>1 DEF FileInv, FileTypeOK, StageOK, Judged, F!Inspected
<1>3. F!Inspected.mtime \in Int /\ shown' \in Seq(Nat) /\ info'.mtime = F!Inspected.mtime
  BY <1>1, <1>2, JudgedIs DEF FileInv, F!Facts
<1>4. FileTypeOK'
  BY <1>1, <1>3 DEF FileInv, FileTypeOK
<1>5. StageOK'
  BY <1>1, <1>2, <1>3 DEF FileInv, FileTypeOK, StageOK, Judged
<1>6. RestOK'
  <2>1. got = <<>> /\ Len(got) = 0 /\ Len(shown') \in Nat
    BY <1>1, <1>3, LenProperties DEF FileInv, StageOK
  <2>2. rested' => F!Inspected.mtime < clock
    BY <1>1
  <2>3. Judged' = Judged
    BY <1>1 DEF Judged
  <2>4. shown' = files[Judged].content
    BY <1>1, <1>2
  <2>5. reading' = "read" => opened = Judged
    BY <1>1, <1>2 DEF FileInv, FileTypeOK, Judged
  <2> QED BY <1>1, <1>2, <1>3, <2>1, <2>2, <2>3, <2>4, <2>5 DEF RestOK
<1> QED BY <1>1, <1>4, <1>5, <1>6 DEF FileInv, StageOK, F!LoadedAsInspected

\* The file is opened, a ledger after its inspection and telemetry before.
LEMMA OpenKeeps == FileInv /\ F!OpenFile => FileInv'
<1> SUFFICES ASSUME FileInv, F!OpenFile PROVE FileInv'
  OBVIOUS
<1>1. /\ UNCHANGED <<kind, files, at, clock, writes, info, rested, shown, got, loaded>>
      /\ reading = "open" /\ opened' = at
      /\ reading' = IF kind = "ledger" THEN "read" ELSE "inspect"
  BY DEF F!OpenFile, F!world
<1>2. FileTypeOK'
  BY <1>1 DEF FileInv, FileTypeOK
<1>3. StageOK'
  BY <1>1 DEF FileInv, FileTypeOK, StageOK
<1>4. RestOK'
  <2>1. got = <<>> /\ Len(got) = 0 /\ (rested => Len(shown) \in Nat /\ kind = "ledger")
    BY <1>1, LenProperties DEF FileInv, StageOK
  <2> QED BY <1>1, <2>1 DEF FileInv, RestOK, Judged
<1> QED BY <1>1, <1>2, <1>3, <1>4 DEF FileInv, F!LoadedAsInspected

\* The next block is read from the open file, as it is by then.
LEMMA ReadKeeps == FileInv /\ F!ReadBlock => FileInv'
<1> SUFFICES ASSUME FileInv, F!ReadBlock PROVE FileInv'
  OBVIOUS
<1> DEFINE c == files[opened].content
<1>1. /\ UNCHANGED <<kind, files, at, clock, writes, reading, opened, info, rested, shown,
                     loaded>>
      /\ reading = "read" /\ Len(got) < Len(c) /\ got' = Append(got, c[Len(got) + 1])
  BY DEF F!ReadBlock, F!world
<1>2. c \in Seq(Nat) /\ got \in Seq(Nat) /\ Len(got) \in Nat /\ Len(c) \in Nat
  BY <1>1, JudgedIs, LenProperties DEF FileInv, FileTypeOK, StageOK
<1>3. c[Len(got) + 1] \in Nat
  BY <1>1, <1>2, ElementOfSeq
<1>4. /\ got' \in Seq(Nat) /\ Len(got') = Len(got) + 1
      /\ \A n \in 1..Len(got) : got'[n] = got[n]
      /\ got'[Len(got) + 1] = c[Len(got) + 1]
  BY <1>1, <1>2, <1>3, AppendProperties
<1>5. FileTypeOK'
  BY <1>1, <1>4 DEF FileInv, FileTypeOK
<1>6. StageOK'
  BY <1>1 DEF FileInv, StageOK
<1>7. RestOK'
  <2>1. ASSUME rested, opened = Judged, files[Judged].content = shown,
               \A n \in 1..Len(got) : got[n] = shown[n]
        PROVE  Len(got') <= Len(shown) /\ \A n \in 1..Len(got') : got'[n] = shown[n]
    <3>1. shown = c
      BY <2>1
    <3>2. \A n \in 1..Len(got') : n \in 1..Len(got) \/ n = Len(got) + 1
      BY <1>2, <1>4
    <3> HIDE DEF c
    <3> QED BY <1>1, <1>2, <1>4, <2>1, <3>1, <3>2
  <2> QED BY <1>1, <2>1 DEF FileInv, RestOK, Judged
<1> QED BY <1>1, <1>5, <1>6, <1>7 DEF FileInv, StageOK, F!LoadedAsInspected

\* The end of the file.
LEMMA EndKeeps == FileInv /\ F!EndOfFile => FileInv'
<1> SUFFICES ASSUME FileInv, F!EndOfFile PROVE FileInv'
  OBVIOUS
<1>1. /\ UNCHANGED <<kind, files, at, clock, writes, opened, info, rested, shown, got, loaded>>
      /\ reading = "read" /\ reading' = "recheck" /\ Len(got) >= Len(files[opened].content)
  BY DEF F!EndOfFile, F!world
<1>2. FileTypeOK'
  BY <1>1 DEF FileInv, FileTypeOK
<1>3. StageOK'
  BY <1>1 DEF FileInv, StageOK
<1>4. RestOK'
  <2>1. Len(got) \in Nat /\ (rested => Len(shown) \in Nat)
    BY LenProperties DEF FileInv, FileTypeOK, StageOK
  <2> QED BY <1>1, <2>1 DEF FileInv, RestOK, Judged
<1> QED BY <1>1, <1>2, <1>3, <1>4 DEF FileInv, F!LoadedAsInspected

\* The file is as it was: what has been read is what it held.
LEMMA AcceptKeeps == FileInv /\ F!Accept => FileInv'
<1> SUFFICES ASSUME FileInv, F!Accept PROVE FileInv'
  OBVIOUS
<1>1. /\ UNCHANGED <<kind, files, at, clock, writes, opened, info, rested, shown, got>>
      /\ reading = "recheck" /\ reading' = "done" /\ loaded' = got
      /\ F!Facts(F!Inspected) = info
  BY DEF F!Accept, F!world, F!Same
<1>2. FileTypeOK'
  BY <1>1 DEF FileInv, FileTypeOK
<1>3. StageOK'
  BY <1>1 DEF FileInv, StageOK
<1>4. ASSUME rested PROVE got = shown
  <2>1. info.mtime = files[Judged].mtime
    BY <1>1 DEF F!Facts, F!Inspected, Judged
  <2>2. files[Judged].mtime \in Int
    <3>1. Judged \in 1..at
      BY <1>1 DEF FileInv, FileTypeOK, StageOK, Judged
    <3> QED BY <3>1, JudgedIs DEF FileInv
  <2>3. Len(got) = Len(shown) /\ \A n \in 1..Len(got) : got[n] = shown[n]
    BY <1>1, <1>4, <2>1, <2>2 DEF FileInv, RestOK
  <2>4. got \in Seq(Nat) /\ shown \in Seq(Nat)
    BY <1>4 DEF FileInv, FileTypeOK, StageOK
  <2> QED BY <2>3, <2>4, SeqEqual
<1> QED BY <1>1, <1>2, <1>3, <1>4 DEF FileInv, RestOK, F!LoadedAsInspected

\* Every step of the call and of those who write keeps the invariant.
LEMMA FileNext == CallsAssumption /\ FileInv /\ [F!Next]_(F!vars) => FileInv'
<1> SUFFICES ASSUME CallsAssumption, FileInv, [F!Next]_(F!vars) PROVE FileInv'
  OBVIOUS
<1>1. CASE F!ClockTicks \/ UNCHANGED F!vars
  <2>1. /\ UNCHANGED <<kind, files, at, writes, reading, opened, info, rested, shown, got, loaded>>
        /\ clock' = clock \/ clock' = clock + 1
    BY <1>1 DEF F!ClockTicks, F!vars
  <2>2. clock \in Int /\ \A n \in 1..at : files[n].mtime \in Int
    BY JudgedIs DEF FileInv, FileTypeOK
  <2>3. FileTypeOK'
    BY <2>1, <2>2 DEF FileInv, FileTypeOK
  <2>4. StageOK'
    BY <2>1 DEF FileInv, StageOK
  <2>5. RestOK'
    <3>1. rested /\ reading # "done" => info.mtime < clock'
      <4>1. rested /\ reading # "done" => info.mtime \in Int /\ info.mtime < clock
        BY DEF FileInv, RestOK
      <4> QED BY <2>1, <2>2, <4>1
    <3> QED BY <2>1, <3>1 DEF FileInv, RestOK, Judged
  <2> QED BY <2>1, <2>3, <2>4, <2>5 DEF FileInv, F!LoadedAsInspected
<1>2. CASE F!Conflict \/ F!LoadFails
  <2>1. /\ UNCHANGED <<kind, files, at, clock, writes, opened, info, rested, shown, got, loaded>>
        /\ reading' = "done"
    BY <1>2 DEF F!Conflict, F!LoadFails, F!world
  <2> QED BY <2>1 DEF FileInv, FileTypeOK, StageOK, RestOK, F!LoadedAsInspected
<1> QED BY <1>1, <1>2, WriteKeeps, ReplaceKeeps, InspectKeeps, OpenKeeps, ReadKeeps, EndKeeps,
           AcceptKeeps DEF F!Next

-----------------------------------------------------------------------------
(* The decoder: orders, and the first few elements of an order             *)

\* A set of natural numbers has a least element.
LEMMA LeastExists ==
  ASSUME NEW S \in SUBSET Nat, S # {}
  PROVE  \E x \in S : \A y \in S : x <= y
<1>1. IsWellFoundedOn(OpToRel(<, Nat), Nat)
  BY NatLessThanWellFounded
<1>2. \E x \in S : \A y \in S : ~ (<<y, x>> \in OpToRel(<, Nat))
  BY <1>1, WFMin
<1>3. PICK x \in S : \A y \in S : ~ (<<y, x>> \in OpToRel(<, Nat))
  BY <1>2
<1>4. ASSUME NEW y \in S PROVE x <= y
  <2>1. x \in Nat /\ y \in Nat
    OBVIOUS
  <2>2. y < x => <<y, x>> \in OpToRel(<, Nat)
    BY <2>1 DEF OpToRel
  <2>3. ~ (<<y, x>> \in OpToRel(<, Nat))
    BY <1>3
  <2>4. ~ (y < x)
    BY <2>2, <2>3
  <2> QED BY <2>1, <2>4
<1> QED BY <1>4

\* In a finite set in a total order, where below[x] is what comes before x, at most n elements
\* have less than n before them, and if n is not 0 there is one, unless the set is empty.
LEMMA FewAreFirst ==
  ASSUME NEW S, IsFiniteSet(S), NEW below \in [S -> SUBSET S], NEW n \in Nat,
         \A x \in S : x \notin below[x],
         \A x, y \in S : x \in below[y] => below[x] \subseteq below[y],
         \A x, y \in S : x = y \/ x \in below[y] \/ y \in below[x],
         NEW Few \in SUBSET S, \A x \in S : x \in Few <=> Cardinality(below[x]) < n
  PROVE  /\ IsFiniteSet(Few) /\ Cardinality(Few) \in Nat /\ Cardinality(Few) <= n
         /\ n # 0 /\ S # {} => \E x \in S : x \in Few
<1> DEFINE places == {Cardinality(below[x]) : x \in S}
           f == [x \in Few |-> Cardinality(below[x])]
<1>1. \A x \in S : IsFiniteSet(below[x]) /\ Cardinality(below[x]) \in Nat
  <2>1. ASSUME NEW x \in S
        PROVE  IsFiniteSet(below[x]) /\ Cardinality(below[x]) \in Nat
    <3>1. below[x] \in SUBSET S
      OBVIOUS
    <3>2. IsFiniteSet(below[x])
      BY <3>1, FS_Subset
    <3> QED BY <3>2, FS_CardinalityType
  <2> QED BY <2>1
<1>2. ASSUME NEW x \in S, NEW y \in S, x \in below[y]
      PROVE  Cardinality(below[x]) < Cardinality(below[y])
  <2>1. below[x] \in SUBSET below[y] /\ below[x] # below[y]
    BY <1>2
  <2>2. IsFiniteSet(below[y])
    BY <1>1
  <2>3. Cardinality(below[x]) <= Cardinality(below[y])
        /\ Cardinality(below[x]) # Cardinality(below[y])
    BY <2>1, <2>2, FS_Subset
  <2> QED BY <1>1, <2>3
<1>3. IsFiniteSet(Few)
  <2>1. Few \in SUBSET S
    OBVIOUS
  <2> QED BY <2>1, FS_Subset
<1>4. IsFiniteSet(0 .. n - 1) /\ Cardinality(0 .. n - 1) = n
  <2>1. 0 \in Int /\ n - 1 \in Int
    OBVIOUS
  <2>2. /\ IsFiniteSet(0 .. n - 1)
        /\ Cardinality(0 .. n - 1) = IF 0 > n - 1 THEN 0 ELSE n - 1 - 0 + 1
    BY <2>1, FS_Interval
  <2> QED BY <2>2
<1>5. f \in Injection(Few, 0 .. n - 1)
  <2>1. f \in [Few -> 0 .. n - 1]
    BY <1>1
  <2>2. \A x, y \in Few : f[x] = f[y] => x = y
    BY <1>1, <1>2
  <2> QED BY <2>1, <2>2 DEF Injection, IsInjective
<1>6. Cardinality(Few) <= n
  BY <1>4, <1>5, FS_Injection
<1>7. ASSUME n # 0, S # {} PROVE Few # {}
  <2>1. places \in SUBSET Nat /\ places # {}
    BY <1>1, <1>7
  <2>2. PICK m \in places : \A k \in places : m <= k
    <3> HIDE DEF places
    <3> QED BY <2>1, LeastExists
  <2>3. PICK x \in S : m = Cardinality(below[x])
    BY <2>2
  <2>4. \A y \in S : Cardinality(below[x]) <= Cardinality(below[y])
    BY <2>2, <2>3
  <2>5. below[x] = {}
    <3>1. ASSUME NEW y \in below[x] PROVE FALSE
      <4>1. y \in S
        OBVIOUS
      <4> QED BY <1>1, <1>2, <2>4, <3>1, <4>1
    <3> QED BY <3>1
  <2>6. Cardinality(below[x]) = 0
    BY <2>5, FS_EmptySet
  <2> QED BY <1>7, <2>6
<1> QED BY <1>3, <1>6, <1>7, FS_CardinalityType

\* Of a finite set of numbers, LeastEvidence keeps no more than it may.
LEMMA LeastEvidenceIsSmall ==
  ASSUME NEW E \in SUBSET Nat, IsFiniteSet(E), NEW n \in Nat
  PROVE  /\ LeastEvidence(E, n) \subseteq E /\ IsFiniteSet(LeastEvidence(E, n))
         /\ Cardinality(LeastEvidence(E, n)) \in Nat
         /\ Cardinality(LeastEvidence(E, n)) <= n
<1> DEFINE below == [e \in E |-> {f \in E : f < e}]
<1>1. below \in [E -> SUBSET E]
  OBVIOUS
<1>2. \A x \in E : x \notin below[x]
  OBVIOUS
<1>3. \A x, y \in E : x \in below[y] => below[x] \subseteq below[y]
  <2>1. \A x \in E : x \in Nat /\ \A f : f \in below[x] <=> f \in E /\ f < x
    OBVIOUS
  <2>2. ASSUME NEW x \in E, NEW y \in E, x \in below[y], NEW f \in below[x] PROVE f \in below[y]
    <3> HIDE DEF below
    <3>1. f \in E /\ f < x /\ x < y /\ x \in Nat /\ y \in Nat
      BY <2>1, <2>2
    <3>2. f \in Nat
      BY <3>1
    <3>3. f < y
      BY <3>1, <3>2
    <3> QED BY <2>1, <3>1, <3>3
  <2> QED BY <2>2
<1>4. \A x, y \in E : x = y \/ x \in below[y] \/ y \in below[x]
  OBVIOUS
<1>5. PICK first : first = LeastEvidence(E, n)
  OBVIOUS
<1>6. first \in SUBSET E /\ \A e \in E : e \in first <=> Cardinality(below[e]) < n
  BY <1>5 DEF LeastEvidence
<1>7. IsFiniteSet(first) /\ Cardinality(first) \in Nat /\ Cardinality(first) <= n
  <2> HIDE DEF below
  <2> QED BY <1>1, <1>2, <1>3, <1>4, <1>6, FewAreFirst
<1>8. first \subseteq E
  BY <1>6
<1> QED BY <1>5, <1>7, <1>8

\* Of a finite set of pairs, LeastPairs keeps one at least, and no more than it may.
LEMMA LeastPairsAreFew ==
  ASSUME NEW Q \in SUBSET (Nat \X Nat), IsFiniteSet(Q), MaxEvidence \div 2 \in Nat
  PROVE  /\ LeastPairs(Q) \subseteq Q /\ IsFiniteSet(LeastPairs(Q))
         /\ Cardinality(LeastPairs(Q)) \in Nat
         /\ Cardinality(LeastPairs(Q)) <= MaxEvidence \div 2
         /\ MaxEvidence \div 2 # 0 /\ Q # {} => LeastPairs(Q) # {}
<1>0. PICK most \in Nat : most = MaxEvidence \div 2
  OBVIOUS
<1> DEFINE below == [p \in Q |-> {q \in Q : PairBefore(q, p)}]
<1>1. below \in [Q -> SUBSET Q]
  OBVIOUS
<1>2. \A p \in Q : p[1] \in Nat /\ p[2] \in Nat /\ p = <<p[1], p[2]>>
  OBVIOUS
<1>3. \A x \in Q : x \notin below[x]
  BY <1>2 DEF PairBefore
<1>4. \A x, y \in Q : x \in below[y] => below[x] \subseteq below[y]
  BY <1>2 DEF PairBefore
<1>5. \A x, y \in Q : x = y \/ x \in below[y] \/ y \in below[x]
  BY <1>2 DEF PairBefore
<1>6. PICK first : first = LeastPairs(Q)
  OBVIOUS
<1>7. first \in SUBSET Q /\ \A p \in Q : p \in first <=> Cardinality(below[p]) < most
  BY <1>0, <1>6 DEF LeastPairs
<1>8. /\ IsFiniteSet(first) /\ Cardinality(first) \in Nat /\ Cardinality(first) <= most
      /\ most # 0 /\ Q # {} => \E x \in Q : x \in first
  <2> HIDE DEF below
  <2> QED BY <1>1, <1>3, <1>4, <1>5, <1>7, FewAreFirst
<1>9. first \subseteq Q
  BY <1>7
<1> QED BY <1>0, <1>6, <1>8, <1>9

\* Sorting before is an order of the limitations: what sorts before what sorts before U does.
LEMMA SortedBeforeIsTransitive ==
  ASSUME NEW S \in SUBSET Nat, NEW V \in SUBSET Nat, NEW U \in SUBSET Nat,
         SortedBefore(S, V), SortedBefore(V, U)
  PROVE  SortedBefore(S, U)
<1>1. PICK m \in (S \ V) \cup (V \ S) :
        /\ \A x \in (S \ V) \cup (V \ S) : m <= x
        /\ IF m \in S THEN \E x \in V : x > m ELSE \A x \in S : x < m
  BY DEF SortedBefore
<1>2. PICK n \in (V \ U) \cup (U \ V) :
        /\ \A x \in (V \ U) \cup (U \ V) : n <= x
        /\ IF n \in V THEN \E x \in U : x > n ELSE \A x \in V : x < n
  BY DEF SortedBefore
<1>3. m \in Nat /\ n \in Nat
  OBVIOUS
<1>4. /\ \A x \in Nat : x < m => (x \in S <=> x \in V)
      /\ \A x \in Nat : x < n => (x \in V <=> x \in U)
  BY <1>1, <1>2
<1>5. CASE m < n
  <2>1. m \in (S \ U) \cup (U \ S)
    BY <1>1, <1>4, <1>5
  <2>2. \A x \in (S \ U) \cup (U \ S) : m <= x
    BY <1>3, <1>4, <1>5
  <2>3. CASE m \in S
    <3>1. PICK x \in V : x > m
      BY <1>1, <2>3
    <3>2. \E y \in U : y > m
      BY <1>2, <1>3, <1>4, <1>5, <3>1
    <3> QED BY <2>1, <2>2, <2>3, <3>2 DEF SortedBefore
  <2>4. CASE m \notin S
    BY <1>1, <2>1, <2>2, <2>4 DEF SortedBefore
  <2> QED BY <2>3, <2>4
<1>6. CASE n < m
  <2>1. n \in (S \ U) \cup (U \ S)
    BY <1>2, <1>4, <1>6
  <2>2. \A x \in (S \ U) \cup (U \ S) : n <= x
    BY <1>3, <1>4, <1>6
  <2>3. CASE n \in V
    <3>1. n \in S /\ \E x \in U : x > n
      BY <1>2, <1>3, <1>4, <1>6, <2>3
    <3> QED BY <2>1, <2>2, <3>1 DEF SortedBefore
  <2>4. CASE n \notin V
    <3>1. \A x \in V : x < n
      BY <1>2, <2>4
    <3>2. FALSE
      BY <1>1, <1>3, <1>6, <3>1
    <3> QED BY <3>2
  <2> QED BY <2>3, <2>4
<1>7. CASE m = n
  <2>1. m \in V /\ m \notin S /\ m \notin U /\ (\A x \in S : x < m) /\ \E x \in U : x > m
    BY <1>1, <1>2, <1>3, <1>7
  <2> DEFINE later == {x \in U : x > m}
  <2>2. later \in SUBSET Nat /\ later # {}
    BY <2>1
  <2>3. PICK l \in later : \A x \in later : l <= x
    <3> HIDE DEF later
    <3> QED BY <2>2, LeastExists
  <2>4. l \in U /\ l \notin S /\ l \in Nat /\ m < l
    BY <1>3, <2>1, <2>3
  <2>5. \A x \in (S \ U) \cup (U \ S) : l <= x
    <3>1. ASSUME NEW x \in (S \ U) \cup (U \ S) PROVE l <= x
      <4>1. CASE x \in S
        <5>1. x < m /\ x \in Nat /\ x \notin U
          BY <2>1, <3>1, <4>1
        <5> QED BY <1>4, <1>7, <4>1, <5>1
      <4>2. CASE x \notin S
        <5>1. x \in U /\ x \in Nat
          BY <3>1, <4>2
        <5>2. x < m => x \in S
          BY <1>4, <1>7, <5>1
        <5>3. x # m
          BY <2>1, <5>1
        <5>4. x \in later
          BY <1>3, <4>2, <5>1, <5>2, <5>3
        <5> QED BY <2>3, <5>4
      <4> QED BY <4>1, <4>2
    <3> QED BY <3>1
  <2>6. ASSUME NEW x \in S PROVE x < l
    <3>1. x < m /\ x \in Nat
      BY <2>1
    <3> QED BY <1>3, <2>4, <3>1
  <2> QED BY <2>4, <2>5, <2>6 DEF SortedBefore
<1> QED BY <1>3, <1>5, <1>6, <1>7

-----------------------------------------------------------------------------
(* The decoder: what the resolution of a span says                         *)

\* The spans of the files, and what is assumed of them.
Spans == UNION Captures

\* A span of the files, by the assumption on them.
LEMMA SpanFacts ==
  ASSUME NEW s \in Spans
  PROVE  /\ s.evidence \in Nat /\ s.failed \in BOOLEAN
         /\ s.dropped \in BOOLEAN /\ s.inside \in BOOLEAN
         /\ DOMAIN s.declares \subseteq {"peer", "database", "messaging", "rpc", "address"}
         /\ s.endpoint # Nil => s.kind = "server"
<1>1. PICK capture \in Captures : s \in capture
  BY DEF Spans
<1> QED BY <1>1, SpansAssumption

\* A resolution, and what an observation keeps of it.
ResolutionOK(r) ==
  /\ r.confidence \in {"LOW", "MEDIUM", "HIGH"} /\ r.basis \in Nat /\ r.limits \in SUBSET Nat
  /\ r.failed \in BOOLEAN /\ r.evidence \in SUBSET Nat /\ IsFiniteSet(r.evidence)
  /\ r.pair # <<>> => r.pair \in Nat \X Nat

\* Of a span that declares something, one convention is the first.
LEMMA DeclaresOne ==
  ASSUME NEW s, Declared(s) # {}
  PROVE  Precedence[Min(Declared(s))] \in {"peer", "database", "messaging", "rpc", "address"}
<1>1. DOMAIN Precedence = 1 .. 5
  BY DEF Precedence
<1>2. Declared(s) \in SUBSET Nat
  BY <1>1 DEF Declared
<1>3. \E n \in Declared(s) : \A m \in Declared(s) : n <= m
  BY <1>2, LeastExists
<1>4. Min(Declared(s)) \in Declared(s)
  BY <1>3 DEF Min
<1>5. Min(Declared(s)) \in 1 .. 5
  BY <1>1, <1>4 DEF Declared
<1> QED BY <1>5 DEF Precedence

\* What a span declares is never of high confidence, and no link.
LEMMA DeclaredMeans ==
  ASSUME NEW spans, NEW s \in Spans, NEW answered, Declared(s) # {}
  PROVE  LET r == semanticDependency(spans, s, answered)
         IN  ResolutionOK(r) /\ r.confidence \in {"LOW", "MEDIUM"} /\ r.pair = <<>>
<1> DEFINE r == semanticDependency(spans, s, answered)
<1>1. PICK c \in {"peer", "database", "messaging", "rpc", "address"} :
        c = Precedence[Min(Declared(s))]
  BY DeclaresOne
<1>2. Basis[c] \in Nat
  BY DEF Basis
<1>3. \A x : Limitation.manyLinked \in Nat /\ Limitation.targetUnobserved \in Nat
             /\ SemanticLimitation(c, x) \in Nat
  BY DEF Limitation, SemanticLimitation
<1>4. /\ r.confidence = (IF c = "address" THEN "LOW" ELSE "MEDIUM") /\ r.basis = Basis[c]
      /\ r.evidence = {s.evidence} /\ r.pair = <<>> /\ r.failed = s.failed
  BY <1>1 DEF semanticDependency
<1>5. r.limits \in SUBSET Nat
  BY <1>1, <1>3 DEF semanticDependency
<1>6. s.evidence \in Nat /\ s.failed \in BOOLEAN
  BY SpanFacts
<1> HIDE DEF r
<1>7. IsFiniteSet(r.evidence)
  <2>1. IsFiniteSet({s.evidence})
    BY FS_Singleton
  <2> QED BY <1>4, <2>1
<1>8. r.confidence \in {"LOW", "MEDIUM"} /\ r.confidence \in {"LOW", "MEDIUM", "HIGH"}
  BY <1>4
<1>9. r.basis \in Nat /\ r.failed \in BOOLEAN /\ r.evidence \in SUBSET Nat /\ r.pair = <<>>
  BY <1>2, <1>4, <1>6
<1>10. ResolutionOK(r)
  BY <1>5, <1>7, <1>8, <1>9 DEF ResolutionOK
<1> QED BY <1>8, <1>9, <1>10 DEF r

\* What an answered span says: the dependency is the service of one of those that answered, the
\* pair is of both ends, and of high confidence it is if nothing is against it.
LinkSays(spans, s, r, t) ==
  /\ t \in Answering(spans, s)
  /\ r.dependency = <<"service", t.service>>
  /\ r.pair = <<s.evidence, t.evidence>>
  /\ r.confidence \in {"MEDIUM", "HIGH"}
  /\ r.confidence = "HIGH" =>
       ~Contradicted(s, t.service) /\ (s.kind = "producer" => s.dropped = FALSE)

\* A span that was answered, resolved by its link: what LinkSays holds of one that answered.
LEMMA LinkMeans ==
  ASSUME NEW spans \in SUBSET Spans, NEW s \in Spans, Answering(spans, s) # {}
  PROVE  LET r == linkedDependency(spans, s)
         IN  ResolutionOK(r) /\ \E t \in spans : LinkSays(spans, s, r, t)
<1> DEFINE r == linkedDependency(spans, s)
           linked == Answering(spans, s)
           evidence == {t.evidence : t \in linked}
<1>1. \A t \in linked : t \in Spans /\ t.evidence \in Nat /\ t.failed \in BOOLEAN /\ t.dropped \in BOOLEAN
  BY SpanFacts DEF Answering
<1>2. evidence \in SUBSET Nat /\ evidence # {}
  BY <1>1
<1>3. PICK least \in evidence : \A e \in evidence : least <= e
  <2> HIDE DEF evidence
  <2> QED BY <1>2, LeastExists
<1>4. \E t \in linked : \A u \in linked : t.evidence <= u.evidence
  BY <1>3
<1>5. PICK first : first = CHOOSE t \in linked : \A u \in linked : t.evidence <= u.evidence
  OBVIOUS
<1>6. first \in linked
  <2> HIDE DEF linked
  <2> QED BY <1>4, <1>5
<1>7. s.evidence \in Nat /\ s.failed \in BOOLEAN /\ s.dropped \in BOOLEAN
  BY SpanFacts
<1>8. first.evidence \in Nat /\ first.dropped \in BOOLEAN /\ first \in spans
  BY <1>1, <1>6 DEF Answering
<1> DEFINE conflict == Contradicted(s, first.service)
           dropped  == s.kind = "producer" /\ (s.dropped \/ first.dropped)
<1>9. /\ r.dependency = <<"service", first.service>>
      /\ r.pair = <<s.evidence, first.evidence>>
      /\ r.evidence = {s.evidence, first.evidence}
  BY <1>5 DEF linkedDependency
<1>10. r.confidence = IF conflict \/ dropped THEN "MEDIUM" ELSE "HIGH"
  BY <1>5 DEF linkedDependency
<1>11. r.basis \in Nat
  BY <1>5 DEF linkedDependency, Basis
<1>12. r.limits \in SUBSET Nat
  BY <1>5 DEF linkedDependency, Limitation
<1>13. r.failed \in BOOLEAN
  BY <1>5 DEF linkedDependency
<1>14. r.evidence \in SUBSET Nat /\ IsFiniteSet(r.evidence)
  <2>1. IsFiniteSet({s.evidence}) /\ IsFiniteSet({s.evidence} \cup {first.evidence})
    BY FS_Singleton, FS_AddElement
  <2>2. {s.evidence, first.evidence} = {s.evidence} \cup {first.evidence}
    OBVIOUS
  <2> QED BY <1>7, <1>8, <1>9, <2>1, <2>2
<1> HIDE DEF r
<1>15. ResolutionOK(r)
  <2>1. r.confidence \in {"LOW", "MEDIUM", "HIGH"}
    BY <1>10
  <2>2. r.pair \in Nat \X Nat
    BY <1>7, <1>8, <1>9
  <2> QED BY <1>11, <1>12, <1>13, <1>14, <2>1, <2>2 DEF ResolutionOK
<1>16. LinkSays(spans, s, r, first)
  <2>1. r.confidence = "HIGH" => ~conflict /\ ~dropped
    BY <1>10
  <2>2. r.confidence \in {"MEDIUM", "HIGH"}
    BY <1>10
  <2>3. r.confidence = "HIGH" => (s.kind = "producer" => s.dropped = FALSE)
    BY <1>7, <2>1
  <2> QED BY <1>6, <1>9, <2>1, <2>2, <2>3 DEF LinkSays
<1> QED BY <1>8, <1>15, <1>16 DEF r

Linked(spans, s) == Cardinality(AnsweringServices(spans, s)) = 1

\* A span that is resolved was answered by one service, or else declares what it calls.
LEMMA ResolutionMeans ==
  ASSUME NEW spans \in SUBSET Spans, IsFiniteSet(spans), NEW s \in Spans, IsResolved(spans, s)
  PROVE  LET r == resolveDependency(spans, s)
         IN  /\ ResolutionOK(r)
             /\ Linked(spans, s) =>
                  \E t \in spans : /\ AnsweringServices(spans, s) = {t.service}
                                   /\ LinkSays(spans, s, r, t)
             /\ ~Linked(spans, s) => r.pair = <<>> /\ r.confidence \in {"LOW", "MEDIUM"}
<1> DEFINE r == resolveDependency(spans, s)
<1>1. CASE Linked(spans, s)
  <2>1. r = linkedDependency(spans, s)
    BY <1>1 DEF resolveDependency, Linked
  <2>2. \E x : AnsweringServices(spans, s) = {x}
    <3>1. IsFiniteSet(Answering(spans, s))
      BY FS_Subset DEF Answering
    <3>2. IsFiniteSet(AnsweringServices(spans, s))
      <4> DEFINE f == [t \in Answering(spans, s) |-> t.service]
      <4>1. f \in Surjection(Answering(spans, s), AnsweringServices(spans, s))
        BY DEF AnsweringServices, Surjection
      <4> QED BY <3>1, <4>1, FS_Surjection
    <3> QED BY <1>1, <3>2, FS_Singleton DEF Linked
  <2>3. Answering(spans, s) # {}
    BY <2>2 DEF AnsweringServices
  <2>4. ResolutionOK(r) /\ \E t \in spans : LinkSays(spans, s, r, t)
    BY <2>1, <2>3, LinkMeans
  <2>5. PICK t \in spans : LinkSays(spans, s, r, t)
    BY <2>4
  <2>6. t.service \in AnsweringServices(spans, s)
    BY <2>5 DEF LinkSays, AnsweringServices
  <2>7. AnsweringServices(spans, s) = {t.service}
    BY <2>2, <2>6
  <2> QED BY <1>1, <2>4, <2>5, <2>7
<1>2. CASE ~Linked(spans, s)
  <2>1. Declared(s) # {}
    BY <1>2 DEF IsResolved, Linked
  <2>2. PICK n : n = Cardinality(AnsweringServices(spans, s))
    OBVIOUS
  <2>3. r = semanticDependency(spans, s, n)
    BY <1>2, <2>2 DEF resolveDependency, Linked
  <2> QED BY <1>2, <2>1, <2>3, DeclaredMeans
<1> QED BY <1>1, <1>2

\* Better is an order of resolutions, and of resolutions and rows.
LEMMA BetterIsTransitive ==
  ASSUME NEW q, NEW r, NEW o, Better(q, r), Better(r, o),
         \A x \in {q, r, o} : /\ x.confidence \in {"LOW", "MEDIUM", "HIGH"}
                             /\ x.basis \in Nat /\ x.limits \in SUBSET Nat
  PROVE  Better(q, o)
<1>1. \A x \in {q, r, o} : Rank[x.confidence] \in Nat
  BY DEF Rank
<1>2. ASSUME Rank[q.confidence] = Rank[r.confidence], Rank[r.confidence] = Rank[o.confidence]
      PROVE  observationMetadataLess(q, o)
  <2>1. observationMetadataLess(q, r) /\ observationMetadataLess(r, o)
    BY <1>1, <1>2 DEF Better
  <2>2. q.basis \in Nat /\ r.basis \in Nat /\ o.basis \in Nat
    OBVIOUS
  <2>3. CASE q.basis = r.basis /\ r.basis = o.basis
    <3>1. SortedBefore(q.limits, r.limits) /\ SortedBefore(r.limits, o.limits)
      BY <2>1, <2>2, <2>3 DEF observationMetadataLess
    <3>2. SortedBefore(q.limits, o.limits)
      BY <3>1, SortedBeforeIsTransitive
    <3> QED BY <2>3, <3>2 DEF observationMetadataLess
  <2>4. CASE ~ (q.basis = r.basis /\ r.basis = o.basis)
    BY <2>1, <2>2, <2>4 DEF observationMetadataLess
  <2> QED BY <2>3, <2>4
<1> QED BY <1>1, <1>2 DEF Better

\* No resolution describes an observation better than itself.
LEMMA BetterIsStrict ==
  ASSUME NEW r, r.confidence \in {"LOW", "MEDIUM", "HIGH"}, r.basis \in Nat
  PROVE  ~Better(r, r)
<1>1. Rank[r.confidence] \in Nat
  BY DEF Rank
<1>2. ~SortedBefore(r.limits, r.limits)
  BY DEF SortedBefore
<1> QED BY <1>1, <1>2 DEF Better, observationMetadataLess

-----------------------------------------------------------------------------
(* The decoder: what an observation says of the samples counted so far     *)

\* An observation has its fields and no others.
RowShape(o) ==
  o = [requests |-> o.requests, errors |-> o.errors, target |-> o.target,
       confidence |-> o.confidence, basis |-> o.basis, limits |-> o.limits,
       evidence |-> o.evidence, pairs |-> o.pairs, hardCap |-> o.hardCap,
       conflict |-> o.conflict, capLimits |-> o.capLimits]

\* What the aggregation of r makes of an observation.
AggregationOf(o, r) == Capped(Describes(Counts(o, r), r))

\* What the observation n is, made of o and one more resolution r.
AggregationSays(n, o, r) ==
  /\ RowShape(n)
  /\ n.requests = o.requests + 1 /\ n.errors = o.errors + Bit(r.failed)
  /\ n.evidence = LeastEvidence(o.evidence \cup r.evidence, MaxEvidence)
  /\ n.pairs = LeastPairs(o.pairs \cup ({r.pair} \ {<<>>}))
  /\ n.hardCap = (o.hardCap \/ Caps(r))
  /\ n.hardCap => n.confidence = "MEDIUM"
  /\ ~n.hardCap /\ Better(r, o) =>
       n.confidence = r.confidence /\ n.basis = r.basis /\ n.limits = r.limits
  /\ ~n.hardCap /\ ~Better(r, o) =>
       n.confidence = o.confidence /\ n.basis = o.basis /\ n.limits = o.limits

\* The fields of an observation after one more sample.
LEMMA AggregationMeans ==
  ASSUME NEW o, RowShape(o), NEW r
  PROVE  AggregationSays(AggregationOf(o, r), o, r)
<1> DEFINE c == Counts(o, r)
           d == Describes(c, r)
           n == Capped(d)
<1>1. PICK count, errors, target, evidence, pairs, conflict, capLimits :
        /\ count = o.requests + 1 /\ errors = o.errors + Bit(r.failed)
        /\ target = (IF o.target = Nil THEN r.target ELSE o.target)
        /\ evidence = LeastEvidence(o.evidence \cup r.evidence, MaxEvidence)
        /\ pairs = LeastPairs(o.pairs \cup ({r.pair} \ {<<>>}))
        /\ conflict = (o.conflict \/ (Caps(r) /\ r.basis = Basis.conflict))
        /\ capLimits = (IF Caps(r) THEN o.capLimits \cup r.limits ELSE o.capLimits)
  OBVIOUS
<1>2. PICK hardCap : hardCap = (o.hardCap \/ Caps(r))
  OBVIOUS
<1>3. c = [o EXCEPT !.requests = count, !.errors = errors, !.target = target,
                    !.evidence = evidence, !.pairs = pairs, !.hardCap = hardCap,
                    !.conflict = conflict, !.capLimits = capLimits]
  BY <1>1, <1>2 DEF Counts
<1>4. c = [requests |-> count, errors |-> errors, target |-> target,
           confidence |-> o.confidence, basis |-> o.basis, limits |-> o.limits,
           evidence |-> evidence, pairs |-> pairs, hardCap |-> hardCap,
           conflict |-> conflict, capLimits |-> capLimits]
  BY <1>3 DEF RowShape
<1> HIDE DEF c
<1>5. Better(r, c) <=> Better(r, o)
  BY <1>4 DEF Better, observationMetadataLess
<1>6. PICK confidence, basis, limits :
        /\ Better(r, o) => confidence = r.confidence /\ basis = r.basis /\ limits = r.limits
        /\ ~Better(r, o) => confidence = o.confidence /\ basis = o.basis /\ limits = o.limits
        /\ d = [requests |-> count, errors |-> errors, target |-> target,
                confidence |-> confidence, basis |-> basis, limits |-> limits,
                evidence |-> evidence, pairs |-> pairs, hardCap |-> hardCap,
                conflict |-> conflict, capLimits |-> capLimits]
  BY <1>4, <1>5 DEF Describes
<1> HIDE DEF d
<1>7. d.hardCap = hardCap
  BY <1>6
<1>8. CASE hardCap
  <2>1. PICK rest, first : rest = d.limits \cup d.capLimits
                           /\ first = IF d.conflict THEN Basis.conflict ELSE d.basis
    OBVIOUS
  <2>2. n = [d EXCEPT !.confidence = "MEDIUM", !.limits = rest, !.basis = first]
    BY <1>7, <1>8, <2>1 DEF Capped
  <2>3. n = [requests |-> count, errors |-> errors, target |-> target,
             confidence |-> "MEDIUM", basis |-> first, limits |-> rest,
             evidence |-> evidence, pairs |-> pairs, hardCap |-> hardCap,
             conflict |-> conflict, capLimits |-> capLimits]
    <3>1. d = [requests |-> count, errors |-> errors, target |-> target,
               confidence |-> confidence, basis |-> basis, limits |-> limits,
               evidence |-> evidence, pairs |-> pairs, hardCap |-> hardCap,
               conflict |-> conflict, capLimits |-> capLimits]
      BY <1>6
    <3> HIDE DEF n
    <3> QED BY <2>2, <3>1
  <2> HIDE DEF n
  <2>4. /\ RowShape(n) /\ n.requests = count /\ n.errors = errors /\ n.evidence = evidence
        /\ n.pairs = pairs /\ n.hardCap = hardCap /\ n.confidence = "MEDIUM"
    BY <2>3 DEF RowShape
  <2>5. AggregationSays(n, o, r)
    BY <1>1, <1>2, <1>8, <2>4 DEF AggregationSays
  <2> QED BY <2>5 DEF n, AggregationOf, c, d
<1>9. CASE ~hardCap
  <2>1. n = d
    BY <1>7, <1>9 DEF Capped
  <2> HIDE DEF n
  <2>2. /\ RowShape(n) /\ n.requests = count /\ n.errors = errors /\ n.evidence = evidence
        /\ n.pairs = pairs /\ n.hardCap = hardCap /\ n.confidence = confidence
        /\ n.basis = basis /\ n.limits = limits
    BY <1>6, <2>1 DEF RowShape
  <2>3. AggregationSays(n, o, r)
    BY <1>1, <1>2, <1>6, <1>9, <2>2 DEF AggregationSays
  <2> QED BY <2>3 DEF n, AggregationOf, c, d
<1> QED BY <1>8, <1>9

UncertainIn(spans, s) ==
  resolveDependency(spans, s).pair # <<>> /\ resolveDependency(spans, s).confidence = "MEDIUM"

\* The observation o says of itself what the resolution of s does, and no sample's is better.
DescribedBy(spans, N, o, s) ==
  /\ o.confidence = resolveDependency(spans, s).confidence
  /\ o.basis = resolveDependency(spans, s).basis
  /\ o.limits = resolveDependency(spans, s).limits
  /\ \A t \in N : ~Better(resolveDependency(spans, t), resolveDependency(spans, s))

PairsOf(spans, N) == {resolveDependency(spans, s).pair : s \in N} \ {<<>>}

FailedIn(spans, N) == {s \in N : resolveDependency(spans, s).failed}

\* An observation counts the samples N, apart from how it describes itself.
RowCounts(spans, N, o) ==
  /\ RowShape(o)
  /\ o.requests = Cardinality(N)
  /\ o.errors = Cardinality(FailedIn(spans, N))
  /\ o.hardCap \in BOOLEAN /\ (o.hardCap <=> \E s \in N : UncertainIn(spans, s))
  /\ o.evidence \in SUBSET Nat /\ IsFiniteSet(o.evidence)
  /\ o.pairs \subseteq PairsOf(spans, N) /\ IsFiniteSet(o.pairs)
  /\ Cardinality(o.pairs) <= MaxEvidence \div 2
  /\ PairsOf(spans, N) # {} => o.pairs # {}

RowOK(spans, N, o) ==
  /\ RowCounts(spans, N, o)
  /\ o.hardCap => o.confidence = "MEDIUM"
  /\ ~o.hardCap => \E s \in N : DescribedBy(spans, N, o, s)

\* The pairs kept are at least one, and their ends are no more than the evidence kept.
LEMMA HalfOfEvidence ==
  /\ MaxEvidence \div 2 \in Nat /\ MaxEvidence \div 2 # 0 /\ 2 * (MaxEvidence \div 2) <= MaxEvidence
  /\ MaxEvidence \in Nat
<1>1. MaxEvidence \in Nat /\ MaxEvidence >= 2
  BY SpansAssumption
<1> QED BY <1>1

\* The aggregation of one more sample keeps the counts.
LEMMA RowCountsGrow ==
  ASSUME NEW spans \in SUBSET Spans, IsFiniteSet(spans), NEW N \in SUBSET spans,
         NEW s \in spans, s \notin N, \A t \in N \cup {s} : IsResolved(spans, t),
         NEW o, RowCounts(spans, N, o)
  PROVE  RowCounts(spans, N \cup {s}, AggregationOf(o, resolveDependency(spans, s)))
<1> DEFINE M == N \cup {s}
<1>1. PICK r : r = resolveDependency(spans, s)
  OBVIOUS
<1>2. PICK n : n = AggregationOf(o, r)
  OBVIOUS
<1>3. /\ RowShape(n)
      /\ n.requests = o.requests + 1 /\ n.errors = o.errors + Bit(r.failed)
      /\ n.evidence = LeastEvidence(o.evidence \cup r.evidence, MaxEvidence)
      /\ n.pairs = LeastPairs(o.pairs \cup ({r.pair} \ {<<>>}))
      /\ n.hardCap = (o.hardCap \/ Caps(r))
  <2>1. AggregationSays(n, o, r)
    BY <1>2, AggregationMeans DEF RowCounts
  <2> QED BY <2>1 DEF AggregationSays
<1>4. \A t \in M : ResolutionOK(resolveDependency(spans, t))
  BY ResolutionMeans
<1>5. ResolutionOK(r)
  BY <1>1, <1>4
<1>6. IsFiniteSet(N) /\ Cardinality(N) \in Nat
  BY FS_Subset, FS_CardinalityType
<1>7. n.requests = Cardinality(M)
  <2>1. Cardinality(M) = Cardinality(N) + 1
    BY <1>6, FS_AddElement
  <2> QED BY <1>3, <2>1 DEF RowCounts
<1>8. n.errors = Cardinality(FailedIn(spans, M))
  <2>1. IsFiniteSet(FailedIn(spans, N)) /\ Cardinality(FailedIn(spans, N)) \in Nat
    <3>1. FailedIn(spans, N) \in SUBSET N
      BY DEF FailedIn
    <3> QED BY <1>6, <3>1, FS_Subset, FS_CardinalityType
  <2>2. CASE r.failed
    <3>1. FailedIn(spans, M) = FailedIn(spans, N) \cup {s} /\ s \notin FailedIn(spans, N)
      BY <1>1, <2>2 DEF FailedIn
    <3>2. Cardinality(FailedIn(spans, M)) = Cardinality(FailedIn(spans, N)) + 1
      BY <2>1, <3>1, FS_AddElement
    <3>3. Bit(r.failed) = 1
      BY <2>2 DEF Bit
    <3> QED BY <1>3, <3>2, <3>3 DEF RowCounts
  <2>3. CASE ~r.failed
    <3>1. FailedIn(spans, M) = FailedIn(spans, N)
      BY <1>1, <2>3 DEF FailedIn
    <3>2. Bit(r.failed) = 0
      BY <2>3 DEF Bit
    <3> QED BY <1>3, <2>1, <3>1, <3>2 DEF RowCounts
  <2> QED BY <2>2, <2>3
<1>9. n.hardCap \in BOOLEAN /\ (n.hardCap <=> \E t \in M : UncertainIn(spans, t))
  <2>1. Caps(r) <=> UncertainIn(spans, s)
    BY <1>1 DEF Caps, UncertainIn
  <2>2. o.hardCap <=> \E t \in N : UncertainIn(spans, t)
    BY DEF RowCounts
  <2> QED BY <1>3, <2>1, <2>2
<1>10. n.evidence \in SUBSET Nat /\ IsFiniteSet(n.evidence)
  <2>1. PICK E : E = o.evidence \cup r.evidence
    OBVIOUS
  <2>2. E \in SUBSET Nat /\ IsFiniteSet(E)
    BY <1>5, <2>1, FS_Union DEF ResolutionOK, RowCounts
  <2>3. LeastEvidence(E, MaxEvidence) \subseteq E /\ IsFiniteSet(LeastEvidence(E, MaxEvidence))
    BY <2>2, HalfOfEvidence, LeastEvidenceIsSmall
  <2> QED BY <1>3, <2>1, <2>2, <2>3
<1>11. /\ n.pairs \subseteq PairsOf(spans, M) /\ IsFiniteSet(n.pairs)
       /\ Cardinality(n.pairs) <= MaxEvidence \div 2
       /\ PairsOf(spans, M) # {} => n.pairs # {}
  <2>1. PICK Q : Q = o.pairs \cup ({r.pair} \ {<<>>})
    OBVIOUS
  <2>2. PairsOf(spans, M) = PairsOf(spans, N) \cup ({r.pair} \ {<<>>})
    BY <1>1 DEF PairsOf
  <2>3. Q \subseteq PairsOf(spans, M)
    BY <2>1, <2>2 DEF RowCounts
  <2>4. PairsOf(spans, M) \in SUBSET (Nat \X Nat)
    BY <1>4 DEF PairsOf, ResolutionOK
  <2>5. IsFiniteSet(Q)
    <3>1. IsFiniteSet({r.pair} \ {<<>>})
      <4>1. IsFiniteSet({r.pair}) /\ {r.pair} \ {<<>>} \in SUBSET {r.pair}
        BY FS_Singleton
      <4> QED BY <4>1, FS_Subset
    <3> QED BY <2>1, <3>1, FS_Union DEF RowCounts
  <2>6. PairsOf(spans, M) # {} => Q # {}
    BY <2>1, <2>2 DEF RowCounts
  <2>7. /\ LeastPairs(Q) \subseteq Q /\ IsFiniteSet(LeastPairs(Q))
        /\ Cardinality(LeastPairs(Q)) <= MaxEvidence \div 2
        /\ Q # {} => LeastPairs(Q) # {}
    <3>1. Q \in SUBSET (Nat \X Nat)
      BY <2>3, <2>4
    <3> QED BY <2>5, <3>1, HalfOfEvidence, LeastPairsAreFew
  <2>8. n.pairs = LeastPairs(Q)
    BY <1>3, <2>1
  <2> QED BY <2>3, <2>6, <2>7, <2>8
<1>12. RowCounts(spans, M, n)
  BY <1>3, <1>7, <1>8, <1>9, <1>10, <1>11 DEF RowCounts
<1> QED BY <1>1, <1>2, <1>12

\* A new observation, before it is counted, counts no sample.
LEMMA RowBegins ==
  ASSUME NEW spans, NEW r
  PROVE  /\ RowCounts(spans, {}, Observation(r))
         /\ Observation(r).confidence = r.confidence /\ Observation(r).basis = r.basis
         /\ Observation(r).limits = r.limits /\ Observation(r).hardCap = FALSE
<1>1. PICK o : o = Observation(r)
  OBVIOUS
<1>2. /\ o.confidence = r.confidence /\ o.basis = r.basis
      /\ o.limits = r.limits /\ o.hardCap = FALSE /\ o.requests = 0 /\ o.errors = 0
      /\ o.evidence = {} /\ o.pairs = {} /\ RowShape(o)
  BY <1>1 DEF Observation, RowShape
<1>3. PairsOf(spans, {}) = {} /\ FailedIn(spans, {}) = {}
  BY DEF PairsOf, FailedIn
<1>4. IsFiniteSet({}) /\ Cardinality({}) = 0
  BY FS_EmptySet
<1>5. RowCounts(spans, {}, o)
  <2>1. 0 <= MaxEvidence \div 2
    BY HalfOfEvidence
  <2>2. o.hardCap \in BOOLEAN /\ (o.hardCap <=> \E s \in {} : UncertainIn(spans, s))
    BY <1>2
  <2>3. o.evidence \in SUBSET Nat /\ IsFiniteSet(o.evidence)
    BY <1>2, <1>4
  <2>4. o.requests = Cardinality({}) /\ o.errors = Cardinality(FailedIn(spans, {}))
    BY <1>2, <1>3, <1>4
  <2>5. /\ o.pairs \subseteq PairsOf(spans, {}) /\ IsFiniteSet(o.pairs)
        /\ Cardinality(o.pairs) <= MaxEvidence \div 2
        /\ PairsOf(spans, {}) # {} => o.pairs # {}
    BY <1>2, <1>3, <1>4, <2>1
  <2> QED BY <1>2, <2>2, <2>3, <2>4, <2>5 DEF RowCounts
<1> QED BY <1>1, <1>2, <1>5

\* The aggregation of one more sample keeps what the observation says.
LEMMA RowGrows ==
  ASSUME NEW spans \in SUBSET Spans, IsFiniteSet(spans), NEW N \in SUBSET spans,
         NEW s \in spans, s \notin N, \A t \in N \cup {s} : IsResolved(spans, t),
         NEW o, \/ RowOK(spans, N, o)
                \/ N = {} /\ o = Observation(resolveDependency(spans, s))
  PROVE  RowOK(spans, N \cup {s}, AggregationOf(o, resolveDependency(spans, s)))
<1> DEFINE M == N \cup {s}
           Res(t) == resolveDependency(spans, t)
<1>1. PICK r : r = Res(s)
  OBVIOUS
<1>2. PICK n : n = AggregationOf(o, r)
  OBVIOUS
<1>3. RowCounts(spans, N, o)
  BY RowBegins DEF RowOK
<1>4. RowCounts(spans, M, n)
  BY <1>1, <1>2, <1>3, RowCountsGrow
<1>5. /\ n.hardCap = (o.hardCap \/ Caps(r))
      /\ n.hardCap => n.confidence = "MEDIUM"
      /\ ~n.hardCap /\ Better(r, o) =>
           n.confidence = r.confidence /\ n.basis = r.basis /\ n.limits = r.limits
      /\ ~n.hardCap /\ ~Better(r, o) =>
           n.confidence = o.confidence /\ n.basis = o.basis /\ n.limits = o.limits
  <2>1. RowShape(o)
    BY <1>3 DEF RowCounts
  <2>2. AggregationSays(n, o, r)
    BY <1>2, <2>1, AggregationMeans
  <2> QED BY <2>2 DEF AggregationSays
<1>6. \A t \in M : /\ Res(t).confidence \in {"LOW", "MEDIUM", "HIGH"}
                   /\ Res(t).basis \in Nat /\ Res(t).limits \in SUBSET Nat
  BY ResolutionMeans DEF ResolutionOK
<1>7. ASSUME ~n.hardCap PROVE \E t \in M : DescribedBy(spans, M, n, t)
  <2>1. ~o.hardCap
    BY <1>3, <1>4, <1>5, <1>7 DEF RowCounts
  <2>2. ~Better(r, r)
    BY <1>1, <1>6, BetterIsStrict
  <2>3. CASE RowOK(spans, N, o)
    <3>1. PICK t \in N : DescribedBy(spans, N, o, t)
      BY <2>1, <2>3 DEF RowOK
    <3>2. PICK q : q = Res(t)
      OBVIOUS
    <3>3. /\ o.confidence = q.confidence /\ o.basis = q.basis /\ o.limits = q.limits
          /\ \A u \in N : ~Better(Res(u), q)
      BY <3>1, <3>2 DEF DescribedBy
    <3>4. Better(r, o) <=> Better(r, q)
      BY <3>3 DEF Better, observationMetadataLess
    <3>5. CASE Better(r, o)
      <4>1. ASSUME NEW u \in N PROVE ~Better(Res(u), r)
        <5>1. PICK v : v = Res(u)
          OBVIOUS
        <5>2. Better(v, r) => Better(v, q)
          BY <1>1, <1>6, <3>2, <3>4, <3>5, <5>1, BetterIsTransitive
        <5> QED BY <3>3, <5>1, <5>2
      <4>2. \A u \in M : ~Better(Res(u), r)
        BY <1>1, <2>2, <4>1
      <4>3. n.confidence = r.confidence /\ n.basis = r.basis /\ n.limits = r.limits
        BY <1>5, <1>7, <3>5
      <4>4. DescribedBy(spans, M, n, s)
        BY <1>1, <4>2, <4>3 DEF DescribedBy
      <4> QED BY <4>4
    <3>6. CASE ~Better(r, o)
      <4>1. \A u \in M : ~Better(Res(u), q)
        BY <1>1, <3>3, <3>4, <3>6
      <4>2. n.confidence = q.confidence /\ n.basis = q.basis /\ n.limits = q.limits
        BY <1>5, <1>7, <3>3, <3>6
      <4>3. DescribedBy(spans, M, n, t)
        BY <3>2, <4>1, <4>2 DEF DescribedBy
      <4> QED BY <4>3
    <3> QED BY <3>5, <3>6
  <2>4. CASE N = {} /\ o = Observation(r)
    <3>1. o.confidence = r.confidence /\ o.basis = r.basis /\ o.limits = r.limits
      BY <2>4, RowBegins
    <3>2. ~Better(r, o)
      BY <2>2, <3>1 DEF Better, observationMetadataLess
    <3>3. n.confidence = r.confidence /\ n.basis = r.basis /\ n.limits = r.limits
      BY <1>5, <1>7, <3>1, <3>2
    <3>4. \A u \in M : ~Better(Res(u), r)
      BY <1>1, <2>2, <2>4
    <3>5. DescribedBy(spans, M, n, s)
      BY <1>1, <3>3, <3>4 DEF DescribedBy
    <3> QED BY <3>5
  <2> QED BY <1>1, <2>3, <2>4
<1>8. RowOK(spans, M, n)
  BY <1>4, <1>5, <1>7 DEF RowOK
<1> QED BY <1>1, <1>2, <1>8

\* Of the spans, those among R that are samples of k.
SamplesIn(spans, R, k) == {s \in R : IsResolved(spans, s) /\ ObservationKey(spans, s) = k}

KeysOf(spans, R) == {ObservationKey(spans, s) : s \in {t \in R : IsResolved(spans, t)}}

\* The observations are those of the spans R.
RowsOK(spans, R, rows) ==
  /\ DOMAIN rows = KeysOf(spans, R)
  /\ \A k \in DOMAIN rows : RowOK(spans, SamplesIn(spans, R, k), rows[k])

\* Resolving one more span keeps what the observations say of those resolved so far.
LEMMA RowsGrow ==
  ASSUME NEW spans \in SUBSET Spans, IsFiniteSet(spans), NEW R \in SUBSET spans,
         NEW s \in spans, s \notin R, NEW rows, RowsOK(spans, R, rows)
  PROVE  RowsOK(spans, R \cup {s}, Aggregated(spans, rows, s))
<1> DEFINE M == R \cup {s}
<1>1. PICK n : n = Aggregated(spans, rows, s)
  OBVIOUS
<1>2. CASE ~IsResolved(spans, s)
  <2>1. n = rows
    BY <1>1, <1>2 DEF Aggregated
  <2>2. KeysOf(spans, M) = KeysOf(spans, R)
    BY <1>2 DEF KeysOf
  <2>3. \A k : SamplesIn(spans, M, k) = SamplesIn(spans, R, k)
    BY <1>2 DEF SamplesIn
  <2> QED BY <1>1, <2>1, <2>2, <2>3 DEF RowsOK
<1>3. CASE IsResolved(spans, s)
  <2>1. PICK key : key = ObservationKey(spans, s)
    OBVIOUS
  <2>2. PICK r : r = resolveDependency(spans, s)
    OBVIOUS
  <2>3. PICK o : o = IF key \in DOMAIN rows THEN rows[key] ELSE Observation(r)
    OBVIOUS
  <2>4. Current(spans, rows, s) = o
    BY <2>1, <2>2, <2>3 DEF Current
  <2>5. PICK row : row = AggregationOf(o, r)
    OBVIOUS
  <2>6. n = With(rows, key, row)
    BY <1>1, <1>3, <2>1, <2>2, <2>4, <2>5 DEF Aggregated, AggregationOf
  <2>7. /\ DOMAIN n = DOMAIN rows \cup {key} /\ n[key] = row
        /\ \A k \in DOMAIN rows : k # key => n[k] = rows[k]
    BY <2>6 DEF With
  <2>8. DOMAIN n = KeysOf(spans, M)
    BY <1>3, <2>1, <2>7 DEF RowsOK, KeysOf
  <2>9. \A k : k # key => SamplesIn(spans, M, k) = SamplesIn(spans, R, k)
    BY <2>1 DEF SamplesIn
  <2>10. SamplesIn(spans, M, key) = SamplesIn(spans, R, key) \cup {s}
    BY <1>3, <2>1 DEF SamplesIn
  <2>11. RowOK(spans, SamplesIn(spans, M, key), row)
    <3>1. PICK N : N = SamplesIn(spans, R, key)
      OBVIOUS
    <3>2. N \in SUBSET spans /\ s \notin N /\ \A t \in N \cup {s} : IsResolved(spans, t)
      BY <1>3, <3>1 DEF SamplesIn
    <3>3. RowOK(spans, N, o) \/ (N = {} /\ o = Observation(resolveDependency(spans, s)))
      <4>1. CASE key \in DOMAIN rows
        BY <2>3, <3>1, <4>1 DEF RowsOK
      <4>2. CASE key \notin DOMAIN rows
        <5>1. N = {}
          BY <3>1, <4>2 DEF RowsOK, KeysOf, SamplesIn
        <5> QED BY <2>2, <2>3, <4>2, <5>1
      <4> QED BY <4>1, <4>2
    <3>4. RowOK(spans, N \cup {s}, AggregationOf(o, resolveDependency(spans, s)))
      BY <3>2, <3>3, RowGrows
    <3> QED BY <2>2, <2>5, <2>10, <3>1, <3>4
  <2>12. ASSUME NEW k \in DOMAIN n PROVE RowOK(spans, SamplesIn(spans, M, k), n[k])
    <3>1. CASE k = key
      BY <2>7, <2>11, <3>1
    <3>2. CASE k # key
      <4>1. k \in DOMAIN rows /\ n[k] = rows[k]
        BY <2>7, <2>12, <3>2
      <4>2. RowOK(spans, SamplesIn(spans, R, k), rows[k])
        BY <4>1 DEF RowsOK
      <4> QED BY <2>9, <3>2, <4>1, <4>2
    <3> QED BY <3>1, <3>2
  <2> QED BY <1>1, <2>8, <2>12 DEF RowsOK
<1> QED BY <1>2, <1>3

-----------------------------------------------------------------------------
(* The decoder: the windows                                                *)

ServedIn(spans, k) ==
  {s \in spans : s.kind = "server" /\ s.service = k[1] /\ k[2] \in {Nil, s.endpoint}}

ErrorsIn(spans, k) == {s \in ServedIn(spans, k) : s.failed}

WindowOf(spans, k) ==
  [requests |-> Cardinality(ServedIn(spans, k)), errors |-> Cardinality(ErrorsIn(spans, k))]

WindowKeys(spans) ==
  UNION {{s.service} \X {Nil, s.endpoint} : s \in {t \in spans : t.kind = "server"}}

\* The windows are those of the spans, which they count.
WindowsOK(spans, rows) ==
  /\ DOMAIN rows = WindowKeys(spans)
  /\ \A k \in DOMAIN rows : rows[k] = WindowOf(spans, k)

\* A span that is counted in the row k of the windows counts once.
LEMMA WindowGrows ==
  ASSUME NEW spans \in SUBSET Spans, IsFiniteSet(spans), NEW s \in Spans, s \notin spans,
         s.kind = "server", NEW k \in {s.service} \X {Nil, s.endpoint},
         NEW rows, NEW row, row = AddDuration(rows, k, s)[k],
         k \in DOMAIN rows => rows[k] = WindowOf(spans, k),
         k \notin DOMAIN rows => k \notin WindowKeys(spans)
  PROVE  row = WindowOf(spans \cup {s}, k)
<1> DEFINE M == spans \cup {s}
<1>1. k[1] = s.service /\ k[2] \in {Nil, s.endpoint}
  OBVIOUS
<1>2. ServedIn(M, k) = ServedIn(spans, k) \cup {s} /\ s \notin ServedIn(spans, k)
  BY <1>1 DEF ServedIn
<1>3. IsFiniteSet(ServedIn(spans, k)) /\ IsFiniteSet(ErrorsIn(spans, k))
  <2>1. ServedIn(spans, k) \in SUBSET spans /\ ErrorsIn(spans, k) \in SUBSET spans
    BY DEF ServedIn, ErrorsIn
  <2> QED BY <2>1, FS_Subset
<1>4. Cardinality(ServedIn(spans, k)) \in Nat /\ Cardinality(ErrorsIn(spans, k)) \in Nat
  BY <1>3, FS_CardinalityType
<1>5. Cardinality(ServedIn(M, k)) = Cardinality(ServedIn(spans, k)) + 1
  BY <1>2, <1>3, FS_AddElement
<1>6. Cardinality(ErrorsIn(M, k)) = Cardinality(ErrorsIn(spans, k)) + Bit(s.failed)
  <2>1. CASE s.failed
    <3>1. ErrorsIn(M, k) = ErrorsIn(spans, k) \cup {s} /\ s \notin ErrorsIn(spans, k)
      BY <1>2, <2>1 DEF ErrorsIn
    <3>2. Cardinality(ErrorsIn(M, k)) = Cardinality(ErrorsIn(spans, k)) + 1
      BY <1>3, <3>1, FS_AddElement
    <3>3. Bit(s.failed) = 1
      BY <2>1 DEF Bit
    <3> QED BY <3>2, <3>3
  <2>2. CASE ~s.failed
    <3>1. ErrorsIn(M, k) = ErrorsIn(spans, k)
      BY <1>2, <2>2 DEF ErrorsIn
    <3>2. Bit(s.failed) = 0
      BY <2>2 DEF Bit
    <3> QED BY <1>4, <3>1, <3>2
  <2> QED BY <2>1, <2>2
<1>7. PICK old : old = IF k \in DOMAIN rows THEN rows[k] ELSE [requests |-> 0, errors |-> 0]
  OBVIOUS
<1>8. row = [requests |-> old.requests + 1, errors |-> old.errors + Bit(s.failed)]
  BY <1>7 DEF AddDuration, With
<1>9. old = WindowOf(spans, k)
  <2>1. CASE k \in DOMAIN rows
    BY <1>7, <2>1
  <2>2. CASE k \notin DOMAIN rows
    <3>1. ServedIn(spans, k) = {}
      <4>1. ASSUME NEW t \in ServedIn(spans, k) PROVE FALSE
        <5>1. t \in spans /\ t.kind = "server" /\ t.service = k[1] /\ k[2] \in {Nil, t.endpoint}
          BY <4>1 DEF ServedIn
        <5>2. k \in {t.service} \X {Nil, t.endpoint}
          BY <5>1
        <5>3. k \in WindowKeys(spans)
          BY <5>1, <5>2 DEF WindowKeys
        <5> QED BY <2>2, <5>3
      <4> QED BY <4>1
    <3>2. ErrorsIn(spans, k) = {}
      BY <3>1 DEF ErrorsIn
    <3>3. Cardinality({}) = 0
      BY FS_EmptySet
    <3> QED BY <1>7, <2>2, <3>1, <3>2, <3>3 DEF WindowOf
  <2> QED BY <2>1, <2>2
<1>10. /\ old.requests = Cardinality(ServedIn(spans, k))
       /\ old.errors = Cardinality(ErrorsIn(spans, k))
  BY <1>9 DEF WindowOf
<1> QED BY <1>5, <1>6, <1>8, <1>10 DEF WindowOf

\* A span counts in the rows of its service and endpoint only.
LEMMA WindowStays ==
  ASSUME NEW spans, NEW s, NEW k, k[1] # s.service \/ k[2] \notin {Nil, s.endpoint}
                                 \/ s.kind # "server"
  PROVE  WindowOf(spans \cup {s}, k) = WindowOf(spans, k)
<1>1. ServedIn(spans \cup {s}, k) = ServedIn(spans, k)
  BY DEF ServedIn
<1> QED BY <1>1 DEF WindowOf, ErrorsIn

\* The windows with one more span.
LEMMA WindowsGrow ==
  ASSUME NEW spans \in SUBSET Spans, IsFiniteSet(spans), NEW s \in Spans, s \notin spans,
         NEW rows, WindowsOK(spans, rows)
  PROVE  /\ s.kind # "server" => WindowsOK(spans \cup {s}, rows)
         /\ s.kind = "server" =>
              LET ofService == AddDuration(rows, <<s.service, Nil>>, s)
              IN  /\ s.endpoint = Nil => WindowsOK(spans \cup {s}, ofService)
                  /\ s.endpoint # Nil =>
                       WindowsOK(spans \cup {s}, AddDuration(ofService, <<s.service, s.endpoint>>, s))
<1> DEFINE M == spans \cup {s}
           own == {s.service} \X {Nil, s.endpoint}
<1>1. ASSUME s.kind # "server" PROVE WindowsOK(M, rows)
  <2>1. WindowKeys(M) = WindowKeys(spans)
    BY <1>1 DEF WindowKeys
  <2>2. \A k : WindowOf(M, k) = WindowOf(spans, k)
    BY <1>1, WindowStays
  <2> QED BY <2>1, <2>2 DEF WindowsOK
<1>2. ASSUME s.kind = "server" PROVE WindowKeys(M) = WindowKeys(spans) \cup own
  BY <1>2 DEF WindowKeys
<1>3. ASSUME NEW k \in WindowKeys(spans), k \notin own PROVE WindowOf(M, k) = WindowOf(spans, k)
  <2>1. PICK t \in spans : k \in {t.service} \X {Nil, t.endpoint}
    BY <1>3 DEF WindowKeys
  <2>2. k = <<k[1], k[2]>>
    BY <2>1
  <2>3. k[1] # s.service \/ k[2] \notin {Nil, s.endpoint}
    BY <1>3, <2>2
  <2> QED BY <2>3, WindowStays
<1>4. ASSUME s.kind = "server", NEW n, own \subseteq DOMAIN n, DOMAIN n = DOMAIN rows \cup own,
             \A k \in own : n[k] = WindowOf(M, k), \A k \in DOMAIN rows \ own : n[k] = rows[k]
      PROVE  WindowsOK(M, n)
  <2>1. DOMAIN n = WindowKeys(M)
    BY <1>2, <1>4 DEF WindowsOK
  <2>2. ASSUME NEW k \in DOMAIN n PROVE n[k] = WindowOf(M, k)
    <3>1. CASE k \in own
      BY <1>4, <3>1
    <3>2. CASE k \notin own
      <4>1. k \in DOMAIN rows /\ n[k] = rows[k]
        BY <1>4, <2>2, <3>2
      <4>2. k \in WindowKeys(spans) /\ rows[k] = WindowOf(spans, k)
        BY <4>1 DEF WindowsOK
      <4> QED BY <1>3, <3>2, <4>1, <4>2
    <3> QED BY <3>1, <3>2
  <2> QED BY <2>1, <2>2 DEF WindowsOK
<1>5. ASSUME s.kind = "server"
      PROVE  LET ofService == AddDuration(rows, <<s.service, Nil>>, s)
             IN  /\ s.endpoint = Nil => WindowsOK(spans \cup {s}, ofService)
                 /\ s.endpoint # Nil =>
                      WindowsOK(spans \cup {s}, AddDuration(ofService, <<s.service, s.endpoint>>, s))
  <2>1. PICK k0, k1 : k0 = <<s.service, Nil>> /\ k1 = <<s.service, s.endpoint>>
    OBVIOUS
  <2>2. k0 \in own /\ k1 \in own /\ own = {k0, k1}
    BY <2>1
  <2>3. PICK m : m = AddDuration(rows, k0, s)
    OBVIOUS
  <2>4. /\ DOMAIN m = DOMAIN rows \cup {k0}
        /\ \A j \in DOMAIN rows \ {k0} : m[j] = rows[j]
    BY <2>3 DEF AddDuration, With
  <2>5. m[k0] = WindowOf(M, k0)
    <3>1. k0 \in {s.service} \X {Nil, s.endpoint}
      BY <2>1
    <3>2. /\ k0 \in DOMAIN rows => rows[k0] = WindowOf(spans, k0)
          /\ k0 \notin DOMAIN rows => k0 \notin WindowKeys(spans)
      BY DEF WindowsOK
    <3>3. PICK row : row = AddDuration(rows, k0, s)[k0]
      OBVIOUS
    <3>4. row = WindowOf(spans \cup {s}, k0)
      BY <1>5, <3>1, <3>2, <3>3, WindowGrows
    <3> QED BY <2>3, <3>3, <3>4
  <2>6. ASSUME s.endpoint = Nil PROVE WindowsOK(M, m)
    <3>1. own = {k0}
      BY <2>1, <2>2, <2>6
    <3> HIDE DEF own
    <3> QED BY <1>4, <1>5, <2>4, <2>5, <3>1
  <2>7. ASSUME s.endpoint # Nil, NEW n, n = AddDuration(m, k1, s) PROVE WindowsOK(M, n)
    <3>1. k0 # k1
      BY <2>1, <2>7
    <3>2. /\ DOMAIN n = DOMAIN m \cup {k1}
          /\ \A j \in DOMAIN m \ {k1} : n[j] = m[j]
      BY <2>7 DEF AddDuration, With
    <3>3. n[k1] = WindowOf(M, k1)
      <4>1. k1 \in DOMAIN m => m[k1] = WindowOf(spans, k1)
        BY <2>4, <3>1 DEF WindowsOK
      <4>2. k1 \notin DOMAIN m => k1 \notin WindowKeys(spans)
        BY <2>4 DEF WindowsOK
      <4>3. k1 \in {s.service} \X {Nil, s.endpoint}
        BY <2>1
      <4>4. PICK row : row = AddDuration(m, k1, s)[k1]
        OBVIOUS
      <4>5. row = WindowOf(spans \cup {s}, k1)
        BY <1>5, <4>1, <4>2, <4>3, <4>4, WindowGrows
      <4> QED BY <2>7, <4>4, <4>5
    <3>4. n[k0] = WindowOf(M, k0)
      BY <2>4, <2>5, <3>1, <3>2
    <3>5. DOMAIN n = DOMAIN rows \cup own /\ own \subseteq DOMAIN n
      <4> HIDE DEF own
      <4> QED BY <2>2, <2>4, <3>2
    <3>6. \A k \in own : n[k] = WindowOf(M, k)
      <4> HIDE DEF own
      <4> QED BY <2>2, <3>3, <3>4
    <3>7. \A k \in DOMAIN rows \ own : n[k] = rows[k]
      <4> HIDE DEF own
      <4> QED BY <2>2, <2>4, <3>2
    <3> HIDE DEF own
    <3> QED BY <1>4, <1>5, <3>5, <3>6, <3>7
  <2> QED BY <2>1, <2>3, <2>6, <2>7
<1> QED BY <1>1, <1>5

-----------------------------------------------------------------------------
(* The decoder: the evidence that is kept in the end                       *)

\* The evidence selected is bounded and has both ends of every pair kept.
LEMMA SelectedMeans ==
  ASSUME NEW o, o.evidence \in SUBSET Nat, IsFiniteSet(o.evidence),
         o.pairs \in SUBSET (Nat \X Nat), IsFiniteSet(o.pairs),
         Cardinality(o.pairs) <= MaxEvidence \div 2,
         NEW E, E = Selected(o)
  PROVE  /\ E \in SUBSET Nat /\ IsFiniteSet(E) /\ Cardinality(E) <= MaxEvidence
         /\ \A p \in o.pairs : p[1] \in E /\ p[2] \in E
<1> DEFINE firsts == {p[1] : p \in o.pairs}
           seconds == {p[2] : p \in o.pairs}
           ends == UNION {{p[1], p[2]} : p \in o.pairs}
<1>1. IsFiniteSet(firsts) /\ Cardinality(firsts) <= Cardinality(o.pairs)
  <2> DEFINE f == [p \in o.pairs |-> p[1]]
  <2>1. f \in Surjection(o.pairs, firsts)
    BY DEF Surjection
  <2> HIDE DEF f, firsts
  <2> QED BY <2>1, FS_Surjection
<1>2. IsFiniteSet(seconds) /\ Cardinality(seconds) <= Cardinality(o.pairs)
  <2> DEFINE f == [p \in o.pairs |-> p[2]]
  <2>1. f \in Surjection(o.pairs, seconds)
    BY DEF Surjection
  <2> HIDE DEF f, seconds
  <2> QED BY <2>1, FS_Surjection
<1>3. ends = firsts \cup seconds /\ ends \in SUBSET Nat
  OBVIOUS
<1>4. /\ IsFiniteSet(ends) /\ Cardinality(ends) \in Nat
      /\ Cardinality(ends) <= MaxEvidence
  <2> HIDE DEF firsts, seconds, ends
  <2>1. /\ IsFiniteSet(firsts \cup seconds)
        /\ Cardinality(firsts \cup seconds) =
             Cardinality(firsts) + Cardinality(seconds) - Cardinality(firsts \cap seconds)
    BY <1>1, <1>2, FS_Union
  <2>2. IsFiniteSet(firsts \cap seconds)
    <3>1. firsts \cap seconds \in SUBSET firsts
      OBVIOUS
    <3> QED BY <1>1, <3>1, FS_Subset
  <2>3. /\ Cardinality(firsts) \in Nat /\ Cardinality(seconds) \in Nat
        /\ Cardinality(firsts \cap seconds) \in Nat /\ Cardinality(o.pairs) \in Nat
    BY <1>1, <1>2, <2>2, FS_CardinalityType
  <2>4. PICK half \in Nat : half = MaxEvidence \div 2
    BY HalfOfEvidence
  <2>5. 2 * half <= MaxEvidence /\ MaxEvidence \in Nat
    BY <2>4, HalfOfEvidence
  <2>6. Cardinality(o.pairs) <= half
    BY <2>4
  <2>7. Cardinality(firsts \cup seconds) <= MaxEvidence
    BY <1>1, <1>2, <2>1, <2>3, <2>5, <2>6
  <2> QED BY <1>3, <2>1, <2>7, FS_CardinalityType
<1>5. PICK rest : rest = o.evidence \ ends
  OBVIOUS
<1>6. PICK room : room = MaxEvidence - Cardinality(ends)
  OBVIOUS
<1>7. room \in Nat
  BY <1>4, <1>6, HalfOfEvidence
<1>8. rest \in SUBSET Nat /\ IsFiniteSet(rest)
  <2>1. rest \in SUBSET o.evidence
    BY <1>5
  <2> QED BY <2>1, FS_Subset
<1>9. PICK few : few = LeastEvidence(rest, room)
  OBVIOUS
<1>10. few \subseteq rest /\ IsFiniteSet(few) /\ Cardinality(few) \in Nat /\ Cardinality(few) <= room
  BY <1>7, <1>8, <1>9, LeastEvidenceIsSmall
<1>11. E = ends \cup few
  BY <1>5, <1>6, <1>9 DEF Selected
<1>12. \A p \in o.pairs : p[1] \in ends /\ p[2] \in ends
  OBVIOUS
<1>13. IsFiniteSet(E) /\ Cardinality(E) <= MaxEvidence
  <2> HIDE DEF ends
  <2>1. /\ IsFiniteSet(ends \cup few)
        /\ Cardinality(ends \cup few) =
             Cardinality(ends) + Cardinality(few) - Cardinality(ends \cap few)
    BY <1>4, <1>10, FS_Union
  <2>2. IsFiniteSet(ends \cap few)
    <3>1. ends \cap few \in SUBSET few
      OBVIOUS
    <3> QED BY <1>10, <3>1, FS_Subset
  <2>3. Cardinality(ends \cap few) \in Nat
    BY <2>2, FS_CardinalityType
  <2>4. Cardinality(ends \cup few) <= MaxEvidence
    BY <1>4, <1>6, <1>10, <2>1, <2>3, HalfOfEvidence
  <2> QED BY <1>11, <2>1, <2>4
<1> HIDE DEF ends
<1> QED BY <1>3, <1>8, <1>10, <1>11, <1>12, <1>13

\* What is kept shows the pairs.
EvidenceOK(rows) ==
  \A k \in DOMAIN rows :
    /\ Cardinality(rows[k].evidence) <= MaxEvidence
    /\ \A p \in rows[k].pairs : p[1] \in rows[k].evidence /\ p[2] \in rows[k].evidence

\* The last step leaves what the observations say, and their evidence is selected.
LEMMA EvidenceIsSelected ==
  ASSUME NEW spans \in SUBSET Spans, IsFiniteSet(spans), NEW R \in SUBSET spans,
         NEW rows, RowsOK(spans, R, rows),
         NEW n, n = [k \in DOMAIN rows |-> [rows[k] EXCEPT !.evidence = Selected(rows[k])]]
  PROVE  RowsOK(spans, R, n) /\ EvidenceOK(n)
<1>1. ASSUME NEW k \in DOMAIN rows
      PROVE  /\ RowOK(spans, SamplesIn(spans, R, k), n[k])
             /\ Cardinality(n[k].evidence) <= MaxEvidence
             /\ \A p \in n[k].pairs : p[1] \in n[k].evidence /\ p[2] \in n[k].evidence
  <2>1. PICK N : N = SamplesIn(spans, R, k)
    OBVIOUS
  <2>2. PICK o : o = rows[k]
    OBVIOUS
  <2>3. RowOK(spans, N, o)
    BY <2>1, <2>2 DEF RowsOK
  <2>4. RowCounts(spans, N, o)
    BY <2>3 DEF RowOK
  <2>5. o.pairs \in SUBSET (Nat \X Nat)
    <3>1. \A s \in N : s \in Spans /\ IsResolved(spans, s)
      BY <2>1 DEF SamplesIn
    <3>2. \A s \in N : ResolutionOK(resolveDependency(spans, s))
      BY <3>1, ResolutionMeans
    <3>3. PairsOf(spans, N) \subseteq Nat \X Nat
      BY <3>2 DEF PairsOf, ResolutionOK
    <3> QED BY <2>4, <3>3 DEF RowCounts
  <2>6. PICK E : E = Selected(o)
    OBVIOUS
  <2>7. /\ E \in SUBSET Nat /\ IsFiniteSet(E) /\ Cardinality(E) <= MaxEvidence
        /\ \A p \in o.pairs : p[1] \in E /\ p[2] \in E
    BY <2>4, <2>5, <2>6, SelectedMeans DEF RowCounts
  <2>8. PICK m : m = [o EXCEPT !.evidence = E]
    OBVIOUS
  <2>9. n[k] = m
    BY <2>2, <2>6, <2>8
  <2>10. m = [requests |-> o.requests, errors |-> o.errors, target |-> o.target,
              confidence |-> o.confidence, basis |-> o.basis, limits |-> o.limits,
              evidence |-> E, pairs |-> o.pairs, hardCap |-> o.hardCap,
              conflict |-> o.conflict, capLimits |-> o.capLimits]
    BY <2>4, <2>8 DEF RowCounts, RowShape
  <2>11. /\ RowShape(m) /\ m.evidence = E /\ m.pairs = o.pairs /\ m.hardCap = o.hardCap
         /\ m.requests = o.requests /\ m.errors = o.errors
         /\ m.confidence = o.confidence /\ m.basis = o.basis /\ m.limits = o.limits
    BY <2>10 DEF RowShape
  <2>12. RowCounts(spans, N, m)
    BY <2>4, <2>7, <2>11 DEF RowCounts
  <2>13. RowOK(spans, N, m)
    BY <2>3, <2>11, <2>12 DEF RowOK, DescribedBy
  <2> QED BY <2>1, <2>7, <2>9, <2>11, <2>13
<1>2. DOMAIN n = DOMAIN rows
  OBVIOUS
<1>3. RowsOK(spans, R, n)
  BY <1>1, <1>2 DEF RowsOK
<1>4. EvidenceOK(n)
  BY <1>1, <1>2 DEF EvidenceOK
<1> QED BY <1>3, <1>4

-----------------------------------------------------------------------------
(* The decoder: its invariant                                              *)

\* The first n of the spans accepted, a.
First(a, n) == {a[i] : i \in 1 .. n}

\* The spans accepted have different keys, and all are resolved in the end.
OrderOK ==
  /\ unread \in SUBSET Spans
  /\ order \in Seq(Spans)
  /\ \A i, j \in 1 .. Len(order) : order[i].key = order[j].key => i = j
  /\ resolved \in 0 .. Len(order)
  /\ decodePhase = "read" => resolved = 0
  /\ decodePhase = "done" => resolved = Len(order)

\* The invariant: at any moment the windows count the servers read, and the observations
\* the spans resolved, as the properties have it in the end.
SpansInv ==
  /\ OrderOK
  /\ WindowsOK(Accepted, windows)
  /\ RowsOK(Accepted, First(order, resolved), observations)
  /\ decodePhase = "done" => EvidenceOK(observations)

\* The spans accepted are a finite set of spans, those of the order.
LEMMA AcceptedIs ==
  ASSUME OrderOK
  PROVE  /\ Len(order) \in Nat /\ Accepted = First(order, Len(order)) /\ Accepted \in SUBSET Spans
         /\ IsFiniteSet(Accepted) /\ \A n \in 0 .. Len(order) : First(order, n) \in SUBSET Accepted
<1>1. Len(order) \in Nat /\ DOMAIN order = 1 .. Len(order) /\ \A i \in 1 .. Len(order) : order[i] \in Spans
  BY DEF OrderOK
<1>2. Accepted = First(order, Len(order))
  BY <1>1 DEF Accepted, ToSet, First
<1>3. First(order, Len(order)) \in SUBSET Spans
  BY <1>1 DEF First
<1>4. IsFiniteSet(First(order, Len(order)))
  <2> DEFINE f == [i \in 1 .. Len(order) |-> order[i]]
  <2>1. f \in Surjection(1 .. Len(order), First(order, Len(order)))
    BY DEF Surjection, First
  <2>2. IsFiniteSet(1 .. Len(order))
    BY <1>1, FS_Interval
  <2> HIDE DEF f
  <2> QED BY <2>1, <2>2, FS_Surjection
<1>5. \A n \in 0 .. Len(order) : First(order, n) \subseteq First(order, Len(order))
  BY <1>1 DEF First
<1> QED BY <1>1, <1>2, <1>3, <1>4, <1>5

\* Before the first span the invariant holds of nothing.
LEMMA SpansInvInit == DecodeInit => SpansInv
<1> SUFFICES ASSUME DecodeInit PROVE SpansInv
  OBVIOUS
<1>1. unread \in SUBSET Spans
  BY DEF DecodeInit, Spans
<1>2. order = <<>> /\ resolved = 0 /\ decodePhase = "read" /\ windows = NoRows /\ observations = NoRows
  BY DEF DecodeInit
<1>3. OrderOK
  BY <1>1, <1>2 DEF OrderOK
<1>4. Accepted = {} /\ First(order, 0) = {}
  BY <1>2 DEF Accepted, ToSet, First
<1>5. DOMAIN NoRows = {}
  BY DEF NoRows
<1>6. WindowsOK({}, NoRows)
  BY <1>5 DEF WindowsOK, WindowKeys
<1>7. RowsOK({}, {}, NoRows)
  BY <1>5 DEF RowsOK, KeysOf
<1> QED BY <1>2, <1>3, <1>4, <1>6, <1>7 DEF SpansInv

\* The first pass counts a server once, since no key comes twice.
LEMMA SpansInvRead ==
  ASSUME SpansInv, NEW s \in unread, ReadSpan(s)
  PROVE  SpansInv'
<1>1. /\ decodePhase = "read" /\ decodePhase' = decodePhase
      /\ resolved' = resolved /\ observations' = observations
      /\ unread' = unread \ {s} /\ \A t \in Accepted : t.key # s.key
      /\ order' = IF s.inside THEN Append(order, s) ELSE order
      /\ windows' = IF s.inside /\ s.kind = "server" THEN Counted(s) ELSE windows
  BY DEF ReadSpan, Duplicate
<1>2. /\ OrderOK /\ resolved = 0 /\ s \in Spans /\ WindowsOK(Accepted, windows)
      /\ RowsOK(Accepted, First(order, resolved), observations)
  BY <1>1 DEF SpansInv, OrderOK
<1>3. /\ Len(order) \in Nat /\ Accepted = First(order, Len(order)) /\ Accepted \in SUBSET Spans
      /\ IsFiniteSet(Accepted)
  BY <1>2, AcceptedIs
<1>4. CASE ~s.inside
  <2>1. order' = order /\ windows' = windows
    BY <1>1, <1>4
  <2>2. OrderOK'
    BY <1>1, <1>2, <2>1 DEF OrderOK
  <2>3. Accepted' = Accepted
    BY <2>1 DEF Accepted
  <2> QED BY <1>1, <1>2, <2>1, <2>2, <2>3 DEF SpansInv
<1>5. CASE s.inside
  <2>1. order' = Append(order, s)
    BY <1>1, <1>5
  <2>2. order \in Seq(Spans)
    BY <1>2 DEF OrderOK
  <2>3. /\ order' \in Seq(Spans) /\ Len(order') = Len(order) + 1
        /\ order'[Len(order) + 1] = s /\ \A i \in 1 .. Len(order) : order'[i] = order[i]
    BY <1>2, <2>1, <2>2, AppendProperties
  <2>4. \A i \in 1 .. Len(order) : order[i] \in Accepted
    BY <1>3 DEF First
  <2>5. \A i, j \in 1 .. Len(order') : order'[i].key = order'[j].key => i = j
    <3>1. ASSUME NEW i \in 1 .. Len(order'), NEW j \in 1 .. Len(order'),
                 order'[i].key = order'[j].key
          PROVE  i = j
      <4>1. \A n \in 1 .. Len(order') : n \in 1 .. Len(order) \/ n = Len(order) + 1
        BY <1>3, <2>3
      <4>2. \A n \in 1 .. Len(order) : order'[n].key # s.key
        BY <1>1, <2>3, <2>4
      <4>3. CASE i \in 1 .. Len(order) /\ j \in 1 .. Len(order)
        BY <1>2, <2>3, <3>1, <4>3 DEF OrderOK
      <4>4. CASE i = Len(order) + 1 \/ j = Len(order) + 1
        BY <2>3, <3>1, <4>1, <4>2, <4>4
      <4> QED BY <4>1, <4>3, <4>4
    <3> QED BY <3>1
  <2>6. OrderOK'
    <3>1. (unread \in SUBSET Spans)'
      BY <1>1, <1>2 DEF OrderOK
    <3>2. (resolved \in 0 .. Len(order))'
      BY <1>1, <1>2, <1>3, <2>3
    <3> QED BY <1>1, <1>2, <2>3, <2>5, <3>1, <3>2 DEF OrderOK
  <2>7. Accepted' = Accepted \cup {s}
    <3>1. Accepted' = First(order', Len(order'))
      BY <2>3 DEF Accepted, ToSet, First
    <3>2. First(order', Len(order) + 1) = First(order, Len(order)) \cup {s}
      BY <1>3, <2>3 DEF First
    <3> QED BY <1>3, <2>3, <3>1, <3>2
  <2>8. s \notin Accepted
    BY <1>1
  <2>9. WindowsOK(Accepted', windows')
    <3>1. PICK m : m = AddDuration(windows, <<s.service, Nil>>, s)
      OBVIOUS
    <3>2. /\ s.kind # "server" => WindowsOK(Accepted \cup {s}, windows)
          /\ s.kind = "server" /\ s.endpoint = Nil => WindowsOK(Accepted \cup {s}, m)
          /\ s.kind = "server" /\ s.endpoint # Nil =>
               WindowsOK(Accepted \cup {s}, AddDuration(m, <<s.service, s.endpoint>>, s))
      BY <1>2, <1>3, <2>8, <3>1, WindowsGrow
    <3>3. Counted(s) = IF s.endpoint = Nil THEN m
                       ELSE AddDuration(m, <<s.service, s.endpoint>>, s)
      BY <3>1 DEF Counted
    <3>4. windows' = IF s.kind = "server" THEN Counted(s) ELSE windows
      BY <1>1, <1>5
    <3>5. CASE s.kind # "server"
      BY <2>7, <3>2, <3>4, <3>5
    <3>6. CASE s.kind = "server" /\ s.endpoint = Nil
      BY <2>7, <3>2, <3>3, <3>4, <3>6
    <3>7. CASE s.kind = "server" /\ s.endpoint # Nil
      BY <2>7, <3>2, <3>3, <3>4, <3>7
    <3> QED BY <3>5, <3>6, <3>7
  <2>10. RowsOK(Accepted', First(order', resolved'), observations')
    <3>1. First(order, 0) = {} /\ First(order', 0) = {}
      BY DEF First
    <3>2. DOMAIN observations = {}
      BY <1>2, <3>1 DEF RowsOK, KeysOf
    <3>3. KeysOf(Accepted', {}) = {}
      BY DEF KeysOf
    <3> QED BY <1>1, <1>2, <3>1, <3>2, <3>3 DEF RowsOK
  <2>11. decodePhase' # "done"
    BY <1>1
  <2> QED BY <2>6, <2>9, <2>10, <2>11 DEF SpansInv
<1> QED BY <1>4, <1>5

LEMMA SpansInvResolve ==
  ASSUME SpansInv, ResolveSpan
  PROVE  SpansInv'
<1>1. /\ OrderOK /\ WindowsOK(Accepted, windows)
      /\ RowsOK(Accepted, First(order, resolved), observations)
  BY DEF SpansInv
<1>2. /\ Len(order) \in Nat /\ Accepted = First(order, Len(order)) /\ Accepted \in SUBSET Spans
      /\ IsFiniteSet(Accepted) /\ \A n \in 0 .. Len(order) : First(order, n) \in SUBSET Accepted
  BY <1>1, AcceptedIs
<1>3. PICK s : s = order[resolved + 1]
  OBVIOUS
<1>4. /\ decodePhase = "resolve" /\ resolved < Len(order) /\ resolved' = resolved + 1
      /\ UNCHANGED <<unread, decodePhase, order, windows>>
      /\ observations' = Aggregated(Accepted, observations, s)
  BY <1>3 DEF ResolveSpan
<1>5. resolved \in 0 .. Len(order) /\ resolved + 1 \in 1 .. Len(order)
  BY <1>1, <1>2, <1>4 DEF OrderOK
<1>6. Accepted' = Accepted
  BY <1>4 DEF Accepted
<1>7. OrderOK'
  BY <1>1, <1>4, <1>5 DEF OrderOK
<1>8. s \in Accepted
  BY <1>2, <1>3, <1>5 DEF First
<1>9. s \notin First(order, resolved)
  <2>1. ASSUME NEW i \in 1 .. resolved PROVE order[i] # s
    <3>1. i \in 1 .. Len(order) /\ i # resolved + 1
      BY <1>2, <1>5
    <3> QED BY <1>1, <1>3, <1>5, <3>1 DEF OrderOK
  <2> QED BY <2>1 DEF First
<1>10. First(order, resolved + 1) = First(order, resolved) \cup {s}
  BY <1>3, <1>5 DEF First
<1>11. RowsOK(Accepted, First(order, resolved) \cup {s}, Aggregated(Accepted, observations, s))
  BY <1>1, <1>2, <1>5, <1>8, <1>9, RowsGrow
<1>12. RowsOK(Accepted, First(order, resolved), observations)'
  BY <1>4, <1>6, <1>10, <1>11
<1>13. WindowsOK(Accepted, windows)'
  BY <1>1, <1>4, <1>6
<1>14. decodePhase' # "done"
  BY <1>4
<1> QED BY <1>7, <1>12, <1>13, <1>14 DEF SpansInv

\* The end of the second pass keeps the invariant.
LEMMA SpansInvFinish ==
  ASSUME SpansInv, Finish
  PROVE  SpansInv'
<1>1. /\ OrderOK /\ WindowsOK(Accepted, windows)
      /\ RowsOK(Accepted, First(order, resolved), observations)
  BY DEF SpansInv
<1>2. /\ Accepted \in SUBSET Spans /\ IsFiniteSet(Accepted)
      /\ \A n \in 0 .. Len(order) : First(order, n) \in SUBSET Accepted
  BY <1>1, AcceptedIs
<1>3. /\ decodePhase' = "done" /\ resolved = Len(order)
      /\ UNCHANGED <<unread, order, resolved, windows>>
      /\ observations' = [k \in DOMAIN observations |->
                            [observations[k] EXCEPT !.evidence = Selected(observations[k])]]
  BY DEF Finish
<1>4. Accepted' = Accepted
  BY <1>3 DEF Accepted
<1>5. OrderOK'
  BY <1>1, <1>3 DEF OrderOK
<1>6. First(order, resolved) \in SUBSET Accepted
  BY <1>1, <1>2 DEF OrderOK
<1>7. RowsOK(Accepted, First(order, resolved), observations') /\ EvidenceOK(observations')
  BY <1>1, <1>2, <1>3, <1>6, EvidenceIsSelected
<1> QED BY <1>1, <1>3, <1>4, <1>5, <1>7 DEF SpansInv

\* What only changes the phase keeps the invariant, unless the file is done.
LEMMA SpansInvOther ==
  ASSUME SpansInv, UNCHANGED <<unread, order, resolved, windows, observations>>,
         decodePhase' \in {"resolve", "failed"} \/ decodePhase' = decodePhase
  PROVE  SpansInv'
<1>1. Accepted' = Accepted
  BY DEF Accepted
<1>2. OrderOK'
  BY DEF OrderOK, SpansInv
<1>3. WindowsOK(Accepted, windows)' /\ RowsOK(Accepted, First(order, resolved), observations)'
  BY <1>1 DEF SpansInv
<1>4. decodePhase' = "done" => EvidenceOK(observations')
  BY DEF SpansInv
<1> QED BY <1>2, <1>3, <1>4 DEF SpansInv

\* Every step of Decode keeps the invariant.
LEMMA SpansInvStep == SpansInv /\ [DecodeNext]_decodeVars => SpansInv'
<1> SUFFICES ASSUME SpansInv, [DecodeNext]_decodeVars PROVE SpansInv'
  OBVIOUS
<1>1. CASE \E s \in unread : ReadSpan(s)
  BY <1>1, SpansInvRead
<1>2. CASE ResolveSpan
  BY <1>2, SpansInvResolve
<1>3. CASE Finish
  BY <1>3, SpansInvFinish
<1>4. CASE EndFirstPass \/ Reject \/ Cancel \/ UNCHANGED decodeVars
  <2>1. UNCHANGED <<unread, order, resolved, windows, observations>>
    BY <1>4 DEF EndFirstPass, Reject, Cancel, FailDecode, decodeVars
  <2>2. decodePhase' \in {"resolve", "failed"} \/ decodePhase' = decodePhase
    BY <1>4 DEF EndFirstPass, Reject, Cancel, FailDecode, decodeVars
  <2> QED BY <2>1, <2>2, SpansInvOther
<1> QED BY <1>1, <1>2, <1>3, <1>4 DEF DecodeNext

-----------------------------------------------------------------------------
(* The decoder: its properties                                             *)

\* What the invariant says when the file is done.
LEMMA AtTheEnd ==
  ASSUME SpansInv, decodePhase = "done"
  PROVE  /\ Accepted \in SUBSET Spans /\ IsFiniteSet(Accepted)
         /\ WindowsOK(Accepted, windows) /\ RowsOK(Accepted, Accepted, observations)
         /\ EvidenceOK(observations)
         /\ \A k : SamplesIn(Accepted, Accepted, k) = Samples(k)
         /\ \A s : Resolution(s) = resolveDependency(Accepted, s)
<1>1. OrderOK /\ resolved = Len(order)
  BY DEF SpansInv, OrderOK
<1>2. Accepted = First(order, Len(order)) /\ Accepted \in SUBSET Spans /\ IsFiniteSet(Accepted)
  BY <1>1, AcceptedIs
<1>3. \A k : SamplesIn(Accepted, Accepted, k) = Samples(k)
  BY DEF SamplesIn, Samples
<1> QED BY <1>1, <1>2, <1>3 DEF SpansInv, Resolution

\* The invariant implies the first property.
LEMMA ObservationsAreExact == SpansInv => ObservationsExact
<1> SUFFICES ASSUME SpansInv, decodePhase = "done"
             PROVE  /\ DOMAIN observations =
                         {ObservationKey(Accepted, s) : s \in {t \in Accepted : IsResolved(Accepted, t)}}
                    /\ \A k \in DOMAIN observations :
                         LET o == observations[k] IN
                         /\ o.requests = Cardinality(Samples(k))
                         /\ o.errors = Cardinality({s \in Samples(k) : Resolution(s).failed})
                         /\ IF \E s \in Samples(k) : Uncertain(s)
                            THEN o.confidence = "MEDIUM"
                            ELSE \E r \in BestOf(Samples(k)) :
                                   o.confidence = r.confidence /\ o.basis = r.basis /\ o.limits = r.limits
                    /\ DOMAIN windows =
                         UNION {{s.service} \X {Nil, s.endpoint} : s \in {t \in Accepted : t.kind = "server"}}
                    /\ \A k \in DOMAIN windows :
                         windows[k] = [requests |-> Cardinality(Served(k)),
                                       errors   |-> Cardinality({s \in Served(k) : s.failed})]
  BY DEF ObservationsExact
<1>1. /\ Accepted \in SUBSET Spans /\ IsFiniteSet(Accepted)
      /\ WindowsOK(Accepted, windows) /\ RowsOK(Accepted, Accepted, observations)
      /\ \A k : SamplesIn(Accepted, Accepted, k) = Samples(k)
      /\ \A s : Resolution(s) = resolveDependency(Accepted, s)
  BY AtTheEnd
<1>2. DOMAIN observations =
        {ObservationKey(Accepted, s) : s \in {t \in Accepted : IsResolved(Accepted, t)}}
  BY <1>1 DEF RowsOK, KeysOf
<1>3. ASSUME NEW k \in DOMAIN observations, NEW o, o = observations[k]
      PROVE  /\ o.requests = Cardinality(Samples(k))
             /\ o.errors = Cardinality({s \in Samples(k) : Resolution(s).failed})
             /\ (\E s \in Samples(k) : Uncertain(s)) => o.confidence = "MEDIUM"
             /\ ~(\E s \in Samples(k) : Uncertain(s)) =>
                  \E r \in BestOf(Samples(k)) :
                    o.confidence = r.confidence /\ o.basis = r.basis /\ o.limits = r.limits
  <2>1. PICK N : N = Samples(k)
    OBVIOUS
  <2>2. RowOK(Accepted, N, o)
    BY <1>1, <1>3, <2>1 DEF RowsOK
  <2>3. /\ o.requests = Cardinality(N) /\ o.errors = Cardinality(FailedIn(Accepted, N))
        /\ (o.hardCap <=> \E s \in N : UncertainIn(Accepted, s))
    BY <2>2 DEF RowOK, RowCounts
  <2>4. FailedIn(Accepted, N) = {s \in N : Resolution(s).failed}
    BY <1>1 DEF FailedIn
  <2>5. \A s : Uncertain(s) <=> UncertainIn(Accepted, s)
    BY <1>1 DEF Uncertain, UncertainIn
  <2>6. (\E s \in N : Uncertain(s)) => o.confidence = "MEDIUM"
    BY <2>2, <2>3, <2>5 DEF RowOK
  <2>7. ASSUME ~(\E s \in N : Uncertain(s))
        PROVE  \E r \in BestOf(N) :
                 o.confidence = r.confidence /\ o.basis = r.basis /\ o.limits = r.limits
    <3>1. PICK s \in N : DescribedBy(Accepted, N, o, s)
      BY <2>2, <2>3, <2>5, <2>7 DEF RowOK
    <3>2. PICK r : r = Resolution(s)
      OBVIOUS
    <3>3. /\ o.confidence = r.confidence /\ o.basis = r.basis /\ o.limits = r.limits
          /\ \A t \in N : ~Better(Resolution(t), r)
      BY <1>1, <3>1, <3>2 DEF DescribedBy
    <3>4. \A t \in N : t \in Spans /\ IsResolved(Accepted, t)
      BY <1>1, <2>1 DEF Samples
    <3>5. \A t \in N : ResolutionOK(Resolution(t))
      BY <1>1, <3>4, ResolutionMeans
    <3>6. \A t \in N : Rank[Resolution(t).confidence] \in Nat
      BY <3>5 DEF ResolutionOK, Rank
    <3>7. \A t \in N : /\ Rank[Resolution(t).confidence] <= Rank[r.confidence]
                       /\ Rank[Resolution(t).confidence] = Rank[r.confidence]
                            => ~observationMetadataLess(Resolution(t), r)
      BY <3>2, <3>3, <3>6 DEF Better
    <3>8. r \in BestOf(N)
      BY <3>2, <3>7 DEF BestOf
    <3> QED BY <3>3, <3>8
  <2> QED BY <2>1, <2>3, <2>4, <2>6, <2>7
<1>4. DOMAIN windows =
        UNION {{s.service} \X {Nil, s.endpoint} : s \in {t \in Accepted : t.kind = "server"}}
  BY <1>1 DEF WindowsOK, WindowKeys
<1>5. ASSUME NEW k \in DOMAIN windows
      PROVE  windows[k] = [requests |-> Cardinality(Served(k)),
                           errors   |-> Cardinality({s \in Served(k) : s.failed})]
  <2>1. windows[k] = WindowOf(Accepted, k)
    BY <1>1 DEF WindowsOK
  <2>2. Served(k) = ServedIn(Accepted, k)
    BY DEF Served, ServedIn
  <2> QED BY <2>1, <2>2 DEF WindowOf, ErrorsIn
<1> QED BY <1>2, <1>3, <1>4, <1>5

\* The services that answered, said twice.
LEMMA RemoteIs ==
  ASSUME NEW s
  PROVE  Remote(s) = AnsweringServices(Accepted, s)
BY DEF Remote, AnsweringServices, Answering, Answers

\* A span that one service answered is resolved by it.
LEMMA AnsweredIsResolved ==
  ASSUME NEW s, Linked(Accepted, s)
  PROVE  IsResolved(Accepted, s)
<1>1. AnsweringServices(Accepted, s) # {}
  BY FS_EmptySet DEF Linked
<1>2. s.kind \in {"client", "producer"}
  BY <1>1 DEF AnsweringServices, Answering, Answers
<1> QED BY <1>2 DEF IsResolved, Linked

\* The invariant implies that a high confidence is deserved.
LEMMA HighIsSure == SpansInv => HighIsCertain
<1> SUFFICES ASSUME SpansInv, decodePhase = "done",
                    NEW k \in DOMAIN observations, observations[k].confidence = "HIGH",
                    NEW answered,
                    answered = {s \in Accepted : /\ s.service = k[1]
                                                 /\ originEndpoint(Accepted, s) = k[2]
                                                 /\ AnsweredBy(s, k[3])}
             PROVE  /\ answered # {}
                    /\ \A s \in answered :
                         /\ {s.declares[c] : c \in DOMAIN s.declares \cap {"peer", "rpc"}} \subseteq Remote(s)
                         /\ s.kind = "producer" => ~s.dropped
  BY DEF HighIsCertain
<1>1. /\ Accepted \in SUBSET Spans /\ IsFiniteSet(Accepted)
      /\ RowsOK(Accepted, Accepted, observations)
      /\ \A j : SamplesIn(Accepted, Accepted, j) = Samples(j)
  BY AtTheEnd
<1>2. PICK N, o : N = Samples(k) /\ o = observations[k]
  OBVIOUS
<1>3. RowOK(Accepted, N, o)
  BY <1>1, <1>2 DEF RowsOK
<1>4. /\ o.hardCap \in BOOLEAN /\ (o.hardCap <=> \E s \in N : UncertainIn(Accepted, s))
      /\ o.hardCap => o.confidence = "MEDIUM"
      /\ ~o.hardCap => \E s \in N : DescribedBy(Accepted, N, o, s)
  BY <1>3 DEF RowOK, RowCounts
<1>5. ~o.hardCap
  BY <1>2, <1>4
<1>6. PICK s \in N : resolveDependency(Accepted, s).confidence = "HIGH"
  <2>1. PICK s \in N : DescribedBy(Accepted, N, o, s)
    BY <1>4, <1>5
  <2>2. resolveDependency(Accepted, s).confidence = "HIGH"
    BY <1>2, <2>1 DEF DescribedBy
  <2> QED BY <2>2
<1>7. \A t \in N : /\ t \in Accepted /\ IsResolved(Accepted, t)
                   /\ k = ObservationKey(Accepted, t)
  BY <1>2 DEF Samples
<1>8. k[1] = s.service /\ k[2] = originEndpoint(Accepted, s)
      /\ k[3] = resolveDependency(Accepted, s).dependency /\ k = <<k[1], k[2], k[3]>>
  BY <1>7 DEF ObservationKey
<1>9. PICK r : r = resolveDependency(Accepted, s)
  OBVIOUS
<1>10. Linked(Accepted, s)
  <2>1. ~Linked(Accepted, s) => r.confidence \in {"LOW", "MEDIUM"}
    BY <1>1, <1>7, <1>9, ResolutionMeans
  <2> QED BY <1>6, <1>9, <2>1
<1>11. PICK t \in Accepted : /\ AnsweringServices(Accepted, s) = {t.service}
                             /\ LinkSays(Accepted, s, r, t)
  BY <1>1, <1>7, <1>9, <1>10, ResolutionMeans
<1>12. AnsweredBy(s, k[3])
  <2>1. Remote(s) = {t.service}
    BY <1>11, RemoteIs
  <2>2. k[3] = <<"service", t.service>>
    BY <1>8, <1>9, <1>11 DEF LinkSays
  <2> QED BY <2>1, <2>2 DEF AnsweredBy
<1>13. answered # {}
  BY <1>7, <1>8, <1>12
<1>14. ASSUME NEW u \in answered
       PROVE  /\ {u.declares[c] : c \in DOMAIN u.declares \cap {"peer", "rpc"}} \subseteq Remote(u)
              /\ u.kind = "producer" => ~u.dropped
  <2>1. /\ u \in Accepted /\ u.service = k[1] /\ originEndpoint(Accepted, u) = k[2]
        /\ AnsweredBy(u, k[3])
    BY <1>14
  <2>2. PICK x : Remote(u) = {x} /\ k[3] = <<"service", x>>
    BY <2>1 DEF AnsweredBy
  <2>3. AnsweringServices(Accepted, u) = {x}
    BY <2>2, RemoteIs
  <2>4. Linked(Accepted, u)
    BY <2>3, FS_Singleton DEF Linked
  <2>5. IsResolved(Accepted, u)
    BY <2>4, AnsweredIsResolved
  <2>6. PICK q : q = resolveDependency(Accepted, u)
    OBVIOUS
  <2>7. PICK v \in Accepted : /\ AnsweringServices(Accepted, u) = {v.service}
                              /\ LinkSays(Accepted, u, q, v)
    BY <1>1, <2>1, <2>4, <2>5, <2>6, ResolutionMeans
  <2>8. x = v.service
    BY <2>3, <2>7
  <2>9. q.dependency = k[3]
    BY <2>2, <2>7, <2>8 DEF LinkSays
  <2>10. u \in N
    <3>1. ObservationKey(Accepted, u) = k
      BY <1>8, <2>1, <2>6, <2>9 DEF ObservationKey
    <3> QED BY <1>2, <2>1, <2>5, <3>1 DEF Samples
  <2>11. ~UncertainIn(Accepted, u)
    BY <1>4, <1>5, <2>10
  <2>12. q.pair # <<>> /\ q.confidence \in {"MEDIUM", "HIGH"}
    BY <2>7 DEF LinkSays
  <2>13. q.confidence = "HIGH"
    BY <2>6, <2>11, <2>12 DEF UncertainIn
  <2>14. ~Contradicted(u, x) /\ (u.kind = "producer" => u.dropped = FALSE)
    BY <2>7, <2>8, <2>13 DEF LinkSays
  <2>15. \A c \in DOMAIN u.declares \cap {"peer", "rpc"} : u.declares[c] = x
    BY <2>14 DEF Contradicted
  <2> QED BY <2>2, <2>14, <2>15
<1> QED BY <1>13, <1>14

\* The invariant implies that the evidence shows a link.
LEMMA EvidenceIsShown == SpansInv => EvidenceShowsLink
<1> SUFFICES ASSUME SpansInv, decodePhase = "done", NEW k \in DOMAIN observations,
                    NEW evidence, evidence = observations[k].evidence,
                    NEW links,
                    links = {p \in Samples(k) \X Accepted :
                               p[2].service \in Remote(p[1]) /\ <<"service", p[2].service>> = k[3]}
             PROVE  /\ Cardinality(evidence) <= MaxEvidence
                    /\ (\E s \in Samples(k) : Cardinality(Remote(s)) = 1) =>
                         \E p \in links : {p[1].evidence, p[2].evidence} \subseteq evidence
  BY DEF EvidenceShowsLink
<1>1. /\ Accepted \in SUBSET Spans /\ IsFiniteSet(Accepted)
      /\ RowsOK(Accepted, Accepted, observations) /\ EvidenceOK(observations)
      /\ \A j : SamplesIn(Accepted, Accepted, j) = Samples(j)
  BY AtTheEnd
<1>2. PICK N, o : N = Samples(k) /\ o = observations[k]
  OBVIOUS
<1>3. RowOK(Accepted, N, o)
  BY <1>1, <1>2 DEF RowsOK
<1>4. o.pairs \subseteq PairsOf(Accepted, N) /\ (PairsOf(Accepted, N) # {} => o.pairs # {})
  BY <1>3 DEF RowOK, RowCounts
<1>5. /\ Cardinality(evidence) <= MaxEvidence
      /\ \A p \in o.pairs : p[1] \in evidence /\ p[2] \in evidence
  BY <1>1, <1>2 DEF EvidenceOK
<1>6. \A t \in N : /\ t \in Accepted /\ IsResolved(Accepted, t)
                   /\ k[3] = resolveDependency(Accepted, t).dependency
  BY <1>2 DEF Samples, ObservationKey
<1>7. ASSUME NEW s \in N, Cardinality(Remote(s)) = 1
      PROVE  \E p \in links : {p[1].evidence, p[2].evidence} \subseteq evidence
  <2>1. Linked(Accepted, s)
    BY <1>7, RemoteIs DEF Linked
  <2>2. PICK r : r = resolveDependency(Accepted, s)
    OBVIOUS
  <2>3. \E t \in Accepted : LinkSays(Accepted, s, r, t)
    BY <1>1, <1>6, <2>1, <2>2, ResolutionMeans
  <2>4. r.pair # <<>>
    BY <2>3 DEF LinkSays
  <2>5. PairsOf(Accepted, N) # {}
    BY <2>2, <2>4 DEF PairsOf
  <2>6. PICK pair \in o.pairs : pair \in PairsOf(Accepted, N)
    BY <1>4, <2>5
  <2>7. PICK u \in N : pair = resolveDependency(Accepted, u).pair /\ pair # <<>>
    BY <2>6 DEF PairsOf
  <2>8. PICK q : q = resolveDependency(Accepted, u)
    OBVIOUS
  <2>9. Linked(Accepted, u)
    BY <1>1, <1>6, <2>7, ResolutionMeans
  <2>10. PICK v \in Accepted : /\ AnsweringServices(Accepted, u) = {v.service}
                               /\ LinkSays(Accepted, u, q, v)
    BY <1>1, <1>6, <2>8, <2>9, ResolutionMeans
  <2>11. v.service \in Remote(u)
    BY <2>10, RemoteIs
  <2>12. k[3] = <<"service", v.service>> /\ pair = <<u.evidence, v.evidence>>
    BY <1>6, <2>7, <2>8, <2>10 DEF LinkSays
  <2>13. <<u, v>> \in links
    BY <1>2, <2>11, <2>12
  <2>14. u.evidence \in evidence /\ v.evidence \in evidence
    BY <1>5, <2>12
  <2> QED BY <2>13, <2>14
<1> QED BY <1>2, <1>5, <1>7

-----------------------------------------------------------------------------
(* The calls together                                                      *)

CallsInv == IInv /\ FetchInv /\ NewestInv /\ DockerInv /\ FileInv /\ StoreInv /\ GitInv
            /\ SpansInv

\* The constants are what each component assumes of them.
LEMMA Assumed ==
  /\ CallsAssumption /\ SkewAssumption /\ RefreshAssumption /\ T!TransactionAssumption
BY CallsAssumption DEF CallsAssumption

\* Every component begins with its own invariant.
LEMMA CallsInitInv == CallsInit => CallsInv
<1> SUFFICES ASSUME CallsInit PROVE CallsInv
  OBVIOUS
<1>1. H!Init /\ D!Init /\ F!Init /\ T!Init /\ Init /\ G!Init /\ DecodeInit
  BY DEF CallsInit
<1>2. IInv
  BY <1>1, InitInv
<1>3. FetchInv /\ NewestInv
  BY <1>1, FetchInit, NewestInit
<1>4. DockerInv /\ FileInv
  BY <1>1, DockerInit, FileInit, Assumed
<1>5. StoreInv /\ GitInv
  BY <1>1, StoreInit, GitInit, Assumed
<1>6. SpansInv
  BY <1>1, SpansInvInit
<1> QED BY <1>2, <1>3, <1>4, <1>5, <1>6 DEF CallsInv

\* A step is one of a component, or leaves it as it is.
LEMMA CallsSteps ==
  ASSUME [CallsNext]_callVars
  PROVE  /\ [H!Next]_(H!vars) /\ [D!Next]_(D!vars) /\ [F!Next]_(F!vars)
         /\ [T!Next]_(T!vars) /\ [Next]_vars /\ [G!Next]_(G!vars)
         /\ [DecodeNext]_decodeVars
<1>1. UNCHANGED ghVars => UNCHANGED H!vars
  BY DEF ghVars, H!vars, H!github, H!listing, H!request, H!download
<1>2. UNCHANGED dockerVars => UNCHANGED D!vars
  BY DEF dockerVars, D!vars, D!environment
<1>3. UNCHANGED fileVars => UNCHANGED F!vars
  BY DEF fileVars, F!vars
<1>4. UNCHANGED storeVars => UNCHANGED T!vars
  BY DEF storeVars, T!vars
<1>5. UNCHANGED gitVars => UNCHANGED G!vars
  BY DEF gitVars, G!vars
<1>6. UNCHANGED refreshVars => UNCHANGED vars
  BY DEF refreshVars
<1> QED BY <1>1, <1>2, <1>3, <1>4, <1>5, <1>6 DEF CallsNext, callVars

\* What one component does keeps the invariants of all.
LEMMA CallsStepInv == CallsInv /\ [CallsNext]_callVars => CallsInv'
<1> SUFFICES ASSUME CallsInv, [CallsNext]_callVars PROVE CallsInv'
  OBVIOUS
<1>1. IInv'
  BY CallsSteps, StepInv, Assumed DEF CallsInv
<1>2. FetchInv'
  BY CallsSteps, FetchNext DEF CallsInv
<1>3. NewestInv'
  BY CallsSteps, NewestNext DEF CallsInv
<1>4. DockerInv'
  BY CallsSteps, DockerNext DEF CallsInv
<1>5. FileInv'
  BY CallsSteps, FileNext, Assumed DEF CallsInv
<1>6. StoreInv'
  BY CallsSteps, StoreNext, Assumed DEF CallsInv
<1>7. GitInv'
  BY CallsSteps, GitNext DEF CallsInv
<1>8. SpansInv'
  BY CallsSteps, SpansInvStep DEF CallsInv
<1> QED BY <1>1, <1>2, <1>3, <1>4, <1>5, <1>6, <1>7, <1>8 DEF CallsInv

\* The invariants of the components hold throughout.
LEMMA CallsKeepInv == CallsSpec => []CallsInv
BY CallsInitInv, CallsStepInv, PTL DEF CallsSpec

\* Whatever containers, images and the daemon do while the workers of docker.Source are at
\* work: a batch accounts for every container of the list, in its order, and an outage or the
\* end of the context is no batch.  What git.Source answers was so at a moment while it was
\* asked.
THEOREM SourcesTell == CallsSpec => []SourcesAreTrue
<1>1. CallsInv => SourcesAreTrue
  BY DEF CallsInv, DockerInv, GitInv, SourcesAreTrue
<1> QED BY <1>1, CallsKeepInv, PTL

\* Whatever is uploaded and deleted between the pages that actionscli lists, and for any number
\* of artifacts and any size of a page: what is stored is the newest of those there were.
THEOREM NewestArtifactIsStored == CallsSpec => []NewestIsStored
<1>1. CallsInv => NewestIsStored
  BY NewestInvStored DEF CallsInv, NewestIsStored
<1> QED BY <1>1, CallsKeepInv, PTL

\* The token of a fetch stays with the API's host, and its requests and pauses are bounded,
\* however the hosts answer.
THEOREM RequestsAreContained == CallsSpec => []RequestsContained
<1>1. CallsInv => RequestsContained
  BY FetchInvContained DEF CallsInv, RequestsContained
<1> QED BY <1>1, CallsKeepInv, PTL

\* Whatever the batch and the answers of Git: a refresh hands the store the whole batch or
\* nothing, and every level in it is earned.
THEOREM SavingIsEarnedInCalls == CallsSpec => []SavedIsEarned
<1>1. CallsInv => SavedIsEarned
  BY LevelInv, SavedInv, Assumed DEF CallsInv, SavedIsEarned
<1> QED BY <1>1, CallsKeepInv, PTL

\* However long the file and however often others write to it, or put another in its place,
\* between the inspections of LoadFrozenFile: what is loaded from a file that had been at rest
\* is what it held when it was first inspected.
THEOREM FilesAreLoadedAsInspected == CallsSpec => []LoadedAsInspected
<1>1. CallsInv => LoadedAsInspected
  BY DEF CallsInv, FileInv, LoadedAsInspected
<1> QED BY <1>1, CallsKeepInv, PTL

\* beginTransaction never waits past its caller's deadline, and however a save ends the
\* connection is back with the timeout it had.
THEOREM PoolIsAlwaysRestored == CallsSpec => []PoolIsRestored
<1>1. CallsInv => PoolIsRestored
  BY StoreInvRestored, Assumed DEF CallsInv, PoolIsRestored
<1> QED BY <1>1, CallsKeepInv, PTL

\* Whatever the spans of a telemetry file, and in whatever order its lines have them: once
\* otel.Decode is done each observation has counted every outbound span that resolves to it
\* once, with its errors, and is as firm as its firmest sample or, with an uncertain link among
\* them, medium; each window has counted the server spans of its service or endpoint.
THEOREM ObservationsFollowSpans == CallsSpec => []ObservationsExact
<1>1. CallsInv => ObservationsExact
  BY ObservationsAreExact DEF CallsInv
<1> QED BY <1>1, CallsKeepInv, PTL

\* A dependency of high confidence was answered by the one service it names and nothing of the
\* same origin contradicts it, and the bounded evidence of a linked observation still shows both
\* ends of a link, however many samples have contended for it.
THEOREM LinksAreSure == CallsSpec => []LinksAreCertain
<1>1. CallsInv => LinksAreCertain
  BY HighIsSure, EvidenceIsShown DEF CallsInv, LinksAreCertain
<1> QED BY <1>1, CallsKeepInv, PTL

===============================================================================
