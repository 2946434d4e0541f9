----------------------- MODULE RuntimeInventory_proofs -----------------------
(***************************************************************************)
(* Theorems about RuntimeInventory for every set of containers, instants,  *)
(* artifacts, derivations and snapshots: the tables are well typed and     *)
(* their references hold, a container has exactly one row at any instant   *)
(* in whatever order its rows arrive, the intervals of an alias agree with *)
(* its observations, nothing stored is lost, the current conclusion of a   *)
(* row never weakens, the committed tables are a function of the snapshots *)
(* saved, a snapshot saved once more changes nothing, and the answers of   *)
(* RuntimeQueries are those of the snapshots saved.                        *)
(***************************************************************************)
EXTENDS RuntimeQueries, FiniteSetTheorems, TLAPS

-----------------------------------------------------------------------------
(* Instants                                                                *)

\* A nonempty finite set of integers has a least element.
LEMMA FiniteMinimum ==
  ASSUME NEW S, S \subseteq Int, IsFiniteSet(S), S # {}
  PROVE  \E m \in S : \A s \in S : m <= s
<1> DEFINE Upto(x) == {y \in S : y <= x}
           T == {Upto(x) : x \in S}
<1>1. IsWellFoundedOn(StrictSubsetOrdering(S), SUBSET S)
  BY FS_StrictSubsetOrderingWellFounded, FS_FiniteSubsetsOfFinite
<1>2. T \subseteq SUBSET S /\ T # {}
  OBVIOUS
<1>3. PICK U \in T : \A V \in T : ~(<<V, U>> \in StrictSubsetOrdering(S))
  <2> HIDE DEF T
  <2> QED BY <1>1, <1>2, WFMin
<1>4. PICK m \in S : U = Upto(m)
  OBVIOUS
<1>5. ASSUME NEW s \in S, s < m
      PROVE  FALSE
  <2>1. Upto(s) \subseteq Upto(m)
    <3>1. \A x, y, z \in Int : x <= y /\ y < z => x <= z
      OBVIOUS
    <3> QED BY <1>5, <3>1
  <2>2. m \in Upto(m)
    OBVIOUS
  <2>3. m \notin Upto(s)
    BY <1>5
  <2>4. <<Upto(s), Upto(m)>> \in StrictSubsetOrdering(S)
    BY <2>1, <2>2, <2>3 DEF StrictSubsetOrdering
  <2> QED
    BY <2>4, <1>3, <1>4
<1> QED
  BY <1>5

\* NextAfter(ts, t) is the least instant of ts after t, if there is one.
LEMMA NextAfterLeast ==
  ASSUME NEW ts \in SUBSET Times, NEW t \in Int, NEW later \in ts, later > t
  PROVE  /\ NextAfter(ts, t) \in ts
         /\ NextAfter(ts, t) > t
         /\ \A v \in ts : v > t => NextAfter(ts, t) <= v
<1> DEFINE after == {u \in ts : u > t}
<1>1. after \subseteq Int /\ after # {} /\ IsFiniteSet(after)
  BY InventoryAssumption, FS_Subset
<1>2. \E m \in after : \A s \in after : m <= s
  <2> HIDE DEF after
  <2> QED BY <1>1, FiniteMinimum
<1> QED
  BY <1>2 DEF NextAfter, Earliest

\* The next later instant of ts is one of the instants, or there is none.
LEMMA NextAfterType ==
  ASSUME NEW ts \in SUBSET Times, NEW t \in Int
  PROVE  NextAfter(ts, t) \in Times \cup {None}
<1>1. CASE \E u \in ts : u > t
  BY <1>1, NextAfterLeast
<1>2. CASE ~ \E u \in ts : u > t
  BY <1>2 DEF NextAfter, Earliest
<1> QED
  BY <1>1, <1>2

\* The least instant after t is the one NextAfter chooses.
LEMMA NextAfterIs ==
  ASSUME NEW ts \in SUBSET Times, NEW t \in Int,
         NEW n \in ts, n > t, \A v \in ts : v > t => n <= v
  PROVE  NextAfter(ts, t) = n
<1>1. /\ NextAfter(ts, t) \in ts
      /\ NextAfter(ts, t) > t
      /\ NextAfter(ts, t) <= n
  BY NextAfterLeast
<1>2. n <= NextAfter(ts, t)
  BY <1>1
<1>3. n \in Int /\ NextAfter(ts, t) \in Int
  BY <1>1, InventoryAssumption
<1>4. \A x, y \in Int : x <= y /\ y <= x => x = y
  OBVIOUS
<1> QED
  BY <1>1, <1>2, <1>3, <1>4

\* The interval from t to the next instant of ts holds exactly the instants at
\* which t is the latest of ts.
LEMMA IntervalIsLatest ==
  ASSUME NEW ts \in SUBSET Times, NEW t \in ts, NEW at \in Times
  PROVE  InInterval(t, NextAfter(ts, t), at) <=> t \in LatestUpTo(ts, at)
<1>1. at \in Int /\ \A u \in ts : u \in Int
  BY InventoryAssumption
<1>2. CASE t <= at /\ \E u \in ts : u > t
  <2>1. /\ NextAfter(ts, t) \in ts
        /\ NextAfter(ts, t) > t
        /\ \A v \in ts : v > t => NextAfter(ts, t) <= v
    BY <1>1, <1>2, NextAfterLeast
  <2>2. NextAfter(ts, t) # None /\ NextAfter(ts, t) \in Int
    BY <1>1, <2>1, InventoryAssumption
  <2>3. InInterval(t, NextAfter(ts, t), at) <=> at < NextAfter(ts, t)
    BY <1>2, <2>2 DEF InInterval
  <2>4. ASSUME at < NextAfter(ts, t), NEW u \in ts, u <= at
        PROVE  u <= t
    BY <1>1, <2>1, <2>2, <2>4
  <2>5. ASSUME \A u \in ts : u <= at => u <= t
        PROVE  at < NextAfter(ts, t)
    BY <1>1, <2>1, <2>2, <2>5
  <2> QED BY <1>2, <2>3, <2>4, <2>5 DEF LatestUpTo
<1>3. CASE t <= at /\ ~ \E u \in ts : u > t
  <2>1. NextAfter(ts, t) = None
    BY <1>3 DEF NextAfter, Earliest
  <2>2. \A u \in ts : u <= t
    BY <1>1, <1>3
  <2> QED BY <1>3, <2>1, <2>2 DEF InInterval, LatestUpTo
<1> QED
  BY <1>2, <1>3 DEF InInterval, LatestUpTo

\* A nonempty finite set of integers has a greatest element.
LEMMA FiniteMaximum ==
  ASSUME NEW S, S \subseteq Int, IsFiniteSet(S), S # {}
  PROVE  \E m \in S : \A s \in S : s <= m
<1> DEFINE f == [s \in S |-> 0 - s]
           T == {f[s] : s \in S}
<1>1. T \subseteq Int /\ T # {}
  <2>1. \A s \in S : f[s] \in Int
    OBVIOUS
  <2> QED BY <2>1
<1>2. IsFiniteSet(T)
  <2>1. f \in Surjection(S, T)
    BY DEF Surjection
  <2> QED BY <2>1, FS_Surjection
<1>3. PICK n \in T : \A t \in T : n <= t
  <2> HIDE DEF T
  <2> QED BY <1>1, <1>2, FiniteMinimum
<1>4. PICK m \in S : n = 0 - m
  BY <1>3
<1>5. ASSUME NEW s \in S PROVE s <= m
  <2>1. 0 - m <= 0 - s
    BY <1>3, <1>4
  <2> QED BY <2>1
<1> QED
  BY <1>5

\* Of instants up to some instant one is the latest, and only one.
LEMMA LatestExists ==
  ASSUME NEW ts \in SUBSET Times, NEW at \in Int, NEW t \in ts, t <= at
  PROVE  \E m \in ts : LatestUpTo(ts, at) = {m}
<1> DEFINE S == {u \in ts : u <= at}
<1>1. S \subseteq Int /\ IsFiniteSet(S) /\ S # {}
  BY InventoryAssumption, FS_Subset
<1>2. PICK m \in S : \A s \in S : s <= m
  <2> HIDE DEF S
  <2> QED BY <1>1, FiniteMaximum
<1>3. \A x, y \in Int : x <= y /\ y <= x => x = y
  OBVIOUS
<1>4. LatestUpTo(ts, at) = {m}
  BY <1>1, <1>2, <1>3 DEF LatestUpTo
<1> QED
  BY <1>4

-----------------------------------------------------------------------------
(* Runtime rows                                                            *)

\* Every row ends where the next one of its container begins.
Chained(rows) == \A t \in DOMAIN rows : rows[t].validTo = NextAfter(DOMAIN rows, t)

\* A new row keeps the chain, wherever among the others its instant falls.
LEMMA InsertRuntimeChained ==
  ASSUME NEW rows, Table(rows, Times, Runtimes), Chained(rows),
         NEW item \in Items, item.at \notin DOMAIN rows
  PROVE  Chained(InsertRuntime(rows, item))
<1> DEFINE ts  == DOMAIN rows
           at  == item.at
           new == InsertRuntime(rows, item)
           ts2 == ts \cup {at}
<1>1. /\ ts \in SUBSET Times /\ ts2 \in SUBSET Times /\ at \in Int
      /\ \A t \in ts2 : t \in Int
  BY InventoryAssumption DEF Table, Items
<1>2. DOMAIN new = ts2
  BY DEF InsertRuntime
<1>3. new[at].validTo = NextAfter(ts2, at)
  <2>1. {u \in ts2 : u > at} = {u \in ts : u > at}
    BY <1>1
  <2>2. NextAfter(ts2, at) = NextAfter(ts, at)
    BY <2>1 DEF NextAfter
  <2> QED BY <2>2 DEF InsertRuntime, NewRuntime
<1>4. ASSUME NEW t \in ts, IsPredecessor(ts, t, at)
      PROVE  new[t].validTo = NextAfter(ts2, t)
  <2>1. t # at /\ rows[t] \in Runtimes
    BY DEF Table
  <2>2. new[t].validTo = at
    BY <1>4, <2>1 DEF InsertRuntime, Runtimes
  <2>3. at \in ts2 /\ at > t /\ \A v \in ts2 : v > t => at <= v
    BY <1>1, <1>4 DEF IsPredecessor
  <2> QED BY <1>1, <2>2, <2>3, NextAfterIs
<1>5. ASSUME NEW t \in ts, ~IsPredecessor(ts, t, at)
      PROVE  new[t].validTo = NextAfter(ts2, t)
  <2>1. new[t].validTo = NextAfter(ts, t)
    BY <1>5 DEF InsertRuntime, Chained
  <2>2. CASE t > at
    <3>1. {u \in ts2 : u > t} = {u \in ts : u > t}
      BY <1>1, <2>2
    <3> QED BY <2>1, <3>1 DEF NextAfter
  <2>3. CASE t < at
    <3>1. PICK v \in ts : v < at /\ v > t
      BY <1>1, <1>5, <2>3 DEF IsPredecessor
    <3>2. /\ NextAfter(ts, t) \in ts
          /\ NextAfter(ts, t) > t
          /\ \A w \in ts : w > t => NextAfter(ts, t) <= w
      BY <1>1, <3>1, NextAfterLeast
    <3>3. NextAfter(ts, t) <= at
      BY <1>1, <3>1, <3>2
    <3> QED BY <1>1, <2>1, <3>2, <3>3, NextAfterIs
  <2> QED BY <1>1, <2>2, <2>3
<1> QED
  BY <1>2, <1>3, <1>4, <1>5 DEF Chained

\* ensureRuntime keeps the rows of a container chained, whether the instant is
\* new or is described once more.
LEMMA EnsureRuntimeChained ==
  ASSUME NEW rows, Table(rows, Times, Runtimes), Chained(rows), NEW item \in Items
  PROVE  Chained(EnsureRuntime(rows, item))
<1>1. CASE item.at \notin DOMAIN rows
  BY <1>1, InsertRuntimeChained DEF EnsureRuntime
<1>2. CASE item.at \in DOMAIN rows
  <2> DEFINE new == [rows EXCEPT ![item.at] = MergeRuntime(@, item)]
  <2>1. DOMAIN new = DOMAIN rows
    OBVIOUS
  <2>2. \A t \in DOMAIN rows : new[t].validTo = rows[t].validTo
    BY <1>2 DEF Table, Runtimes, MergeRuntime
  <2> QED BY <1>2, <2>1, <2>2 DEF EnsureRuntime, Chained
<1> QED
  BY <1>1, <1>2

\* ensureRuntime writes rows of the right type, and adds the item's instant.
LEMMA EnsureRuntimeType ==
  ASSUME NEW rows, Table(rows, Times, Runtimes), NEW item \in Items
  PROVE  /\ Table(EnsureRuntime(rows, item), Times, Runtimes)
         /\ DOMAIN EnsureRuntime(rows, item) = DOMAIN rows \cup {item.at}
<1>1. CASE item.at \notin DOMAIN rows
  <2>1. NewRuntime(item, NextAfter(DOMAIN rows, item.at)) \in Runtimes
    <3>1. NextAfter(DOMAIN rows, item.at) \in Times \cup {None}
      BY NextAfterType, InventoryAssumption DEF Table, Items
    <3> QED BY <3>1 DEF NewRuntime, Runtimes, Items, RepoDigest
  <2>2. \A t \in DOMAIN rows : [rows[t] EXCEPT !.validTo = item.at] \in Runtimes
    BY DEF Table, Runtimes, Items
  <2> QED BY <1>1, <2>1, <2>2 DEF EnsureRuntime, InsertRuntime, Table, Items
<1>2. CASE item.at \in DOMAIN rows
  <2> DEFINE row == rows[item.at]
  <2>1. row \in Runtimes
    BY <1>2 DEF Table
  <2>2. /\ item.artifact \in Artifacts /\ item.image \in Images \cup {None}
        /\ RepoDigest(item.artifact) \in Artifacts \cup {None}
    BY DEF Items, RepoDigest
  <2>3. MergeRuntime(row, item) \in Runtimes
    <3> HIDE DEF row
    <3> QED BY <2>1, <2>2 DEF MergeRuntime, Runtimes
  <2> QED BY <1>2, <2>3 DEF EnsureRuntime, Table
<1> QED
  BY <1>1, <1>2

\* In a chain, the row valid at an instant is the last one up to it.
LEMMA ChainedIsPointInTimeExact ==
  ASSUME NEW rows, Table(rows, Times, Runtimes), Chained(rows), NEW at \in Times
  PROVE  ValidAt(rows, at) = LatestUpTo(DOMAIN rows, at)
<1>1. DOMAIN rows \in SUBSET Times
  BY DEF Table
<1>2. \A t \in DOMAIN rows : InInterval(t, rows[t].validTo, at)
                             <=> t \in LatestUpTo(DOMAIN rows, at)
  BY <1>1, IntervalIsLatest DEF Chained
<1> QED
  BY <1>2 DEF ValidAt, LatestUpTo

-----------------------------------------------------------------------------
(* The other tables                                                        *)

\* ensureSource writes rows of the right type.
LEMMA EnsureSourceType ==
  ASSUME NEW rows,
         Table(rows, {"docker", "git"}, SourceRows),
         NEW kind \in {"docker", "git"}, NEW status \in {"success", "partial"},
         NEW at \in Times
  PROVE  Table(EnsureSource(rows, kind, status, at),
               {"docker", "git"}, SourceRows)
BY DEF Table, EnsureSource, SourceStatus, SourceRows

\* ensureService writes rows of the right type, and adds the item's service.
LEMMA EnsureServiceType ==
  ASSUME NEW rows, Table(rows, Services, ServiceRows),
         NEW service \in Services, NEW at \in Times
  PROVE  /\ Table(EnsureService(rows, service, at), Services, ServiceRows)
         /\ DOMAIN EnsureService(rows, service, at) = DOMAIN rows \cup {service}
BY DEF Table, EnsureService, ServiceRows

\* ensureArtifact writes rows of the right type, and adds the item's artifact.
LEMMA EnsureArtifactType ==
  ASSUME NEW rows, Table(rows, Artifacts, ArtifactRows), NEW item \in Items
  PROVE  /\ Table(EnsureArtifact(rows, item), Artifacts, ArtifactRows)
         /\ DOMAIN EnsureArtifact(rows, item) = DOMAIN rows \cup {item.artifact}
<1>1. ASSUME NEW row \in ArtifactRows
      PROVE  MergeArtifact(row, item) \in ArtifactRows
  <2>0. row.at \in Int /\ item.at \in Int
    <3>1. row.at \in Times /\ item.at \in Times
      BY DEF ArtifactRows, Items
    <3> QED BY <3>1, InventoryAssumption
  <2>1. row.at < item.at \/ row.at = item.at \/ row.at > item.at
    BY <2>0
  <2>2. CASE row.at < item.at
    BY <2>1, <2>2 DEF MergeArtifact, ArtifactRows, Items
  <2>3. CASE row.at = item.at
    <3>1. ~(row.at < item.at)
      BY <2>0, <2>3
    <3>2. MergeArtifact(row, item) =
            [row EXCEPT !.reference = IF item.reference < @ THEN item.reference ELSE @,
                        !.revision  = IF @ = None THEN item.revision ELSE @]
      BY <2>3, <3>1 DEF MergeArtifact
    <3> QED BY <3>2 DEF ArtifactRows, Items
  <2>4. CASE row.at > item.at
    <3>1. ~(row.at < item.at) /\ ~(row.at = item.at)
      BY <2>0, <2>4
    <3> QED BY <2>4, <3>1 DEF MergeArtifact
  <2> QED BY <2>1, <2>2, <2>3, <2>4
<1>2. [at |-> item.at, reference |-> item.reference, revision |-> item.revision,
       image |-> item.image] \in ArtifactRows
  BY DEF ArtifactRows, Items
<1> QED
  BY <1>1, <1>2 DEF EnsureArtifact, Table, Items

\* observeArtifactAlias keeps one artifact for an instant.
LEMMA ObserveArtifactType ==
  ASSUME NEW seen, Table(seen, Times, Artifacts), NEW item \in Items
  PROVE  Table(ObserveArtifact(seen, item), Times, Artifacts)
BY DEF ObserveArtifact, Table, Items

\* The rebuilt intervals of an alias run between instants and name artifacts.
LEMMA AliasIntervalsType ==
  ASSUME NEW seen, Table(seen, Times, Artifacts)
  PROVE  rebuildArtifactAliasIntervals(seen) \subseteq AliasIntervalRows
<1>1. Moves(seen) \in SUBSET Times
  BY DEF Moves, Table
<1>2. \A t \in Moves(seen) : NextAfter(Moves(seen), t) \in Times \cup {None}
  BY <1>1, NextAfterType, InventoryAssumption
<1>3. \A t \in Moves(seen) : seen[t] \in Artifacts
  BY DEF Moves, Table
<1> QED
  BY <1>1, <1>2, <1>3 DEF rebuildArtifactAliasIntervals, AliasIntervalRows

\* What an alias names at an instant it was seen at, it names since its last move.
LEMMA ArtifactOfLastMove ==
  ASSUME NEW seen, Table(seen, Times, Artifacts), NEW t \in DOMAIN seen
  PROVE  \E m \in Moves(seen) : LatestUpTo(Moves(seen), t) = {m} /\ seen[m] = seen[t]
<1> DEFINE ts == DOMAIN seen
<1>1. /\ ts \in SUBSET Times /\ Moves(seen) \in SUBSET Times /\ Moves(seen) \subseteq ts
      /\ \A u \in ts : u \in Int
      /\ ts \subseteq Int /\ IsFiniteSet(ts)
  BY InventoryAssumption, FS_Subset DEF Table, Moves
<1>2. PICK first \in ts : \A u \in ts : first <= u
  BY <1>1, FiniteMinimum
<1>3. first \in Moves(seen)
  <2>1. \A u \in ts : ~(u < first)
    BY <1>1, <1>2
  <2> QED BY <2>1 DEF Moves, IsPredecessor
<1>4. PICK m \in Moves(seen) : LatestUpTo(Moves(seen), t) = {m}
  <2>1. first <= t /\ t \in Int
    BY <1>1, <1>2
  <2> QED BY <1>1, <1>3, <2>1, LatestExists
<1>5. m \in ts /\ m <= t /\ \A v \in Moves(seen) : v <= t => v <= m
  BY <1>1, <1>4 DEF LatestUpTo
<1>6. ASSUME seen[m] # seen[t]
      PROVE  FALSE
  <2> DEFINE B == {u \in ts : m < u /\ u <= t /\ seen[u] # seen[m]}
  <2>1. t \in B
    BY <1>1, <1>5, <1>6
  <2>2. B \subseteq Int /\ IsFiniteSet(B) /\ B # {}
    BY <1>1, <2>1, FS_Subset
  <2>3. PICK b \in B : \A u \in B : b <= u
    <3> HIDE DEF B
    <3> QED BY <2>2, FiniteMinimum
  <2>4. ASSUME NEW p \in ts, IsPredecessor(ts, p, b)
        PROVE  seen[p] # seen[b]
    <3>1. p < b /\ m <= p
      BY <1>5, <2>3, <2>4 DEF IsPredecessor
    <3>2. CASE p = m
      BY <2>3, <3>2
    <3>3. CASE m < p
      <4>1. p <= t /\ ~(b <= p)
        BY <1>1, <2>3, <3>1
      <4>2. seen[p] = seen[m]
        BY <2>3, <3>3, <4>1
      <4> QED BY <2>3, <4>2
    <3> QED BY <1>1, <1>5, <3>1, <3>2, <3>3
  <2>5. b \in Moves(seen)
    BY <2>3, <2>4 DEF Moves
  <2> QED BY <1>1, <1>5, <2>3, <2>5
<1> QED
  BY <1>4, <1>6

\* At an instant exactly one of the rebuilt intervals of an alias is valid, once it
\* has been seen, and it names the artifact seen last.
LEMMA RebuiltIsPointInTime ==
  ASSUME NEW seen, Table(seen, Times, Artifacts), NEW at \in Times
  PROVE  LET valid == {i \in rebuildArtifactAliasIntervals(seen) : InInterval(i.from, i.to, at)}
         IN  /\ {i.artifact : i \in valid} = {seen[t] : t \in LatestUpTo(DOMAIN seen, at)}
             /\ \A i, j \in valid : i = j
<1> DEFINE ts    == DOMAIN seen
           moves == Moves(seen)
           interval(t) == [artifact |-> seen[t], from |-> t, to |-> NextAfter(moves, t)]
           valid == {i \in rebuildArtifactAliasIntervals(seen) : InInterval(i.from, i.to, at)}
<1>1. /\ ts \in SUBSET Times /\ moves \in SUBSET Times /\ moves \subseteq ts
      /\ at \in Int /\ \A u \in ts : u \in Int
  BY InventoryAssumption DEF Table, Moves
<1>2. valid = {interval(t) : t \in LatestUpTo(moves, at)}
  <2>1. \A t \in moves : InInterval(t, NextAfter(moves, t), at) <=> t \in LatestUpTo(moves, at)
    BY <1>1, IntervalIsLatest
  <2> QED BY <2>1 DEF rebuildArtifactAliasIntervals, LatestUpTo
<1>3. CASE ~ \E t \in ts : t <= at
  <2>1. LatestUpTo(ts, at) = {} /\ LatestUpTo(moves, at) = {}
    BY <1>1, <1>3 DEF LatestUpTo
  <2> QED BY <1>2, <2>1
<1>4. CASE \E t \in ts : t <= at
  <2>1. PICK t \in ts : LatestUpTo(ts, at) = {t}
    BY <1>1, <1>4, LatestExists
  <2>2. PICK m \in moves : LatestUpTo(moves, t) = {m} /\ seen[m] = seen[t]
    BY ArtifactOfLastMove
  <2>3. LatestUpTo(moves, at) = {m}
    <3>1. t <= at /\ \A u \in ts : u <= at => u <= t
      BY <2>1 DEF LatestUpTo
    <3>2. \A v \in moves : v <= at <=> v <= t
      BY <1>1, <3>1
    <3> QED BY <2>2, <3>2 DEF LatestUpTo
  <2>4. valid = {interval(m)} /\ interval(m).artifact = seen[t]
    BY <1>2, <2>2, <2>3
  <2>5. /\ {i.artifact : i \in valid} = {seen[u] : u \in LatestUpTo(ts, at)}
        /\ \A i, j \in valid : i = j
    <3> HIDE DEF valid, interval
    <3> QED BY <2>1, <2>4
  <2> QED BY <2>5
<1> QED
  BY <1>3, <1>4

\* Of two derivations one outranks the other, and outranking is transitive.
LEMMA OutranksTotal ==
  ASSUME NEW d \in Derivations, NEW e \in Derivations
  PROVE  d = e \/ Outranks(d, e) \/ Outranks(e, d)
<1>1. /\ Priority[d] \in Int /\ Priority[e] \in Int
      /\ Fingerprint[d] \in Int /\ Fingerprint[e] \in Int
      /\ Fingerprint[d] = Fingerprint[e] => d = e
  BY InventoryAssumption
<1> QED
  BY <1>1 DEF Outranks

\* The order of derivations is transitive.
LEMMA OutranksTransitive ==
  ASSUME NEW d \in Derivations, NEW e \in Derivations, NEW f \in Derivations,
         Outranks(d, e), Outranks(e, f)
  PROVE  Outranks(d, f)
<1>1. \A x \in {d, e, f} : Priority[x] \in Int /\ Fingerprint[x] \in Int
  BY InventoryAssumption
<1> QED
  BY <1>1 DEF Outranks

\* d is of the derivations, and no other of them outranks it.
IsBest(d, derivations) == d \in derivations /\ \A e \in derivations : e = d \/ Outranks(d, e)

\* With one more derivation there is again a best one, and it is the one chosen.
LEMMA CurrentDerivationIsBest ==
  ASSUME NEW derivations \in SUBSET Derivations, NEW derivation \in Derivations,
         derivations = {} \/ \E d \in derivations : IsBest(d, derivations)
  PROVE  LET more == derivations \cup {derivation}
         IN  IsBest(CurrentDerivation(more, derivation), more)
<1> DEFINE more == derivations \cup {derivation}
<1>1. \E d \in more : IsBest(d, more)
  <2>1. CASE derivations = {}
    BY <2>1 DEF IsBest
  <2>2. CASE derivations # {}
    <3>1. PICK best \in derivations : IsBest(best, derivations)
      BY <2>2
    <3>2. CASE Outranks(derivation, best)
      <4>1. ASSUME NEW e \in derivations
            PROVE  Outranks(derivation, e)
        <5>1. e = best \/ Outranks(best, e)
          BY <3>1 DEF IsBest
        <5> QED BY <3>2, <5>1, OutranksTransitive
      <4> QED BY <4>1 DEF IsBest
    <3>3. CASE derivation = best \/ Outranks(best, derivation)
      BY <3>1, <3>3 DEF IsBest
    <3> QED BY <3>2, <3>3, OutranksTotal
  <2> QED BY <2>1, <2>2
<1> QED
  BY <1>1 DEF CurrentDerivation, IsBest

-----------------------------------------------------------------------------
(* The inductive invariant                                                 *)

\* The tables are typed, what they refer to exists, the rows of a container
\* form a chain, the intervals of an alias are those rebuilt from its
\* observations, and the current derivation of a row is its best.
Sound(d) ==
  /\ TablesOK(d)
  /\ d.aliasObservation = [l \in Aliases |-> d.aliasObservation[l]]
  /\ d.runtime = [c \in Containers |-> d.runtime[c]]
  /\ ReferencesOK(d)
  /\ \A c \in Containers : Chained(d.runtime[c])
  /\ \A l \in Aliases : d.aliasInterval[l] = rebuildArtifactAliasIntervals(d.aliasObservation[l])
  /\ \A c \in Containers, t \in Times :
       d.derivation[c][t] # {} => IsBest(d.current[c][t], d.derivation[c][t])

\* An empty database is sound.
LEMMA EmptyDatabaseSound == Sound(EmptyDatabase)
<1>1. TablesOK(EmptyDatabase)
  BY DEF TablesOK, EmptyDatabase, Empty, Table
<1>2. ReferencesOK(EmptyDatabase)
  BY DEF ReferencesOK, EmptyDatabase, Empty
<1>3. \A c \in Containers : Chained(EmptyDatabase.runtime[c])
  BY DEF Chained, EmptyDatabase, Empty
<1>4. \A l \in Aliases : EmptyDatabase.aliasInterval[l]
                          = rebuildArtifactAliasIntervals(EmptyDatabase.aliasObservation[l])
  BY DEF EmptyDatabase, Empty, rebuildArtifactAliasIntervals, Moves
<1> QED
  BY <1>1, <1>2, <1>3, <1>4 DEF Sound, EmptyDatabase

\* The statements before the loop over the items keep a database sound and lose
\* nothing of it.
LEMMA SourcesSavedSound ==
  ASSUME NEW d, Sound(d), NEW snapshot \in Snapshots
  PROVE  /\ Sound(SourcesSaved(d, snapshot))
         /\ Preserves(d, SourcesSaved(d, snapshot))
<1> DEFINE e == SourcesSaved(d, snapshot)
           status == IF snapshot.partial THEN "partial" ELSE "success"
           docker == EnsureSource(d.source, "docker", status, snapshot.observedAt)
           git    == EnsureSource(docker, "git", "success", snapshot.observedAt)
<1>1. /\ snapshot.observedAt \in Times
      /\ snapshot.repository \in Repositories \cup {None}
  BY InventoryAssumption
<1>2. Table(docker, {"docker", "git"}, SourceRows)
  BY <1>1, EnsureSourceType DEF Sound, TablesOK
<1>3. Table(git, {"docker", "git"}, SourceRows)
  BY <1>1, <1>2, EnsureSourceType
<1>4. ASSUME snapshot.repository # None
      PROVE  EnsureRepository(d.repository, snapshot.repository, snapshot.observedAt)
               \in [at : Times, repository : Repositories] \cup {None}
  BY <1>1, <1>4 DEF EnsureRepository, Sound, TablesOK
<1>5. /\ DOMAIN d = DOMAIN EmptyDatabase
      /\ d.repository \in [at : Times, repository : Repositories] \cup {None}
  BY DEF Sound, TablesOK
<1>6. /\ DOMAIN e = DOMAIN EmptyDatabase
      /\ e.source = IF snapshot.repository = None THEN docker ELSE git
      /\ e.repository \in [at : Times, repository : Repositories] \cup {None}
      /\ e.service = d.service /\ e.artifact = d.artifact
      /\ e.aliasObservation = d.aliasObservation /\ e.aliasInterval = d.aliasInterval
      /\ e.commit = d.commit /\ e.runtime = d.runtime
      /\ e.derivation = d.derivation /\ e.current = d.current
  <2> HIDE DEF docker, git
  <2>1. DOMAIN d = {"source", "repository", "service", "artifact", "aliasObservation",
                    "aliasInterval", "commit", "runtime", "derivation", "current"}
    BY <1>5 DEF EmptyDatabase
  <2>2. CASE snapshot.repository = None
    BY <1>5, <2>1, <2>2 DEF SourcesSaved, docker
  <2>3. CASE snapshot.repository # None
    BY <1>4, <1>5, <2>1, <2>3 DEF SourcesSaved, docker, git
  <2> QED BY <2>2, <2>3
<1>7. Sound(e)
  <2> HIDE DEF e, docker, git
  <2>1. TablesOK(e)
    BY <1>2, <1>3, <1>6 DEF Sound, TablesOK
  <2> QED BY <1>6, <2>1 DEF Sound, ReferencesOK
<1>8. Preserves(d, e)
  <2> HIDE DEF e, docker, git
  <2>1. \A x : Rank(x) <= Rank(x)
    BY DEF Rank, artifactIdentityRank
  <2> QED BY <1>6, <2>1 DEF Preserves
<1> QED
  BY <1>7, <1>8

\* What saving an item does to the rows of its container: no row vanishes or
\* changes service, and an artifact gives way only to a stronger identity.
LEMMA EnsureRuntimeRows ==
  ASSUME NEW rows, Table(rows, Times, Runtimes), NEW item \in Items,
         NEW t \in DOMAIN rows \cup {item.at}
  PROVE  LET new == EnsureRuntime(rows, item)
         IN  /\ t \in DOMAIN rows =>
                  /\ new[t].service = rows[t].service
                  /\ \/ new[t].artifact = rows[t].artifact
                     \/ /\ new[t].artifact = item.artifact
                        /\ Rank(item.artifact) > Rank(rows[t].artifact)
             /\ t \notin DOMAIN rows =>
                  new[t].service = item.service /\ new[t].artifact = item.artifact
<1>1. CASE item.at \notin DOMAIN rows
  BY <1>1 DEF EnsureRuntime, InsertRuntime, NewRuntime, Table, Runtimes
<1>2. CASE item.at \in DOMAIN rows
  <2>1. CASE t # item.at
    BY <1>2, <2>1 DEF EnsureRuntime
  <2>2. CASE t = item.at
    <3> DEFINE row == rows[item.at]
    <3>1. EnsureRuntime(rows, item)[t] = MergeRuntime(row, item)
      BY <1>2, <2>2 DEF EnsureRuntime
    <3>2. row \in Runtimes
      BY <1>2 DEF Table
    <3>3. /\ MergeRuntime(row, item).service = row.service
          /\ \/ MergeRuntime(row, item).artifact = row.artifact
             \/ /\ MergeRuntime(row, item).artifact = item.artifact
                /\ Rank(item.artifact) > Rank(row.artifact)
      <4> HIDE DEF row
      <4> QED BY <3>2 DEF MergeRuntime, Runtimes
    <3> QED BY <1>2, <2>2, <3>1, <3>3
  <2> QED BY <2>1, <2>2
<1> QED
  BY <1>1, <1>2

\* One turn of the loop keeps the tables typed.
LEMMA ItemSavedTables ==
  ASSUME NEW d, Sound(d), NEW snapshot, NEW item \in Items
  PROVE  TablesOK(ItemSaved(d, snapshot, item))
<1> DEFINE e == ItemSaved(d, snapshot, item)
<1>1. TablesOK(d)
  BY DEF Sound
<1>2. /\ item.container \in Containers /\ item.at \in Times /\ item.service \in Services
      /\ item.commit \in Commits \cup {None} /\ item.derivation \in Derivations
  BY DEF Items
<1>3. Table(e.service, Services, ServiceRows) /\ Table(e.artifact, Artifacts, ArtifactRows)
  BY <1>1, <1>2, EnsureServiceType, EnsureArtifactType DEF ItemSaved, TablesOK
<1>4. /\ DOMAIN e.aliasObservation = Aliases
      /\ \A l \in Aliases : Table(e.aliasObservation[l], Times, Artifacts)
  BY <1>1, ObserveArtifactType DEF ItemSaved, ObserveAliases, TablesOK
<1>5. e.aliasInterval \in [Aliases -> SUBSET AliasIntervalRows]
  <2>1. \A l \in Aliases :
          rebuildArtifactAliasIntervals(e.aliasObservation[l]) \subseteq AliasIntervalRows
    BY <1>4, AliasIntervalsType
  <2>2. e.aliasInterval
          = AliasIntervals(d.aliasInterval, d.aliasObservation, e.aliasObservation, item)
    BY DEF ItemSaved
  <2> HIDE DEF e
  <2> QED BY <1>1, <2>1, <2>2 DEF AliasIntervals, TablesOK
<1>6. e.commit \subseteq Commits
  BY <1>1, <1>2 DEF ItemSaved, TablesOK
<1>7. /\ DOMAIN e.runtime = Containers
      /\ \A c \in Containers : Table(e.runtime[c], Times, Runtimes)
  <2>1. \A c \in Containers : Table(EnsureRuntime(d.runtime[c], item), Times, Runtimes)
    BY <1>1, EnsureRuntimeType DEF TablesOK
  <2> QED BY <1>1, <2>1 DEF ItemSaved, TablesOK
<1>8. e.derivation \in [Containers -> [Times -> SUBSET Derivations]]
  BY <1>1, <1>2 DEF ItemSaved, TablesOK
<1>9. e.current \in [Containers -> [Times -> Derivations \cup {None}]]
  <2> DEFINE before == d.derivation[item.container][item.at]
             more   == before \cup {item.derivation}
  <2>1. before \in SUBSET Derivations
    BY <1>1, <1>2 DEF TablesOK
  <2>2. before = {} \/ \E b \in before : IsBest(b, before)
    BY <1>2 DEF Sound, IsBest
  <2>3. CurrentDerivation(more, item.derivation) \in Derivations
    <3> HIDE DEF before
    <3> QED BY <1>2, <2>1, <2>2, CurrentDerivationIsBest DEF IsBest
  <2>4. e.current = [d.current EXCEPT ![item.container][item.at] =
                       CurrentDerivation(more, item.derivation)]
    BY DEF ItemSaved
  <2> HIDE DEF e, more
  <2> QED BY <1>1, <1>2, <2>3, <2>4 DEF TablesOK
<1>10. /\ DOMAIN e = DOMAIN EmptyDatabase
       /\ e.source = d.source /\ e.repository = d.repository
  BY DEF ItemSaved, EmptyDatabase
<1>11. TablesOK(e)
  <2> HIDE DEF e
  <2> QED BY <1>1, <1>3, <1>4, <1>5, <1>6, <1>7, <1>8, <1>9, <1>10 DEF TablesOK
<1> QED
  BY <1>11

\* One turn of the loop keeps a database sound.
LEMMA ItemSavedSound ==
  ASSUME NEW d, Sound(d), NEW snapshot, NEW item \in Items
  PROVE  Sound(ItemSaved(d, snapshot, item))
<1> DEFINE e  == ItemSaved(d, snapshot, item)
           ic == item.container
           it == item.at
           more == d.derivation[ic][it] \cup {item.derivation}
<1>1. TablesOK(d) /\ TablesOK(e) /\ ReferencesOK(d)
  BY ItemSavedTables DEF Sound
<1>2. /\ ic \in Containers /\ it \in Times
      /\ item.service \in Services /\ item.derivation \in Derivations
      /\ None \notin Derivations
  BY InventoryAssumption DEF Items
<1>3. /\ e.runtime = [d.runtime EXCEPT ![ic] = EnsureRuntime(d.runtime[ic], item)]
      /\ e.derivation = [d.derivation EXCEPT ![ic][it] = more]
      /\ e.current = [d.current EXCEPT ![ic][it] = CurrentDerivation(more, item.derivation)]
      /\ e.service = EnsureService(d.service, item.service, it)
      /\ e.artifact = EnsureArtifact(d.artifact, item)
  BY DEF ItemSaved
<1>4. IsBest(CurrentDerivation(more, item.derivation), more)
  <2> DEFINE before == d.derivation[ic][it]
  <2>1. before \in SUBSET Derivations
    BY <1>1, <1>2 DEF TablesOK
  <2>2. before = {} \/ \E b \in before : IsBest(b, before)
    BY <1>2 DEF Sound, IsBest
  <2> HIDE DEF before
  <2> QED BY <1>2, <2>1, <2>2, CurrentDerivationIsBest DEF before
<1>5. \A c \in Containers : Chained(e.runtime[c])
  <2>1. Chained(EnsureRuntime(d.runtime[ic], item))
    BY <1>1, <1>2, EnsureRuntimeChained DEF Sound, TablesOK
  <2> HIDE DEF e
  <2> QED BY <1>1, <1>2, <1>3, <2>1 DEF Sound, TablesOK
<1>6. ASSUME NEW c \in Containers, NEW t \in Times
      PROVE  /\ (c # ic \/ t # it) => /\ e.derivation[c][t] = d.derivation[c][t]
                                      /\ e.current[c][t] = d.current[c][t]
             /\ c # ic => e.runtime[c] = d.runtime[c]
  <2> HIDE DEF e, more
  <2>1. d.derivation \in [Containers -> [Times -> SUBSET Derivations]]
    BY <1>1 DEF TablesOK
  <2>2. d.current \in [Containers -> [Times -> Derivations \cup {None}]]
    BY <1>1 DEF TablesOK
  <2>3. DOMAIN d.runtime = Containers
    BY <1>1 DEF TablesOK
  <2>4. (c # ic \/ t # it) => e.derivation[c][t] = d.derivation[c][t]
    BY <1>1, <1>3, <2>1
  <2>5. (c # ic \/ t # it) => e.current[c][t] = d.current[c][t]
    BY <1>1, <1>3, <2>2
  <2>6. c # ic => e.runtime[c] = d.runtime[c]
    BY <1>1, <1>3, <2>3
  <2> QED BY <2>4, <2>5, <2>6
<1>7. /\ e.derivation[ic][it] = more
      /\ e.current[ic][it] = CurrentDerivation(more, item.derivation)
      /\ e.runtime[ic] = EnsureRuntime(d.runtime[ic], item)
      /\ DOMAIN e.runtime[ic] = DOMAIN d.runtime[ic] \cup {it}
  <2> HIDE DEF e
  <2>1. DOMAIN EnsureRuntime(d.runtime[ic], item) = DOMAIN d.runtime[ic] \cup {it}
    BY <1>1, <1>2, EnsureRuntimeType DEF TablesOK
  <2>2. d.derivation \in [Containers -> [Times -> SUBSET Derivations]]
    BY <1>1 DEF TablesOK
  <2>3. d.current \in [Containers -> [Times -> Derivations \cup {None}]]
    BY <1>1 DEF TablesOK
  <2>4. DOMAIN d.runtime = Containers
    BY <1>1 DEF TablesOK
  <2> HIDE DEF more
  <2>5. e.derivation[ic][it] = more
    BY <1>2, <1>3, <2>2
  <2>6. e.current[ic][it] = CurrentDerivation(more, item.derivation)
    BY <1>2, <1>3, <2>3
  <2>7. e.runtime[ic] = EnsureRuntime(d.runtime[ic], item)
    BY <1>2, <1>3, <2>4
  <2> QED BY <2>1, <2>5, <2>6, <2>7
<1>8. \A c \in Containers, t \in Times :
        e.derivation[c][t] # {} => IsBest(e.current[c][t], e.derivation[c][t])
  <2> HIDE DEF e, more
  <2> QED BY <1>4, <1>6, <1>7 DEF Sound
<1>9. /\ DOMAIN e.service = DOMAIN d.service \cup {item.service}
      /\ DOMAIN e.artifact = DOMAIN d.artifact \cup {item.artifact}
  <2>1. /\ Table(d.service, Services, ServiceRows)
        /\ Table(d.artifact, Artifacts, ArtifactRows)
    BY <1>1 DEF TablesOK
  <2>2. DOMAIN EnsureService(d.service, item.service, it) = DOMAIN d.service \cup {item.service}
    BY <1>2, <2>1, EnsureServiceType
  <2>3. DOMAIN EnsureArtifact(d.artifact, item) = DOMAIN d.artifact \cup {item.artifact}
    BY <2>1, EnsureArtifactType
  <2> HIDE DEF e
  <2> QED BY <1>3, <2>2, <2>3
<1>10. ASSUME NEW c \in Containers, NEW t \in DOMAIN e.runtime[c]
       PROVE  /\ e.runtime[c][t].service \in DOMAIN e.service
              /\ e.runtime[c][t].artifact \in DOMAIN e.artifact
  <2> HIDE DEF e
  <2>1. t \in DOMAIN d.runtime[c] =>
          /\ d.runtime[c][t].service \in DOMAIN d.service
          /\ d.runtime[c][t].artifact \in DOMAIN d.artifact
    BY <1>1 DEF ReferencesOK, TablesOK, Table
  <2>2. CASE c # ic
    <3>1. e.runtime[c] = d.runtime[c]
      BY <1>2, <1>6, <2>2
    <3> QED BY <1>9, <1>10, <2>1, <3>1
  <2>3. CASE c = ic
    <3>1. t \in DOMAIN d.runtime[ic] \cup {it}
      BY <1>7, <1>10, <2>3
    <3>2. Table(d.runtime[ic], Times, Runtimes)
      BY <1>1, <1>2 DEF TablesOK
    <3>3. /\ t \in DOMAIN d.runtime[ic] =>
               /\ e.runtime[ic][t].service = d.runtime[ic][t].service
               /\ \/ e.runtime[ic][t].artifact = d.runtime[ic][t].artifact
                  \/ e.runtime[ic][t].artifact = item.artifact
          /\ t \notin DOMAIN d.runtime[ic] =>
               /\ e.runtime[ic][t].service = item.service
               /\ e.runtime[ic][t].artifact = item.artifact
      BY <1>7, <3>1, <3>2, EnsureRuntimeRows
    <3> QED BY <1>9, <2>1, <2>3, <3>3
  <2> QED BY <2>2, <2>3
<1>11. ReferencesOK(e)
  <2> HIDE DEF e, more
  <2>1. ASSUME NEW c \in Containers, NEW t \in Times, c # ic \/ t # it
        PROVE  /\ t \in DOMAIN e.runtime[c] <=> e.current[c][t] # None
               /\ t \in DOMAIN e.runtime[c] <=> e.derivation[c][t] # {}
               /\ t \in DOMAIN e.runtime[c] => e.current[c][t] \in e.derivation[c][t]
    <3>1. t \in DOMAIN e.runtime[c] <=> t \in DOMAIN d.runtime[c]
      BY <1>6, <1>7, <2>1
    <3> QED BY <1>1, <1>6, <2>1, <3>1 DEF ReferencesOK
  <2>2. /\ it \in DOMAIN e.runtime[ic]
        /\ e.current[ic][it] \in e.derivation[ic][it]
        /\ e.current[ic][it] # None
    <3>1. more \subseteq Derivations
      BY <1>1, <1>2 DEF TablesOK, more
    <3> QED BY <1>2, <1>4, <1>7, <3>1 DEF IsBest
  <2> QED BY <1>10, <2>1, <2>2 DEF ReferencesOK
<1>12. ASSUME NEW l \in Aliases
       PROVE  e.aliasInterval[l] = rebuildArtifactAliasIntervals(e.aliasObservation[l])
  <2>1. /\ e.aliasInterval = AliasIntervals(d.aliasInterval, d.aliasObservation,
                                             e.aliasObservation, item)
        /\ e.aliasObservation = ObserveAliases(d.aliasObservation, item)
    BY DEF ItemSaved
  <2>2. d.aliasInterval[l] = rebuildArtifactAliasIntervals(d.aliasObservation[l])
    BY DEF Sound
  <2> HIDE DEF e
  <2>3. e.aliasInterval[l] = IF l \in item.aliases /\ d.aliasObservation[l] # e.aliasObservation[l]
                             THEN rebuildArtifactAliasIntervals(e.aliasObservation[l])
                             ELSE d.aliasInterval[l]
    BY <2>1 DEF AliasIntervals
  <2>4. l \notin item.aliases => e.aliasObservation[l] = d.aliasObservation[l]
    BY <2>1 DEF ObserveAliases
  <2> QED BY <2>2, <2>3, <2>4
<1>13. /\ e.aliasObservation = [l \in Aliases |-> e.aliasObservation[l]]
       /\ e.runtime = [c \in Containers |-> e.runtime[c]]
  <2>1. e.aliasObservation = ObserveAliases(d.aliasObservation, item)
    BY DEF ItemSaved
  <2> HIDE DEF e
  <2>2. e.aliasObservation = [l \in Aliases |-> e.aliasObservation[l]]
    BY <2>1 DEF ObserveAliases
  <2>3. e.runtime = [c \in Containers |-> e.runtime[c]]
    BY <1>1, <1>3 DEF TablesOK
  <2> QED BY <2>2, <2>3
<1>14. Sound(e)
  <2> HIDE DEF e
  <2> QED BY <1>1, <1>5, <1>8, <1>11, <1>12, <1>13 DEF Sound
<1> QED
  BY <1>14

\* Ranks are integers, whatever the kind.
LEMMA RankType == \A x : Rank(x) \in Int
BY DEF Rank, artifactIdentityRank

\* A database preserves itself.
LEMMA PreservesReflexive == ASSUME NEW d PROVE Preserves(d, d)
BY RankType DEF Preserves

\* What two steps preserve one after the other, they preserve together.
LEMMA PreservesTransitive ==
  ASSUME NEW d, NEW e, NEW f, Preserves(d, e), Preserves(e, f)
  PROVE  Preserves(d, f)
<1>1. \A x, y, z \in Int : x <= y /\ y <= z => x <= z
  OBVIOUS
<1>2. ASSUME NEW c \in Containers, NEW t \in Times
      PROVE  d.derivation[c][t] \subseteq f.derivation[c][t]
  BY DEF Preserves
<1>3. ASSUME NEW c \in Containers, NEW t \in DOMAIN d.runtime[c]
      PROVE  /\ t \in DOMAIN f.runtime[c]
             /\ Rank(d.runtime[c][t].artifact) <= Rank(f.runtime[c][t].artifact)
  <2>1. /\ t \in DOMAIN e.runtime[c]
        /\ Rank(d.runtime[c][t].artifact) <= Rank(e.runtime[c][t].artifact)
    BY DEF Preserves
  <2>2. /\ t \in DOMAIN f.runtime[c]
        /\ Rank(e.runtime[c][t].artifact) <= Rank(f.runtime[c][t].artifact)
    BY <2>1 DEF Preserves
  <2> QED BY <1>1, <2>1, <2>2, RankType
<1>4. ASSUME NEW l \in Aliases, NEW t \in DOMAIN d.aliasObservation[l]
      PROVE  /\ t \in DOMAIN f.aliasObservation[l]
             /\ Rank(d.aliasObservation[l][t]) <= Rank(f.aliasObservation[l][t])
  <2>1. /\ t \in DOMAIN e.aliasObservation[l]
        /\ Rank(d.aliasObservation[l][t]) <= Rank(e.aliasObservation[l][t])
    BY DEF Preserves
  <2>2. /\ t \in DOMAIN f.aliasObservation[l]
        /\ Rank(e.aliasObservation[l][t]) <= Rank(f.aliasObservation[l][t])
    BY <2>1 DEF Preserves
  <2> QED BY <1>1, <2>1, <2>2, RankType
<1> QED
  BY <1>2, <1>3, <1>4 DEF Preserves

\* One turn of the loop loses nothing and weakens no identity.
LEMMA ItemSavedPreserves ==
  ASSUME NEW d, Sound(d), NEW snapshot, NEW item \in Items
  PROVE  Preserves(d, ItemSaved(d, snapshot, item))
<1> DEFINE e == ItemSaved(d, snapshot, item)
<1>1. TablesOK(d)
  BY DEF Sound
<1>2. item.container \in Containers /\ item.at \in Times
  BY DEF Items
<1>3. \A x, y \in Int : x > y => y <= x
  OBVIOUS
<1>4. ASSUME NEW c \in Containers, NEW t \in Times
      PROVE  d.derivation[c][t] \subseteq e.derivation[c][t]
  BY <1>1, <1>2 DEF ItemSaved, TablesOK
<1>5. ASSUME NEW c \in Containers, NEW t \in DOMAIN d.runtime[c]
      PROVE  /\ t \in DOMAIN e.runtime[c]
             /\ Rank(d.runtime[c][t].artifact) <= Rank(e.runtime[c][t].artifact)
  <2>1. e.runtime[c] = IF c = item.container THEN EnsureRuntime(d.runtime[c], item)
                       ELSE d.runtime[c]
    BY <1>1, <1>2 DEF ItemSaved, TablesOK
  <2> HIDE DEF e
  <2>2. CASE c # item.container
    BY <2>1, <2>2, RankType
  <2>3. CASE c = item.container
    <3>1. Table(d.runtime[c], Times, Runtimes)
      BY <1>1 DEF TablesOK
    <3>2. t \in DOMAIN e.runtime[c]
      <4>1. DOMAIN EnsureRuntime(d.runtime[c], item) = DOMAIN d.runtime[c] \cup {item.at}
        BY <3>1, EnsureRuntimeType
      <4> QED BY <2>1, <2>3, <4>1
    <3>3. \/ e.runtime[c][t].artifact = d.runtime[c][t].artifact
          \/ Rank(e.runtime[c][t].artifact) > Rank(d.runtime[c][t].artifact)
      BY <2>1, <2>3, <3>1, EnsureRuntimeRows
    <3> QED BY <1>3, <3>2, <3>3, RankType
  <2> QED BY <2>2, <2>3
<1>6. ASSUME NEW l \in Aliases, NEW t \in DOMAIN d.aliasObservation[l]
      PROVE  /\ t \in DOMAIN e.aliasObservation[l]
             /\ Rank(d.aliasObservation[l][t]) <= Rank(e.aliasObservation[l][t])
  <2>1. \/ e.aliasObservation[l] = d.aliasObservation[l]
        \/ e.aliasObservation[l] = ObserveArtifact(d.aliasObservation[l], item)
    BY DEF ItemSaved, ObserveAliases
  <2>2. /\ t \in DOMAIN e.aliasObservation[l]
        /\ \/ e.aliasObservation[l][t] = d.aliasObservation[l][t]
           \/ Rank(e.aliasObservation[l][t]) > Rank(d.aliasObservation[l][t])
    <3> HIDE DEF e
    <3> QED BY <2>1 DEF ObserveArtifact
  <2> QED BY <1>3, <2>2, RankType
<1>7. Preserves(d, e)
  <2> HIDE DEF e
  <2> QED BY <1>4, <1>5, <1>6 DEF Preserves
<1> QED
  BY <1>7

-----------------------------------------------------------------------------
(* The theorems                                                            *)

\* The inductive invariant: the tables are sound inside and outside the open
\* transaction, and the transaction has lost nothing of what was committed.
IInv ==
  /\ Sound(db)
  /\ Sound(committed)
  /\ Preserves(committed, db)
  /\ saving \in Snapshots \cup {None}
  /\ pending \in Seq(Items)
  /\ saving = None => pending = <<>> /\ db = committed
  /\ history \subseteq Snapshots

\* The inductive invariant holds at the start.
LEMMA InitIInv == Init => IInv
BY EmptyDatabaseSound, PreservesReflexive DEF Init, IInv

\* Every step keeps the inductive invariant.
LEMMA NextIInv == IInv /\ [Next]_vars => IInv'
<1> SUFFICES ASSUME IInv, [Next]_vars PROVE IInv'
  OBVIOUS
<1>1. CASE BeginSave
  <2>1. PICK snapshot \in Snapshots :
          /\ saving' = snapshot
          /\ pending' = snapshot.items
          /\ db' = SourcesSaved(db, snapshot)
    BY <1>1 DEF BeginSave
  <2>2. snapshot # None /\ snapshot.items \in Seq(Items)
    BY InventoryAssumption
  <2>3. Sound(db') /\ Preserves(committed', db')
    <3>1. committed' = committed /\ db = committed
      BY <1>1 DEF BeginSave, IInv
    <3> QED BY <2>1, <3>1, SourcesSavedSound DEF IInv
  <2> QED BY <1>1, <2>1, <2>2, <2>3 DEF BeginSave, IInv
<1>2. CASE SaveItem
  <2>1. Head(pending) \in Items /\ Tail(pending) \in Seq(Items)
    BY <1>2 DEF SaveItem, IInv
  <2>2. Sound(db')
    BY <1>2, <2>1, ItemSavedSound DEF SaveItem, IInv
  <2>3. Preserves(committed', db')
    <3>1. Preserves(db, db')
      BY <1>2, <2>1, ItemSavedPreserves DEF SaveItem, IInv
    <3> QED BY <1>2, <3>1, PreservesTransitive DEF SaveItem, IInv
  <2> QED BY <1>2, <2>1, <2>2, <2>3 DEF SaveItem, IInv
<1>3. CASE RejectConflict
  BY <1>3, PreservesReflexive DEF RejectConflict, IInv
<1>4. CASE Abort
  BY <1>4, PreservesReflexive DEF Abort, IInv
<1>5. CASE Commit
  BY <1>5, PreservesReflexive DEF Commit, IInv
<1>6. CASE UNCHANGED vars
  BY <1>6 DEF vars, IInv
<1> QED
  BY <1>1, <1>2, <1>3, <1>4, <1>5, <1>6 DEF Next

\* The inductive invariant holds of every reachable state.
LEMMA Invariance == Spec => []IInv
BY InitIInv, NextIInv, PTL DEF Spec

\* The tables keep their types, keys and references in every order in which
\* snapshots are saved, conflict, are cut short or are saved again.
THEOREM TypeCorrect == Spec => []TypeOK
<1>1. IInv => TypeOK
  BY DEF IInv, Sound, TypeOK
<1> QED
  BY <1>1, Invariance, PTL

\* ensureRuntime leaves neither gap nor overlap: at every instant at most one
\* row of a container is valid, the last one observed up to then.
THEOREM IntervalsExact == Spec => []PointInTimeExact
<1>1. IInv => PointInTimeExact
  BY ChainedIsPointInTimeExact DEF IInv, Sound, TablesOK, PointInTimeExact
<1> QED
  BY <1>1, Invariance, PTL

\* observeArtifactAlias keeps the intervals of an alias in step with its
\* observations: at every instant they name exactly the artifact last seen.
THEOREM AliasesExact == Spec => []AliasPointInTime
<1>1. ASSUME IInv PROVE AliasPointInTime
  <2>1. ASSUME NEW d \in {db, committed}, NEW l \in Aliases, NEW at \in Times
        PROVE  LET seen  == d.aliasObservation[l]
                   valid == {i \in d.aliasInterval[l] : InInterval(i.from, i.to, at)}
               IN  /\ {i.artifact : i \in valid} = {seen[t] : t \in LatestUpTo(DOMAIN seen, at)}
                   /\ \A i, j \in valid : i = j
    <3>1. /\ d.aliasInterval[l] = rebuildArtifactAliasIntervals(d.aliasObservation[l])
          /\ Table(d.aliasObservation[l], Times, Artifacts)
      BY <1>1 DEF IInv, Sound, TablesOK
    <3> QED BY <3>1, RebuiltIsPointInTime
  <2> QED BY <2>1 DEF AliasPointInTime
<1> QED
  BY <1>1, Invariance, PTL

\* reconcileCorrelation leaves current the derivation of highest priority.
THEOREM BestIsCurrent == Spec => []CurrentIsBest
<1>1. ASSUME IInv PROVE CurrentIsBest
  <2>1. ASSUME NEW d \in {db, committed}, NEW c \in Containers, NEW t \in Times,
               NEW e \in d.derivation[c][t]
        PROVE  e = d.current[c][t] \/ Outranks(d.current[c][t], e)
    <3>1. Sound(d)
      BY <1>1 DEF IInv
    <3> QED BY <3>1 DEF Sound, IsBest
  <2> QED BY <2>1 DEF CurrentIsBest
<1> QED
  BY <1>1, Invariance, PTL

\* A committed step changes the tables only by committing what the open
\* transaction holds, which preserves everything committed before.
LEMMA CommittedStep ==
  ASSUME IInv, [Next]_vars
  PROVE  committed' = committed \/ committed' = db
BY DEF Next, vars, BeginSave, SaveItem, RejectConflict, Abort, Commit

\* No save erases valid history or lets evidence give way to weaker evidence.
THEOREM NothingIsLost == Spec => HistoryPreserved
<1>1. IInv /\ [Next]_vars => Preserves(committed, committed')
  BY CommittedStep, PreservesReflexive DEF IInv
<1>2. IInv /\ [Next]_vars => [Preserves(committed, committed')]_vars
  BY <1>1
<1> QED
  BY <1>2, Invariance, PTL DEF Spec, HistoryPreserved

\* In one step the conclusion of a row stands or is outranked.
LEMMA ConclusionsStandInStep ==
  ASSUME IInv, [Next]_vars
  PROVE  \A c \in Containers : \A t \in DOMAIN committed.runtime[c] :
           \/ committed'.current[c][t] = committed.current[c][t]
           \/ Outranks(committed'.current[c][t], committed.current[c][t])
<1>1. CASE committed' = committed
  BY <1>1
<1>2. CASE committed' = db
  <2>1. ASSUME NEW c \in Containers, NEW t \in DOMAIN committed.runtime[c]
        PROVE  \/ db.current[c][t] = committed.current[c][t]
               \/ Outranks(db.current[c][t], committed.current[c][t])
    <3>1. t \in Times
      BY DEF IInv, Sound, TablesOK, Table
    <3>2. committed.current[c][t] \in committed.derivation[c][t]
      BY <3>1 DEF IInv, Sound, ReferencesOK
    <3>3. committed.current[c][t] \in db.derivation[c][t]
      BY <3>1, <3>2 DEF IInv, Preserves
    <3> QED BY <3>1, <3>3 DEF IInv, Sound, IsBest
  <2> QED BY <1>2, <2>1
<1> QED BY <1>1, <1>2, CommittedStep

\* What is concluded of a row is replaced only by a conclusion that outranks it.
THEOREM ConclusionsStand == Spec => ConclusionNeverWeakens
<1> DEFINE Stands ==
      \A c \in Containers : \A t \in DOMAIN committed.runtime[c] :
        LET before == committed.current[c][t]
            after  == committed'.current[c][t]
        IN  after = before \/ Outranks(after, before)
<1>1. IInv /\ [Next]_vars => [Stands]_vars
  BY ConclusionsStandInStep
<1> QED
  BY <1>1, Invariance, PTL DEF Spec, ConclusionNeverWeakens

-----------------------------------------------------------------------------
(* The tables as a function of what was saved                              *)

\* The row of a container and an instant is the one its items make, in
\* whatever order they came.
RowReflects(row, items) ==
  /\ StrongestOf(items) = {row.artifact}
  /\ row.digest = RepoDigest(row.artifact)
  /\ {i.image : i \in items} \subseteq {row.image, None}
  /\ row.image \in {i.image : i \in items}
  /\ \A i \in items : i.service = row.service /\ i.metadata = row.metadata

RowItems(H, c, t) == {i \in H : i.container = c /\ i.at = t}

RowsReflect(d, H) ==
  \A c \in Containers, t \in Times :
    /\ t \in DOMAIN d.runtime[c] <=> RowItems(H, c, t) # {}
    /\ d.derivation[c][t] = {i.derivation : i \in RowItems(H, c, t)}
    /\ RowItems(H, c, t) # {} => RowReflects(d.runtime[c][t], RowItems(H, c, t))

AliasItems(H, l, t) == {i \in H : l \in i.aliases /\ i.at = t}

AliasesReflect(d, H) ==
  \A l \in Aliases, t \in Times :
    /\ t \in DOMAIN d.aliasObservation[l] <=> AliasItems(H, l, t) # {}
    /\ AliasItems(H, l, t) # {} => StrongestOf(AliasItems(H, l, t)) = {d.aliasObservation[l][t]}

\* A service spans the instants at which it was seen.
Spans(row, seen) ==
  /\ {row.first, row.last} \subseteq seen
  /\ \A t \in seen : row.first <= t /\ t <= row.last

ServiceTimes(H, s) == {i.at : i \in {j \in H : j.service = s}}

ServicesReflect(d, H) ==
  \A s \in Services :
    /\ s \in DOMAIN d.service <=> ServiceTimes(H, s) # {}
    /\ ServiceTimes(H, s) # {} => Spans(d.service[s], ServiceTimes(H, s))

LatestOf(items) == {i \in items : \A j \in items : j.at <= i.at}

\* An artifact shows what its latest items say.
ArtifactReflects(row, items) ==
  /\ {i.at : i \in LatestOf(items)} = {row.at}
  /\ row.reference \in {i.reference : i \in LatestOf(items)}
  /\ \A i \in LatestOf(items) : row.reference <= i.reference
  /\ {i.revision : i \in LatestOf(items)} \subseteq {row.revision, None}

ArtifactItems(H, a) == {i \in H : i.artifact = a}

ArtifactsReflect(d, H) ==
  \A a \in Artifacts :
    /\ a \in DOMAIN d.artifact <=> ArtifactItems(H, a) # {}
    /\ ArtifactItems(H, a) # {} => ArtifactReflects(d.artifact[a], ArtifactItems(H, a))

\* The latest snapshot decides the status of Docker, and Git was last in step
\* with no earlier one.
DockerReflects(row, S) ==
  LET latest == {s \in S : \A u \in S : u.observedAt <= s.observedAt}
  IN  /\ {s.observedAt : s \in latest} = {row.lastSync}
      /\ row.status = "partial" <=> \E s \in latest : s.partial

SourcesReflect(d, S) ==
  /\ "docker" \in DOMAIN d.source <=> S # {}
  /\ S # {} => DockerReflects(d.source["docker"], S)
  /\ \A s \in S : s.repository # None =>
       "git" \in DOMAIN d.source /\ s.observedAt <= d.source["git"].lastSync

\* The tables hold the items of H and the snapshots of S, and nothing else.
Reflects(d, H, S) ==
  /\ RowsReflect(d, H)
  /\ AliasesReflect(d, H)
  /\ ServicesReflect(d, H)
  /\ ArtifactsReflect(d, H)
  /\ SourcesReflect(d, S)

\* The commits of the first n items are stored, if Git named its repository.
CommitsKept(d, snapshot, n) ==
  snapshot.repository # None =>
    \A m \in 1..n : snapshot.items[m].commit # None => snapshot.items[m].commit \in d.commit

SameButRepository(d, e) ==
  \A table \in DOMAIN EmptyDatabase \ {"repository"} : d[table] = e[table]

\* How many items of the open snapshot have been written, and which.
Written == Len(saving.items) - Len(pending)

WrittenItems == {saving.items[n] : n \in 1..Written}

\* The inductive invariant about history: the committed tables are those of the
\* snapshots saved, and the tables of the open transaction those of the snapshots
\* saved and of what it has written; a snapshot saved once more changes nothing.
HInv ==
  /\ Reflects(committed, HistoryItems, history)
  /\ \A s \in history : CommitsKept(committed, s, Len(s.items))
  /\ committed.commit \subseteq db.commit
  /\ saving # None =>
       /\ Written \in 0..Len(saving.items)
       /\ pending = SubSeq(saving.items, Written + 1, Len(saving.items))
       /\ Reflects(db, HistoryItems \cup WrittenItems, history \cup {saving})
       /\ CommitsKept(db, saving, Written)
       /\ saving \in history => SameButRepository(db, committed)

-----------------------------------------------------------------------------
(* One item more                                                           *)

\* a is the strongest identity of the items: they name it, and no other of its
\* rank or above.
LEMMA StrongestIs ==
  ASSUME NEW items, NEW a
  PROVE  StrongestOf(items) = {a} <=>
           /\ \E i \in items : i.artifact = a
           /\ \A i \in items : /\ Rank(i.artifact) <= Rank(a)
                               /\ Rank(i.artifact) = Rank(a) => i.artifact = a
<1> DEFINE top == {j \in items : \A k \in items : Rank(k.artifact) <= Rank(j.artifact)}
<1>0. \A x : Rank(x) \in Int
  BY RankType
<1>1. StrongestOf(items) = {i.artifact : i \in top}
  BY DEF StrongestOf
<1>2. ASSUME StrongestOf(items) = {a}
      PROVE  /\ \E i \in items : i.artifact = a
             /\ \A i \in items : /\ Rank(i.artifact) <= Rank(a)
                                 /\ Rank(i.artifact) = Rank(a) => i.artifact = a
  <2>1. PICK j \in top : j.artifact = a
    <3> HIDE DEF top
    <3> QED BY <1>1, <1>2
  <2>2. ASSUME NEW i \in items, Rank(i.artifact) = Rank(a)
        PROVE  i.artifact = a
    <3>1. i \in top
      BY <1>0, <2>1, <2>2
    <3> HIDE DEF top
    <3> QED BY <1>1, <1>2, <3>1
  <2> QED BY <2>1, <2>2
<1>3. ASSUME \E i \in items : i.artifact = a,
             \A i \in items : /\ Rank(i.artifact) <= Rank(a)
                              /\ Rank(i.artifact) = Rank(a) => i.artifact = a
      PROVE  StrongestOf(items) = {a}
  <2>1. \A i \in top : i.artifact = a
    <3> TAKE i \in top
    <3>1. Rank(a) <= Rank(i.artifact) /\ Rank(i.artifact) <= Rank(a)
      BY <1>3
    <3> QED BY <1>0, <1>3, <3>1
  <2>2. \E i \in top : i.artifact = a
    BY <1>3
  <2> HIDE DEF top
  <2> QED BY <1>1, <2>1, <2>2
<1> QED
  BY <1>2, <1>3

\* With one item more, which is no conflict, the strongest identity is the
\* item's if that is stronger, and what it was if not.
LEMMA StrongestOfMore ==
  ASSUME NEW items, NEW item, NEW a, StrongestOf(items) = {a},
         a = item.artifact \/ Rank(a) # Rank(item.artifact)
  PROVE  StrongestOf(items \cup {item})
           = {IF Rank(item.artifact) > Rank(a) THEN item.artifact ELSE a}
<1> DEFINE b == IF Rank(item.artifact) > Rank(a) THEN item.artifact ELSE a
<1>0. \A x : Rank(x) \in Int
  BY RankType
<1>1. /\ \E i \in items : i.artifact = a
      /\ \A i \in items : /\ Rank(i.artifact) <= Rank(a)
                          /\ Rank(i.artifact) = Rank(a) => i.artifact = a
  BY StrongestIs
<1>2. \E i \in items \cup {item} : i.artifact = b
  BY <1>1
<1>3. ASSUME NEW i \in items \cup {item}
      PROVE  /\ Rank(i.artifact) <= Rank(b)
             /\ Rank(i.artifact) = Rank(b) => i.artifact = b
  <2>1. CASE Rank(item.artifact) > Rank(a)
    BY <1>0, <1>1, <2>1
  <2>2. CASE ~(Rank(item.artifact) > Rank(a))
    BY <1>0, <1>1, <2>2
  <2> QED BY <2>1, <2>2
<1>4. StrongestOf(items \cup {item}) = {b}
  <2> HIDE DEF b
  <2> QED BY <1>2, <1>3, StrongestIs
<1> QED
  BY <1>4

\* The strongest identity of one item is its own.
LEMMA StrongestOfOne == ASSUME NEW item PROVE StrongestOf({item}) = {item.artifact}
BY RankType, StrongestIs

\* A row merged with an item that is no conflict reflects the item too.
LEMMA MergeRuntimeReflects ==
  ASSUME NEW row \in Runtimes, NEW items, NEW item \in Items,
         RowReflects(row, items), ~RuntimeConflict(row, item)
  PROVE  RowReflects(MergeRuntime(row, item), items \cup {item})
<1> DEFINE new      == MergeRuntime(row, item)
           stronger == Rank(item.artifact) > Rank(row.artifact)
<1>1. /\ new.artifact = IF stronger THEN item.artifact ELSE row.artifact
      /\ new.digest = IF stronger THEN RepoDigest(item.artifact) ELSE row.digest
      /\ new.image = IF row.image = None THEN item.image ELSE row.image
      /\ new.service = row.service /\ new.metadata = row.metadata
  BY DEF MergeRuntime, Runtimes
<1>2. /\ item.service = row.service /\ item.metadata = row.metadata
      /\ row.artifact = item.artifact \/ Rank(row.artifact) # Rank(item.artifact)
      /\ row.image = None \/ item.image = None \/ row.image = item.image
  BY DEF RuntimeConflict
<1> HIDE DEF new
<1>3. StrongestOf(items \cup {item}) = {new.artifact}
  BY <1>1, <1>2, StrongestOfMore DEF RowReflects
<1>4. new.digest = RepoDigest(new.artifact)
  BY <1>1 DEF RowReflects
<1>5. /\ {i.image : i \in items \cup {item}} \subseteq {new.image, None}
      /\ new.image \in {i.image : i \in items \cup {item}}
  BY <1>1, <1>2 DEF RowReflects
<1>6. \A i \in items \cup {item} : i.service = new.service /\ i.metadata = new.metadata
  BY <1>1, <1>2 DEF RowReflects
<1>7. RowReflects(new, items \cup {item})
  BY <1>3, <1>4, <1>5, <1>6 DEF RowReflects
<1> QED
  BY <1>7 DEF new

\* A new row reflects its item.
LEMMA NewRuntimeReflects ==
  ASSUME NEW item \in Items, NEW validTo
  PROVE  RowReflects(NewRuntime(item, validTo), {item})
BY StrongestOfOne DEF NewRuntime, RowReflects

\* The end of a row says nothing of its items.
LEMMA RowReflectsButEnd ==
  ASSUME NEW row, NEW new, NEW items, RowReflects(row, items),
         new.artifact = row.artifact, new.digest = row.digest, new.image = row.image,
         new.service = row.service, new.metadata = row.metadata
  PROVE  RowReflects(new, items)
BY DEF RowReflects

\* What ensureRuntime writes of a row other than the item's is its end.
LEMMA EnsureRuntimeOthers ==
  ASSUME NEW rows, Table(rows, Times, Runtimes), NEW item \in Items,
         NEW t \in DOMAIN rows, t # item.at
  PROVE  LET new == EnsureRuntime(rows, item)[t]
         IN  /\ new.artifact = rows[t].artifact /\ new.digest = rows[t].digest
             /\ new.image = rows[t].image /\ new.service = rows[t].service
             /\ new.metadata = rows[t].metadata
<1>1. CASE item.at \notin DOMAIN rows
  BY <1>1 DEF EnsureRuntime, InsertRuntime, Table, Runtimes
<1>2. CASE item.at \in DOMAIN rows
  BY <1>2 DEF EnsureRuntime
<1> QED
  BY <1>1, <1>2

\* Saving an item makes the runtime rows and derivations reflect it too.
LEMMA RowsReflectMore ==
  ASSUME NEW d, NEW e, NEW H, NEW item \in Items, TablesOK(d), RowsReflect(d, H),
         ~ (/\ item.at \in DOMAIN d.runtime[item.container]
            /\ RuntimeConflict(d.runtime[item.container][item.at], item)),
         e.runtime = [d.runtime EXCEPT ![item.container] =
                        EnsureRuntime(d.runtime[item.container], item)],
         e.derivation = [d.derivation EXCEPT ![item.container][item.at] =
                           d.derivation[item.container][item.at] \cup {item.derivation}]
  PROVE  RowsReflect(e, H \cup {item})
<1> DEFINE ic   == item.container
           it   == item.at
           rows == d.runtime[ic]
           new  == EnsureRuntime(rows, item)
<1>1. /\ ic \in Containers /\ it \in Times /\ Table(rows, Times, Runtimes)
      /\ DOMAIN new = DOMAIN rows \cup {it}
  BY EnsureRuntimeType DEF TablesOK, Items
<1>2. \A c \in Containers : e.runtime[c] = IF c = ic THEN new ELSE d.runtime[c]
  BY <1>1 DEF TablesOK
<1>3. /\ e.derivation[ic][it] = d.derivation[ic][it] \cup {item.derivation}
      /\ \A c \in Containers, t \in Times :
           c # ic \/ t # it => e.derivation[c][t] = d.derivation[c][t]
  <2> DEFINE more == d.derivation[ic][it] \cup {item.derivation}
  <2>1. d.derivation \in [Containers -> [Times -> SUBSET Derivations]]
    BY DEF TablesOK
  <2>2. e.derivation = [d.derivation EXCEPT ![ic][it] = more]
    OBVIOUS
  <2> HIDE DEF more, ic, it, rows, new
  <2>3. \A c \in Containers : c # ic => e.derivation[c] = d.derivation[c]
    BY <1>1, <2>1, <2>2
  <2>4. e.derivation[ic] = [d.derivation[ic] EXCEPT ![it] = more]
    BY <1>1, <2>1, <2>2
  <2>5. d.derivation[ic] \in [Times -> SUBSET Derivations] /\ it \in Times
    BY <1>1, <2>1
  <2>6. e.derivation[ic][it] = more
    BY <2>4, <2>5
  <2>7. \A t \in Times : t # it => e.derivation[ic][t] = d.derivation[ic][t]
    BY <2>4, <2>5
  <2> QED BY <2>3, <2>6, <2>7 DEF more
<1>4. ASSUME NEW c \in Containers, NEW t \in Times
      PROVE  /\ t \in DOMAIN e.runtime[c] <=> RowItems(H \cup {item}, c, t) # {}
             /\ e.derivation[c][t] = {i.derivation : i \in RowItems(H \cup {item}, c, t)}
             /\ RowItems(H \cup {item}, c, t) # {} =>
                  RowReflects(e.runtime[c][t], RowItems(H \cup {item}, c, t))
  <2>1. /\ t \in DOMAIN d.runtime[c] <=> RowItems(H, c, t) # {}
        /\ d.derivation[c][t] = {i.derivation : i \in RowItems(H, c, t)}
        /\ RowItems(H, c, t) # {} => RowReflects(d.runtime[c][t], RowItems(H, c, t))
    BY DEF RowsReflect
  <2>2. /\ c = ic /\ t = it => RowItems(H \cup {item}, c, t) = RowItems(H, c, t) \cup {item}
        /\ c # ic \/ t # it => RowItems(H \cup {item}, c, t) = RowItems(H, c, t)
    BY DEF RowItems
  <2> HIDE DEF new
  <2>3. CASE c # ic
    <3>1. e.runtime[c] = d.runtime[c] /\ e.derivation[c][t] = d.derivation[c][t]
      BY <1>2, <1>3, <2>3
    <3> QED BY <2>1, <2>2, <2>3, <3>1
  <2>4. CASE c = ic /\ t # it
    <3>1. e.runtime[c] = new /\ e.derivation[c][t] = d.derivation[c][t]
      BY <1>2, <1>3, <2>4
    <3>2. ASSUME RowItems(H, c, t) # {}
          PROVE  RowReflects(new[t], RowItems(H, c, t))
      <4>1. t \in DOMAIN rows /\ RowReflects(rows[t], RowItems(H, c, t))
        BY <2>1, <2>4, <3>2
      <4>2. /\ new[t].artifact = rows[t].artifact /\ new[t].digest = rows[t].digest
            /\ new[t].image = rows[t].image /\ new[t].service = rows[t].service
            /\ new[t].metadata = rows[t].metadata
        BY <1>1, <2>4, <4>1, EnsureRuntimeOthers DEF new
      <4> QED BY <4>1, <4>2, RowReflectsButEnd
    <3>3. t \in DOMAIN new <=> t \in DOMAIN rows
      BY <1>1, <2>4
    <3>4. rows = d.runtime[c] /\ RowItems(H \cup {item}, c, t) = RowItems(H, c, t)
      BY <2>2, <2>4
    <3> HIDE DEF rows
    <3> QED BY <2>1, <3>1, <3>2, <3>3, <3>4
  <2>5. CASE c = ic /\ t = it
    <3>1. /\ e.runtime[c] = new
          /\ e.derivation[c][t] = d.derivation[c][t] \cup {item.derivation}
          /\ RowItems(H \cup {item}, c, t) = RowItems(H, c, t) \cup {item}
      BY <1>2, <1>3, <2>2, <2>5
    <3>2. RowReflects(new[it], RowItems(H, c, t) \cup {item})
      <4>1. CASE it \in DOMAIN rows
        <5>1. new[it] = MergeRuntime(rows[it], item) /\ rows[it] \in Runtimes
          BY <1>1, <4>1 DEF new, EnsureRuntime, Table
        <5>2. RowReflects(rows[it], RowItems(H, c, t))
          BY <2>1, <2>5, <4>1
        <5> QED BY <4>1, <5>1, <5>2, MergeRuntimeReflects
      <4>2. CASE it \notin DOMAIN rows
        <5>1. new[it] = NewRuntime(item, NextAfter(DOMAIN rows, it))
          BY <4>2 DEF new, EnsureRuntime, InsertRuntime
        <5>2. RowItems(H, c, t) = {}
          BY <2>1, <2>5, <4>2
        <5> QED BY <5>1, <5>2, NewRuntimeReflects
      <4> QED BY <4>1, <4>2
    <3>3. e.derivation[c][t] = {i.derivation : i \in RowItems(H, c, t) \cup {item}}
      BY <2>1, <3>1
    <3> QED BY <1>1, <2>5, <3>1, <3>2, <3>3
  <2> QED BY <2>3, <2>4, <2>5
<1> QED
  BY <1>4 DEF RowsReflect

\* Saving an item makes the observations of its aliases reflect it too.
LEMMA AliasesReflectMore ==
  ASSUME NEW d, NEW e, NEW H, NEW item \in Items, TablesOK(d), AliasesReflect(d, H),
         ~AliasConflict(d.aliasObservation, item),
         e.aliasObservation = ObserveAliases(d.aliasObservation, item)
  PROVE  AliasesReflect(e, H \cup {item})
<1>1. ASSUME NEW l \in Aliases, NEW t \in Times
      PROVE  /\ t \in DOMAIN e.aliasObservation[l] <=> AliasItems(H \cup {item}, l, t) # {}
             /\ AliasItems(H \cup {item}, l, t) # {} =>
                  StrongestOf(AliasItems(H \cup {item}, l, t)) = {e.aliasObservation[l][t]}
  <2> DEFINE seen == d.aliasObservation[l]
             new  == e.aliasObservation[l]
             old  == AliasItems(H, l, t)
  <2>1. /\ t \in DOMAIN seen <=> old # {}
        /\ old # {} => StrongestOf(old) = {seen[t]}
    BY DEF AliasesReflect
  <2>2. CASE l \notin item.aliases \/ t # item.at
    <3>1. AliasItems(H \cup {item}, l, t) = old
      BY <2>2 DEF AliasItems
    <3>2. /\ t \in DOMAIN new <=> t \in DOMAIN seen
          /\ t \in DOMAIN new => new[t] = seen[t]
      BY <2>2 DEF ObserveAliases, ObserveArtifact
    <3> HIDE DEF old
    <3> QED BY <2>1, <3>1, <3>2
  <2>3. CASE l \in item.aliases /\ t = item.at
    <3>1. AliasItems(H \cup {item}, l, t) = old \cup {item}
      BY <2>3 DEF AliasItems
    <3>2. /\ t \in DOMAIN new
          /\ new[t] = IF t \notin DOMAIN seen \/ Rank(item.artifact) > Rank(seen[t])
                      THEN item.artifact ELSE seen[t]
      BY <2>3 DEF ObserveAliases, ObserveArtifact
    <3>3. t \in DOMAIN seen => seen[t] = item.artifact \/ Rank(seen[t]) # Rank(item.artifact)
      BY <2>3 DEF AliasConflict
    <3> HIDE DEF old, seen, new
    <3>4. StrongestOf(old \cup {item}) = {new[t]}
      <4>1. CASE t \in DOMAIN seen
        BY <2>1, <3>2, <3>3, <4>1, StrongestOfMore
      <4>2. CASE t \notin DOMAIN seen
        <5>1. old \cup {item} = {item}
          BY <2>1, <4>2
        <5> QED BY <3>2, <4>2, <5>1, StrongestOfOne
      <4> QED BY <4>1, <4>2
    <3>5. /\ t \in DOMAIN new <=> AliasItems(H \cup {item}, l, t) # {}
          /\ AliasItems(H \cup {item}, l, t) # {} =>
               StrongestOf(AliasItems(H \cup {item}, l, t)) = {new[t]}
      BY <3>1, <3>2, <3>4
    <3> QED BY <3>5 DEF new
  <2> QED BY <2>2, <2>3
<1> QED
  BY <1>1 DEF AliasesReflect

\* Saving an item makes the span of its service reach to it.
LEMMA ServicesReflectMore ==
  ASSUME NEW d, NEW e, NEW H \in SUBSET Items, NEW item \in Items, TablesOK(d),
         ServicesReflect(d, H),
         e.service = EnsureService(d.service, item.service, item.at)
  PROVE  ServicesReflect(e, H \cup {item})
<1>1. ASSUME NEW s \in Services
      PROVE  /\ s \in DOMAIN e.service <=> ServiceTimes(H \cup {item}, s) # {}
             /\ ServiceTimes(H \cup {item}, s) # {} =>
                  Spans(e.service[s], ServiceTimes(H \cup {item}, s))
  <2> DEFINE seen == ServiceTimes(H, s)
  <2>1. /\ s \in DOMAIN d.service <=> seen # {}
        /\ seen # {} => Spans(d.service[s], seen)
    BY DEF ServicesReflect
  <2>2. /\ item.at \in Int /\ item.service \in Services
        /\ s \in DOMAIN d.service => d.service[s].first \in Int /\ d.service[s].last \in Int
    <3>1. /\ item.at \in Times /\ item.service \in Services
          /\ s \in DOMAIN d.service => d.service[s].first \in Times /\ d.service[s].last \in Times
      BY DEF Items, TablesOK, Table, ServiceRows
    <3> QED BY <3>1, InventoryAssumption
  <2>3. ServiceTimes(H \cup {item}, s) = IF s = item.service THEN seen \cup {item.at} ELSE seen
    BY DEF ServiceTimes
  <2>4. /\ s \in DOMAIN e.service <=> s \in DOMAIN d.service \/ s = item.service
        /\ s # item.service /\ s \in DOMAIN d.service => e.service[s] = d.service[s]
    BY DEF EnsureService
  <2> HIDE DEF seen
  <2>5. CASE s # item.service
    BY <2>1, <2>3, <2>4, <2>5
  <2>6. CASE s = item.service /\ s \in DOMAIN d.service
    <3> DEFINE row == d.service[s]
               new == e.service[s]
    <3>1. /\ new.first = IF row.first > item.at THEN item.at ELSE row.first
          /\ new.last = IF row.last < item.at THEN item.at ELSE row.last
      BY <2>6 DEF EnsureService
    <3>2. \A x, y, z \in Int : x <= y /\ y <= z => x <= z
      OBVIOUS
    <3>3. /\ {row.first, row.last} \subseteq seen
          /\ row.first \in Int /\ row.last \in Int
      BY <2>1, <2>2, <2>6 DEF Spans
    <3>4. /\ new.first \in Int /\ new.last \in Int
          /\ new.first <= row.first /\ new.first <= item.at
          /\ row.last <= new.last /\ item.at <= new.last
          /\ {new.first, new.last} \subseteq seen \cup {item.at}
      <4> HIDE DEF row, new
      <4> QED BY <2>2, <3>1, <3>3
    <3>5. ASSUME NEW t \in seen \cup {item.at}
          PROVE  new.first <= t /\ t <= new.last
      <4>1. CASE t = item.at
        BY <3>4, <4>1
      <4>2. CASE t \in seen
        <5>1. row.first <= t /\ t <= row.last /\ t \in Int
          <6>1. row.first <= t /\ t <= row.last
            BY <2>1, <2>6, <4>2 DEF Spans
          <6>2. t \in Int
            <7>1. t \in Times
              BY <4>2 DEF seen, ServiceTimes, Items
            <7> QED BY <7>1, InventoryAssumption
          <6> QED BY <6>1, <6>2
        <5> HIDE DEF row, new
        <5> QED BY <3>2, <3>3, <3>4, <5>1
      <4> QED BY <4>1, <4>2
    <3>6. Spans(new, seen \cup {item.at})
      <4> HIDE DEF new
      <4> QED BY <3>4, <3>5 DEF Spans
    <3> QED BY <2>3, <2>4, <2>6, <3>6
  <2>7. CASE s = item.service /\ s \notin DOMAIN d.service
    <3>1. e.service[s] = [first |-> item.at, last |-> item.at]
      BY <2>7 DEF EnsureService
    <3>2. ServiceTimes(H \cup {item}, s) = {item.at}
      BY <2>1, <2>3, <2>7
    <3>3. Spans([first |-> item.at, last |-> item.at], {item.at})
      BY <2>2 DEF Spans
    <3> QED BY <2>4, <2>7, <3>1, <3>2, <3>3
  <2> QED BY <2>5, <2>6, <2>7
<1> QED
  BY <1>1 DEF ServicesReflect

\* Of items one more of which is as late as any, the latest are those as late.
LEMMA LatestOfMore ==
  ASSUME NEW items \in SUBSET Items, NEW item \in Items, NEW at \in Times,
         {i.at : i \in LatestOf(items)} = {at}
  PROVE  /\ item.at > at => LatestOf(items \cup {item}) = {item}
         /\ item.at = at => LatestOf(items \cup {item}) = LatestOf(items) \cup {item}
         /\ item.at < at => LatestOf(items \cup {item}) = LatestOf(items)
<1>1. /\ at \in Int /\ item.at \in Int /\ \A i \in items : i.at \in Int
  BY InventoryAssumption DEF Items
<1>2. PICK top \in LatestOf(items) : top.at = at
  OBVIOUS
<1>3. /\ top \in items /\ \A i \in items : i.at <= at
      /\ \A i \in LatestOf(items) : i \in items /\ i.at = at
  BY <1>2 DEF LatestOf
<1>4. LatestOf(items) = {i \in items : i.at = at}
  <2>1. \A i \in items : i.at = at => i \in LatestOf(items)
    BY <1>3 DEF LatestOf
  <2> QED BY <1>3, <2>1
<1>5. CASE item.at > at
  <2>1. LatestOf(items \cup {item}) = {item}
    BY <1>1, <1>3, <1>5 DEF LatestOf
  <2>2. ~(item.at = at) /\ ~(item.at < at)
    BY <1>1, <1>5
  <2> QED BY <2>1, <2>2
<1>6. CASE item.at <= at
  <2>1. ASSUME NEW i \in items \cup {item}
        PROVE  i \in LatestOf(items \cup {item}) <=> i.at = at
    BY <1>1, <1>2, <1>3, <1>6 DEF LatestOf
  <2>2. LatestOf(items \cup {item}) = {i \in items \cup {item} : i.at = at}
    <3>1. LatestOf(items \cup {item}) \subseteq items \cup {item}
      BY DEF LatestOf
    <3> QED BY <2>1, <3>1
  <2>3. CASE item.at = at
    <3>1. ~(item.at > at) /\ ~(item.at < at)
      BY <1>1, <2>3
    <3>2. {i \in items \cup {item} : i.at = at} = {i \in items : i.at = at} \cup {item}
      BY <2>3
    <3> QED BY <1>4, <2>2, <2>3, <3>1, <3>2
  <2>4. CASE item.at < at
    <3>1. item.at # at /\ ~(item.at > at)
      BY <1>1, <2>4
    <3> QED BY <1>4, <2>2, <3>1
  <2>5. item.at = at \/ item.at < at
    BY <1>1, <1>6
  <2> QED BY <2>3, <2>4, <2>5
<1>7. item.at > at \/ item.at <= at
  BY <1>1
<1> QED BY <1>5, <1>6, <1>7

\* Metadata merged with an item that is no conflict reflects the item too.
LEMMA MergeArtifactReflects ==
  ASSUME NEW row \in ArtifactRows, NEW items \in SUBSET Items, NEW item \in Items,
         ArtifactReflects(row, items),
         ~ (/\ row.at = item.at /\ row.revision # item.revision
            /\ row.revision # None /\ item.revision # None)
  PROVE  ArtifactReflects(MergeArtifact(row, item), items \cup {item})
<1> DEFINE new   == MergeArtifact(row, item)
           old   == LatestOf(items)
           later == LatestOf(items \cup {item})
<1>1. /\ row.at \in Times /\ row.at \in Int /\ item.at \in Int
      /\ row.reference \in Int /\ item.reference \in Int
      /\ \A i \in items : i.reference \in Int
  BY InventoryAssumption DEF ArtifactRows, Items
<1>2. /\ {i.at : i \in old} = {row.at}
      /\ row.reference \in {i.reference : i \in old}
      /\ \A i \in old : row.reference <= i.reference
      /\ {i.revision : i \in old} \subseteq {row.revision, None}
  BY DEF ArtifactReflects
<1>3. /\ item.at > row.at => later = {item}
      /\ item.at = row.at => later = old \cup {item}
      /\ item.at < row.at => later = old
  BY <1>1, <1>2, LatestOfMore
<1>4. old \subseteq items
  BY DEF LatestOf
<1>5. row.at < item.at \/ row.at = item.at \/ row.at > item.at
  BY <1>1
<1>6. /\ {i.at : i \in later} = {new.at}
      /\ new.reference \in {i.reference : i \in later}
      /\ \A i \in later : new.reference <= i.reference
      /\ {i.revision : i \in later} \subseteq {new.revision, None}
  <2>1. CASE row.at < item.at
    <3>1. /\ new.at = item.at /\ new.reference = item.reference
          /\ new.revision = item.revision
      BY <1>1, <2>1 DEF MergeArtifact, ArtifactRows
    <3>2. later = {item}
      BY <1>1, <1>3, <2>1
    <3> HIDE DEF new, later
    <3> QED BY <1>1, <3>1, <3>2
  <2>2. CASE row.at = item.at
    <3>1. /\ new.at = row.at
          /\ new.reference = IF item.reference < row.reference THEN item.reference
                             ELSE row.reference
          /\ new.revision = IF row.revision = None THEN item.revision ELSE row.revision
      <4>1. ~(row.at < item.at)
        BY <1>1, <2>2
      <4>2. new = [row EXCEPT !.reference = IF item.reference < @ THEN item.reference ELSE @,
                              !.revision  = IF @ = None THEN item.revision ELSE @]
        BY <2>2, <4>1 DEF MergeArtifact
      <4> HIDE DEF new
      <4> QED BY <4>2 DEF ArtifactRows
    <3>2. later = old \cup {item}
      BY <1>3, <2>2
    <3> HIDE DEF new, later, old
    <3>3. {i.at : i \in later} = {new.at}
      BY <1>2, <2>2, <3>1, <3>2
    <3>4. /\ new.reference \in {i.reference : i \in later}
          /\ \A i \in later : new.reference <= i.reference
      <4>1. \A x, y, z \in Int : x < y /\ y <= z => x <= z
        OBVIOUS
      <4>2. \A i \in old : i.reference \in Int
        BY <1>1, <1>4
      <4>3. CASE item.reference < row.reference
        BY <1>1, <1>2, <3>1, <3>2, <4>1, <4>2, <4>3
      <4>4. CASE ~(item.reference < row.reference)
        BY <1>1, <1>2, <3>1, <3>2, <4>2, <4>4
      <4> QED BY <4>3, <4>4
    <3>5. {i.revision : i \in later} \subseteq {new.revision, None}
      BY <1>2, <2>2, <3>1, <3>2
    <3> QED BY <3>3, <3>4, <3>5
  <2>3. CASE row.at > item.at
    <3>1. new = row
      <4>1. ~(row.at < item.at) /\ ~(row.at = item.at)
        BY <1>1, <2>3
      <4> QED BY <2>3, <4>1 DEF MergeArtifact
    <3>2. later = old
      BY <1>1, <1>3, <2>3
    <3> HIDE DEF new, later, old
    <3> QED BY <1>2, <3>1, <3>2
  <2> QED BY <1>5, <2>1, <2>2, <2>3
<1>7. ArtifactReflects(new, items \cup {item})
  <2> HIDE DEF new
  <2> QED BY <1>6 DEF ArtifactReflects
<1> QED
  BY <1>7

\* Saving an item makes the metadata of its artifact reflect it too.
LEMMA ArtifactsReflectMore ==
  ASSUME NEW d, NEW e, NEW H \in SUBSET Items, NEW item \in Items, TablesOK(d),
         ArtifactsReflect(d, H), ~MetadataConflict(d.artifact, item),
         e.artifact = EnsureArtifact(d.artifact, item)
  PROVE  ArtifactsReflect(e, H \cup {item})
<1>1. ASSUME NEW a \in Artifacts
      PROVE  /\ a \in DOMAIN e.artifact <=> ArtifactItems(H \cup {item}, a) # {}
             /\ ArtifactItems(H \cup {item}, a) # {} =>
                  ArtifactReflects(e.artifact[a], ArtifactItems(H \cup {item}, a))
  <2> DEFINE old == ArtifactItems(H, a)
  <2>1. /\ a \in DOMAIN d.artifact <=> old # {}
        /\ old # {} => ArtifactReflects(d.artifact[a], old)
    BY DEF ArtifactsReflect
  <2>2. /\ a = item.artifact => ArtifactItems(H \cup {item}, a) = old \cup {item}
        /\ a # item.artifact => ArtifactItems(H \cup {item}, a) = old
    BY DEF ArtifactItems
  <2>3. old \in SUBSET Items /\ (a \in DOMAIN d.artifact => d.artifact[a] \in ArtifactRows)
    BY DEF ArtifactItems, TablesOK, Table
  <2> HIDE DEF old
  <2>4. CASE a # item.artifact
    <3>1. /\ a \in DOMAIN e.artifact <=> a \in DOMAIN d.artifact
          /\ a \in DOMAIN d.artifact => e.artifact[a] = d.artifact[a]
      BY <2>4 DEF EnsureArtifact
    <3> QED BY <2>1, <2>2, <2>4, <3>1
  <2>5. CASE a = item.artifact /\ a \in DOMAIN d.artifact
    <3>1. a \in DOMAIN e.artifact /\ e.artifact[a] = MergeArtifact(d.artifact[a], item)
      BY <2>5 DEF EnsureArtifact
    <3>2. ArtifactReflects(MergeArtifact(d.artifact[a], item), old \cup {item})
      BY <2>1, <2>3, <2>5, MergeArtifactReflects DEF MetadataConflict
    <3> QED BY <2>2, <2>5, <3>1, <3>2
  <2>6. CASE a = item.artifact /\ a \notin DOMAIN d.artifact
    <3>1. /\ a \in DOMAIN e.artifact
          /\ e.artifact[a] = [at |-> item.at, reference |-> item.reference,
                              revision |-> item.revision, image |-> item.image]
      BY <2>6 DEF EnsureArtifact
    <3>2. ArtifactItems(H \cup {item}, a) = {item}
      BY <2>1, <2>2, <2>6
    <3>3. item.at \in Int /\ item.reference \in Int
      BY InventoryAssumption DEF Items
    <3>4. LatestOf({item}) = {item}
      BY <3>3 DEF LatestOf
    <3>5. ArtifactReflects([at |-> item.at, reference |-> item.reference,
                            revision |-> item.revision, image |-> item.image], {item})
      BY <3>3, <3>4 DEF ArtifactReflects
    <3> QED BY <3>1, <3>2, <3>5
  <2> QED BY <2>4, <2>5, <2>6
<1> QED
  BY <1>1 DEF ArtifactsReflect

\* One turn of the loop that is no conflict: the tables reflect the item too.
LEMMA ItemSavedReflects ==
  ASSUME NEW d, NEW H \in SUBSET Items, NEW S, NEW snapshot, NEW item \in Items,
         TablesOK(d), Reflects(d, H, S), ~Conflict(d, item)
  PROVE  Reflects(ItemSaved(d, snapshot, item), H \cup {item}, S)
<1> DEFINE e == ItemSaved(d, snapshot, item)
<1>1. /\ e.source = d.source
      /\ e.service = EnsureService(d.service, item.service, item.at)
      /\ e.artifact = EnsureArtifact(d.artifact, item)
      /\ e.aliasObservation = ObserveAliases(d.aliasObservation, item)
      /\ e.runtime = [d.runtime EXCEPT ![item.container] =
                        EnsureRuntime(d.runtime[item.container], item)]
      /\ e.derivation = [d.derivation EXCEPT ![item.container][item.at] =
                           d.derivation[item.container][item.at] \cup {item.derivation}]
  BY DEF ItemSaved
<1>2. /\ ~MetadataConflict(d.artifact, item)
      /\ ~AliasConflict(d.aliasObservation, item)
      /\ ~ (/\ item.at \in DOMAIN d.runtime[item.container]
            /\ RuntimeConflict(d.runtime[item.container][item.at], item))
  BY DEF Conflict
<1> HIDE DEF e
<1>3. RowsReflect(e, H \cup {item})
  BY <1>1, <1>2, RowsReflectMore DEF Reflects
<1>4. AliasesReflect(e, H \cup {item})
  BY <1>1, <1>2, AliasesReflectMore DEF Reflects
<1>5. ServicesReflect(e, H \cup {item})
  BY <1>1, ServicesReflectMore DEF Reflects
<1>6. ArtifactsReflect(e, H \cup {item})
  BY <1>1, <1>2, ArtifactsReflectMore DEF Reflects
<1>7. SourcesReflect(e, S)
  BY <1>1 DEF Reflects, SourcesReflect
<1>8. Reflects(e, H \cup {item}, S)
  BY <1>3, <1>4, <1>5, <1>6, <1>7 DEF Reflects
<1> QED
  BY <1>8 DEF e

\* The latest snapshots are those of the instant at which Docker was last in step.
LEMMA DockerReflectsIs ==
  ASSUME NEW row \in SourceRows, NEW S \in SUBSET Snapshots
  PROVE  DockerReflects(row, S) <=>
           /\ \E s \in S : s.observedAt = row.lastSync
           /\ \A s \in S : s.observedAt <= row.lastSync
           /\ row.status = "partial" <=> \E s \in S : s.observedAt = row.lastSync /\ s.partial
<1> DEFINE latest == {s \in S : \A u \in S : u.observedAt <= s.observedAt}
           last   == row.lastSync
<1>1. last \in Int /\ \A s \in S : s.observedAt \in Int
  <2>1. last \in Times /\ \A s \in S : s.observedAt \in Times
    BY InventoryAssumption DEF SourceRows
  <2> QED BY <2>1, InventoryAssumption
<1>2. DockerReflects(row, S) <=>
        /\ {s.observedAt : s \in latest} = {last}
        /\ row.status = "partial" <=> \E s \in latest : s.partial
  BY DEF DockerReflects
<1>3. ASSUME {s.observedAt : s \in latest} = {last}
      PROVE  /\ \E s \in S : s.observedAt = last
             /\ \A s \in S : s.observedAt <= last
  <2>1. PICK s \in latest : s.observedAt = last
    <3> HIDE DEF latest
    <3> QED BY <1>3
  <2> QED BY <2>1
<1>4. ASSUME \E s \in S : s.observedAt = last, \A s \in S : s.observedAt <= last
      PROVE  latest = {s \in S : s.observedAt = last}
  <2>1. \A x, y \in Int : x <= y /\ y <= x => x = y
    OBVIOUS
  <2> QED BY <1>1, <1>4, <2>1
<1>5. ASSUME \E s \in S : s.observedAt = last, \A s \in S : s.observedAt <= last
      PROVE  {s.observedAt : s \in latest} = {last}
  <2> HIDE DEF latest
  <2> QED BY <1>4, <1>5
<1>6. ASSUME \E s \in S : s.observedAt = last, \A s \in S : s.observedAt <= last
      PROVE  (\E s \in latest : s.partial) <=> \E s \in S : s.observedAt = last /\ s.partial
  <2> HIDE DEF latest
  <2> QED BY <1>4, <1>6
<1> HIDE DEF latest
<1> QED
  BY <1>2, <1>3, <1>5, <1>6

\* The statements before the loop make the sources reflect the snapshot too.
LEMMA SourcesReflectMore ==
  ASSUME NEW d, NEW S \in SUBSET Snapshots, NEW snapshot \in Snapshots, TablesOK(d),
         SourcesReflect(d, S)
  PROVE  SourcesReflect(SourcesSaved(d, snapshot), S \cup {snapshot})
<1> DEFINE e == SourcesSaved(d, snapshot)
           at == snapshot.observedAt
           status == IF snapshot.partial THEN "partial" ELSE "success"
           docker == EnsureSource(d.source, "docker", status, at)
           git    == EnsureSource(docker, "git", "success", at)
           old    == d.source["docker"]
           new    == docker["docker"]
<1>1. /\ at \in Times /\ at \in Int /\ snapshot.partial \in BOOLEAN
      /\ \A s \in S : s.observedAt \in Int /\ s.observedAt \in Times
      /\ Table(d.source, {"docker", "git"}, SourceRows)
  <2>1. at \in Times /\ snapshot.partial \in BOOLEAN /\ \A s \in S : s.observedAt \in Times
    BY InventoryAssumption
  <2> QED BY <2>1, InventoryAssumption DEF TablesOK
<1>2. /\ Table(docker, {"docker", "git"}, SourceRows)
      /\ Table(git, {"docker", "git"}, SourceRows)
      /\ status \in {"success", "partial"}
  BY <1>1, EnsureSourceType
<1>3. e.source = IF snapshot.repository = None THEN docker ELSE git
  <2>1. "source" \in DOMAIN d
    BY DEF TablesOK, EmptyDatabase
  <2> HIDE DEF docker, git
  <2> QED BY <2>1 DEF SourcesSaved, docker, git
<1>4. /\ "docker" \in DOMAIN docker /\ "docker" \in DOMAIN git
      /\ git["docker"] = new
  BY DEF EnsureSource
<1>5. new \in SourceRows
  BY <1>2, <1>4 DEF Table
<1>6. DockerReflects(new, S \cup {snapshot})
  <2>1. CASE S = {}
    <3>1. new = [lastSync |-> at, status |-> status]
      BY <2>1 DEF EnsureSource, SourcesReflect
    <3> HIDE DEF new
    <3>2. /\ \E s \in S \cup {snapshot} : s.observedAt = new.lastSync
          /\ \A s \in S \cup {snapshot} : s.observedAt <= new.lastSync
          /\ new.status = "partial" <=>
               \E s \in S \cup {snapshot} : s.observedAt = new.lastSync /\ s.partial
      BY <1>1, <2>1, <3>1
    <3> QED BY <1>5, <3>2, DockerReflectsIs
  <2>2. CASE S # {}
    <3>1. "docker" \in DOMAIN d.source /\ DockerReflects(old, S) /\ old \in SourceRows
      BY <1>1, <2>2 DEF SourcesReflect, Table
    <3>2. /\ \E s \in S : s.observedAt = old.lastSync
          /\ \A s \in S : s.observedAt <= old.lastSync
          /\ old.status = "partial" <=> \E s \in S : s.observedAt = old.lastSync /\ s.partial
          /\ old.lastSync \in Int /\ old.status \in {"success", "partial"}
      BY <3>1, DockerReflectsIs, InventoryAssumption DEF SourceRows
    <3>3. /\ new.lastSync = IF old.lastSync < at THEN at ELSE old.lastSync
          /\ new.status = IF old.lastSync < at THEN status
                          ELSE IF old.lastSync = at /\ "partial" \in {old.status, status}
                          THEN "partial" ELSE old.status
      BY <3>1 DEF EnsureSource, SourceStatus
    <3> HIDE DEF new, old
    <3>4. /\ \E s \in S \cup {snapshot} : s.observedAt = new.lastSync
          /\ \A s \in S \cup {snapshot} : s.observedAt <= new.lastSync
          /\ new.status = "partial" <=>
               \E s \in S \cup {snapshot} : s.observedAt = new.lastSync /\ s.partial
      <4>1. CASE old.lastSync < at
        <5>1. new.lastSync = at /\ new.status = status
          BY <3>3, <4>1
        <5>2. \A s \in S : s.observedAt <= at /\ s.observedAt # at
          BY <1>1, <3>2, <4>1
        <5> QED BY <1>1, <5>1, <5>2
      <4>2. CASE old.lastSync = at
        <5>1. /\ new.lastSync = at
              /\ new.status = IF "partial" \in {old.status, status} THEN "partial" ELSE old.status
          BY <1>1, <3>3, <4>2
        <5> QED BY <1>1, <3>2, <4>2, <5>1
      <4>3. CASE old.lastSync > at
        <5>1. new.lastSync = old.lastSync /\ new.status = old.status
          BY <1>1, <3>2, <3>3, <4>3
        <5>2. at <= old.lastSync /\ at # old.lastSync
          BY <1>1, <3>2, <4>3
        <5> QED BY <3>2, <5>1, <5>2
      <4> QED BY <1>1, <3>2, <4>1, <4>2, <4>3
    <3> QED BY <1>5, <3>4, DockerReflectsIs
  <2> QED BY <2>1, <2>2
<1>7. /\ \A k \in DOMAIN d.source \ {"docker"} : k \in DOMAIN docker /\ docker[k] = d.source[k]
      /\ "git" \in DOMAIN git
      /\ at <= git["git"].lastSync
      /\ "git" \in DOMAIN d.source => d.source["git"].lastSync <= git["git"].lastSync
  <2>1. \A k \in DOMAIN d.source \ {"docker"} : k \in DOMAIN docker /\ docker[k] = d.source[k]
    BY DEF EnsureSource
  <2>2. "git" \in DOMAIN git
    BY DEF EnsureSource
  <2>3. "git" \in DOMAIN docker <=> "git" \in DOMAIN d.source
    BY DEF EnsureSource
  <2>4. CASE "git" \notin DOMAIN docker
    <3>1. git["git"].lastSync = at
      BY <2>4 DEF EnsureSource
    <3> QED BY <1>1, <2>1, <2>2, <2>3, <2>4, <3>1
  <2>5. CASE "git" \in DOMAIN docker
    <3>1. docker["git"] = d.source["git"]
      BY <2>1, <2>3, <2>5
    <3>2. git["git"].lastSync = IF docker["git"].lastSync < at THEN at ELSE docker["git"].lastSync
      <4> HIDE DEF docker
      <4> QED BY <2>5 DEF EnsureSource
    <3>3. d.source["git"].lastSync \in Int
      BY <1>1, <2>3, <2>5, InventoryAssumption DEF Table, SourceRows
    <3> HIDE DEF docker, git
    <3> QED BY <1>1, <2>1, <2>2, <2>3, <2>5, <3>1, <3>2, <3>3
  <2> QED BY <2>4, <2>5
<1>8. ASSUME NEW s \in S \cup {snapshot}, s.repository # None
      PROVE  "git" \in DOMAIN e.source /\ s.observedAt <= e.source["git"].lastSync
  <2>1. s \in S => "git" \in DOMAIN d.source /\ s.observedAt <= d.source["git"].lastSync
    BY <1>8 DEF SourcesReflect
  <2>2. "git" \in DOMAIN d.source => d.source["git"].lastSync \in Int
    BY <1>1, InventoryAssumption DEF Table, SourceRows
  <2>3. git["git"].lastSync \in Int
    BY <1>2, <1>7, InventoryAssumption DEF Table, SourceRows
  <2> HIDE DEF docker, git, e
  <2>4. CASE snapshot.repository = None
    BY <1>3, <1>7, <1>8, <2>1, <2>4
  <2>5. CASE snapshot.repository # None
    BY <1>1, <1>3, <1>7, <2>1, <2>2, <2>3, <2>5
  <2> QED BY <2>4, <2>5
<1>9. "docker" \in DOMAIN e.source /\ e.source["docker"] = new
  <2> HIDE DEF docker, git, e
  <2> QED BY <1>3, <1>4
<1>10. SourcesReflect(e, S \cup {snapshot})
  <2> HIDE DEF e, new
  <2> QED BY <1>6, <1>8, <1>9 DEF SourcesReflect
<1> QED
  BY <1>10

\* What the statements before the loop leave alone.
LEMMA SourcesSavedRest ==
  ASSUME NEW d, NEW snapshot
  PROVE  LET e == SourcesSaved(d, snapshot)
         IN  /\ DOMAIN e = DOMAIN d
             /\ \A table \in DOMAIN d \ {"source", "repository"} : e[table] = d[table]
BY DEF SourcesSaved

\* The statements before the loop: the tables reflect the snapshot too.
LEMMA SourcesSavedReflects ==
  ASSUME NEW d, NEW H, NEW S \in SUBSET Snapshots, NEW snapshot \in Snapshots,
         TablesOK(d), Reflects(d, H, S)
  PROVE  Reflects(SourcesSaved(d, snapshot), H, S \cup {snapshot})
<1> DEFINE e == SourcesSaved(d, snapshot)
<1>1. /\ e.runtime = d.runtime /\ e.derivation = d.derivation
      /\ e.aliasObservation = d.aliasObservation
      /\ e.service = d.service /\ e.artifact = d.artifact
  <2>1. DOMAIN d = {"source", "repository", "service", "artifact", "aliasObservation",
                    "aliasInterval", "commit", "runtime", "derivation", "current"}
    BY DEF TablesOK, EmptyDatabase
  <2> QED BY <2>1, SourcesSavedRest
<1>2. SourcesReflect(e, S \cup {snapshot})
  BY SourcesReflectMore DEF Reflects
<1>3. Reflects(e, H, S \cup {snapshot})
  <2> HIDE DEF e
  <2> QED BY <1>1, <1>2 DEF Reflects, RowsReflect, AliasesReflect, ServicesReflect,
                            ArtifactsReflect
<1> QED
  BY <1>3

-----------------------------------------------------------------------------
(* A snapshot saved once more                                              *)

\* There is only one best derivation.
LEMMA BestIsUnique ==
  ASSUME NEW derivations \in SUBSET Derivations, NEW d, NEW e,
         IsBest(d, derivations), IsBest(e, derivations)
  PROVE  d = e
<1>1. \A x \in Derivations : Priority[x] \in Int /\ Fingerprint[x] \in Int
  BY InventoryAssumption
<1>2. d \in Derivations /\ e \in Derivations
  BY DEF IsBest
<1>3. ~(Outranks(d, e) /\ Outranks(e, d))
  BY <1>1, <1>2 DEF Outranks
<1> QED
  BY <1>3 DEF IsBest

\* An item that the tables reflect is no conflict.
LEMMA ReplayNoConflict ==
  ASSUME NEW d, NEW H \in SUBSET Items, NEW S, NEW item \in H, Reflects(d, H, S)
  PROVE  ~Conflict(d, item)
<1>1. item \in Items /\ item.container \in Containers
   /\ item.at \in Times /\ item.artifact \in Artifacts
      /\ item.aliases \subseteq Aliases
  BY DEF Items
<1>2. ~MetadataConflict(d.artifact, item)
  <2> DEFINE a   == item.artifact
             row == d.artifact[a]
  <2>1. item \in ArtifactItems(H, a)
    BY DEF ArtifactItems
  <2>2. ArtifactReflects(row, ArtifactItems(H, a))
    BY <1>1, <2>1 DEF Reflects, ArtifactsReflect
  <2>3. ASSUME row.at = item.at PROVE item.revision \in {row.revision, None}
    <3>1. PICK top \in LatestOf(ArtifactItems(H, a)) : top.at = row.at
      BY <2>2 DEF ArtifactReflects
    <3>2. item \in LatestOf(ArtifactItems(H, a))
      BY <2>1, <2>3, <3>1 DEF LatestOf
    <3> QED BY <2>2, <3>2 DEF ArtifactReflects
  <2> QED BY <2>3 DEF MetadataConflict
<1>3. ~AliasConflict(d.aliasObservation, item)
  <2>1. ASSUME NEW l \in item.aliases, item.at \in DOMAIN d.aliasObservation[l],
               Rank(d.aliasObservation[l][item.at]) = Rank(item.artifact)
        PROVE  d.aliasObservation[l][item.at] = item.artifact
    <3>1. item \in AliasItems(H, l, item.at)
      BY DEF AliasItems
    <3>2. StrongestOf(AliasItems(H, l, item.at)) = {d.aliasObservation[l][item.at]}
      BY <1>1, <3>1 DEF Reflects, AliasesReflect
    <3> QED BY <2>1, <3>1, <3>2, StrongestIs
  <2> QED BY <2>1 DEF AliasConflict
<1>4. ~RuntimeConflict(d.runtime[item.container][item.at], item)
  <2> DEFINE row   == d.runtime[item.container][item.at]
             items == RowItems(H, item.container, item.at)
  <2>1. item \in items
    BY DEF RowItems
  <2>2. RowReflects(row, items)
    BY <1>1, <2>1 DEF Reflects, RowsReflect
  <2> HIDE DEF items, row
  <2>3. Rank(row.artifact) = Rank(item.artifact) => row.artifact = item.artifact
    <3>1. StrongestOf(items) = {row.artifact}
      BY <2>2 DEF RowReflects
    <3>2. \A i \in items : Rank(i.artifact) = Rank(row.artifact) => i.artifact = row.artifact
      BY <3>1, StrongestIs
    <3> QED BY <2>1, <3>2
  <2>4. /\ item.service = row.service /\ item.metadata = row.metadata
        /\ item.image \in {row.image, None}
    BY <2>1, <2>2 DEF RowReflects
  <2> HIDE DEF row
  <2>5. ~RuntimeConflict(row, item)
    BY <2>3, <2>4 DEF RuntimeConflict
  <2> QED BY <2>5 DEF row
<1> QED
  BY <1>2, <1>3, <1>4 DEF Conflict

\* Saving an item that the tables reflect changes at most the commits.
LEMMA ReplayItem ==
  ASSUME NEW d, NEW H \in SUBSET Items, NEW S, NEW snapshot, NEW item \in H,
         Sound(d), Reflects(d, H, S)
  PROVE  LET e == ItemSaved(d, snapshot, item)
         IN  \A table \in DOMAIN EmptyDatabase \ {"commit"} : e[table] = d[table]
<1> DEFINE e  == ItemSaved(d, snapshot, item)
           ic == item.container
           it == item.at
<1>1. /\ item \in Items /\ ic \in Containers /\ it \in Times /\ item.artifact \in Artifacts
      /\ item.service \in Services /\ item.aliases \subseteq Aliases
      /\ item.derivation \in Derivations
  BY DEF Items
<1>2. /\ TablesOK(d) /\ RowsReflect(d, H) /\ AliasesReflect(d, H)
      /\ ServicesReflect(d, H) /\ ArtifactsReflect(d, H)
  BY DEF Sound, Reflects
<1>3. EnsureService(d.service, item.service, it) = d.service
  <2> DEFINE s   == item.service
             row == d.service[s]
  <2>1. it \in ServiceTimes(H, s)
    BY DEF ServiceTimes
  <2>2. s \in DOMAIN d.service /\ Spans(row, ServiceTimes(H, s))
    BY <1>1, <1>2, <2>1 DEF ServicesReflect
  <2>3. /\ d.service \in [DOMAIN d.service -> ServiceRows] /\ row \in ServiceRows
    BY <1>2, <2>2 DEF TablesOK, Table
  <2>4. row.first <= it /\ it <= row.last
    BY <2>1, <2>2 DEF Spans
  <2>5. row.first \in Int /\ row.last \in Int /\ it \in Int
    BY <1>1, <2>3, InventoryAssumption DEF ServiceRows
  <2>6. [first |-> IF row.first > it THEN it ELSE row.first,
         last  |-> IF row.last < it THEN it ELSE row.last] = row
    <3> HIDE DEF row
    <3> QED BY <2>3, <2>4, <2>5 DEF ServiceRows
  <2> QED BY <2>2, <2>3, <2>6 DEF EnsureService
<1>4. EnsureArtifact(d.artifact, item) = d.artifact
  <2> DEFINE a   == item.artifact
             row == d.artifact[a]
  <2>1. item \in ArtifactItems(H, a)
    BY DEF ArtifactItems
  <2>2. a \in DOMAIN d.artifact /\ ArtifactReflects(row, ArtifactItems(H, a))
    BY <1>1, <1>2, <2>1 DEF ArtifactsReflect
  <2>3. d.artifact \in [DOMAIN d.artifact -> ArtifactRows] /\ row \in ArtifactRows
    BY <1>2, <2>2 DEF TablesOK, Table
  <2>4. PICK top \in LatestOf(ArtifactItems(H, a)) : top.at = row.at
    BY <2>2 DEF ArtifactReflects
  <2>5. it <= row.at
    BY <2>1, <2>4 DEF LatestOf
  <2>6. it = row.at => row.reference <= item.reference /\ item.revision \in {row.revision, None}
    <3>1. it = row.at => item \in LatestOf(ArtifactItems(H, a))
      BY <2>1, <2>4 DEF LatestOf
    <3> QED BY <2>2, <3>1 DEF ArtifactReflects
  <2>7. /\ row.at \in Int /\ it \in Int /\ row.reference \in Int /\ item.reference \in Int
    BY <1>1, <2>3, InventoryAssumption DEF ArtifactRows, Items
  <2>8. MergeArtifact(row, item) = row
    <3> HIDE DEF row
    <3>1. CASE it = row.at
      <4>1. ~(row.at < it)
        BY <2>7, <3>1
      <4>2. MergeArtifact(row, item) =
              [row EXCEPT !.reference = IF item.reference < @ THEN item.reference ELSE @,
                          !.revision  = IF @ = None THEN item.revision ELSE @]
        BY <3>1, <4>1 DEF MergeArtifact
      <4>3. ~(item.reference < row.reference)
        BY <2>6, <2>7, <3>1
      <4>4. (IF row.revision = None THEN item.revision ELSE row.revision) = row.revision
        BY <2>6, <3>1
      <4>5. MergeArtifact(row, item) = [row EXCEPT !.reference = row.reference,
                                                   !.revision  = row.revision]
        BY <4>2, <4>3, <4>4
      <4> QED BY <2>3, <4>5 DEF ArtifactRows
    <3>2. CASE it < row.at
      <4>1. ~(row.at < it) /\ ~(row.at = it) /\ row.at > it
        BY <2>7, <3>2
      <4> QED BY <4>1 DEF MergeArtifact
    <3> QED BY <2>5, <2>7, <3>1, <3>2
  <2> QED BY <2>2, <2>3, <2>8 DEF EnsureArtifact
<1>5. ASSUME NEW l \in item.aliases
      PROVE  ObserveArtifact(d.aliasObservation[l], item) = d.aliasObservation[l]
  <2> DEFINE seen == d.aliasObservation[l]
  <2>1. item \in AliasItems(H, l, it)
    BY DEF AliasItems
  <2>2. it \in DOMAIN seen /\ StrongestOf(AliasItems(H, l, it)) = {seen[it]}
    BY <1>1, <1>2, <2>1 DEF AliasesReflect
  <2>3. Rank(item.artifact) <= Rank(seen[it])
    BY <2>1, <2>2, StrongestIs
  <2>4. ~(Rank(item.artifact) > Rank(seen[it]))
    BY <2>3, RankType
  <2>5. seen \in [DOMAIN seen -> Artifacts]
    BY <1>1, <1>2 DEF TablesOK, Table
  <2> HIDE DEF seen
  <2>6. ObserveArtifact(seen, item) = seen
    BY <2>2, <2>4, <2>5 DEF ObserveArtifact
  <2> QED BY <2>6 DEF seen
<1>6. ObserveAliases(d.aliasObservation, item) = d.aliasObservation
  <2>1. d.aliasObservation = [l \in Aliases |-> d.aliasObservation[l]]
    BY DEF Sound
  <2> QED BY <1>5, <2>1 DEF ObserveAliases
<1>7. e.aliasInterval = d.aliasInterval
  <2>1. AliasIntervals(d.aliasInterval, d.aliasObservation, d.aliasObservation, item)
          = d.aliasInterval
    BY <1>2 DEF AliasIntervals, TablesOK
  <2> QED BY <1>6, <2>1 DEF ItemSaved
<1>8. /\ e.runtime = d.runtime
      /\ d.derivation[ic][it] \cup {item.derivation} = d.derivation[ic][it]
  <2> DEFINE rows  == d.runtime[ic]
             row   == rows[it]
             items == RowItems(H, ic, it)
  <2>1. item \in items
    BY DEF RowItems
  <2>2. /\ it \in DOMAIN rows /\ RowReflects(row, items)
        /\ d.derivation[ic][it] = {i.derivation : i \in items}
    BY <1>1, <1>2, <2>1 DEF RowsReflect
  <2>3. rows \in [DOMAIN rows -> Runtimes] /\ row \in Runtimes
    BY <1>1, <1>2, <2>2 DEF TablesOK, Table
  <2> HIDE DEF items
  <2>4. ~(Rank(item.artifact) > Rank(row.artifact))
    <3>1. Rank(item.artifact) <= Rank(row.artifact)
      BY <2>1, <2>2, StrongestIs DEF RowReflects
    <3> QED BY <3>1, RankType
  <2>5. item.image \in {row.image, None}
    BY <2>1, <2>2 DEF RowReflects
  <2>6. MergeRuntime(row, item) = row
    <3> HIDE DEF row
    <3> QED BY <2>3, <2>4, <2>5 DEF MergeRuntime, Runtimes
  <2>7. EnsureRuntime(rows, item) = rows
    BY <2>2, <2>3, <2>6 DEF EnsureRuntime
  <2>8. d.runtime = [c \in Containers |-> d.runtime[c]]
    BY DEF Sound
  <2>9. e.runtime = [d.runtime EXCEPT ![ic] = EnsureRuntime(rows, item)]
    BY DEF ItemSaved
  <2>10. e.runtime = d.runtime
    <3> HIDE DEF e
    <3> QED BY <1>1, <2>7, <2>8, <2>9
  <2> QED BY <2>1, <2>2, <2>10
<1>9. e.derivation = d.derivation /\ e.current = d.current
  <2> DEFINE all == d.derivation[ic][it]
  <2>1. /\ d.derivation \in [Containers -> [Times -> SUBSET Derivations]]
        /\ d.current \in [Containers -> [Times -> Derivations \cup {None}]]
    BY <1>2 DEF TablesOK
  <2>2. all \in SUBSET Derivations /\ item.derivation \in all
    BY <1>1, <1>8, <2>1
  <2>3. IsBest(d.current[ic][it], all)
    BY <1>1, <2>2 DEF Sound
  <2>4. IsBest(CurrentDerivation(all, item.derivation), all)
    <3> HIDE DEF all
    <3>1. all \cup {item.derivation} = all
      BY <2>2
    <3>2. \E b \in all : IsBest(b, all)
      BY <2>3 DEF IsBest
    <3>3. IsBest(CurrentDerivation(all \cup {item.derivation}, item.derivation),
                 all \cup {item.derivation})
      BY <1>1, <2>2, <3>2, CurrentDerivationIsBest
    <3> QED BY <3>1, <3>3
  <2>5. CurrentDerivation(all, item.derivation) = d.current[ic][it]
    <3> HIDE DEF all
    <3> QED BY <2>2, <2>3, <2>4, BestIsUnique
  <2>6. e.derivation = [d.derivation EXCEPT ![ic][it] = all]
    BY <1>8 DEF ItemSaved
  <2>7. e.current = [d.current EXCEPT ![ic][it] = CurrentDerivation(all, item.derivation)]
    BY <1>8 DEF ItemSaved
  <2> HIDE DEF e
  <2>8. e.derivation = d.derivation
    BY <1>1, <2>1, <2>6
  <2>9. e.current = d.current
    <3>1. e.current = [d.current EXCEPT ![ic][it] = d.current[ic][it]]
      BY <2>5, <2>7
    <3> QED BY <1>1, <2>1, <3>1
  <2> QED BY <2>8, <2>9
<1>10. /\ e.source = d.source /\ e.repository = d.repository
       /\ e.service = d.service /\ e.artifact = d.artifact
       /\ e.aliasObservation = d.aliasObservation
  BY <1>3, <1>4, <1>6 DEF ItemSaved
<1>11. \A table \in DOMAIN EmptyDatabase \ {"commit"} : e[table] = d[table]
  <2> HIDE DEF e
  <2> QED BY <1>7, <1>8, <1>9, <1>10 DEF EmptyDatabase
<1> QED
  BY <1>11

\* Saving the sources of a snapshot that the tables reflect changes at most
\* what is said of the repository.
LEMMA ReplaySources ==
  ASSUME NEW d, NEW S \in SUBSET Snapshots, NEW snapshot \in S, Sound(d),
         SourcesReflect(d, S)
  PROVE  SameButRepository(SourcesSaved(d, snapshot), d)
<1> DEFINE e   == SourcesSaved(d, snapshot)
           at  == snapshot.observedAt
           status == IF snapshot.partial THEN "partial" ELSE "success"
           row == d.source["docker"]
<1>1. /\ TablesOK(d) /\ d.source \in [DOMAIN d.source -> SourceRows]
      /\ at \in Times /\ snapshot.partial \in BOOLEAN
  BY InventoryAssumption DEF Sound, TablesOK, Table
<1>2. /\ "docker" \in DOMAIN d.source /\ row \in SourceRows /\ DockerReflects(row, S)
  BY <1>1 DEF SourcesReflect
<1>3. at <= row.lastSync /\ (at = row.lastSync /\ snapshot.partial => row.status = "partial")
  BY <1>2, DockerReflectsIs
<1>4. EnsureSource(d.source, "docker", status, at) = d.source
  <2>1. row.lastSync \in Int /\ at \in Int /\ row.status \in {"success", "partial"}
    BY <1>1, <1>2, InventoryAssumption DEF SourceRows
  <2>2. SourceStatus(row, status, at) = row.status
    <3> HIDE DEF row
    <3> QED BY <1>1, <1>3, <2>1 DEF SourceStatus
  <2>3. ~(row.lastSync < at)
    BY <1>3, <2>1
  <2>4. [lastSync |-> IF row.lastSync < at THEN at ELSE row.lastSync,
         status |-> SourceStatus(row, status, at)] = row
    <3> HIDE DEF row, status
    <3> QED BY <1>2, <2>2, <2>3 DEF SourceRows
  <2> QED BY <1>1, <1>2, <2>4 DEF EnsureSource
<1>5. ASSUME snapshot.repository # None
      PROVE  EnsureSource(d.source, "git", "success", at) = d.source
  <2> DEFINE git == d.source["git"]
  <2>1. "git" \in DOMAIN d.source /\ at <= git.lastSync
    BY <1>5 DEF SourcesReflect
  <2>2. git \in SourceRows
    BY <1>1, <2>1
  <2>3. git.lastSync \in Int /\ at \in Int /\ git.status \in {"success", "partial"}
    BY <1>1, <2>2, InventoryAssumption DEF SourceRows
  <2>4. [lastSync |-> IF git.lastSync < at THEN at ELSE git.lastSync,
         status |-> SourceStatus(git, "success", at)] = git
    <3> HIDE DEF git
    <3> QED BY <2>1, <2>2, <2>3 DEF SourceStatus, SourceRows
  <2> QED BY <1>1, <2>1, <2>4 DEF EnsureSource
<1>6. "source" \in DOMAIN d /\ DOMAIN d = DOMAIN EmptyDatabase
  BY <1>1 DEF TablesOK, EmptyDatabase
<1>7. e.source = d.source
  <2>1. CASE snapshot.repository = None
    BY <1>4, <1>6, <2>1 DEF SourcesSaved
  <2>2. CASE snapshot.repository # None
    BY <1>4, <1>5, <1>6, <2>2 DEF SourcesSaved
  <2> QED BY <2>1, <2>2
<1>8. \A table \in DOMAIN d \ {"source", "repository"} : e[table] = d[table]
  BY SourcesSavedRest
<1>9. SameButRepository(e, d)
  <2> HIDE DEF e
  <2> QED BY <1>6, <1>7, <1>8 DEF SameButRepository
<1> QED
  BY <1>9

-----------------------------------------------------------------------------
(* What is committed is what was saved                                     *)

\* The first of the items not yet written, and what is left after it.
LEMMA FirstPending ==
  ASSUME NEW s \in Seq(Items), NEW k \in 0..Len(s), NEW p, p = SubSeq(s, k + 1, Len(s)), p # <<>>
  PROVE  /\ k + 1 \in 1..Len(s)
         /\ Head(p) = s[k + 1]
         /\ Tail(p) = SubSeq(s, k + 2, Len(s))
         /\ Len(p) = Len(s) - k
         /\ Len(Tail(p)) = Len(s) - (k + 1)
<1>1. Len(s) \in Nat /\ k \in Nat /\ k <= Len(s)
  OBVIOUS
<1>2. p = [i \in 1..(Len(s) - k) |-> s[i + k]]
  BY <1>1
<1>3. Len(p) = Len(s) - k
  BY <1>1, <1>2
<1>4. k < Len(s)
  BY <1>1, <1>2, <1>3
<1>5. Head(p) = s[k + 1]
  BY <1>1, <1>2, <1>4
<1>6. Tail(p) = SubSeq(s, k + 2, Len(s)) /\ Len(Tail(p)) = Len(s) - (k + 1)
  BY <1>1, <1>2, <1>3, <1>4
<1> QED
  BY <1>1, <1>3, <1>4, <1>5, <1>6

\* The items of a snapshot are items, and so are those of the snapshots saved.
LEMMA HistoryItemsType ==
  ASSUME history \subseteq Snapshots
  PROVE  HistoryItems \subseteq Items
<1>1. ASSUME NEW s \in history, NEW n \in 1..Len(s.items)
      PROVE  s.items[n] \in Items
  <2>1. s.items \in Seq(Items)
    BY InventoryAssumption
  <2> QED BY <2>1
<1> QED
  BY <1>1 DEF HistoryItems

\* An empty database reflects that nothing was saved.
LEMMA EmptyReflects == Reflects(EmptyDatabase, {}, {})
BY DEF Reflects, EmptyDatabase, Empty, RowsReflect, RowItems, AliasesReflect, AliasItems,
       ServicesReflect, ServiceTimes, ArtifactsReflect, ArtifactItems, SourcesReflect

\* The invariant about history holds at the start.
LEMMA InitHInv == Init => HInv
<1> SUFFICES ASSUME Init PROVE HInv
  OBVIOUS
<1>1. HistoryItems = {}
  BY DEF Init, HistoryItems
<1> QED
  BY <1>1, EmptyReflects DEF Init, HInv

\* What a snapshot needs before it is committed, and while the tables that the
\* open transaction sees are those committed.
LEMMA NothingSavingHInv ==
  ASSUME HInv, history' = history, committed' = committed, saving' = None,
         committed.commit \subseteq db'.commit
  PROVE  HInv'
<1>1. HistoryItems' = HistoryItems
  BY DEF HistoryItems
<1> QED
  BY <1>1 DEF HInv, CommitsKept

\* Every step keeps the invariant about history.
LEMMA NextHInv == IInv /\ HInv /\ [Next]_vars => HInv'
<1> SUFFICES ASSUME IInv, HInv, [Next]_vars PROVE HInv'
  OBVIOUS
<1>0. /\ HistoryItems \in SUBSET Items /\ history \in SUBSET Snapshots
      /\ \A s \in Snapshots : s.items \in Seq(Items)
  BY HistoryItemsType, InventoryAssumption DEF IInv
<1>1. CASE BeginSave
  <2>1. PICK snapshot \in Snapshots :
          /\ saving' = snapshot
          /\ pending' = snapshot.items
          /\ db' = SourcesSaved(db, snapshot)
    BY <1>1 DEF BeginSave
  <2>2. /\ committed' = committed /\ history' = history /\ HistoryItems' = HistoryItems
        /\ db = committed /\ snapshot # None
    BY <1>1, InventoryAssumption DEF BeginSave, HistoryItems, IInv
  <2>3. /\ Written' = 0 /\ WrittenItems' = {}
        /\ pending' = SubSeq(saving'.items, 1, Len(saving'.items))
    <3>1. Len(snapshot.items) \in Nat
      BY <1>0
    <3>2. Written' = 0
      BY <2>1, <3>1 DEF Written
    <3> QED BY <1>0, <2>1, <3>1, <3>2 DEF WrittenItems
  <2>4. Reflects(db', HistoryItems, history \cup {snapshot})
    <3>1. TablesOK(db) /\ Reflects(db, HistoryItems, history)
      BY <2>2 DEF IInv, Sound, HInv
    <3> QED BY <1>0, <2>1, <3>1, SourcesSavedReflects
  <2>5. db'.commit = db.commit
    <3>1. "commit" \in DOMAIN db
      BY DEF IInv, Sound, TablesOK, EmptyDatabase
    <3> QED BY <2>1, <3>1, SourcesSavedRest
  <2>6. snapshot \in history => SameButRepository(db', committed')
    <3>1. Sound(db) /\ SourcesReflect(db, history)
      BY <2>2 DEF IInv, HInv, Reflects
    <3> QED BY <1>0, <2>1, <2>2, <3>1, ReplaySources
  <2>7. Written' \in 0..Len(saving'.items) /\ Written' + 1 = 1
    BY <1>0, <2>1, <2>3
  <2>8. HistoryItems' \cup WrittenItems' = HistoryItems
    BY <2>2, <2>3
  <2>9. CommitsKept(db', saving', 0)
    BY DEF CommitsKept
  <2>10. committed'.commit \subseteq db'.commit
    BY <2>2, <2>5
  <2>11. (\A s \in history : CommitsKept(committed, s, Len(s.items)))'
    BY <2>2 DEF HInv
  <2> QED BY <2>1, <2>2, <2>3, <2>4, <2>6, <2>7, <2>8, <2>9, <2>10, <2>11 DEF HInv
<1>2. CASE SaveItem
  <2> DEFINE item == Head(pending)
             k    == Written
             s    == saving
  <2>1. /\ s # None /\ s \in Snapshots /\ pending # <<>> /\ ~Conflict(db, item)
        /\ db' = ItemSaved(db, s, item) /\ pending' = Tail(pending)
        /\ committed' = committed /\ saving' = saving /\ history' = history
        /\ HistoryItems' = HistoryItems
    BY <1>2 DEF SaveItem, IInv, HistoryItems
  <2>2. /\ k \in 0..Len(s.items) /\ pending = SubSeq(s.items, k + 1, Len(s.items))
        /\ Reflects(db, HistoryItems \cup WrittenItems, history \cup {s})
        /\ CommitsKept(db, s, k)
    BY <2>1 DEF HInv
  <2>3. /\ k + 1 \in 1..Len(s.items) /\ item = s.items[k + 1]
        /\ pending' = SubSeq(s.items, k + 2, Len(s.items))
        /\ Len(pending') = Len(s.items) - (k + 1)
    <3> HIDE DEF k
    <3>1. s.items \in Seq(Items)
      BY <1>0, <2>1
    <3>2. /\ k + 1 \in 1..Len(s.items) /\ Head(pending) = s.items[k + 1]
          /\ Tail(pending) = SubSeq(s.items, k + 2, Len(s.items))
          /\ Len(Tail(pending)) = Len(s.items) - (k + 1)
      BY <2>1, <2>2, <3>1, FirstPending
    <3> QED BY <2>1, <3>2
  <2>4. item \in Items
    <3> HIDE DEF k, item
    <3> QED BY <1>0, <2>1, <2>3
  <2>5. Written' = k + 1
    <3>1. Len(s.items) \in Nat /\ k \in Nat
      <4> HIDE DEF k
      <4> QED BY <1>0, <2>1, <2>2
    <3> HIDE DEF k
    <3> QED BY <2>1, <2>3, <3>1 DEF Written
  <2>6. WrittenItems' = WrittenItems \cup {item}
    <3>1. k \in Nat /\ 1..(k + 1) = (1..k) \cup {k + 1}
      <4> HIDE DEF k
      <4> QED BY <2>2
    <3>2. WrittenItems' = {s.items[n] : n \in 1..(k + 1)}
      BY <2>1, <2>5 DEF WrittenItems
    <3>3. WrittenItems = {s.items[n] : n \in 1..k}
      BY DEF WrittenItems
    <3> HIDE DEF k, item
    <3> QED BY <2>3, <3>1, <3>2, <3>3
  <2>7. WrittenItems \in SUBSET Items
    <3>1. \A n \in 1..k : n \in 1..Len(s.items)
      <4> HIDE DEF k
      <4> QED BY <1>0, <2>1, <2>2
    <3> QED BY <1>0, <2>1, <3>1 DEF WrittenItems
  <2>8. Reflects(db', HistoryItems' \cup WrittenItems', history' \cup {saving'})
    <3>1. Reflects(ItemSaved(db, s, item), (HistoryItems \cup WrittenItems) \cup {item},
                   history \cup {s})
      <4> HIDE DEF item
      <4>1. TablesOK(db)
        BY DEF IInv, Sound
      <4> QED BY <1>0, <2>1, <2>2, <2>4, <2>7, <4>1, ItemSavedReflects
    <3>2. HistoryItems' \cup WrittenItems' = (HistoryItems \cup WrittenItems) \cup {item}
      BY <2>1, <2>6
    <3> HIDE DEF item
    <3> QED BY <2>1, <3>1, <3>2
  <2>9. db'.commit = IF item.commit # None /\ s.repository # None
                     THEN db.commit \cup {item.commit} ELSE db.commit
    BY <2>1 DEF ItemSaved
  <2>10. CommitsKept(db', saving', k + 1)
    <3>1. ASSUME s.repository # None, NEW m \in 1..(k + 1), s.items[m].commit # None
          PROVE  s.items[m].commit \in db'.commit
      <4> HIDE DEF k, item
      <4>1. CASE m = k + 1
        BY <2>3, <2>9, <3>1, <4>1
      <4>2. CASE m \in 1..k
        <5>1. s.items[m].commit \in db.commit
          BY <2>2, <3>1, <4>2 DEF CommitsKept
        <5> QED BY <2>9, <5>1
      <4> QED BY <2>2, <4>1, <4>2
    <3> HIDE DEF k, item
    <3> QED BY <2>1, <3>1 DEF CommitsKept
  <2>11. ASSUME saving' \in history'
         PROVE  SameButRepository(db', committed')
    <3>1. s \in history /\ SameButRepository(db, committed)
      BY <2>1, <2>11 DEF HInv
    <3>2. item \in HistoryItems
      <4> HIDE DEF k, item
      <4> QED BY <2>3, <3>1 DEF HistoryItems
    <3>3. \A table \in DOMAIN EmptyDatabase \ {"commit"} : db'[table] = db[table]
      <4> HIDE DEF item
      <4>1. Sound(db)
        BY DEF IInv
      <4>2. item \in HistoryItems \cup WrittenItems
        BY <3>2
      <4>3. HistoryItems \cup WrittenItems \in SUBSET Items
        BY <1>0, <2>7
      <4>4. \A table \in DOMAIN EmptyDatabase \ {"commit"} :
              ItemSaved(db, s, item)[table] = db[table]
        BY <2>2, <4>1, <4>2, <4>3, ReplayItem
      <4> QED BY <2>1, <4>4
    <3>4. db'.commit = committed.commit
      <4>1. db.commit = committed.commit
        BY <3>1 DEF SameButRepository, EmptyDatabase
      <4>2. item.commit # None /\ s.repository # None => item.commit \in committed.commit
        <5> HIDE DEF k, item
        <5> QED BY <2>3, <3>1 DEF HInv, CommitsKept
      <4> HIDE DEF item
      <4> QED BY <2>9, <4>1, <4>2
    <3> QED BY <2>1, <3>1, <3>3, <3>4 DEF SameButRepository
  <2>12. committed'.commit \subseteq db'.commit
    <3> HIDE DEF item
    <3> QED BY <2>1, <2>9 DEF HInv
  <2>13. /\ Written' \in 0..Len(saving'.items)
         /\ pending' = SubSeq(saving'.items, Written' + 1, Len(saving'.items))
         /\ CommitsKept(db', saving', Written')
    <3>1. k + 1 \in 0..Len(s.items) /\ (k + 1) + 1 = k + 2
      <4> HIDE DEF k
      <4> QED BY <1>0, <2>1, <2>2, <2>3
    <3> HIDE DEF k, item
    <3> QED BY <2>1, <2>3, <2>5, <2>10, <3>1
  <2>14. /\ Reflects(committed', HistoryItems', history')
         /\ \A t \in history' : CommitsKept(committed', t, Len(t.items))
    BY <2>1 DEF HInv
  <2> HIDE DEF k, item
  <2> QED BY <2>1, <2>8, <2>11, <2>12, <2>13, <2>14 DEF HInv
<1>3. CASE RejectConflict
  BY <1>3, NothingSavingHInv DEF RejectConflict, HInv
<1>4. CASE Abort
  BY <1>4, NothingSavingHInv DEF Abort, HInv
<1>5. CASE Commit
  <2> DEFINE s == saving
  <2>1. /\ s # None /\ s \in Snapshots /\ pending = <<>>
        /\ committed' = db /\ db' = db /\ history' = history \cup {s} /\ saving' = None
    BY <1>5 DEF Commit, IInv
  <2>2. Written = Len(s.items)
    BY <1>0, <2>1 DEF Written
  <2>3. HistoryItems' = HistoryItems \cup WrittenItems
    BY <2>1, <2>2 DEF HistoryItems, WrittenItems
  <2>4. /\ Reflects(db, HistoryItems \cup WrittenItems, history \cup {s})
        /\ CommitsKept(db, s, Len(s.items))
        /\ committed.commit \subseteq db.commit
        /\ \A t \in history : CommitsKept(committed, t, Len(t.items))
    BY <2>1, <2>2 DEF HInv
  <2>5. \A t \in history : CommitsKept(db, t, Len(t.items))
    BY <2>4 DEF CommitsKept
  <2> QED BY <2>1, <2>3, <2>4, <2>5 DEF HInv
<1>6. CASE UNCHANGED vars
  BY <1>6 DEF vars, HInv, HistoryItems, Written, WrittenItems
<1> QED
  BY <1>1, <1>2, <1>3, <1>4, <1>5, <1>6 DEF Next

\* Both invariants hold of every reachable state.
LEMMA HistoryInvariance == Spec => [](IInv /\ HInv)
<1>1. Init => IInv /\ HInv
  BY InitIInv, InitHInv
<1>2. (IInv /\ HInv) /\ [Next]_vars => (IInv /\ HInv)'
  BY NextIInv, NextHInv
<1> QED
  BY <1>1, <1>2, PTL DEF Spec

\* What is committed depends on the snapshots saved and not on their order: each
\* fact of a saved snapshot is stored and no other, the strongest identity of an
\* instant stands, and of what may change the latest.
THEOREM HistoryIsStored == Spec => []CommittedIsHistory
<1>1. ASSUME IInv, HInv PROVE CommittedIsHistory
  <2>1. /\ RowsReflect(committed, HistoryItems) /\ AliasesReflect(committed, HistoryItems)
        /\ ServicesReflect(committed, HistoryItems) /\ ArtifactsReflect(committed, HistoryItems)
        /\ SourcesReflect(committed, history)
    BY <1>1 DEF HInv, Reflects
  <2>2. \A c \in Containers, t \in Times : ItemsOf(c, t) = RowItems(HistoryItems, c, t)
    BY DEF ItemsOf, RowItems
  <2>3. /\ TablesOK(committed) /\ HistoryItems \subseteq Items
        /\ \A c \in Containers : DOMAIN committed.runtime[c] \subseteq Times
        /\ \A l \in Aliases : DOMAIN committed.aliasObservation[l] \subseteq Times
    BY <1>1, HistoryItemsType DEF IInv, Sound, TablesOK, Table
  <2>4. FactsStored
    <3>1. ASSUME NEW l \in Aliases
          PROVE  DOMAIN committed.aliasObservation[l]
                   = {i.at : i \in {j \in HistoryItems : l \in j.aliases}}
      <4>1. \A t \in Times : t \in DOMAIN committed.aliasObservation[l]
                               <=> \E i \in HistoryItems : l \in i.aliases /\ i.at = t
        BY <2>1 DEF AliasesReflect, AliasItems
      <4>2. \A i \in HistoryItems : i.at \in Times
        BY <2>3 DEF Items
      <4> QED BY <2>3, <4>1, <4>2
    <3> QED BY <2>1, <2>2, <3>1 DEF FactsStored, RowsReflect
  <2>5. StrongestIdentityWins
    <3>1. ASSUME NEW c \in Containers, NEW t \in DOMAIN committed.runtime[c]
          PROVE  RowReflects(committed.runtime[c][t], ItemsOf(c, t))
      BY <2>1, <2>2, <2>3 DEF RowsReflect
    <3>2. ASSUME NEW l \in Aliases, NEW t \in DOMAIN committed.aliasObservation[l]
          PROVE  StrongestOf({i \in HistoryItems : l \in i.aliases /\ i.at = t})
                   = {committed.aliasObservation[l][t]}
      BY <2>1, <2>3 DEF AliasesReflect, AliasItems
    <3> QED BY <3>1, <3>2 DEF StrongestIdentityWins, RowReflects
  <2>6. MetadataFollowsLatest
    <3>1. ASSUME NEW s \in Services, ServiceTimes(HistoryItems, s) # {}
          PROVE  Spans(committed.service[s], ServiceTimes(HistoryItems, s))
      BY <2>1, <3>1 DEF ServicesReflect
    <3>2. ASSUME NEW a \in Artifacts, ArtifactItems(HistoryItems, a) # {}
          PROVE  ArtifactReflects(committed.artifact[a], ArtifactItems(HistoryItems, a))
      BY <2>1, <3>2 DEF ArtifactsReflect
    <3>3. history # {} => DockerReflects(committed.source["docker"], history)
      BY <2>1 DEF SourcesReflect
    <3> QED BY <3>1, <3>2, <3>3 DEF MetadataFollowsLatest, Spans, ServiceTimes,
                                    ArtifactReflects, ArtifactItems, LatestOf, DockerReflects
  <2> QED BY <2>4, <2>5, <2>6 DEF CommittedIsHistory
<1> QED
  BY <1>1, HistoryInvariance, PTL

\* A snapshot that is stored is never a conflict when it is saved once more, and
\* leaves every table but the repository's as it was.
THEOREM ReplaysAreHarmless == Spec => ReplayHarmless
<1> DEFINE Harmless == (saving \in history) =>
                         ~RejectConflict /\ TablesButRepository' = TablesButRepository
<1>1. ASSUME IInv, HInv, [Next]_vars PROVE Harmless
  <2> SUFFICES ASSUME saving \in history
               PROVE  ~RejectConflict /\ TablesButRepository' = TablesButRepository
    OBVIOUS
  <2>0. /\ HistoryItems \in SUBSET Items /\ saving \in Snapshots /\ saving # None
        /\ saving.items \in Seq(Items)
    BY <1>1, HistoryItemsType, InventoryAssumption DEF IInv
  <2>1. ASSUME RejectConflict PROVE FALSE
    <3> DEFINE item == Head(pending)
    <3>1. /\ Conflict(db, item) /\ pending # <<>>
          /\ Written \in 0..Len(saving.items)
          /\ pending = SubSeq(saving.items, Written + 1, Len(saving.items))
          /\ Reflects(db, HistoryItems \cup WrittenItems, history \cup {saving})
      BY <1>1, <2>0, <2>1 DEF RejectConflict, HInv
    <3>2. Written + 1 \in 1..Len(saving.items) /\ item = saving.items[Written + 1]
      BY <2>0, <3>1, FirstPending
    <3>3. item \in HistoryItems \cup WrittenItems
      <4> HIDE DEF item
      <4> QED BY <3>2 DEF HistoryItems
    <3>4. WrittenItems \in SUBSET Items
      <4>1. \A n \in 1..Written : n \in 1..Len(saving.items)
        BY <2>0, <3>1
      <4> QED BY <2>0, <4>1 DEF WrittenItems
    <3> HIDE DEF item
    <3> QED BY <2>0, <3>1, <3>3, <3>4, ReplayNoConflict
  <2>2. TablesButRepository' = TablesButRepository
    <3>1. committed' = committed => TablesButRepository' = TablesButRepository
      BY DEF TablesButRepository
    <3>2. SameButRepository(db, committed)
      BY <1>1, <2>0 DEF HInv
    <3>3. DOMAIN db = DOMAIN EmptyDatabase /\ DOMAIN committed = DOMAIN EmptyDatabase
      BY <1>1 DEF IInv, Sound, TablesOK
    <3>4. [db EXCEPT !.repository = None] = [committed EXCEPT !.repository = None]
      BY <3>2, <3>3 DEF SameButRepository
    <3>5. committed' = db => TablesButRepository' = TablesButRepository
      BY <3>4 DEF TablesButRepository
    <3> QED BY <1>1, <3>1, <3>5, CommittedStep
  <2> QED BY <2>1, <2>2
<1>2. (IInv /\ HInv) /\ [Next]_vars => [Harmless]_vars
  BY <1>1
<1> QED
  BY <1>2, HistoryInvariance, PTL DEF Spec, ReplayHarmless
-----------------------------------------------------------------------------
(* What the queries answer                                                 *)

\* The tables have finitely many facts.
LEMMA FewItems == Spec => []IsFiniteSet(HistoryItems)
<1>1. ASSUME NEW n \in Nat, NEW f
      PROVE  IsFiniteSet({f[m] : m \in 1..n})
  <2>1. [m \in 1..n |-> f[m]] \in Surjection(1..n, {f[m] : m \in 1..n})
    BY DEF Surjection
  <2>2. IsFiniteSet(1..n)
    BY FS_Interval
  <2> QED BY <2>1, <2>2, FS_Surjection
<1>2. Init => IsFiniteSet(HistoryItems)
  BY FS_EmptySet DEF Init, HistoryItems
<1>3. ASSUME IInv, IsFiniteSet(HistoryItems), [Next]_vars
      PROVE  IsFiniteSet(HistoryItems')
  <2>1. CASE history' = history
    BY <1>3, <2>1 DEF HistoryItems
  <2>2. CASE saving \in Snapshots /\ history' = history \cup {saving}
    <3>1. HistoryItems' = HistoryItems \cup {saving.items[n] : n \in 1..Len(saving.items)}
      BY <2>2 DEF HistoryItems
    <3>2. Len(saving.items) \in Nat
      BY <2>2, InventoryAssumption
    <3> QED BY <1>1, <1>3, <3>1, <3>2, FS_Union
  <2>3. \/ history' = history
        \/ saving # None /\ history' = history \cup {saving}
    BY <1>3 DEF Next, vars, BeginSave, SaveItem, RejectConflict, Abort, Commit
  <2> QED BY <1>3, <2>1, <2>2, <2>3 DEF IInv
<1>4. IInv /\ IsFiniteSet(HistoryItems) /\ [Next]_vars => IsFiniteSet(HistoryItems)'
  BY <1>3
<1> QED BY <1>2, <1>4, Invariance, PTL DEF Spec

\* The rows in force are the latest of each container.
LEMMA InForceIs ==
  ASSUME NEW d, Sound(d), NEW at \in Times
  PROVE  InForce(d, at) =
           {r \in Containers \X Times : r[2] \in LatestUpTo(DOMAIN d.runtime[r[1]], at)}
<1>1. ASSUME NEW r \in Containers \X Times
      PROVE  r \in InForce(d, at) <=> r[2] \in LatestUpTo(DOMAIN d.runtime[r[1]], at)
  <2> DEFINE ts == DOMAIN d.runtime[r[1]]
             t  == r[2]
  <2>1. r[1] \in Containers /\ t \in Times /\ ts \in SUBSET Times
    BY DEF Sound, TablesOK, Table
  <2>2. t \in LatestUpTo(ts, at) => t \in ts
    BY DEF LatestUpTo
  <2>3. t \in ts => d.runtime[r[1]][t].validTo = NextAfter(ts, t)
    BY <2>1 DEF Sound, Chained
  <2>4. t \in ts => (InInterval(t, NextAfter(ts, t), at) <=> t \in LatestUpTo(ts, at))
    BY <2>1, IntervalIsLatest
  <2>5. r \in InForce(d, at) <=> t \in ts /\ InInterval(t, d.runtime[r[1]][t].validTo, at)
    BY DEF InForce, Rows, RowOf, InInterval
  <2> QED BY <2>2, <2>3, <2>4, <2>5
<1>2. InForce(d, at) \subseteq Containers \X Times
  BY DEF InForce, Rows
<1> QED BY <1>1, <1>2

\* The unfinished rows are the last of each container.
LEMMA UnfinishedIs ==
  ASSUME NEW d, Sound(d), NEW c \in Containers, NEW t \in Times
  PROVE  <<c, t>> \in Unfinished(d) <=>
           t \in DOMAIN d.runtime[c] /\ \A u \in DOMAIN d.runtime[c] : u <= t
<1> DEFINE ts == DOMAIN d.runtime[c]
<1>1. ts \in SUBSET Times /\ t \in Int /\ (\A u \in ts : u \in Int) /\ None \notin Times
  BY InventoryAssumption DEF Sound, TablesOK, Table
<1>2. t \in ts => d.runtime[c][t].validTo = NextAfter(ts, t)
  BY DEF Sound, Chained
<1>3. (\A u \in ts : u <= t) => NextAfter(ts, t) = None
  <2>1. (\A u \in ts : u <= t) => {u \in ts : u > t} = {}
    BY <1>1
  <2> QED BY <2>1 DEF NextAfter, Earliest
<1>4. ASSUME NEW u \in ts, ~ (u <= t)
      PROVE  NextAfter(ts, t) # None
  BY <1>1, <1>4, NextAfterLeast
<1>5. <<c, t>> \in Unfinished(d) <=> t \in ts /\ d.runtime[c][t].validTo = None
  BY DEF Unfinished, Rows, RowOf
<1> QED BY <1>2, <1>3, <1>4, <1>5

\* A row shows what its items say.
LEMMA RowShows ==
  ASSUME IInv, HInv, NEW c \in Containers, NEW t \in DOMAIN committed.runtime[c],
         NEW items, items = RowItems(HistoryItems, c, t)
  PROVE  /\ items # {} /\ t \in Times
         /\ StrongestOf(items) = {RowOf(committed, <<c, t>>).artifact}
         /\ BestOf(items) = {ConclusionOf(committed, <<c, t>>)}
         /\ ConclusionOf(committed, <<c, t>>) # None
         /\ ConclusionOf(committed, <<c, t>>) \in Derivations
         /\ \A i \in items : i.service = RowOf(committed, <<c, t>>).service
<1> DEFINE row == committed.runtime[c][t]
           best == committed.current[c][t]
           derivations == committed.derivation[c][t]
<1>1. Sound(committed) /\ RowsReflect(committed, HistoryItems) /\ t \in Times
  BY DEF IInv, HInv, Reflects, Sound, TablesOK, Table
<1>2. RowOf(committed, <<c, t>>) = row /\ ConclusionOf(committed, <<c, t>>) = best
  BY DEF RowOf, ConclusionOf
<1>3. items # {} /\ derivations = {i.derivation : i \in items} /\ RowReflects(row, items)
  BY <1>1 DEF RowsReflect
<1>4. best # None /\ derivations \in SUBSET Derivations
  BY <1>1 DEF Sound, ReferencesOK, TablesOK
<1>5. IsBest(best, derivations) /\ best \in Derivations
  <2>1. derivations # {}
    BY <1>3
  <2>2. IsBest(best, derivations)
    BY <1>1, <2>1 DEF Sound
  <2> QED BY <1>4, <2>2 DEF IsBest
<1>6. BestOf(items) = {best}
  <2>1. BestOf(items) = {e \in derivations : \A f \in derivations : f = e \/ Outranks(e, f)}
    BY <1>3 DEF BestOf
  <2>2. \A e \in BestOf(items) : IsBest(e, derivations)
    BY <2>1 DEF IsBest
  <2>3. best \in BestOf(items)
    BY <1>5, <2>1 DEF IsBest
  <2>4. \A e \in BestOf(items) : e = best
    BY <1>4, <1>5, <2>2, BestIsUnique
  <2> QED BY <2>3, <2>4
<1> QED BY <1>1, <1>2, <1>3, <1>4, <1>5, <1>6 DEF RowReflects

\* What was last seen of a container are the items of its latest row.
LEMMA LastSeenIs ==
  ASSUME IInv, HInv, NEW c \in Containers, NEW at \in Times
  PROVE  LET latest == LatestUpTo(DOMAIN committed.runtime[c], at)
         IN  /\ latest = {} => LastSeen(c, at) = {}
             /\ \A t \in latest : LastSeen(c, at) = RowItems(HistoryItems, c, t)
<1> DEFINE ts == DOMAIN committed.runtime[c]
           seen == {i \in HistoryItems : i.container = c /\ i.at <= at}
<1>1. /\ RowsReflect(committed, HistoryItems) /\ HistoryItems \subseteq Items /\ at \in Int
      /\ ts \in SUBSET Times /\ \A t \in Times : t \in Int
  BY HistoryItemsType, InventoryAssumption
     DEF IInv, HInv, Reflects, Sound, TablesOK, Table
<1>2. ASSUME NEW t \in Times
      PROVE  t \in ts <=> \E i \in HistoryItems : i.container = c /\ i.at = t
  <2>1. t \in ts <=> RowItems(HistoryItems, c, t) # {}
    BY <1>1 DEF RowsReflect
  <2> QED BY <2>1 DEF RowItems
<1>3. \A i \in HistoryItems : i.at \in Times /\ i.at \in Int
  BY <1>1 DEF Items
<1>4. \A i \in seen : i.at \in ts /\ i.at <= at
  BY <1>2, <1>3
<1>5. LatestUpTo(ts, at) = {} => seen = {}
  <2>1. \A t \in ts : t <= at => LatestUpTo(ts, at) # {}
    BY <1>1, LatestExists
  <2> QED BY <1>4, <2>1
<1>6. ASSUME NEW t \in LatestUpTo(ts, at)
      PROVE  LastSeen(c, at) = RowItems(HistoryItems, c, t)
  <2>1. t \in ts /\ t \in Int /\ t <= at /\ \A u \in ts : u <= at => u <= t
    BY <1>1 DEF LatestUpTo
  <2>2. PICK i \in seen : i.at = t
    BY <1>1, <1>2, <2>1
  <2>3. \A j \in seen : j.at <= t
    BY <1>4, <2>1
  <2>4. \A j \in seen : (\A k \in seen : k.at <= j.at) <=> j.at = t
    BY <1>3, <2>1, <2>2, <2>3
  <2>5. \A j \in HistoryItems : j.container = c /\ j.at = t => j \in seen
    BY <2>1
  <2> QED BY <2>4, <2>5 DEF LastSeen, RowItems
<1>7. LastSeen(c, at) \subseteq seen
  BY DEF LastSeen
<1> QED BY <1>5, <1>6, <1>7

\* What is listed of a container at an instant: its row in force, or nothing.
Listed(c, at) == {r \in Runtime(committed, None, at) : r.container = c}

RecordOf(d, r) ==
  [container |-> r[1], at |-> r[2], service |-> RowOf(d, r).service,
   metadata |-> RowOf(d, r).metadata, artifact |-> RowOf(d, r).artifact,
   conclusion |-> ConclusionOf(d, r)]

LEMMA ListedIs ==
  ASSUME IInv, HInv, NEW c \in Containers, NEW at \in Times
  PROVE  Listed(c, at) =
           {RecordOf(committed, <<c, t>>) : t \in LatestUpTo(DOMAIN committed.runtime[c], at)}
<1> DEFINE latest == LatestUpTo(DOMAIN committed.runtime[c], at)
<1>1. /\ InForce(committed, at) =
           {r \in Containers \X Times : r[2] \in LatestUpTo(DOMAIN committed.runtime[r[1]], at)}
      /\ latest \subseteq DOMAIN committed.runtime[c]
      /\ DOMAIN committed.runtime[c] \subseteq Times
  <2>1. Sound(committed)
    BY DEF IInv
  <2>2. DOMAIN committed.runtime[c] \subseteq Times
    BY <2>1 DEF Sound, TablesOK, Table
  <2>3. latest \subseteq DOMAIN committed.runtime[c]
    BY DEF LatestUpTo
  <2> QED BY <2>1, <2>2, <2>3, InForceIs
<1>2. Runtime(committed, None, at) =
        {RecordOf(committed, r) :
           r \in {q \in InForce(committed, at) : ConclusionOf(committed, q) # None}}
  BY DEF Runtime, RecordOf
<1>3. \A r : RecordOf(committed, r).container = r[1]
  BY DEF RecordOf
<1>4. \A t \in latest : <<c, t>> \in InForce(committed, at) /\ ConclusionOf(committed, <<c, t>>) # None
  BY <1>1, RowShows
<1>5. \A r \in InForce(committed, at) : r[1] = c => r = <<c, r[2]>> /\ r[2] \in latest
  BY <1>1
<1>6. ASSUME NEW x \in Listed(c, at)
      PROVE  \E t \in latest : x = RecordOf(committed, <<c, t>>)
  BY <1>2, <1>3, <1>5, <1>6 DEF Listed
<1>7. ASSUME NEW t \in latest
      PROVE  RecordOf(committed, <<c, t>>) \in Listed(c, at)
  <2>1. <<c, t>>[1] = c
    OBVIOUS
  <2> QED BY <1>2, <1>3, <1>4, <2>1 DEF Listed
<1> QED BY <1>6, <1>7

\* A selector that names a container is explained by its row in force.
LEMMA ExplainedByRow ==
  ASSUME IInv, HInv, NEW c \in Containers, NEW at \in Times,
         NEW t, LatestUpTo(DOMAIN committed.runtime[c], at) = {t}
  PROVE  explainAt(committed, committed, <<"container", c>>, at)
           = Answer("explained", <<<<c, t>>, ConclusionOf(committed, <<c, t>>)>>)
<1> DEFINE id == <<<<c, t>>, ConclusionOf(committed, <<c, t>>)>>
           ids == Selected(committed, <<"container", c>>, at)
<1>1. /\ InForce(committed, at) =
           {r \in Containers \X Times : r[2] \in LatestUpTo(DOMAIN committed.runtime[r[1]], at)}
      /\ t \in DOMAIN committed.runtime[c]
      /\ DOMAIN committed.runtime[c] \subseteq Times
      /\ at # None
  <2>1. Sound(committed) /\ at # None
    BY InventoryAssumption DEF IInv
  <2>2. DOMAIN committed.runtime[c] \subseteq Times
    BY <2>1 DEF Sound, TablesOK, Table
  <2>3. t \in DOMAIN committed.runtime[c]
    BY DEF LatestUpTo
  <2> QED BY <2>1, <2>2, <2>3, InForceIs
<1>2. <<c, t>> \in InForce(committed, at) /\ ConclusionOf(committed, <<c, t>>) # None
  BY <1>1, RowShows
<1>3. \A r \in InForce(committed, at) : r[1] = c => r = <<c, t>>
  BY <1>1
<1>4. \A q : Names(committed, q)["container"] = q[1]
  BY DEF Names
<1>5. <<"container", c>>[1] = "container" /\ <<"container", c>>[2] = c
  OBVIOUS
<1>6. ids = {<<r, ConclusionOf(committed, r)>> :
               r \in {q \in InForce(committed, at) :
                        ConclusionOf(committed, q) # None /\ q[1] = c}}
  BY <1>1, <1>4, <1>5 DEF Selected
<1>7. {q \in InForce(committed, at) : ConclusionOf(committed, q) # None /\ q[1] = c} = {<<c, t>>}
  <2>1. <<c, t>>[1] = c
    OBVIOUS
  <2> QED BY <1>2, <1>3, <2>1
<1>8. ids = {id}
  BY <1>6, <1>7
<1>9. Cardinality(ids) = 1 /\ (CHOOSE i \in ids : TRUE) = id
  BY <1>8, FS_Singleton
<1>10. Loaded(committed, id)
  BY DEF Loaded
<1>11. explainAt(committed, committed, <<"container", c>>, at)
         = IF ids = {} THEN Answer("not found", None)
           ELSE IF Cardinality(ids) > 1 THEN Answer("ambiguous", None)
           ELSE IF Loaded(committed, CHOOSE i \in ids : TRUE)
           THEN Answer("explained", CHOOSE i \in ids : TRUE) ELSE Answer("unavailable", None)
  BY DEF explainAt
<1> HIDE DEF id, ids
<1>12. ids # {} /\ ~ (Cardinality(ids) > 1)
  BY <1>8, <1>9
<1> QED BY <1>9, <1>10, <1>11, <1>12 DEF id

\* What ListedAsLastSeen says of one container and one instant.
ListedRightly(c, at, items, rows) ==
  /\ Cardinality(rows) = Cardinality({i.at : i \in items})
  /\ \A r \in rows :
       /\ {i.at : i \in items} = {r.at}
       /\ StrongestOf(items) = {r.artifact}
       /\ BestOf(items) = {r.conclusion}
       /\ explainAt(committed, committed, <<"container", c>>, at)
            = Answer("explained", <<<<c, r.at>>, r.conclusion>>)

\* At every instant each container is listed as it was last seen.
LEMMA ListsAsLastSeen == IInv /\ HInv => ListedAsLastSeen
<1> SUFFICES ASSUME IInv, HInv, NEW at \in Times, NEW c \in Containers,
                    NEW items, items = LastSeen(c, at), NEW rows, rows = Listed(c, at)
             PROVE  ListedRightly(c, at, items, rows)
  <2>1. ListedAsLastSeen <=>
          \A at \in Times : \A c \in Containers :
            ListedRightly(c, at, LastSeen(c, at), Listed(c, at))
    BY DEF ListedAsLastSeen, ListedRightly, Listed
  <2> QED BY <2>1
<1> DEFINE latest == LatestUpTo(DOMAIN committed.runtime[c], at)
<1>1. rows = {RecordOf(committed, <<c, t>>) : t \in latest}
  BY ListedIs
<1>2. (latest = {} => items = {}) /\ \A t \in latest : items = RowItems(HistoryItems, c, t)
  BY LastSeenIs
<1>3. CASE latest = {}
  <2>1. rows = {} /\ items = {}
    BY <1>1, <1>2, <1>3
  <2>2. {i.at : i \in items} = {}
    BY <2>1
  <2> QED BY <2>1, <2>2 DEF ListedRightly
<1>4. CASE latest # {}
  <2>1. PICK t \in DOMAIN committed.runtime[c] : latest = {t}
    <3>1. \A t, u \in latest : t = u
      <4>1. \A t \in Times : t \in Int
        BY InventoryAssumption
      <4>2. DOMAIN committed.runtime[c] \subseteq Times
        BY DEF IInv, Sound, TablesOK, Table
      <4> QED BY <4>1, <4>2 DEF LatestUpTo
    <3>2. latest \subseteq DOMAIN committed.runtime[c]
      BY DEF LatestUpTo
    <3> QED BY <1>4, <3>1, <3>2
  <2>2. items = RowItems(HistoryItems, c, t)
    BY <1>2, <2>1
  <2>3. /\ items # {}
        /\ StrongestOf(items) = {RowOf(committed, <<c, t>>).artifact}
        /\ BestOf(items) = {ConclusionOf(committed, <<c, t>>)}
    BY <2>2, RowShows
  <2>4. PICK r : r = RecordOf(committed, <<c, t>>)
    OBVIOUS
  <2>5. /\ r.at = t /\ r.artifact = RowOf(committed, <<c, t>>).artifact
        /\ r.conclusion = ConclusionOf(committed, <<c, t>>)
    BY <2>4 DEF RecordOf
  <2>6. rows = {r}
    BY <1>1, <2>1, <2>4
  <2>7. {i.at : i \in items} = {t}
    BY <2>2, <2>3 DEF RowItems
  <2>8. Cardinality(rows) = 1 /\ Cardinality({i.at : i \in items}) = 1
    BY <2>6, <2>7, FS_Singleton
  <2>9. explainAt(committed, committed, <<"container", c>>, at)
          = Answer("explained", <<<<c, t>>, ConclusionOf(committed, <<c, t>>)>>)
    BY <2>1, ExplainedByRow
  <2> QED BY <2>3, <2>5, <2>6, <2>7, <2>8, <2>9 DEF ListedRightly
<1> QED BY <1>3, <1>4

\* Pairs that differ in their first are as many as their firsts.
LEMMA AsManyFirsts ==
  ASSUME NEW S, IsFiniteSet(S), NEW P, {p[1] : p \in P} = S,
         \A p, q \in P : p[1] = q[1] => p = q
  PROVE  IsFiniteSet(P) /\ Cardinality(P) = Cardinality(S)
<1> DEFINE f == [s \in S |-> CHOOSE p \in P : p[1] = s]
<1>1. \A s \in S : f[s] \in P /\ f[s][1] = s
  OBVIOUS
<1>2. \A p \in P : p[1] \in S /\ f[p[1]] = p
  BY <1>1
<1>3. f \in [S -> P]
  BY <1>1
<1>4. f \in Injection(S, P)
  BY <1>1, <1>3 DEF Injection, IsInjective
<1>5. f \in Surjection(S, P)
  BY <1>2, <1>3 DEF Surjection
<1> HIDE DEF f
<1>6. f \in Bijection(S, P)
  BY <1>4, <1>5 DEF Bijection
<1> QED BY <1>6, FS_Bijection DEF ExistsBijection

\* The unfinished rows that satisfy a condition are as many as their containers.
LEMMA OneUnfinishedEach ==
  ASSUME IInv, HInv, IsFiniteSet(HistoryItems), NEW rows \in SUBSET Unfinished(committed),
         NEW S, S = {r[1] : r \in rows}
  PROVE  IsFiniteSet(rows) /\ Cardinality(rows) = Cardinality(S)
<1>1. /\ Sound(committed) /\ RowsReflect(committed, HistoryItems)
      /\ \A c \in Containers : DOMAIN committed.runtime[c] \subseteq Times
      /\ \A t \in Times : t \in Int
  BY InventoryAssumption DEF IInv, HInv, Reflects, Sound, TablesOK, Table
<1>2. Unfinished(committed) \subseteq Containers \X Times
  BY DEF Unfinished, Rows
<1>3. \A c \in Containers, t \in Times :
        <<c, t>> \in Unfinished(committed) <=>
          t \in DOMAIN committed.runtime[c] /\ \A u \in DOMAIN committed.runtime[c] : u <= t
  BY <1>1, UnfinishedIs
<1>4. ASSUME NEW p \in rows, NEW q \in rows, p[1] = q[1]
      PROVE  p = q
  <2>1. PICK c \in Containers, t \in Times : p = <<c, t>>
    BY <1>2
  <2>2. PICK e \in Containers, u \in Times : q = <<e, u>>
    BY <1>2
  <2>3. c = e
    BY <1>4, <2>1, <2>2
  <2>4. t \in DOMAIN committed.runtime[c] /\ u \in DOMAIN committed.runtime[c] /\ t <= u /\ u <= t
    BY <1>3, <2>1, <2>2, <2>3
  <2> QED BY <1>1, <2>1, <2>2, <2>3, <2>4
<1>5. IsFiniteSet(S)
  <2> DEFINE C == {i.container : i \in HistoryItems}
  <2>1. [i \in HistoryItems |-> i.container] \in Surjection(HistoryItems, C)
    BY DEF Surjection
  <2>2. IsFiniteSet(C)
    BY <2>1, FS_Surjection
  <2>3. ASSUME NEW r \in rows
        PROVE  r[1] \in C
    <3>1. PICK c \in Containers, t \in Times : r = <<c, t>>
      BY <1>2
    <3>2. t \in DOMAIN committed.runtime[c]
      BY <1>3, <3>1
    <3>3. RowItems(HistoryItems, c, t) # {}
      BY <1>1, <3>2 DEF RowsReflect
    <3> QED BY <3>1, <3>3 DEF RowItems
  <2>4. S \in SUBSET C
    BY <2>3
  <2> QED BY <2>2, <2>4, FS_Subset
<1> QED BY <1>4, <1>5, AsManyFirsts

\* A service counts its containers, and is no firmer than any of them.
LEMMA ServicesCount ==
  IInv /\ HInv /\ IsFiniteSet(HistoryItems) => ServicesCountContainers
<1> DEFINE end == CHOOSE t \in Times : \A u \in Times : u <= t
<1> SUFFICES ASSUME IInv, HInv, IsFiniteSet(HistoryItems), NEW s \in DOMAIN committed.service,
                    NEW mine, mine = {c \in Containers : \E i \in LastSeen(c, end) : i.service = s}
             PROVE  /\ ServiceRecords(committed)[s].instances = Cardinality(mine)
                    /\ \A c \in mine : \A e \in BestOf(LastSeen(c, end)) :
                         ServiceRecords(committed)[s].confidence <= LevelRank[e.result.level]
  BY DEF ServicesCountContainers
<1>1. /\ Sound(committed) /\ RowsReflect(committed, HistoryItems) /\ HistoryItems \subseteq Items
      /\ \A c \in Containers : DOMAIN committed.runtime[c] \subseteq Times
      /\ \A t \in Times : t \in Int
      /\ s \in Services /\ ServiceTimes(HistoryItems, s) # {}
  BY HistoryItemsType, InventoryAssumption
     DEF IInv, HInv, Reflects, Sound, TablesOK, Table, ServicesReflect
<1>2. end \in Times /\ \A u \in Times : u <= end
  <2>1. Times # {}
    BY <1>1 DEF ServiceTimes, Items
  <2>2. \E t \in Times : \A u \in Times : u <= t
    BY <2>1, InventoryAssumption, FiniteMaximum
  <2> QED BY <2>2
<1> HIDE DEF end
<1> DEFINE rows == {r \in Unfinished(committed) : RowOf(committed, r).service = s}
           ranks == {LevelRank[ConclusionOf(committed, r).result.level] : r \in rows}
<1>3. /\ ServiceRecords(committed)[s].instances = Cardinality(rows)
      /\ ServiceRecords(committed)[s].confidence
           = IF ranks = {} THEN 0 ELSE CHOOSE n \in ranks : \A m \in ranks : n <= m
  BY DEF ServiceRecords
<1>4. Unfinished(committed) \subseteq Containers \X Times
  BY DEF Unfinished, Rows
<1>5. \A c \in Containers, t \in Times :
        <<c, t>> \in Unfinished(committed) <=> t \in LatestUpTo(DOMAIN committed.runtime[c], end)
  <2>1. ASSUME NEW c \in Containers, NEW t \in Times
        PROVE  <<c, t>> \in Unfinished(committed)
                 <=> t \in LatestUpTo(DOMAIN committed.runtime[c], end)
    <3>1. <<c, t>> \in Unfinished(committed) <=>
            t \in DOMAIN committed.runtime[c] /\ \A u \in DOMAIN committed.runtime[c] : u <= t
      BY <1>1, UnfinishedIs
    <3>2. t <= end /\ \A u \in DOMAIN committed.runtime[c] : u <= end
      BY <1>1, <1>2
    <3> QED BY <3>1, <3>2 DEF LatestUpTo
  <2> QED BY <2>1
<1>6. ASSUME NEW c \in Containers, NEW t \in Times, <<c, t>> \in Unfinished(committed)
      PROVE  /\ LastSeen(c, end) # {}
             /\ \A i \in LastSeen(c, end) : i.service = RowOf(committed, <<c, t>>).service
             /\ BestOf(LastSeen(c, end)) = {ConclusionOf(committed, <<c, t>>)}
  <2>1. t \in LatestUpTo(DOMAIN committed.runtime[c], end) /\ t \in DOMAIN committed.runtime[c]
    BY <1>5, <1>6 DEF LatestUpTo
  <2>2. LastSeen(c, end) = RowItems(HistoryItems, c, t)
    BY <1>2, <2>1, LastSeenIs
  <2> QED BY <2>1, <2>2, RowShows
<1>7. ASSUME NEW c \in mine
      PROVE  \E t \in Times : <<c, t>> \in rows /\ <<c, t>> \in Unfinished(committed)
  <2>1. c \in Containers /\ LastSeen(c, end) # {}
    OBVIOUS
  <2>2. PICK t \in LatestUpTo(DOMAIN committed.runtime[c], end) : TRUE
    BY <1>2, <2>1, LastSeenIs
  <2>3. t \in Times
    BY <1>1, <2>1 DEF LatestUpTo
  <2>4. <<c, t>> \in Unfinished(committed)
    BY <1>5, <2>1, <2>2, <2>3
  <2>5. RowOf(committed, <<c, t>>).service = s
    BY <1>6, <2>1, <2>3, <2>4
  <2> QED BY <2>3, <2>4, <2>5
<1>8. mine = {r[1] : r \in rows}
  <2>1. ASSUME NEW r \in rows
        PROVE  r[1] \in mine
    <3>1. PICK c \in Containers, t \in Times : r = <<c, t>>
      BY <1>4
    <3>2. \E i \in LastSeen(c, end) : i.service = s
      BY <1>6, <3>1
    <3> QED BY <3>1, <3>2
  <2>2. \A c \in mine : \E r \in rows : r[1] = c
    <3>1. \A c, t : <<c, t>>[1] = c
      OBVIOUS
    <3> HIDE DEF rows
    <3> QED BY <1>7, <3>1
  <2> QED BY <2>1, <2>2
<1>9. IsFiniteSet(rows) /\ Cardinality(rows) = Cardinality(mine)
  BY <1>8, OneUnfinishedEach
<1>10. ASSUME NEW r \in rows
       PROVE  LevelRank[ConclusionOf(committed, r).result.level] \in 0..4
  <2>1. PICK c \in Containers, t \in Times : r = <<c, t>>
    BY <1>4
  <2>2. t \in DOMAIN committed.runtime[c]
    BY <1>5, <2>1 DEF LatestUpTo
  <2>3. PICK l : l = ConclusionOf(committed, r).result.level
    OBVIOUS
  <2>4. l \in {"EXACT", "HIGH", "MEDIUM", "LOW", "UNKNOWN"}
    BY <2>1, <2>2, <2>3, RowShows, QueriesAssumption DEF LevelRank
  <2>5. LevelRank[l] \in 0..4
    BY <2>4 DEF LevelRank
  <2> QED BY <2>3, <2>5
<1>11. ASSUME NEW c \in mine, NEW e \in BestOf(LastSeen(c, end))
       PROVE  ServiceRecords(committed)[s].confidence <= LevelRank[e.result.level]
  <2>1. PICK t \in Times : <<c, t>> \in rows /\ <<c, t>> \in Unfinished(committed)
    BY <1>7
  <2>2. e = ConclusionOf(committed, <<c, t>>)
    BY <1>6, <2>1, <1>11
  <2>3. LevelRank[e.result.level] \in ranks
    <3> HIDE DEF rows
    <3>1. \A r \in rows : LevelRank[ConclusionOf(committed, r).result.level] \in ranks
      OBVIOUS
    <3> QED BY <2>1, <2>2, <3>1
  <2>4. ranks \in SUBSET (0..4)
    BY <1>10
  <2> HIDE DEF ranks
  <2>5. IsFiniteSet(ranks) /\ ranks \subseteq Int
    <3>1. IsFiniteSet(0..4)
      <4>1. 0 \in Int /\ 4 \in Int
        OBVIOUS
      <4> QED BY <4>1, FS_Interval
    <3>2. IsFiniteSet(ranks)
      BY <2>4, <3>1, FS_Subset
    <3>3. ranks \subseteq Int
      BY <2>4
    <3> QED BY <3>2, <3>3
  <2>6. PICK n \in ranks : \A m \in ranks : n <= m
    BY <2>3, <2>5, FiniteMinimum
  <2>7. \A m \in ranks : (CHOOSE k \in ranks : \A j \in ranks : k <= j) <= m
    BY <2>6
  <2> QED BY <1>3, <2>3, <2>7
<1> QED BY <1>3, <1>9, <1>11

\* What status counts, in this state.
StatusCounts == Status(committed)["instances"] = Cardinality({i.container : i \in HistoryItems})

LEMMA StatusIsCounted == IInv /\ HInv /\ IsFiniteSet(HistoryItems) => StatusCounts
<1> SUFFICES ASSUME IInv, HInv, IsFiniteSet(HistoryItems)
             PROVE  StatusCounts
  OBVIOUS
<1>1. /\ Sound(committed) /\ RowsReflect(committed, HistoryItems) /\ HistoryItems \subseteq Items
      /\ \A c \in Containers : DOMAIN committed.runtime[c] \subseteq Times
      /\ Times \subseteq Int /\ IsFiniteSet(Times)
  BY HistoryItemsType, InventoryAssumption
     DEF IInv, HInv, Reflects, Sound, TablesOK, Table
<1> DEFINE C == {i.container : i \in HistoryItems}
<1>2. ASSUME NEW r \in Unfinished(committed)
      PROVE  r[1] \in C
  <2>1. PICK c \in Containers, t \in Times : r = <<c, t>>
    BY DEF Unfinished, Rows
  <2>2. t \in DOMAIN committed.runtime[c]
    BY <1>1, <2>1, UnfinishedIs
  <2>3. RowItems(HistoryItems, c, t) # {}
    BY <1>1, <2>2 DEF RowsReflect
  <2> QED BY <2>1, <2>3 DEF RowItems
<1>3. ASSUME NEW i \in HistoryItems
      PROVE  \E r \in Unfinished(committed) : r[1] = i.container
  <2>1. PICK c \in Containers : c = i.container
    BY <1>1 DEF Items
  <2>2. i.at \in Times
    BY <1>1 DEF Items
  <2>3. i.at \in DOMAIN committed.runtime[c]
    BY <1>1, <2>1, <2>2 DEF RowsReflect, RowItems
  <2>4. DOMAIN committed.runtime[c] \in SUBSET Times
    BY <1>1
  <2>5. IsFiniteSet(DOMAIN committed.runtime[c]) /\ DOMAIN committed.runtime[c] \subseteq Int
    BY <1>1, <2>4, FS_Subset
  <2>6. PICK t \in DOMAIN committed.runtime[c] : \A u \in DOMAIN committed.runtime[c] : u <= t
    BY <2>3, <2>5, FiniteMaximum
  <2>7. <<c, t>> \in Unfinished(committed)
    BY <1>1, <2>4, <2>6, UnfinishedIs
  <2>8. <<c, t>>[1] = c
    OBVIOUS
  <2> QED BY <2>1, <2>7, <2>8
<1>4. C = {r[1] : r \in Unfinished(committed)}
  BY <1>2, <1>3
<1>5. Cardinality(Unfinished(committed)) = Cardinality(C)
  BY <1>4, OneUnfinishedEach
<1> QED BY <1>5 DEF StatusCounts, Status

\* An explanation read around a commit is that of a conclusion current before and after it,
\* if a conclusion gives way only to one that outranks it.
LEMMA ExplainedAround ==
  ASSUME NEW d, Sound(d), NEW e,
         \A c \in Containers : \A t \in DOMAIN d.runtime[c] :
           e.current[c][t] = d.current[c][t] \/ Outranks(e.current[c][t], d.current[c][t])
  PROVE  ExplainedAcross(d, e)
<1> SUFFICES ASSUME NEW r \in Rows(d), NEW answer,
                    answer = explainAt(d, e, <<"runtime", r>>, None)
             PROVE  \/ /\ answer.status = "explained"
                       /\ answer.id[2] \in {ConclusionOf(d, r)} \cap {ConclusionOf(e, r)}
                    \/ /\ answer.status = "unavailable"
                       /\ Outranks(ConclusionOf(e, r), ConclusionOf(d, r))
  BY DEF ExplainedAcross
<1>1. /\ r[1] \in Containers /\ r[2] \in Times /\ r[2] \in DOMAIN d.runtime[r[1]]
  BY DEF Rows
<1>2. ConclusionOf(d, r) # None
  BY <1>1 DEF ConclusionOf, Sound, ReferencesOK
<1> DEFINE id == <<r, ConclusionOf(d, r)>>
           ids == Selected(d, <<"runtime", r>>, None)
<1>3. \A q : Names(d, q)["runtime"] = q
  BY DEF Names
<1>4. <<"runtime", r>>[1] = "runtime" /\ <<"runtime", r>>[2] = r
  OBVIOUS
<1>5. ids = {<<q, ConclusionOf(d, q)>> : q \in {p \in Rows(d) : ConclusionOf(d, p) # None /\ p = r}}
  BY <1>3, <1>4 DEF Selected
<1>6. {p \in Rows(d) : ConclusionOf(d, p) # None /\ p = r} = {r}
  BY <1>2
<1>7. ids = {id}
  BY <1>5, <1>6
<1>8. Cardinality(ids) = 1 /\ (CHOOSE i \in ids : TRUE) = id
  BY <1>7, FS_Singleton
<1>9. answer = IF ids = {} THEN Answer("not found", None)
               ELSE IF Cardinality(ids) > 1 THEN Answer("ambiguous", None)
               ELSE IF Loaded(e, CHOOSE i \in ids : TRUE)
               THEN Answer("explained", CHOOSE i \in ids : TRUE) ELSE Answer("unavailable", None)
  BY DEF explainAt
<1>10. Loaded(e, id) <=> ConclusionOf(e, r) = ConclusionOf(d, r)
  BY DEF Loaded
<1>11. ConclusionOf(e, r) = ConclusionOf(d, r) \/ Outranks(ConclusionOf(e, r), ConclusionOf(d, r))
  BY <1>1 DEF ConclusionOf
<1>12. id[2] = ConclusionOf(d, r)
  OBVIOUS
<1> HIDE DEF id, ids
<1>13. ids # {} /\ ~ (Cardinality(ids) > 1)
  BY <1>7, <1>8
<1>14. CASE Loaded(e, id)
  <2>1. answer = Answer("explained", id)
    BY <1>8, <1>9, <1>13, <1>14
  <2>2. answer.status = "explained" /\ answer.id = id
    BY <2>1 DEF Answer
  <2> QED BY <1>10, <1>12, <1>14, <2>2
<1>15. CASE ~ Loaded(e, id)
  <2>1. answer = Answer("unavailable", None)
    BY <1>8, <1>9, <1>13, <1>15
  <2>2. answer.status = "unavailable"
    BY <2>1 DEF Answer
  <2> QED BY <1>10, <1>11, <1>15, <2>2
<1> QED BY <1>14, <1>15

\* Whatever is saved, in whatever order, the answers of the queries are those of the
\* snapshots saved, and one read around a commit is no worse.
THEOREM AnswersAreOfHistory == Spec => AnswersFollowHistory
<1> DEFINE Answers == ListedAsLastSeen /\ ServicesCountContainers /\ StatusCounts
<1>1. IInv /\ HInv /\ IsFiniteSet(HistoryItems) => Answers
  BY ListsAsLastSeen, ServicesCount, StatusIsCounted
<1>2. Spec => []Answers
  BY <1>1, HistoryInvariance, FewItems, PTL
<1>3. ASSUME IInv, [Next]_vars
      PROVE  ExplainedAcross(committed, committed')
  <2>1. \A c \in Containers : \A t \in DOMAIN committed.runtime[c] :
          \/ committed'.current[c][t] = committed.current[c][t]
          \/ Outranks(committed'.current[c][t], committed.current[c][t])
    BY <1>3, ConclusionsStandInStep
  <2>2. Sound(committed)
    BY <1>3 DEF IInv
  <2> QED BY <2>1, <2>2, ExplainedAround
<1> DEFINE Step == (committed' # committed) =>
                     /\ (ListedAsLastSeen /\ ServicesCountContainers)'
                     /\ Status(committed')["instances"] = Cardinality({i.container : i \in HistoryItems'})
                     /\ ExplainedAcross(committed, committed')
<1>4. IInv /\ Answers' /\ [Next]_vars => [Step]_vars
  <2>1. Answers' => (ListedAsLastSeen /\ ServicesCountContainers)'
    OBVIOUS
  <2>2. StatusCounts' => Status(committed')["instances"]
                           = Cardinality({i.container : i \in HistoryItems'})
    BY DEF StatusCounts
  <2> QED BY <1>3, <2>1, <2>2
<1> QED BY <1>2, <1>4, Invariance, PTL DEF Spec, AnswersFollowHistory
=============================================================================
