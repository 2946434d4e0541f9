--------------------------- MODULE RuntimeQueries ---------------------------
(***************************************************************************)
(* What runtime, services, status and explain answer from the tables of    *)
(* RuntimeInventory.  A query changes nothing, so it is an operator on the *)
(* tables it reads; one of two statements reads two states of them.  The   *)
(* pages of a listing and the telemetry a service has are left out.        *)
(***************************************************************************)
EXTENDS RuntimeInventory

\* A runtime row is known by its container and instant, a correlation also by its derivation.
Rows(d) == {r \in Containers \X Times : r[2] \in DOMAIN d.runtime[r[1]]}

RowOf(d, r)        == d.runtime[r[1]][r[2]]
ConclusionOf(d, r) == d.current[r[1]][r[2]]

\* Wrong variant: a row is still in force when the next one begins.
InForceToTheEnd(d, at) ==
  {r \in Rows(d) : r[2] <= at /\ (RowOf(d, r).validTo = None \/ at <= RowOf(d, r).validTo)}

InForce(d, at) ==
  {r \in Rows(d) : r[2] <= at /\ (RowOf(d, r).validTo = None \/ at < RowOf(d, r).validTo)}

\* The rows in force at an instant, of one service or of all, each with its current correlation.
Runtime(d, service, at) ==
  {[container |-> r[1], at |-> r[2], service |-> RowOf(d, r).service,
    metadata |-> RowOf(d, r).metadata, artifact |-> RowOf(d, r).artifact,
    conclusion |-> ConclusionOf(d, r)] :
     r \in {q \in InForce(d, at) : ConclusionOf(d, q) # None /\ service \in {None, RowOf(d, q).service}}}

Unfinished(d) == {r \in Rows(d) : RowOf(d, r).validTo = None}

LevelRank == [EXACT |-> 4, HIGH |-> 3, MEDIUM |-> 2, LOW |-> 1, UNKNOWN |-> 0]

ASSUME QueriesAssumption == \A d \in Derivations : d.result.level \in DOMAIN LevelRank

\* The one element of S, or what stands for none and for several.
OnlyOr(S, none, several) ==
  IF S = {} THEN none ELSE IF Cardinality(S) = 1 THEN CHOOSE x \in S : TRUE ELSE several

\* A service is as firm as the least firm of its containers.
ServiceRecords(d) ==
  [s \in DOMAIN d.service |->
     LET rows  == {r \in Unfinished(d) : RowOf(d, r).service = s}
         ranks == {LevelRank[ConclusionOf(d, r).result.level] : r \in rows}
     IN  [instances  |-> Cardinality(rows),
          state      |-> OnlyOr({RowOf(d, r).metadata : r \in rows}, "unknown", "mixed"),
          artifact   |-> OnlyOr({RowOf(d, r).artifact : r \in rows}, None, None),
          confidence |-> IF ranks = {} THEN 0 ELSE CHOOSE n \in ranks : \A m \in ranks : n <= m,
          freshness  |-> d.service[s].last]]

Status(d) ==
  [lastSnapshot |-> IF "docker" \in DOMAIN d.source THEN d.source["docker"].lastSync ELSE None,
   services     |-> Cardinality(DOMAIN d.service),
   instances    |-> Cardinality(Unfinished(d))]

-----------------------------------------------------------------------------
(* explain                                                                 *)

\* What a selector may name: it is compared with every one of these.
Names(d, r) ==
  [runtime |-> r, container |-> r[1], correlation |-> <<r, ConclusionOf(d, r)>>,
   artifact |-> ConclusionOf(d, r).artifact, commit |-> ConclusionOf(d, r).commit]

\* The current correlations a selector names, at an instant or at any (None).
Selected(d, selector, at) ==
  {<<r, ConclusionOf(d, r)>> :
     r \in {q \in IF at = None THEN Rows(d) ELSE InForce(d, at) :
              ConclusionOf(d, q) # None /\ Names(d, q)[selector[1]] = selector[2]}}

\* Wrong variant: the correlation selected is loaded though it is current no longer.
StillLoaded(d, id) == ConclusionOf(d, id[1]) # None

Loaded(d, id) == ConclusionOf(d, id[1]) = id[2]

Answer(status, id) == [status |-> status, id |-> id]

\* The selector is resolved in one statement and the explanation loaded in another, before
\* which a snapshot may have been committed.
explainAt(first, second, selector, at) ==
  LET ids == Selected(first, selector, at)
  IN  IF ids = {} THEN Answer("not found", None)
      ELSE IF Cardinality(ids) > 1 THEN Answer("ambiguous", None)
      ELSE LET id == CHOOSE i \in ids : TRUE
           IN  IF Loaded(second, id) THEN Answer("explained", id) ELSE Answer("unavailable", None)

-----------------------------------------------------------------------------
(* Properties                                                              *)

\* What was last seen of container c up to an instant.
LastSeen(c, at) ==
  LET seen == {i \in HistoryItems : i.container = c /\ i.at <= at}
  IN  {i \in seen : \A j \in seen : j.at <= i.at}

BestOf(items) ==
  {e \in {i.derivation : i \in items} : \A i \in items : i.derivation = e \/ Outranks(e, i.derivation)}

\* At every instant each container seen by then is listed once, as it was last seen, with the
\* best conclusion about that, and the same is explained of it.
ListedAsLastSeen ==
  \A at \in Times :
    LET listed == Runtime(committed, None, at)
    IN  \A c \in Containers :
          LET items == LastSeen(c, at)
              rows  == {r \in listed : r.container = c}
          IN  /\ Cardinality(rows) = Cardinality({i.at : i \in items})
              /\ \A r \in rows :
                   /\ {i.at : i \in items} = {r.at}
                   /\ StrongestOf(items) = {r.artifact}
                   /\ BestOf(items) = {r.conclusion}
                   /\ explainAt(committed, committed, <<"container", c>>, at)
                        = Answer("explained", <<<<c, r.at>>, r.conclusion>>)

\* A service counts each of its containers once, and is no firmer than any of them.
ServicesCountContainers ==
  LET end     == CHOOSE t \in Times : \A u \in Times : u <= t
      latest  == [c \in Containers |-> LastSeen(c, end)]
      records == ServiceRecords(committed)
  IN  \A s \in DOMAIN committed.service :
        LET mine == {c \in Containers : \E i \in latest[c] : i.service = s}
        IN  /\ records[s].instances = Cardinality(mine)
            /\ \A c \in mine : \A e \in BestOf(latest[c]) :
                 records[s].confidence <= LevelRank[e.result.level]

\* An explanation read around a commit is that of a conclusion which is current before and
\* after; it fails only because a better conclusion has come.
ExplainedAcross(before, after) ==
  \A r \in Rows(before) :
    LET selector == <<"runtime", r>>
        answer   == explainAt(before, after, selector, None)
    IN  \/ answer.status = "explained" /\ answer.id[2] \in {ConclusionOf(before, r)} \cap {ConclusionOf(after, r)}
        \/ answer.status = "unavailable" /\ Outranks(ConclusionOf(after, r), ConclusionOf(before, r))

\* Every answer is that of the snapshots saved, whatever their order.
AnswersFollowHistory ==
  [][(committed' # committed) =>
       /\ (ListedAsLastSeen /\ ServicesCountContainers)'
       /\ Status(committed')["instances"] = Cardinality({i.container : i \in HistoryItems'})
       /\ ExplainedAcross(committed, committed')]_vars
=============================================================================
