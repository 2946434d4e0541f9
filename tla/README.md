# Verification of prodmap

TLA+ models of prodmap, TLC configurations that check them on small instances,
and TLAPS proofs of what matters most for every instance. Everything is written
from the Go source under `src/`; line numbers below are of that tree.
`PROJECT.json` maps each definition to the lines it stands for, lists the
hazards of the code and the property that watches each of them.

## 1. The system

prodmap records, in one SQLite database on the operator's machine, what ran in
production and how firmly each running container can be tied to a Git commit.
Batches of evidence come from Docker, Git, deployment ledgers (files or GitHub
Actions artifacts) and OpenTelemetry captures. Each batch is normalised in
memory and saved in one immediate transaction; everything a user asks
afterwards is computed from the tables. Three questions make such a program
hard:

* **order** - evidence about an instant may be saved long after evidence about
  later instants, and batches are saved again after a failure;
* **strength** - two pieces of evidence about one thing differ in how firmly
  they identify it, and a weak one must not replace, nor hide, a strong one;
* **atomicity** - a conflict, a deadline or a crash in the middle of a batch
  must leave nothing of it behind.

### Components

| Component | State | Operations | Meets | Correct when |
|---|---|---|---|---|
| provenance evaluation (`correlation`) | none | `EvaluateProvenance`, `DerivationPriority` | called by the refresh, its result stored by the store | EXACT only if everything was verified; a cap is never exceeded; contradictions outrank, outages are outranked |
| inventory normalisation (`inventory/normalize.go`) | none | `NormalizeArtifact` | called by the refresh | one identity per image, chosen independently of digest order |
| runtime refresh (`inventory/refresh.go`) | one batch in memory | `Refresh` | Docker, Git, then the store once | a whole batch or nothing reaches the store |
| runtime inventory store (`sqlite/inventory.go`) | sources, repositories, services, artifacts, aliases, runtimes, correlations | `SaveRuntimeSnapshot`, `Runtime`, `Services`, `Status`, `Explain` | one transaction per snapshot; the ledger and telemetry use its artifacts, commits and services | intervals exact, order irrelevant, nothing lost, conclusions never weaken |
| deployment ledger store (`sqlite/deployment.go`) | ingestions, deployments, GitHub fetches | `SaveDeployment`, `SaveDeploymentSource`, pages, discovery | reads artifacts, commits, services and runtimes | ledgers whole or absent, first claim stands, no ambiguous link |
| ledger format, runtime association (`deployment/types.go`) | none | `Parse`, `ValidateSnapshot`, `Fingerprint`, `AssociateRuntimes` | ledger store | a confirmation is never a container that ran before |
| telemetry store (`sqlite/telemetry.go`) | windows, endpoints, dependencies, aggregates | `SaveTelemetry`, topology, red metrics | shares services with the inventory | one content per window, first and last seen exact |
| OpenTelemetry decoder (`otel/decode.go`) | one capture in memory | `Decode` | telemetry store | dependencies independent of the order of spans |
| topology (`topology`) | none | `Build` | telemetry store | bounded traversal says when it was cut |
| baseline, comparison, regression | none | evaluate, compare, classify | telemetry and ledger tables | a contaminated or missing window is never compared |
| timeline (`sqlite/timeline.go`) | none | keyset pages | all tables | no fact skipped or repeated between pages |
| Docker source (`docker/source.go`) | worker pool | `InspectRuntime` | refresh | list order kept, losses counted, outage refused |
| Git source (`git/source.go`) | one command at a time, five seconds each | `Repository`, `ResolveCommit` | the `git` binary; refresh | an answer was true while it was asked for; an interruption is no answer |
| GitHub source (`github/source.go`) | one fetch: page, chosen artifact, attempts, redirects | `Fetch` | GitHub's API; ledger store | the newest artifact or none; bounded requests; the token stays at home |
| files (`LoadFrozenFile` of ledgers and captures) | none | inspect, read, inspect again | ledger and telemetry stores | what is loaded is what the file held |
| transactions (`sqlite/store.go`) | one pooled connection and its busy timeout | `beginTransaction` with its retries, read snapshots | every save | no wait past a deadline, no transaction or lowered timeout left behind |
| migrations (`migrate.go`) | schema, `schema_migrations` | apply, validate | every command and the server | whole releases, once and in order |
| investigation (`investigation`, `investigationpackage`) | one read snapshot, one document | compose, write down, validate | comparison, graph, timeline | what is composed passes its own validation |
| packages (`investigationpackage/package.go`) | a file at a path | `Create`, `Verify` | the file system | written once, whole, and kept |
| MCP server (`mcpserver`) | one connection, cursors with the callers | list, investigate, graph | store | each call ends; a cursor keeps its window |
| command line (`cli`) | none | one command per process | everything above | |

Hard behaviours: late, repeated and contradictory batches (all ingestion);
rollback and crash before a commit (store); several processes on one database
(busy retry, migrations, reads outside a transaction); a worker pool with a
deadline (Docker); Git failing half-way through a batch (refresh); retries, redirects and a listing that
changes while it is read (GitHub); a file written while it is loaded; a machine that loses its power
between two steps of a publication (packages); a clock to which listings are bound (pages);
limits that cut a result short (topology, pages, candidates).

## 2. Modules

| Module | Models | Source |
|---|---|---|
| `Provenance` | levels, caps, contradictions, priority: pure operators | `correlation/provenance.go`, `priority.go`, `types.go` |
| `RuntimeItems` | an observation and a Git answer become a snapshot item: pure operators over `Provenance` | `inventory/normalize.go`, `refresh.go` 97-183 |
| `RuntimeRefresh` | one call of `Refresh`, step by step, ending in a save or in an error | `inventory/refresh.go` |
| `RuntimeInventory` | the tables and the transaction of `SaveRuntimeSnapshot` | `sqlite/inventory.go` |
| `RuntimeQueries` | what `runtime`, `services`, `status` and `explain` answer from those tables | `sqlite/inventory.go` 609-923 |
| `RuntimeInventory_proofs` | theorems about `RuntimeInventory` and `RuntimeQueries` | |
| `DeploymentLedger` | the tables and the transactions of `SaveDeployment` and `SaveDeploymentSource`, against an inventory that grows | `sqlite/deployment.go` |
| `DeploymentLedger_proofs` | theorems about `DeploymentLedger` | |
| `DockerInspection` | one call of `InspectRuntime`: listing, the pool of workers, three deadlines, the assembly of the batch | `docker/source.go`, `cli.go` |
| `GitSource` | the calls of Git in one refresh, command by command, while the repository changes | `git/source.go`, `inventory/refresh.go` 57-152 |
| `GitHubFetch` | one `deployments sync github-actions`: listing, choice, download and checks, with retries and redirects, while artifacts come and go | `github/source.go`, `cli/deployment.go` 82-134 |
| `FrozenFiles` | one call of `LoadFrozenFile`, by path or by open file, while somebody writes | `deployment/types.go` 454-496, `telemetry/types.go` 201-241 |
| `StoreTransactions` | saves on the one pooled connection while other processes hold the lock | `sqlite/store.go` 189-262, the retries of `SaveDeployment` and `SaveRuntimeSnapshot` |
| `Calls` | what a command does besides its queries: composes `GitHubFetch`, `DockerInspection`, `GitSource`, `RuntimeRefresh`, `FrozenFiles`, `StoreTransactions`, `SpanAggregation` | |
| `Calls_proofs` | theorems about `Calls` and the components it composes, the provenance algorithm among them | |
| `TelemetryIngestion` | the tables and the transaction of `SaveTelemetry`, next to the rule by which runtime snapshots touch services | `sqlite/telemetry.go` |
| `TelemetryIngestion_proofs` | theorems about `TelemetryIngestion` | |
| `GraphTraversal` | one call of `topology.Build` with the queries under it, while captures are committed | `topology/types.go`, `sqlite/telemetry.go` 660-790 |
| `RuntimeAssociation` | which runtimes confirm a deployment: pure operators | `sqlite/deployment.go` 601-636, `deployment/types.go` 196-312 |
| `DeploymentPages` | one listing of deployments, discovery or timeline, page by page, while other processes commit and the clock runs | `sqlite/deployment.go` 376-683, `sqlite/timeline.go`, the windows and cursors of `cli` and `mcpserver` |
| `DeploymentComparison` | one baseline, regression or investigation, while captures and deployments are committed | `baseline/evaluate.go`, `sqlite/baseline.go`, `comparison.go`, `regression/evaluate.go`, `classify.go`, `investigation/types.go` |
| `InvestigationDocument` | `DeploymentComparison` with the document made of an investigation and the rules that validate it | `investigationpackage/package.go` |
| `InvestigationDocument_proofs` | theorems about `DeploymentComparison` and `InvestigationDocument` | |
| `WriteOnce` | abstract: what the path of a package promises | |
| `PackagePublication` | calls of `Create` and `Verify` on one path, failing, dying or losing power between any two steps; implements `WriteOnce` | `investigationpackage/package.go` |
| `PackagePublication_proofs` | theorems about `PackagePublication`, the refinement among them | |
| `StoreProcesses` | processes of several releases on one database: opening, migrations, the calls of the MCP server | `sqlite/migrate.go`, `sqlite/store.go` 36-170, `mcpserver/server.go` 190-298 |
| `StoreProcesses_proofs` | theorems about `StoreProcesses` | |
| `SpanAggregation` | one call of `Decode`: both passes over the spans of a file | `otel/decode.go` 110-212, 672-1257 |
| `Reads` | what is read while others save: composes `DeploymentPages` and `GraphTraversal` | |
| `Reads_proofs` | theorems about `Reads` and the components it composes | |
| `MC...` | a small instance of each component or composition, for TLC | |

`Calls` and `Reads` put components that share no state into one run: a behaviour is about one
of them, `what`, and leaves the variables of the others alone. The components that do share
state are composed by extension: `RuntimeQueries` reads `RuntimeInventory`, `InvestigationDocument`
continues `DeploymentComparison`, `DeploymentPages` uses `RuntimeAssociation`, and
`RuntimeInventory`'s instance makes its items with `RuntimeItems` as the refresh does.

Definitions preceded by "Wrong variant" model a plausible mistake in the
definition that follows. They are used by no specification: substituting one
for its neighbour must break the property named in `PROJECT.json`, which shows
that the property watches that code.

### How they correspond to the code

**`RuntimeRefresh`.** `phase` is the program counter of `Refresh`. `InspectRuntime`
and `FindRepository` are the calls at the start, whose answers are taken
from `Batches` and `BOOLEAN`; `ResolveObservation` is one turn of the loop, with
the Git answer chosen from `Lookups` anew each time; `FinishLoop` and
`SaveRuntimeSnapshot` are the end. `Fail` is any early return, and may
happen wherever the code can return an error. The answers of Git are the classes
(`commit`, `not_found`, `unavailable`, `conflict`) `GitSource` gives them; which
of them may follow which is left open here, because the repository may change between two lookups.

**`GitSource`.** `phase` is the command that runs: `FindToplevel` and `ReadOrigin` are
`Repository`, `VerifyRevision` and `ShowCommit` are `ResolveCommit`, each with a context of
five seconds of its own (`Expire`) under that of the refresh (`Cancel`). `classify` is the function of that name:
the context is looked at before the exit code. `Kill` is a command whose context ended. `RepositoryChanges` moves
objects and the repository at any instant; `was` is a history variable, how Git stood to the revision at each
instant since it was asked about. Git is external: what a command answers
is what the repository is when it ends, and a command need never end by itself.

**`GitHubFetch`.** One request after another: `Send`, then what becomes of it. `Retry`, `Wake` and
`BudgetExhausted` are the loop of `getResponse`, `Delay` its pause; `NextPage`, `LastPage` and `NoneUsable` are
`selectArtifact`, `Redirect`, `RedirectRefused` and `Downloaded` are `downloadArtifact`, where `KeepsToken` decides
whether the next request is authorised and `MayFollow` whether there is one. `Interrupted` is the end of the context before
a request, in one or in a pause. `Upload` and `Delete` happen at GitHub at any time; a page is computed from what is there
when it is asked for. HTTP, JSON and ZIP are left out, and an artifact is
its ID with a time of creation that need not follow it.

**`FrozenFiles`.** `Inspect`, `OpenFile`, `ReadBlock`, `EndOfFile` and `Accept` or `Conflict` are the steps of
`LoadFrozenFile`; a ledger is inspected by path before it is opened, a capture by the open file. `Write` changes, extends or
cuts a block, `Replace` renames another file to the path. A time of modification is that of a clock that
several writes may find unchanged.

**`StoreTransactions`.** `BeginPlain` and `BeginLowered` are the two branches of `beginTransaction`, `PragmaFails` the failure of
its pragma, `Locked` and `Busy` the ends of `BEGIN IMMEDIATE`, `Again` and `GiveUp` the three attempts of the callers,
`Finish` the commit or rollback with the deferred release, `GiveBack`. Time is counted in ticks that remain to a
save (`left`) and to a wait (`wait`), which no context ends.

**`RuntimeInventory`.** A table is a function from its unique key to its row, a
field of the record `db` (as the open transaction sees it) or `committed` (as
everybody else does). `BeginSave` is everything before the loop over the items,
`SaveItem` one turn of the loop with all it calls (`ensureService`,
`ensureArtifact` with metadata and aliases, the commit, `ensureRuntime`,
`reconcileCorrelation`), `RejectConflict` an `ErrConflict` and the deferred
rollback, `Abort` any other error or a crash, `Commit` the end. An item carries
a *derivation*, an abstract conclusion with a `Priority` and a `Fingerprint`; the
instances give each the priority `Provenance` computes for such a conclusion.
`history` is a history variable: the snapshots committed.

The abstractions: times are integers; identities, references and image IDs are
members of small sets, with integers where the code orders them as text;
digests of rows, generated IDs, `ingested_at`, display names and URLs are left
out; of the labels of an artifact only the revision is kept, the one whose
merge has a conflict. `RuntimeQueries` adds no state: a query is an operator on the tables it reads, and
`explainAt`, which reads twice, one on two states of them. Its selector is a kind and a value, so that
the name of a container never happens to be the SHA of a commit; the pages of a listing and what telemetry knows
of a service are left out. Only one transaction is open at a time, because
`beginTransaction` opens it immediate: a second process waits or gives up
with a busy error, which is `Abort` followed by a new request.

**`DeploymentLedger`.** A request is a validated ledger with, for one fetched
from GitHub, the artifact it came as. `Begin` looks for the ingestion of the same
source and hash, `InspectIdentities` and `RejectIdentity` are the loop that
compares fingerprints and the row with its counts, `SaveRecord` one turn of the
second loop with its resolution, `RejectFetch` and `Commit` the
metadata check of `saveDeploymentSource`. `RuntimeSnapshotSaved` adds
what a refresh may add to the tables a resolution reads; `Tick` moves the clock
the resolution compares `deployed_at` with. A record is the tuple its
fingerprint covers, so equal fingerprints are equal records; the hash of a ledger
determines its records (`LedgerAssumption`). Two simplifications: a driver error
in the lookup of the service, which `resolveDeployment` ignores, counts as not
found only when it is not found; and the clock does not run backwards.

**`DockerInspection`.** `List` and `ListFails` are `docker ps` with what its error can
be, `TakeJob` and `Exit` a worker at the closed channel of jobs. A job goes through
the inspection of the container and of its image (`ContainerInspected`, `ImageInspected`),
either of which may find its subject gone, the daemon down, an answer that
does not parse, or the context ended; each writes the slot of the job in `results`.
`Collect` is the code after `workers.Wait()`. Around the call containers and
images are removed, the daemon stops and starts, and the context ends at any moment
(`Expire`: its timer, or a cancellation). Docker itself is external. The batch
this module returns is what `RuntimeRefresh` takes as given.

**`TelemetryIngestion`.** `RejectInvalid` is the validation before the transaction; `Begin`
looks for an ingestion of the same source, environment and window, and either finds
a replay, finds a conflict, or writes the source and the ingestion;
`SaveServices` to `SaveWindows` are the six loops, one action each, `Commit`,
`RejectConflict` and `Abort` the ends. Seen times are set when a row is touched
(`EnsureNamed`, `EnsureSeen`). `RuntimeSnapshotSaved` is what a runtime snapshot does to
`services`, the table the two share, by the rule of `inventory.go`. Counts, durations and
routes are left out: they are written with their row and never compared.

**`GraphTraversal`.** `ResolveRoots`, `ExpandLevel` and `Finish` are the three parts
of `Build`. `ExpandLevel` is one turn of its loop: the query for the edges of the
frontier with its limit, the sort, the admission of new nodes until there are
`maxNodes`, the dropping of edges whose end was not admitted. `Reader` is the
difference between the callers: an investigation passes a read snapshot,
the graph command the store, and `IngestionCommitted` may come between any
two reads. Ten edges per node are `EdgesPerNode`; minimum confidence is a rank.

**`DeploymentPages` and `RuntimeAssociation`.** A listing is read in pages. `ReadListing` is one
query of discovery or of the timeline; a page of `deploys` takes two steps, because the rows with
the start of the next deployment (`ReadDeployments`) and the runtimes (`AttachRuntimes`) come
from two statements outside a transaction. `DeploymentSaved` and `RuntimeSnapshotSaved` come
between any of them. The key of a row is a tuple compared as SQL does, `NextCursor` the last row
delivered and not the one read in excess. `RuntimeAssociationOf` is `EvaluateRuntimeAssociation` on
the candidates that `AttachRuntimes` found: the first of each container and artifact in the
window, what it supports and contradicts, and whether the image ran before. The candidates
are those of `ensureRuntime`: an observation ends the row before it. `Window` is the time a page is about, up to `now` unless the
query has an end: the MCP server takes it from the cursor (`ListQueryWindow`), the commands work it out anew and refuse
a cursor of another window (`Compatible`, `RefuseCursor`), while `Tick` moves the clock between two pages.

**`DeploymentComparison`.** `Baseline` is one query and `baseline.Evaluate`. A regression and an
investigation take the same steps, `ResolveDeployment`, `ReadBefore`, `ReadAfter`,
`ReadContamination` and `Compare` (with `Evaluate` for each side, then `Classify`); an
investigation adds `ReadTimeline`, takes its time at the start, and reads what its
first read fixed (`Facts`), while a regression reads the store each time. A window carries the kinds of what the service
called in it, a deployment its status and a container its state, for the graph and the events of an
investigation; the traversal and its limits are `GraphTraversal`'s. The value of a metric is an integer; the two units in the last place by which the
code forgives the rounding of an error rate are left out.

**`InvestigationDocument`.** `answer` is what the caller of an investigation gets. `Answer` makes the document of what
`DeploymentComparison` ended with (`documentFrom`) and shows it if it passes the validation that `package verify` applies to
documents of unknown origin (`validateDocument`); the two are written separately in the code, and separately here: the validation orders the events, looks up their
kinds, recomputes deltas, classification and references from the document alone.

**`PackagePublication`.** `pc` is the step of each call of `Create`: the look at the path, the validation and encoding, the temporary
file, the entries, the sync, the hard link, the sync of the directory, the removal, the digest. `Link` fails if
anything is at the path. A call may fail or die at each, somebody else may create a file (`Foreign`), and `PowerLoss` leaves of the path what
was synced (`onDisk`) and ends every process. A verifier opens what is at the path, validates it, and then reads the path a
second time for its digest. A package is named by the call that writes it. `WriteOnce` is the abstract path: empty, then one whole file for good, which
may be lost only while nobody was told of it; `Held` and `Announced` are the refinement mapping.

**`StoreProcesses`.** A migration is a version with what makes it that migration (its name
and checksum); a release is the set a binary embeds. `Connect` is `Open` up to `configure`,
`BeginExclusive` to `CommitMigrations` are `applyMigrations` with one turn of its loop in two steps,
`CheckTable` and `ValidateAppliedExact` the two reads of `validateReadOnlySchema`. The schema (what SQL
has been executed) is kept apart from the rows of `schema_migrations`, so that the two can
disagree. The calls of the server take its one connection (`OpenReader`), fix their snapshot at the first
read, close it before they render, and lose it when they fail or their thirty seconds are over
(`Released`). `Stop` is any error, crash or end of a process: what it had not committed is gone.
SQLite's locking is external: one writer, whom readers do not exclude.

**`SpanAggregation`.** A span is what `decodeSpan` makes of it: its key, its parent and links, service, kind,
endpoint, evidence and the targets it declares. `ReadSpan` is a turn of the loops of `Decode` together with the
turn of the first loop of `aggregateContext` for the same span, which adds it to the windows; any span may be
the next, so each file is read in every order. `EndFirstPass` checks the limits, `ResolveSpan` is a turn of the second loop
with `resolveDependency`, `originEndpoint` and the merge into the observation, `Finish` the selection of evidence
at the end. `Reject` is an error of the file, `Cancel` the end of the context. Fingerprints are
numbers in their order, and so are the texts of bases and limitations, whose order decides between
samples of equal rank. `Calls` runs it with the other things a command does: no other command writes
what it reads, a file in memory. Parsing, durations, display names and warnings are left out.

## 3. Checks

| Run | Question | Result |
|---|---|---|
| `inventory` | snapshots of four instants, and evidence of different strength about one, in every order, any number of times, with conflicts, rollbacks, crashes, and the queries of every state | passes |
| `ledger` | eight ledgers of two sources and two refreshes in every order, with replays and crashes | passes |
| `calls` | what a command does besides its queries: a fetch from GitHub, Docker's workers, Git's commands, a refresh, the reading of a file, saves under a lock, the decoding of a telemetry file; with every answer, failure, deadline and cancellation, in every order | passes |
| `telemetry` | captures of overlapping, repeated and contradictory windows and runtime snapshots, in every order | passes |
| `reads` | every page of deploys, discovery and timeline while rows are saved on both sides of the cursor and the clock runs; every query of a small cyclic graph, through a snapshot and through the store, during ingestion | passes |
| `comparison` | a baseline, a regression, an investigation, with commits between any two reads, and the document made of it | passes |
| `store_processes` | two commands and a server of three releases on one database, failing and starting again, with two calls at once | passes |
| `package_publication` | three calls of `Create` and a verifier on one path, failing, dying or losing power between any two steps | passes |
| `ledger_reuse` | a reused identity is a conflict | violated, finding 1 |
| `spans_order` | observations do not depend on the order of spans | violated, finding 2 |
| `zero_baseline` | a missing delta is answered as UNKNOWN | violated, finding 3 |

What the passing properties say:

* `PointInTimeExact`, `AliasPointInTime` - at every instant exactly one row of a
  container and one artifact of an alias are valid: the last one observed by
  then, however late a row arrived.
* `CommittedIsHistory` (`FactsStored`, `StrongestIdentityWins` and `MetadataFollowsLatest`) - the tables are a function of the *set* of stored
  snapshots. This is the specification's invariant 14, stated as what the
  result must be rather than by comparing two orders.
* `HistoryPreserved`, `ConclusionNeverWeakens`, `ReplayHarmless` - what a step may
  never do.
* `AnswersFollowHistory` - at every instant each container seen by then is listed once, as it was last
  seen and with the best conclusion about that, and `explain` at that instant gives the same; a service
  counts each of its containers once; an explanation read around a commit is that of a conclusion
  current before and after, or fails because a better one came.
* `WholeLedgers`, `AcceptedIsStored`, `FirstClaimStands`, `ReplayHarmless`,
  `LinksUnambiguous` - a ledger is stored whole; what it claimed is what is
  stored; neither a later ledger nor a refresh changes it; no link is chosen
  among several candidates.
* `SavedIsEarned` - the store gets every observation of a refresh, in order, or nothing (`SavedIsWholeBatch`); EXACT
  needs an immutable, unambiguous image, a declared revision that Git resolved to itself and times that
  fit (`ExactIsVerified`); no level exceeds the caps that come with it (`LevelRespectsHardCaps`); an outage of Git never
  displaces an answer of it, and a favourable derivation never hides a contradiction (`PriorityOrdersEvidence`).
* `SourcesAreTrue` - of Docker: the batch has each listed container at most once and in the order of the list, what is
  missing is counted, a Docker that was lost on the way is an error and not a small batch, and no
  worker outlives the call. Of Git: a commit was there and is the one declared, a revision not found
  was absent at some instant of the lookup, Git is called unavailable only if it was, if the commit vanished between
  its two commands or was too long; an interruption is never taken for any of these.
* `NewestIsStored` - unless artifacts are deleted on the way or there are more pages than may be
  read, the artifact chosen is the newest compatible one of those there at the start or a later one,
  none is found only if there was none, and the ledger stored is that artifact's and agrees with its run.
* `RequestsContained` - the token is sent only while every URL of the download has been of the API's host; no refused
  location is ever asked; requests and pauses are bounded, and each retry comes after a pause.
* `LoadedAsInspected` - a file that had been at rest before it was inspected is loaded as it then was, or not at all.
* `PoolIsRestored` - `BEGIN` never waits past the deadline of its caller, and between two attempts or saves the
  connection has its full timeout, or none is kept, and no transaction is open.
* `CallsReturn` - the fetch, the inspection, the calls of Git and the saves end, though nobody may ever answer.
* `WholeCaptures`, `RowsFollowFacts`, `WindowStands` - a capture is stored whole; a window has one content forever; first and
  last seen are the least and the greatest of the facts stored, in whatever order they came.
* `PagesComplete` - the pages of a listing contain each row that was there from the start and
  matches, once, in the one order; a row saved meanwhile appears once or not at all. Only a command whose window
  ends at its own time may be refused its next page, never a caller of the MCP server.
* `ConclusionIsSound` - a matched deployment has a container of its own
  image that did not run before, seen before the next deployment, and no other deployment
  started with it (`MatchedIsConfirmed`); a conclusion has seen every candidate its window has, or says it
  was cut (`ConclusionSeesAll`).
* `SnapshotIsWhole`, `ResultIsSound` - a graph that does not
  say it was cut has everything within its depth, computed independently as
  reachability; a cut one is still connected and within its limits; "no observed relations"
  is never an artefact of a limit.
* `ConclusionIsTrue` (`BaselineIsClean`, `ComparedTogether`) - some state
  of the database during the command bears a conclusion out: the windows, their
  values, their signal, and that no other deployment is known in their time. That it
  holds of a regression, which reads outside a transaction, rests on the order of
  its reads: the deployments come last.
* `TimelineAgrees` - the timeline of an investigation has the deployments its comparison was told of. The cut of the list of
  contaminating deployments cannot make a comparison pass for clean (one is enough to refuse it), only the list
  incomplete.
* `RefusalIsExplained` - composition and validation agree on every document: an investigation is refused only because of a
  missing delta (finding 3) or of a kind, status or state the store accepts and no document may show (below).
* `WholeRelease`, `StartedIsCurrent`, `ServedSchemaCovers` - the schema is a whole release and is what
  `schema_migrations` says of it; a process begins its work only on its own release; and since no later
  command can take a migration away, a running server never reads less than it was written for.
* `CallsEnd` - a call of the server ends and leaves the connection, though queries may hang or fail.
* `ObservationsExact` - an observation counts each of its samples once and is as firm as the firmest of them,
  unless a linked one is uncertain; with finding 2, this is what of an observation does not depend on the order.
* `LinksAreCertain` (`HighIsCertain`, `EvidenceShowsLink`) - high confidence needs that exactly one service answered and that nothing said
  otherwise, in any sample; evidence is bounded, and yet shows both ends of a link.
* `ImplementsWriteOnce` - the path of a package holds nothing or one whole file at every instant and after every power
  loss, is never overwritten, and is not lost once a call has returned success.
* `SuccessIsKept`, `PublishedVerifies` - a success returned the digest of its own package, which is durable and under
  no other name; a verifier accepts what a call published, also one that failed afterwards, and nothing else.

### Bounds, and why they are enough

* `inventory` - two families of snapshots. *Arrivals*: four instants, because a late row has to fit
  before, between and after existing rows, and before a row whose predecessor was already
  closed; three containers sharing two aliases, so that an alias moves away and
  back; two batches of one instant, one of them partial. *Evidence*: one instant with the three
  kinds of identity, image IDs that agree and disagree, two services, two states, two revisions
  of one reference, derivations with all priorities and equal ones; a snapshot of two items whose second
  conflicts. Every history within a family is explored, and every one of up to four
  snapshots of both (`FewTogether`).
* `ledger` - two sources; ledgers that repeat, extend and contradict each other
  or themselves; one GitHub artifact fetched with other content and with other
  metadata, and one content fetched as two artifacts; an image stored under
  two identities and a SHA in two repositories; `Latest = 1` puts one
  deployment before and one after its ingestion.
* `calls` - of GitHub: three artifacts whose times do not follow their IDs, one incompatible and one that disagrees with
  its run, on pages of one, of which two are read, so that a listing may be cut; two redirects over two URLs of the API's
  host, one of another host and one that is refused; three attempts, a budget of three seconds and pauses of none and two, so that
  both attempts and budget run out. Of Docker: three containers on two workers, so that one worker takes
  two jobs while the other is still busy, and two images, one shared. Of Git: a commit, a tag of it and a commit too long to
  be read, two lookups, so that the second is asked of another repository than the first. Of the refresh: batches of one and two
  observations over no, one and two digests, with and without image ID, absent, invalid and valid revisions,
  creation times on both sides of the skew, and every class of Git answer. Of files: two blocks, two writes and three
  instants, so that two writes may share one. Of transactions: a timeout of three ticks, deadlines shorter, just longer and absent, three
  attempts, and two saves, so that the second finds what the first left.
  Of the decoder: twelve files of two to seven spans, each in every order, decoded, refused or interrupted: calls answered by
  nobody, one or two services, contradicted or not, failing on one side, consumers of several producers with lost links,
  several conventions at once, parents in a cycle, duplicates, and each limit exceeded. Three ancestors stand for the 32 of
  the code, three pieces of evidence for its four, of which one pair is kept for two. `spans_order` has the same files.
* `telemetry` - three windows, two of which end together; one imported twice, one
  with other content, captures the store refuses, runtime snapshots at the end of a window.
* `reads` - three deployments of one service of which two or
  three start together, one of another service, and containers seen before, at, between and after them;
  pages of one to three rows; two instants of the clock and a default window of two. Runtimes are left out of
  discovery, which does not read them, three of them are kept for the timeline, two where the clock runs, and the
  clock stands where the query names its end (`Relevant`). The confirmation window is 3 for the thirty minutes of the code, the limits
  of candidates 2 per deployment and 3 per page for its 100 and 10,000. For graphs, a cycle of three services and a
  database, two observations of one dependency, one expired and one of low confidence; limits from one node to
  all four, so that a result is cut at a root, within a level and between levels;
  two edges per node stand for the ten of the code.
* `comparison` - two windows before and two after the deployment, one of each too small or
  too little covered; another deployment at the start, at the same instant and at the end, which no
  longer counts; two commits during a command, so that each side of a read can change
  twice. One contaminating deployment and two events fill their lists, for 100 each. Latencies of zero, containers,
  every kind of dependency, and a status and a state no document shows are there from the beginning of an investigation or not at all
  (`FewTogether`): what they decide is decided when the document is made.
* `store_processes` - three releases: the first, one two migrations later, so that there is a state
  between two migrations, and a fork whose second migration is another; two commands, so that one upgrades while the
  other waits or a server serves; two calls, so that one waits for the other's connection.
* `package_publication` - two calls whose documents are accepted (interchangeable, hence the symmetry), so that they race for the
  path, one that is refused, a verifier, two entries, so that a package can be torn, and one power loss,
  which may come at any step.

The counters of the models stop at named constants: `Clock` and `Latest` (clocks), `MaxWrites` and
`MaxClock` (files), `MaxSaves`, `MaxLookups`, `MaxLosses`, `MaxCommits`. `CHECK_DEADLOCK FALSE` is set only
where what is modelled ends: the calls, the reads, a comparison, a decoding, a publication.

### Fairness

Ingestion is driven by the operator: nothing in the code promises that a batch is
ever saved or retried, so the stores have only safety and action properties.
A call of the MCP server promises to end (`CallsEnd`): its timer fires, because `context.WithTimeout` sets it
before the reader is opened, and a result that has been read is rendered without waiting for anything.
Nothing is assumed of a query or of the connection.
The calls of `Calls` promise to end (`CallsReturn`), under weak fairness of what makes
them end: clocks and the timers of contexts go on, a goroutine that can run does, a call takes its own
next step, and a command whose context ended returns (`exec.CommandContext` kills it). Nothing is assumed of
Docker, Git, GitHub or whoever holds the lock: none need ever answer or let go. The code sets no `WaitDelay`, so
the assumption includes that no child of a killed `docker` or `git` keeps its pipes open. The calls
of Git need only that a killed command returns and that timers fire.

## 4. Findings

1. `ledger_reuse` (`deployment.go:104`): a valid ledger may name one deployment and
   service in two environments. The table's key has no environment, so the second
   record is counted as inserted and dropped; ADR-020 calls such a reuse a conflict.
2. `spans_order` (`decode.go:804`): capping an observation lowers its stored confidence, so a later certain
   sample, or a declared target of equal rank, replaces basis and limitations or not depending on the order of the
   lines. Two tests of the decoder claim the opposite, neither with such a mixture.
3. `zero_baseline` (`package.go:922`): a latency that was zero before the deployment has no relative delta, which
   ADR-026 and ADR-027 answer as UNKNOWN; the validation of documents requires one, so the investigation
   ends in an error.

Noticed while modelling, without a run of their own.

*Inventory.* A row upgraded from an image ID to a
repository digest may keep a current conclusion about the image-ID artifact (`inventory.go:393`), when the digest
was seen while Git was unavailable, where the specification's invariant 4 says a runtime does not point
at two artifacts. Two revisions of one artifact at one instant are a
conflict only while that instant is the artifact's latest (`inventory.go:238`), so what is accepted
depends on the order of arrival. A capture and a runtime snapshot that touch one service at one instant
leave its display name to whichever came last (`inventory.go:207`, `telemetry.go:470`), which is why
`NamesFollowLatest` allows either. The pages of the
runtime listing go by `OFFSET` (`inventory.go:738`), so a snapshot saved between two pages may shift a row
past the cursor.

*Sources.* Git's own five seconds end in an error of the context, which fails the whole refresh, while a Git that
cannot be run only makes its answers unavailable (`git/source.go:235`). A repository that vanishes between the two
commands of `Repository` is identified by its path. An artifact deleted at GitHub between two pages moves the rest of the
listing up, so that one may be skipped, which is why `NewestIsStored` excepts deletions. A file changed within
the clock tick of its first inspection may be loaded as a mixture, which is why `LoadedAsInspected` asks for a
file at rest. A cap of UNKNOWN for a missing identity (`provenance.go`) would stand beside the level LOW if a
container had neither identity nor alias; Docker always names the image it was run with, which is what the proofs assume.

*Transactions.* The wait of `BEGIN IMMEDIATE` is bounded by the deadline and not ended by a cancellation.

*Reads.* A container observed before a deployment and again at the very instant it starts no longer
counts as running before, because the second observation ended the first row (`deployment.go:610`), and
the association is MATCHED where ADR-021 caps it, which is why `MatchedIsConfirmed` excepts it.
A later deployment saved between the two reads of a
page does not end the window of the one before it (`deployment.go:395` and 567), which is why
`ConclusionSeesAll` speaks of the deployments the first read found. `deploys` and `timeline` bind a cursor to
the end of their window, which is the time of the call by default, so a next page asked for without `--until` is
refused; the MCP server restores the window of the cursor. The graph command reads each level of the
traversal from the store outside a transaction (`cli/graph.go:104`), so a capture committed between two
levels gives a graph no one state of the database has, which is why `SnapshotIsWhole` speaks of read
snapshots. The MCP server validates the schema once (`cli/mcp.go:37`), so after an upgrade it answers from
one it does not know, which is why `ServedSchemaCovers` says no more than that nothing is missing.

*Documents.* Three things the store accepts make `investigate`, `package create` and the MCP server end
in an error, because no document may show them, and so `RefusalIsExplained` names them: a dependency of kind cache or other active at the start of the
deployment (`otel/decode.go:1037`, `sqlite/telemetry.go:269`), a deployment of status
unknown (`deployment/types.go:360`), and a container in state removing. `Create` returns an error if a step fails after the link, though
the package is published; `Verify` hashes what is at the path when it reads it a second time.

## 5. Proofs

`RuntimeInventory_proofs` proves, for every set of containers, instants, artifacts,
derivations and snapshots that satisfies `InventoryAssumption` (instants are
finitely many positive integers, fingerprints differ, items have the fields and
values of a snapshot item):

| Theorem | Says |
|---|---|
| `TypeCorrect` | `Spec => []TypeOK`: types, foreign keys, one current derivation per row |
| `IntervalsExact` | `Spec => []PointInTimeExact` |
| `AliasesExact` | `Spec => []AliasPointInTime` |
| `HistoryIsStored` | `Spec => []CommittedIsHistory`: the tables are a function of the set of saved snapshots |
| `ReplaysAreHarmless` | `Spec => ReplayHarmless` |
| `BestIsCurrent` | `Spec => []CurrentIsBest`: the current derivation outranks the others |
| `NothingIsLost` | `Spec => HistoryPreserved` |
| `ConclusionsStand` | `Spec => ConclusionNeverWeakens` |
| `AnswersAreOfHistory` | `Spec => AnswersFollowHistory`, of `RuntimeQueries` |

None of the invariants is inductive by itself. `PointInTimeExact` speaks of
lookups; what `ensureRuntime` maintains is that the end of each row is the start
of the next (`Chained`), from which the lookup follows
(`ChainedIsPointInTimeExact`). Inserting a row uses the successor of the new
instant (`NextAfterLeast`, from the well-foundedness of the subsets of a finite
set) and changes exactly one predecessor (`InsertRuntimeChained`). That the current
derivation is the best needs that a best one exists at all before
`CHOOSE` says anything: `CurrentDerivationIsBest` carries the previous best
across the insertion, by totality and transitivity of `Outranks`. The inductive
invariant `IInv` is therefore: the tables in the transaction and the committed ones
are both sound (typed, referenced, chained, best current), the transaction
has lost nothing of what was committed, and without a transaction the two
are equal. `Preserves(committed, db)` is what makes the action properties
follow: only `Commit` changes `committed`, and it makes it `db`.

`CommittedIsHistory` compares the tables with `history`, of which `IInv` says nothing. `HInv` adds that the committed tables are those
of the snapshots saved, and that those of the open transaction are those of the snapshots saved *and of the items written
so far* (`Reflects`): each table is described by the set of items in it, without regard to order, and one lemma per table shows
that writing one item more adds exactly that item to the set. For the rows of one container this is where the strongest identity of an
instant is decided (`StrongestIs`), for the metadata of an artifact where the latest is. A snapshot saved once more finds
its items in the set already, so no table but the repository's changes, which is `ReplayHarmless`.

The answers of the queries follow. The rows in force are the latest of each container (`InForceIs`), what was last seen of it are the
items of that row (`LastSeenIs`), and the one best derivation of these items is the row's current one (`RowShows`). Services and status count
unfinished rows, one for each container (`OneUnfinishedEach`; that they are finitely many is `FewItems`). An explanation read around a commit rests on
the step lemma of `ConclusionsStand`. `QueriesAssumption` says that every level has a rank.

Of the refresh, `Calls_proofs` proves, for every skew, batches and answers of Git that satisfy `RefreshAssumption` (an observation has a
reference, its times are integers, its digests are finitely many; an answer of Git is of one of its classes):

| Theorem | Says |
|---|---|
| `SavingIsEarned` | `Spec => []SavedIsEarned`, of `RuntimeRefresh` alone |

Most of it is about the pure algorithm, for one observation and one lookup: the evidence contradicts exactly when one of
five checks does (`ContradictedMeans`), a revision is resolved only when Git returned it (`StateMeans`), EXACT
and the caps follow (`ExactMeans`, `CapsHold`), and without a repository the priority is least (`UnlookedRanksLowest`).
`IInv` adds that every item was built from its observation and a lookup of it (`ItemsOK`) and
that the times of the items have a latest (`LatestOK`), without which `SnapshotTime` would choose nothing in particular;
each turn of the loop maintains it, so no induction over the batch is needed.

`DeploymentLedger_proofs` proves, for every set of sources, requests, services,
artifacts, commits and instants that satisfies `LedgerAssumption`:

| Theorem | Says |
|---|---|
| `TypeCorrect` | `Spec => []TypeOK`: types, keys, references, and counts that add up |
| `LedgersAreWhole` | `Spec => []WholeLedgers` |
| `ClaimsAreStored` | `Spec => []AcceptedIsStored` |
| `FirstClaimsStand` | `Spec => FirstClaimStands` |
| `ReplaysAreHarmless` | `Spec => ReplayHarmless` |
| `LinksAreUnambiguous` | `Spec => LinksUnambiguous` |

The inductive invariant has three parts. `TypeInv` types the tables, the request
and the clock. Every committed row comes whole from a request of `history`
and has the content it claimed. The open transaction has the committed tables and
rows of its own request only, as many as the records it has passed; one that
repeats an ingestion adds nothing (`ReplayOfStored`). A link is the
only candidate of the tables of its time, because a resolution is only
`CHOOSE`n from a singleton (`ResolvedIsOnly`).

`StoreProcesses_proofs` proves, for every set of commands, calls and releases that satisfies
`StoreAssumption` (a release has one migration of each version and begins with the foundation):

| Theorem | Says |
|---|---|
| `TypeCorrect` | `Spec => []TypeOK`: types, and one writer |
| `SchemaIsWhole` | `Spec => []WholeRelease` |
| `StartsOnItsRelease` | `Spec => StartedIsCurrent` |
| `NothingIsMissed` | `Spec => []ServedSchemaCovers` |

`IInv` adds what the open transaction has done at each point of its loop: nothing recorded before is
lost, what is recorded is of the writer's release once that has been validated, and the schema is at most the next
missing migration ahead of the rows. Validation is needed because a release has one migration of a
version: if no version is missing, and what is recorded is of the release, it is the release
(`NothingMissing`, `CommitIsRelease`). While a server serves, its migrations are in the schema
(`ServingOK`): every commit keeps what was there.

`PackagePublication_proofs` proves, for every set of calls, documents and verifiers that satisfies `PackageAssumption`, and for any number
of power losses:

| Theorem | Says |
|---|---|
| `TypeCorrect` | `Spec => []TypeOK` |
| `PathIsWrittenOnce` | `Spec => ImplementsWriteOnce`: every step is one of `WriteOnce` or a stutter |
| `SuccessStands` | `Spec => []SuccessIsKept` |
| `VerdictIsRight` | `Spec => []PublishedVerifies` |

`IInv` adds what is whole and synced at each step of a call (`FilesOK`), that what is durable of the directory is what is at the path or nothing
(`DirectoryOK`), what a call has when it is about to link or to sync the directory (`CallsOK`), and what a verifier has in hand
(`VerifiersOK`). The refinement needs `SuccessIsKept`: a power loss is a step of `WriteOnce` only while nothing was announced.

`Calls_proofs` proves, for every value of the constants that satisfies `CallsAssumption` and `SpansAssumption` (those of the seven components it composes):

| Theorem | Says |
|---|---|
| `AnswersAreTrue` | `G!Spec => []G!LookupIsTrue`, the part of `SourcesAreTrue` about Git, of `GitSource` alone |
| `ConnectionIsRestored` | `T!Spec => []T!PoolIsRestored`, of `StoreTransactions` alone |
| `FetchIsContained` | `H!Spec => []H!RequestsContained`, of `GitHubFetch` alone |
| `SourcesTell` | `CallsSpec => []SourcesAreTrue` |
| `NewestArtifactIsStored` | `CallsSpec => []NewestIsStored` |
| `RequestsAreContained` | `CallsSpec => []RequestsContained` |
| `SavingIsEarnedInCalls` | `CallsSpec => []SavedIsEarned` |
| `FilesAreLoadedAsInspected` | `CallsSpec => []LoadedAsInspected` |
| `PoolIsAlwaysRestored` | `CallsSpec => []PoolIsRestored` |
| `ObservationsFollowSpans` | `CallsSpec => []ObservationsExact` |
| `LinksAreSure` | `CallsSpec => []LinksAreCertain` |

`CallsInv` has one invariant for each component, which a step of another leaves alone.

* `GitInv`: `was` has every standing of the revision since it was asked about, the present one among them (`AskedOK`).
* `StoreInv`: a lowered timeout is never longer than what is left to the caller (`WaitOK`) and is lowered only
  while a save has the connection (`ConnectionOK`).
* `FetchInv`: the number of requests is bounded by counting exchanges: each page and each URL
  visited has at most `MaxAttempts` requests, and the attempts of the present one are those sent so far (`CountOK`).
* `NewestInv`: while nothing was deleted, an artifact that was there at the start and is on no page read so far has its place
  after those pages (`ListedOK`). An upload moves places only towards the end, and the place of an artifact is its rank
  among those uploaded, so that the last page leaves nothing out (`ChosenOK`, `OutcomeOK`).
* `DockerInv`: every container of the list has its result, waits in the channel, or is with a worker (`ResultsOK`); a
  worker that ended while there was work for it to begin with left the channel empty (`WorkOK`). When no worker is left, each
  container therefore has its result, for any number of containers and workers.
* `FileInv`: what was read so far of a file that had been at rest is a part of what it held when it was inspected, or the
  file already shows a later time (`RestOK`), which the second inspection cannot miss.
* `SpansInv`: at any moment the windows count the server spans read (`WindowsOK`), and each observation is what the
  outbound spans resolved so far make of it (`RowsOK`). Its counts are cardinalities of sets of spans, which grow by one
  because no key comes twice (`OrderOK`); its confidence is that of the firmest sample by a
  strict order of resolutions (`BetterIsTransitive`, `BetterIsStrict`) until an uncertain link caps it for good; among the pairs kept there is always
  one of a sample (`FewAreFirst`: of a finite set in a total order, less than n elements before them have at most n, and at
  least one), whose two ends `Selected` then keeps within the bound. What the order of the lines decides, basis
  and limitations of a capped observation, `ObservationsExact` leaves open: that is finding 2.

`TelemetryIngestion_proofs` proves, for every set of captures and facts that satisfies `TelemetryAssumption`:

| Theorem | Says |
|---|---|
| `CapturesAreWhole` | `Spec => []WholeCaptures` |
| `RowsFollowTheFacts` | `Spec => []RowsFollowFacts` |
| `WindowsStand` | `Spec => WindowStands` |

The properties speak of the committed tables; `TInv` has to say what is in the open transaction after each of the six loops. Its
`OpenOK` gives for each table the captures whose rows it has (`Stored`): those committed, with the one being saved once the
loop for that table has run and not before. That one row is the least and greatest of a set of times is maintained by the rule that touches it,
so that the facts of a row are never enumerated.

`InvestigationDocument_proofs` proves, for every history of windows, deployments and runtimes that satisfies
`ComparisonAssumption`:

| Theorem | Says |
|---|---|
| `ConclusionsAreTrue` | `DocumentSpec => []ConclusionIsTrue` |
| `TimelinesAgree` | `DocumentSpec => []TimelineAgrees` |
| `RefusalsAreExplained` | `DocumentSpec => []RefusalIsExplained` |

`CInv` ties each thing a command has read to a state of the database it ran through. The reads of an investigation are all of its one
view. Those of a comparison are each of a state of its own; because the tables only grow and the deployments are read
last, the last of these states has the windows that the reads before it found (`ContaminationKnown`), and is
the one that bears the conclusion out. The limits of lists are counted: `Places` gives the elements of a finite, totally ordered
set the places from 1 to its size, from which what `Earliest` and `Nth` select follows (`FirstAre`). That every document composed
passes the validation but for the named reasons is proved rule by rule, from what composes it.

`Reads_proofs` proves, for every set of records, observations, edges, captures and queries, every limit and every clock that satisfy
`PagesAssumption`, `AssociationAssumption` and `GraphAssumption` (identifiers are keys of their tables, times are integers, a
window begins before it ends, a limit is positive, an edge joins services or other nodes and lasts; `None` is none of the values it stands in for):

| Theorem | Says |
|---|---|
| `GraphIsWhole` | `ReadsSpec => []SnapshotIsWhole` |
| `GraphIsSound` | `ReadsSpec => []ResultIsSound` |
| `ListingIsComplete` | `ReadsSpec => []PagesComplete` |
| `AssociationIsSound` | `ReadsSpec => []ConclusionIsSound` |

*The graph.* What `SnapshotIsWhole` and `ResultIsConnected` compare the result with is reachability, a recursive function of the
number of steps; `Reach` names it, and `ReachIs` gives its first value and its next. Neither property says anything about a traversal
that has not ended. `GraphInv` says what holds after each level: through a snapshot and uncut, the nodes are those within `depth` steps, the edges selected
are all that leave what was expanded (`WholeOK`); cut or read level by level from the store, each node is within `depth` steps by
the edges selected (`ConnectedOK`), and if there are none, some state of the database had none for these roots (`AbsenceOK`). A traversal may end early only with an
empty frontier, after which reachability no longer grows (`ReachEnds`). The limit on edges is kept as a sum, what is selected with what
`remaining` allows.

*The pages.* `Less` is a strict total order of keys (`KeysInOrder`), and no two rows of a listing have one key, because no two share kind, time and
identifier (`KeysDiffer`). A page has the first rows after its cursor in that order (`PageOK`), which is what sorting
and cutting give (`PageIs`). `PagesInv` says what that is worth over several pages: what was delivered is in order and not after the cursor
(`DeliveredOK`), and every row of the first page's state is delivered or after the cursor (`ShownOK`), which needs that the window is the same on every
page: the cursor carries it (`AskedOK`).

*The associations.* The confirmation window of a deployment is characterised by the instants in it (`EndsAt`), so the candidates loaded for a page, cut down to
a deployment's window, are exactly the containers seen after it and before the next deployment (`CandidatesAre`), provided that not more were found
than the page may hold. `AttachOK` carries what the first read found of each row (its successor, whether another one started with it) to the second, between which
anything may be committed.

Every invariant and every action property of a passing run is thus a theorem. Model-checked only is liveness
(`CallsReturn`, `CallsEnd`), for which the prover has neither fairness nor `ENABLED`.

Induction over data is available only in part: the induction theorems of the library take an operator as a parameter, which no
installed prover instantiates. Where an argument over all numbers or all finite sets is needed, the proofs take the least
counterexample instead (`FiniteMinimum`, `LeastExists`, `WFMin`). No module has a RECURSIVE operator.

## 6. Not modelled, and why

Parsing and validation of inputs (references, JSONL, OTLP attributes, flags, the schema of a document),
rendering and exit codes, redaction, logging, configuration, random identifiers:
stateless, and better tested than modelled. Floating-point arithmetic of
error rates. HTTP, JSON, ZIP and the I/O of the commands of Git and Docker: only what becomes of them is modelled. The pages of the runtime
and endpoint listings, which go by `OFFSET` and promise nothing while rows are saved. `PROJECT.json` gives the reason
for each part.

## 7. Plan

Done: the runtime inventory with its queries and its refresh, the ledger, telemetry, migrations and the MCP server's readers, the
decoder; the sources (Docker, Git, GitHub, files) and the transactions; the graph, the pages with their windows, association; the comparison with
its document; the publication of packages as an implementation of an abstract path. Left, most important first:

1. An abstract store of facts that `RuntimeInventory` and `TelemetryIngestion` implement.
2. The pages of the runtime and endpoint listings.
3. The endpoints and counts of telemetry.
