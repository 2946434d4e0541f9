-------------------------- MODULE TelemetryIngestion --------------------------
(***************************************************************************)
(* SaveTelemetry of internal/sqlite/telemetry.go: a validated capture of   *)
(* one source, environment and window is written in one immediate          *)
(* transaction: its ingestion, the services, endpoints and dependencies it *)
(* names, the evidence, the observed dependencies and the aggregates.  The *)
(* runtime inventory writes the same services by a rule of its own.        *)
(*                                                                         *)
(* Captures of any windows arrive in any order and any number of times; a  *)
(* cancellation, a driver error or a crash may come at any point.          *)
(*                                                                         *)
(* Names are integers in their textual order.  Counts, durations and the   *)
(* route of an endpoint, which its operation determines, are left out.     *)
(***************************************************************************)
EXTENDS Integers, FiniteSets

CONSTANTS Sources,      \* source keys: digests of paths
          Environments,
          Times,
          Hashes,       \* digests of captured files
          Services,     \* logical keys of services
          Operations,   \* protocol and operation of an endpoint
          Dependencies, \* records with kind and key, the logical key
          Names,        \* display names
          Fingerprints, \* of evidence
          RuntimeName,  \* the name the runtime inventory gives a service
          Captures,     \* the captures that may be saved
          RuntimeFacts, \* the service, environment and instant of runtime snapshots
          None          \* NULL, no such row, or no transaction

Edges ==
  [from : Services, origin : Operations \cup {None}, dependency : Dependencies,
   target : Services \cup {None}, evidence : SUBSET Fingerprints]

\* services and dependencies give each key its display name; an endpoint is a
\* pair of a service and an operation.  A file, its window and environment
\* determine a capture: only the time of its import may differ.
ASSUME TelemetryAssumption ==
  /\ Times \subseteq Int /\ IsFiniteSet(Times)
  /\ Names \subseteq Int /\ IsFiniteSet(Names)
  /\ RuntimeName \in [Services -> Names]
  /\ \A d \in Dependencies : d = [kind |-> d.kind, key |-> d.key]
  /\ IsFiniteSet(Captures) /\ IsFiniteSet(RuntimeFacts)
  /\ RuntimeFacts \subseteq [environment : Environments, service : Services, at : Times]
  /\ None \notin Captures /\ None \notin Operations /\ None \notin Services
  /\ \A c \in Captures :
       /\ c.source \in Sources /\ c.hash \in Hashes /\ c.environment \in Environments
       /\ c.start \in Times /\ c.end \in Times /\ c.observedAt \in Times
       /\ \E S \in SUBSET Services : c.services \in [S -> Names]
       /\ \E D \in SUBSET Dependencies : c.dependencies \in [D -> Names]
       /\ c.endpoints \subseteq Services \X Operations
       /\ c.evidence \subseteq Fingerprints
       /\ c.aggregates \subseteq Services \X (Operations \cup {None})
       /\ c.edges \subseteq Edges
  /\ \A c, d \in Captures :
       /\ c.source = d.source /\ c.environment = d.environment
       /\ c.start = d.start /\ c.end = d.end /\ c.hash = d.hash
       => c = [d EXCEPT !.observedAt = c.observedAt]

VARIABLES db,        \* the tables as the open transaction sees them
          committed, \* the tables as of the last commit
          saving,    \* the capture being saved, None without a transaction
          step,      \* the next step of the transaction
          reply,     \* how the last call ended
          history    \* what has been committed (history variable)
vars == <<db, committed, saving, step, reply, history>>

-----------------------------------------------------------------------------
(* The tables: functions on the keys of their rows, and sets of the rows   *)
(* that belong to an ingestion                                             *)

NoRows == [k \in {} |-> None]

Empty ==
  [sources |-> NoRows, ingestions |-> NoRows, services |-> NoRows, endpoints |-> NoRows,
   dependencies |-> NoRows, evidence |-> {}, observations |-> {}, windows |-> {}]

IngestionKey(c) == <<c.source, c.environment, c.start, c.end>>

\* ensureSource, of which every telemetry sync is a success.
EnsureSource(rows, source, at) ==
  [k \in DOMAIN rows \cup {source} |->
     IF k = source /\ (k \notin DOMAIN rows \/ rows[k] < at) THEN at ELSE rows[k]]

Least(a, b) == IF a <= b THEN a ELSE b

Greatest(a, b) == IF a <= b THEN b ELSE a

\* Wrong variant: a late window does not reach back.
SeenForward(row, at) == [row EXCEPT !.last = Greatest(@, at)]

\* first_seen_at and last_seen_at of an existing row.
Seen(row, at) == [row EXCEPT !.first = Least(@, at), !.last = Greatest(@, at)]

\* Wrong variant: the last capture saved gives the name.
NameOfLastSaved(row, name, at) == name

\* The CASE of telemetry.go: a later window, or the lesser of two names of one.
Name(row, name, at) ==
  IF row.last < at \/ (row.last = at /\ name < row.name) THEN name ELSE row.name

\* ensureTelemetryService and ensureTelemetryDependency, for all the names.
EnsureNamed(rows, names, at) ==
  [k \in DOMAIN rows \cup DOMAIN names |->
     IF k \notin DOMAIN names THEN rows[k]
     ELSE IF k \notin DOMAIN rows THEN [first |-> at, last |-> at, name |-> names[k]]
     ELSE [Seen(rows[k], at) EXCEPT !.name = Name(rows[k], names[k], at)]]

EnsureSeen(rows, keys, at) ==
  [k \in DOMAIN rows \cup keys |->
     IF k \notin keys THEN rows[k]
     ELSE IF k \notin DOMAIN rows THEN [first |-> at, last |-> at]
     ELSE Seen(rows[k], at)]

\* The names of a capture, keyed as the tables are.
Keyed(environment, names) ==
  [k \in {environment} \X (DOMAIN names) |-> names[k[2]]]

Init ==
  /\ db = Empty
  /\ committed = Empty
  /\ saving = None
  /\ step = "begin"
  /\ reply = None
  /\ history = [captures |-> {}, runtime |-> {}]

-----------------------------------------------------------------------------
(* The runtime inventory                                                   *)

\* ensureService of inventory.go: on a tie the later writer gives the name.
RuntimeService(rows, fact) ==
  LET key == <<fact.environment, fact.service>>
      name == RuntimeName[fact.service]
  IN  [k \in DOMAIN rows \cup {key} |->
         IF k # key THEN rows[k]
         ELSE IF k \notin DOMAIN rows THEN [first |-> fact.at, last |-> fact.at, name |-> name]
         ELSE [Seen(rows[k], fact.at) EXCEPT !.name = IF rows[k].last <= fact.at THEN name ELSE @]]

RuntimeSnapshotSaved ==
  /\ saving = None
  /\ \E fact \in RuntimeFacts :
       /\ committed' = [committed EXCEPT !.services = RuntimeService(@, fact)]
       /\ history' = [history EXCEPT !.runtime = @ \cup {fact}]
  /\ db' = committed'
  /\ UNCHANGED <<saving, step, reply>>

-----------------------------------------------------------------------------
(* The capture is checked before a transaction is begun                    *)

\* An endpoint named by a capture, None for a whole service.
KnownEndpoint(c, service, operation) ==
  /\ service \in DOMAIN c.services
  /\ operation # None => <<service, operation>> \in c.endpoints

\* Wrong variant: any service may be the target of a dependency.
ValidTargetOfAny(c, edge) == TRUE

ValidTarget(c, edge) ==
  edge.target # None =>
    /\ edge.dependency.kind = "service" /\ edge.dependency.key = edge.target
    /\ edge.target \in DOMAIN c.services

Distinct(edges) ==
  \A e, f \in edges :
    <<e.from, e.origin, e.dependency>> = <<f.from, f.origin, f.dependency>> => e = f

validateTelemetrySnapshot(c) ==
  /\ c.start < c.end
  /\ \A e \in c.endpoints : e[1] \in DOMAIN c.services
  /\ \A e \in c.edges :
       /\ KnownEndpoint(c, e.from, e.origin)
       /\ e.dependency \in DOMAIN c.dependencies
       /\ ValidTarget(c, e)
       /\ e.evidence # {} /\ e.evidence \subseteq c.evidence
  /\ Distinct(c.edges)
  /\ \A a \in c.aggregates : KnownEndpoint(c, a[1], a[2])

RejectInvalid ==
  /\ saving = None
  /\ \E c \in Captures : ~validateTelemetrySnapshot(c)
  /\ reply' = "invalid"
  /\ UNCHANGED <<db, committed, saving, step, history>>

-----------------------------------------------------------------------------
(* One call of SaveTelemetry                                               *)

Known(c) == IngestionKey(c) \in DOMAIN db.ingestions

\* Wrong variant: whatever is stored of the window is a replay.
ConflictUnchecked(c) == FALSE

Conflict(c) == Known(c) /\ db.ingestions[IngestionKey(c)] # c.hash

\* Wrong variant: the source is synchronised before the replay is noticed.
BeginSourceFirst ==
  /\ saving = None
  /\ \E c \in Captures :
       /\ validateTelemetrySnapshot(c)
       /\ saving' = c
       /\ IF Conflict(c)
          THEN step' = "conflict" /\ UNCHANGED db
          ELSE /\ step' = IF Known(c) THEN "commit" ELSE "services"
               /\ db' = [db EXCEPT !.sources = EnsureSource(@, c.source, c.observedAt),
                                   !.ingestions = [k \in DOMAIN @ \cup {IngestionKey(c)} |->
                                      IF k = IngestionKey(c) THEN c.hash ELSE @[k]]]
  /\ UNCHANGED <<committed, reply, history>>

\* A window already there is a replay or a conflict; otherwise the source and
\* the ingestion are written.
Begin ==
  /\ saving = None
  /\ \E c \in Captures :
       /\ validateTelemetrySnapshot(c)
       /\ saving' = c
       /\ \/ Conflict(c) /\ step' = "conflict" /\ UNCHANGED db
          \/ Known(c) /\ ~Conflict(c) /\ step' = "commit" /\ UNCHANGED db
          \/ /\ ~Known(c)
             /\ step' = "services"
             /\ db' = [db EXCEPT !.sources = EnsureSource(@, c.source, c.observedAt),
                                 !.ingestions = [k \in DOMAIN @ \cup {IngestionKey(c)} |->
                                    IF k = IngestionKey(c) THEN c.hash ELSE @[k]]]
  /\ UNCHANGED <<committed, reply, history>>

Step(from, to) ==
  /\ saving # None
  /\ step = from
  /\ step' = to
  /\ UNCHANGED <<committed, saving, reply, history>>

SaveServices ==
  /\ Step("services", "endpoints")
  /\ db' = [db EXCEPT !.services =
              EnsureNamed(@, Keyed(saving.environment, saving.services), saving.end)]

\* Endpoints belong to a service, and so to an environment.
SaveEndpoints ==
  /\ Step("endpoints", "dependencies")
  /\ db' = [db EXCEPT !.endpoints =
              EnsureSeen(@, {saving.environment} \X saving.endpoints, saving.end)]

SaveDependencies ==
  /\ Step("dependencies", "evidence")
  /\ db' = [db EXCEPT !.dependencies =
              EnsureNamed(@, Keyed(saving.environment, saving.dependencies), saving.end)]

Rows(c, values) == {IngestionKey(c)} \X values

SaveEvidence ==
  /\ Step("evidence", "observations")
  /\ db' = [db EXCEPT !.evidence = @ \cup Rows(saving, saving.evidence)]

SaveObservations ==
  /\ Step("observations", "windows")
  /\ db' = [db EXCEPT !.observations = @ \cup Rows(saving, saving.edges)]

SaveWindows ==
  /\ Step("windows", "commit")
  /\ db' = [db EXCEPT !.windows = @ \cup Rows(saving, saving.aggregates)]

Ended(result) ==
  /\ saving' = None
  /\ step' = "begin"
  /\ reply' = result

\* A replay commits too, and has written nothing.
Commit ==
  /\ saving # None /\ step = "commit"
  /\ committed' = db
  /\ history' = IF IngestionKey(saving) \in DOMAIN committed.ingestions THEN history
                ELSE [history EXCEPT !.captures = @ \cup {saving}]
  /\ Ended("saved")
  /\ UNCHANGED db

RejectConflict ==
  /\ saving # None /\ step = "conflict"
  /\ Ended("conflict")
  /\ UNCHANGED <<db, committed, history>>

\* Wrong variant: what a failed call has written stays.
AbortKeeping ==
  /\ saving # None
  /\ committed' = db
  /\ Ended("failed")
  /\ UNCHANGED <<db, history>>

\* Another error, a cancellation, or a crash; SQLite drops the transaction.
Abort ==
  /\ saving # None
  /\ db' = committed
  /\ Ended("failed")
  /\ UNCHANGED <<committed, history>>

Next ==
  \/ RuntimeSnapshotSaved
  \/ RejectInvalid
  \/ Begin
  \/ SaveServices
  \/ SaveEndpoints
  \/ SaveDependencies
  \/ SaveEvidence
  \/ SaveObservations
  \/ SaveWindows
  \/ Commit
  \/ RejectConflict
  \/ Abort

Spec == Init /\ [][Next]_vars

-----------------------------------------------------------------------------
(* Properties                                                              *)

SeenRow == [first : Times, last : Times]

NamedRow == [first : Times, last : Times, name : Names]

\* The rows have their types, and every row refers to rows that exist: an edge to
\* a service names the service of its dependency, and no two edges of a capture
\* are of one endpoint and one dependency.
TablesOK(d) ==
  /\ DOMAIN d.sources \subseteq Sources /\ \A k \in DOMAIN d.sources : d.sources[k] \in Times
  /\ \A k \in DOMAIN d.ingestions : k[1] \in DOMAIN d.sources /\ d.ingestions[k] \in Hashes
  /\ \A k \in DOMAIN d.services : k \in Environments \X Services /\ d.services[k] \in NamedRow
  /\ \A k \in DOMAIN d.dependencies :
       k \in Environments \X Dependencies /\ d.dependencies[k] \in NamedRow
  /\ \A k \in DOMAIN d.endpoints :
       <<k[1], k[2][1]>> \in DOMAIN d.services /\ d.endpoints[k] \in SeenRow
  /\ \A r \in d.evidence : r[1] \in DOMAIN d.ingestions
  /\ \A r \in d.windows :
       /\ r[1] \in DOMAIN d.ingestions
       /\ <<r[1][2], r[2][1]>> \in DOMAIN d.services
       /\ r[2][2] # None => <<r[1][2], r[2]>> \in DOMAIN d.endpoints
  /\ \A r \in d.observations :
       /\ r[1] \in DOMAIN d.ingestions
       /\ <<r[1][2], r[2].from>> \in DOMAIN d.services
       /\ <<r[1][2], r[2].dependency>> \in DOMAIN d.dependencies
       /\ r[2].origin # None => <<r[1][2], <<r[2].from, r[2].origin>>>> \in DOMAIN d.endpoints
       /\ r[2].target # None =>
            /\ r[2].dependency = [kind |-> "service", key |-> r[2].target]
            /\ <<r[1][2], r[2].target>> \in DOMAIN d.services
       /\ \A f \in r[2].evidence : <<r[1], f>> \in d.evidence
       /\ \A q \in d.observations : r[1] = q[1] => Distinct({r[2], q[2]})

TypeOK ==
  /\ TablesOK(db) /\ TablesOK(committed)
  /\ saving \in Captures \cup {None}
  /\ history.captures \subseteq Captures /\ history.runtime \subseteq RuntimeFacts

\* The captures committed are the ingestions, with their hashes, and each has all
\* of its evidence, observations and aggregates, and no others.
CapturesComplete ==
  /\ DOMAIN committed.ingestions = {IngestionKey(c) : c \in history.captures}
  /\ \A c \in history.captures : committed.ingestions[IngestionKey(c)] = c.hash
  /\ committed.evidence = UNION {Rows(c, c.evidence) : c \in history.captures}
  /\ committed.observations = UNION {Rows(c, c.edges) : c \in history.captures}
  /\ committed.windows = UNION {Rows(c, c.aggregates) : c \in history.captures}

\* What is stored is whole captures, whose rows refer to each other.
WholeCaptures == TypeOK /\ CapturesComplete

IsSpan(row, instants) ==
  /\ row.first \in instants /\ row.last \in instants
  /\ \A t \in instants : row.first <= t /\ t <= row.last

Naming(k, field) ==
  {c \in history.captures : c.environment = k[1] /\ k[2] \in DOMAIN c[field]}

Ends(captures) == {c.end : c \in captures}

RuntimeTimes(k) == {f.at : f \in {g \in history.runtime : <<g.environment, g.service>> = k}}

\* First and last seen are those of the earliest and the latest fact, in whatever
\* order captures and runtime snapshots arrived.
SeenExact ==
  /\ \A k \in DOMAIN committed.services :
       IsSpan(committed.services[k], Ends(Naming(k, "services")) \cup RuntimeTimes(k))
  /\ \A k \in DOMAIN committed.dependencies :
       IsSpan(committed.dependencies[k], Ends(Naming(k, "dependencies")))
  /\ \A k \in DOMAIN committed.endpoints :
       IsSpan(committed.endpoints[k],
              Ends({c \in history.captures : c.environment = k[1] /\ k[2] \in c.endpoints}))

\* The least of the names that the captures of window end at give k.
IsLeastName(name, captures, field, k) ==
  /\ \E c \in captures : c[field][k[2]] = name
  /\ \A c \in captures : name <= c[field][k[2]]

\* A name is that of the latest window, the least one if several end there,
\* whatever the order of arrival; a service has a name of its latest instant.
NamesFollowLatest ==
  /\ \A k \in DOMAIN committed.dependencies :
       LET row == committed.dependencies[k]
       IN  IsLeastName(row.name, {c \in Naming(k, "dependencies") : c.end = row.last},
                       "dependencies", k)
  /\ \A k \in DOMAIN committed.services :
       LET row == committed.services[k]
           latest == {c \in Naming(k, "services") : c.end = row.last}
       IN  IF row.last \in RuntimeTimes(k)
           THEN row.name = RuntimeName[k[2]] \/ \E c \in latest : c.services[k[2]] = row.name
           ELSE IsLeastName(row.name, latest, "services", k)

\* What is known of a service, an endpoint or a dependency follows from the set of facts
\* stored and not from the order in which they came.
RowsFollowFacts == SeenExact /\ NamesFollowLatest

\* Of an accepted window, the same content, be it imported at another time, is not a
\* conflict; other content is refused with one, unless the call fails; and neither
\* changes a table.
WindowStands ==
  [][(saving # None /\ saving' = None)
     => \A c \in history.captures :
          IngestionKey(c) = IngestionKey(saving) =>
            /\ reply' # (IF c.hash = saving.hash THEN "conflict" ELSE "saved")
            /\ committed' = committed]_vars
===============================================================================
