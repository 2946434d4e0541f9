------------------------- MODULE InvestigationDocument -------------------------
(***************************************************************************)
(* What an investigation answers.  prodmap investigate, package create and *)
(* the MCP server turn what DeploymentComparison composed into one         *)
(* document, and refuse to show it unless it passes the validation that    *)
(* prodmap package verify applies to a document of unknown origin          *)
(* (internal/investigationpackage/package.go).                             *)
(*                                                                         *)
(* The validation reads the document alone: it orders the events, looks up *)
(* their kinds, recomputes the deltas, the classification and the          *)
(* references by rules of its own.  Keys, the shape of identifiers and the *)
(* redaction of texts are left out, and so are the fields that no rule     *)
(* compares with another.                                                  *)
(***************************************************************************)
EXTENDS DeploymentComparison

VARIABLE answer  \* "shown" or "refused", None before
documentVars == <<vars, answer>>

DocumentInit == Init /\ answer = None

-----------------------------------------------------------------------------
(* Compose and documentFrom                                                *)

Ids(S) == {w.row.id : w \in S}

RejectedIds(side) == Ids({x.window : x \in side.rejected})

DeploymentKind ==
  [pending |-> "deployment_pending", running |-> "deployment_running",
   succeeded |-> "deployment_succeeded", failed |-> "deployment_failed",
   cancelled |-> "deployment_cancelled", rolled_back |-> "rollback_declared",
   unknown |-> "deployment_unknown"]

\* There is one kind of a runtime.
KindOf(e) == IF e.type = "runtime" THEN "runtime_observed" ELSE DeploymentKind[e.row.status]

EventId(e) == <<e.type, e.row.id>>

\* Wrong variant: what was rejected before the deployment is not referred to.
ReferencesAfter(r, events) ==
  [accepted |-> UNION {Ids(r.sides[n].accepted) : n \in 1..2},
   rejected |-> RejectedIds(r.sides[2]),
   graph    |-> {e.window : e \in r.edges},
   timeline |-> {EventId(events[n]) : n \in DOMAIN events}]

\* The evidence an edge refers to is its capture's.
evidenceReferences(r, events) ==
  [accepted |-> UNION {Ids(r.sides[n].accepted) : n \in 1..2},
   rejected |-> UNION {RejectedIds(r.sides[n]) : n \in 1..2},
   graph    |-> {e.window : e \in r.edges},
   timeline |-> {EventId(events[n]) : n \in DOMAIN events}]

documentFrom(r) ==
  [deployment |-> Selected, metric |-> call.metric, status |-> r.status, sides |-> r.sides,
   delta |-> r.delta, relative |-> r.relative, contamination |-> got.contamination,
   classification |-> r.classification, edges |-> r.edges,
   since |-> BeforeStart, until |-> AfterEnd,
   events |-> [n \in DOMAIN r.timeline |->
                 [id |-> EventId(r.timeline[n]), time |-> r.timeline[n].row.at,
                  service |-> r.timeline[n].row.service, kind |-> KindOf(r.timeline[n]),
                  state |-> IF r.timeline[n].type = "runtime" THEN r.timeline[n].row.state ELSE None]],
   references |-> evidenceReferences(r, r.timeline)]

-----------------------------------------------------------------------------
(* validateDocument                                                        *)

Reasons ==
  {"AMBIGUOUS_EXACT_WINDOW", "CONTAMINATED_BY_DEPLOYMENT", "INSUFFICIENT_SAMPLES",
   "INSUFFICIENT_COVERAGE", "FUTURE_EVIDENCE", "INVALID_WINDOW", "METRIC_UNAVAILABLE"}

\* Every window shown lies within its side, and is rejected for a known reason.
sideFromDocument(side, start, end) ==
  /\ \A w \in side.accepted \cup {x.window : x \in side.rejected} :
       start <= w.row.start /\ w.row.end <= end
  /\ \A x \in side.rejected : x.reason \in Reasons

\* An available comparison has both values and nothing against it, and its deltas are theirs.
\* Unless the metric is a rate or a count the relative delta must be there.
regressionFromDocument(d) ==
  LET before == d.sides[1].value
      after  == d.sides[2].value
      others == d.contamination.before \cup d.contamination.concurrent \cup d.contamination.after
  IN  /\ sideFromDocument(d.sides[1], d.since, d.deployment.at)
      /\ sideFromDocument(d.sides[2], d.deployment.at, d.until)
      /\ (d.status = "AVAILABLE") =>
           /\ d.sides[1].status = "AVAILABLE" /\ d.sides[2].status = "AVAILABLE"
           /\ d.delta # None
           /\ (d.metric = "latency") => (d.relative # None)
           /\ ~d.contamination.truncated /\ others = {}
           /\ d.delta = after - before
           /\ (d.relative # None /\ before # 0) =>
                (d.relative.delta * before = d.delta * d.relative.of)

\* The classification is computed again from what the document shows.
sameClassification(d) ==
  d.classification =
    IF d.status = "AVAILABLE" THEN Classify(d.sides[1].value, d.sides[2].value) ELSE "UNKNOWN"

validateTopology(d) ==
  \A e \in d.edges : e.kind \in {"service", "database", "queue", "external_api"}

validTimelineKind(kind) ==
  kind \in {"deployment_pending", "deployment_running", "deployment_succeeded",
            "deployment_failed", "deployment_cancelled", "rollback_declared", "runtime_observed"}

validRuntimeState(state) ==
  state \in {"running", "exited", "created", "paused", "restarting", "dead"}

\* timeline.Priority of a kind.
KindPriority(kind) ==
  IF kind = "rollback_declared" THEN 10 ELSE IF kind = "runtime_observed" THEN 30 ELSE 20

\* Only events of one kind have one priority; those of a kind are ordered by their IDs.
timelineOrdered(l, r) ==
  \/ l.time > r.time
  \/ l.time = r.time /\ KindPriority(l.kind) < KindPriority(r.kind)
  \/ l.time = r.time /\ KindPriority(l.kind) = KindPriority(r.kind) /\ l.id[2] <= r.id[2]

validateTimeline(d) ==
  /\ \A n \in DOMAIN d.events :
       LET e == d.events[n]
       IN  /\ d.since <= e.time /\ e.time < d.until /\ e.service = d.deployment.service
           /\ validTimelineKind(e.kind)
           /\ (e.kind = "runtime_observed") => validRuntimeState(e.state)
  /\ \A n, m \in DOMAIN d.events : d.events[n].id = d.events[m].id => n = m
  /\ \A n \in DOMAIN d.events \ {1} : timelineOrdered(d.events[n - 1], d.events[n])

validateEvidenceReferences(d) ==
  /\ d.references.accepted = Ids(d.sides[1].accepted) \cup Ids(d.sides[2].accepted)
  /\ d.references.rejected = RejectedIds(d.sides[1]) \cup RejectedIds(d.sides[2])
  /\ d.references.graph = {e.window : e \in d.edges}
  /\ d.references.timeline = {d.events[n].id : n \in DOMAIN d.events}

validateDocument(d) ==
  /\ regressionFromDocument(d)
  /\ sameClassification(d)
  /\ validateTopology(d)
  /\ validateTimeline(d)
  /\ validateEvidenceReferences(d)

-----------------------------------------------------------------------------
\* OutputFrom
Answer ==
  /\ phase = "done" /\ call.kind = "investigation" /\ answer = None
  /\ answer' = IF validateDocument(documentFrom(result)) THEN "shown" ELSE "refused"
  /\ UNCHANGED vars

DocumentNext == (Next /\ UNCHANGED answer) \/ Answer

DocumentSpec == DocumentInit /\ [][DocumentNext]_documentVars

-----------------------------------------------------------------------------
(* Properties                                                              *)

\* The comparison has no relative delta, though both of its values are known.
LacksDelta == result.status = "AVAILABLE" /\ call.metric = "latency" /\ result.before = 0

\* Dependencies and events of kinds the store accepts and no document may show.
UnknownToDocuments ==
  \/ \E w \in view.windows :
       /\ w.row.service = Selected.service /\ w.row.endpoint = None
       /\ Selected.at \in w.row.start..(w.row.end - 1)
       /\ w.row.calls \cap {"cache", "other"} # {}
  \/ \E n \in DOMAIN result.timeline :
       LET e == result.timeline[n]
       IN  IF e.type = "deployment" THEN e.row.status = "unknown" ELSE e.row.state = "removing"

\* The rules that compose an investigation and those that validate its document agree: one is
\* refused only because of what no document may show.
RefusalIsExplained ==
  (answer # None) => ((answer = "refused") <=> (LacksDelta \/ UnknownToDocuments))

\* As ADR-027 says, a comparison that lacks the delta its metric requires is answered as
\* UNKNOWN.
MissingDeltaIsUnknown ==
  (answer # None /\ LacksDelta /\ ~UnknownToDocuments) =>
    (answer = "shown" /\ result.classification = "UNKNOWN")
================================================================================
