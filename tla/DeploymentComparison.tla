------------------------- MODULE DeploymentComparison -------------------------
(***************************************************************************)
(* What prodmap baseline, prodmap regression and an investigation conclude *)
(* from exact telemetry windows: the reads of internal/sqlite/baseline.go  *)
(* and comparison.go, baseline.Evaluate, regression.Evaluate and Classify, *)
(* and the graph and timeline an investigation adds, while captures,       *)
(* deployments and containers are committed and time passes.               *)
(*                                                                         *)
(* All rows are of one environment.  Values are integers: the one rounding *)
(* of the code, two units in the last place below an error rate's          *)
(* threshold, is left out.  A stored coverage is "low" below the minimum   *)
(* asked for, "enough" or "unknown".  A window carries the kinds of what   *)
(* its capture saw the service call; limits of the graph are in            *)
(* GraphTraversal.                                                         *)
(***************************************************************************)
EXTENDS Integers, FiniteSets, Sequences

CONSTANTS Windows,      \* the rows of telemetry_windows that may be ingested
          Deployments,  \* the deployments that may be ingested
          Runtimes,     \* the rows of runtime_instances that may be saved
          Calls,        \* the commands that may be given
          MaxContaminating, TimelineLimit, \* MaxContaminatingDeployments, DefaultLimit
          LatencyMin, ErrorRateMin,        \* the least deltas of a candidate
          RelativePercent,                 \* and a latency's least relative one
          Latest,       \* the latest time (a bound)
          MaxCommits,   \* the most commits during a command (a bound)
          None

Metrics == {"request_count", "error_rate", "latency"}

\* The kinds of a stored dependency, and the statuses of a stored deployment.
Kinds == {"service", "database", "cache", "queue", "external_api", "other"}

Statuses == {"pending", "running", "succeeded", "failed", "cancelled", "rolled_back", "unknown"}

\* Why a window may be rejected.
RejectionReasons ==
  {"AMBIGUOUS_EXACT_WINDOW", "CONTAMINATED_BY_DEPLOYMENT", "INSUFFICIENT_SAMPLES",
   "INSUFFICIENT_COVERAGE", "FUTURE_EVIDENCE", "INVALID_WINDOW", "METRIC_UNAVAILABLE"}

\* The states Docker tells of a container.
ContainerStates == {"created", "running", "paused", "restarting", "removing", "exited", "dead"}

ASSUME ComparisonAssumption ==
  /\ IsFiniteSet(Windows) /\ IsFiniteSet(Deployments) /\ IsFiniteSet(Runtimes)
  /\ \A w, x \in Windows : w.id = x.id => w = x
  /\ \A w \in Windows :
       /\ w.start \in Int /\ w.end \in Int /\ w.start < w.end
       /\ w.count \in Nat /\ w.value \in Int /\ w.calls \subseteq Kinds
  /\ \A d, e \in Deployments : d.id = e.id => d = e
  /\ \A d \in Deployments : d.id \in Int /\ d.at \in Int /\ d.status \in Statuses
  /\ \A r, q \in Runtimes : r.id = q.id => r = q
  /\ \A r \in Runtimes : r.id \in Int /\ r.at \in Int /\ r.state \in ContainerStates
  /\ \A c \in Calls :
       /\ c.kind \in {"baseline", "regression", "investigation"} /\ c.metric \in Metrics
       /\ c.minSamples \in Int /\ c.at \in Int
       /\ c.before \in Nat \ {0} /\ c.after \in Nat \ {0}
       /\ (c.metric = "request_count") => (c.before = c.after)
  /\ {MaxContaminating, TimelineLimit, LatencyMin, ErrorRateMin, RelativePercent} \subseteq Nat
  /\ Latest \in Nat
  /\ None \notin Int \cup RejectionReasons \cup [delta : Int, of : Int]
  /\ None \notin [windows : SUBSET [row : Windows, observedAt : Int],
                 deployments : SUBSET Deployments, runtimes : SUBSET Runtimes]

VARIABLES db,     \* the windows, deployments and runtimes committed
          now,
          call,   \* the command
          view,   \* what its snapshot shows, None before its first read
          phase,  \* what it does next, or "done" or "failed"
          got,    \* what it has read
          result, \* what it concluded, None before
          states  \* the states of the database during the call (history variable)
vars == <<db, now, call, view, phase, got, result, states>>

\* Anything may have been ingested before the command; nothing later than now.
Init ==
  /\ now \in 0..Latest
  /\ \E W \in SUBSET Windows, D \in SUBSET Deployments, R \in SUBSET Runtimes :
       db = [windows |-> {[row |-> w, observedAt |-> now] : w \in W},
             deployments |-> D, runtimes |-> R]
  /\ call = None
  /\ view = None
  /\ phase = "idle"
  /\ got = None
  /\ result = None
  /\ states = {}

-----------------------------------------------------------------------------
(* Other processes                                                         *)

Committed(rows) ==
  /\ phase \notin {"idle", "done", "failed"}
  /\ Cardinality(states) <= MaxCommits
  /\ db' = rows
  /\ states' = states \cup {rows}
  /\ UNCHANGED <<now, call, view, phase, got, result>>

\* A capture is observed when it is imported.
CaptureSaved ==
  \E w \in {x \in Windows : \A y \in db.windows : y.row # x} :
    Committed([db EXCEPT !.windows = @ \cup {[row |-> w, observedAt |-> now]}])

DeploymentSaved ==
  \E d \in Deployments \ db.deployments :
    Committed([db EXCEPT !.deployments = @ \cup {d}])

RuntimeSnapshotSaved ==
  \E r \in Runtimes \ db.runtimes : Committed([db EXCEPT !.runtimes = @ \cup {r}])

Tick ==
  /\ phase \notin {"idle", "done", "failed"}
  /\ now < Latest
  /\ now' = now + 1
  /\ UNCHANGED <<db, call, view, phase, got, result, states>>

-----------------------------------------------------------------------------
(* The reads                                                               *)

\* Wrong variant: an investigation reads its store as the other commands do.
FactsOfStore == db

\* An investigation reads one snapshot, fixed by its first read.
Facts == IF call.kind = "investigation" /\ view # None THEN view ELSE db

Read == view' = IF call.kind = "investigation" THEN Facts ELSE None

\* The windows of a target from start to end.
Exact(service, endpoint, start, end) ==
  {w \in Facts.windows :
     <<w.row.service, w.row.endpoint, w.row.start, w.row.end>> = <<service, endpoint, start, end>>}

\* Wrong variant: a deployment that starts with the window is not in it.
StartedAfter(service, start, end) ==
  {d \in Facts.deployments : d.service = service /\ start < d.at /\ d.at < end}

StartedIn(service, start, end) ==
  {d \in Facts.deployments : d.service = service /\ start <= d.at /\ d.at < end}

Selected == got.deployment

BeforeStart == Selected.at - call.before

AfterEnd == Selected.at + call.after

\* The first n by start and ID.
Earliest(S, n) ==
  {d \in S : Cardinality({e \in S : e.at < d.at \/ (e.at = d.at /\ e.id < d.id)}) < n}

-----------------------------------------------------------------------------
(* baseline.Evaluate                                                       *)

\* Why a window is not accepted; n windows are exact, from start to at.
rejectionReason(w, contaminated, generated, start, at, n) ==
  IF at > generated \/ start > generated \/ w.observedAt > generated THEN "FUTURE_EVIDENCE"
  ELSE IF contaminated THEN "CONTAMINATED_BY_DEPLOYMENT"
  ELSE IF call.metric # "request_count" /\ w.row.count = 0 THEN "METRIC_UNAVAILABLE"
  ELSE IF w.row.count < call.minSamples THEN "INSUFFICIENT_SAMPLES"
  ELSE IF w.row.coverage = "low" THEN "INSUFFICIENT_COVERAGE"
  ELSE IF n > 1 THEN "AMBIGUOUS_EXACT_WINDOW"
  ELSE None

Value(w) == IF call.metric = "request_count" THEN w.row.count ELSE w.row.value

\* Wrong variant: of several exact windows any good one is taken.
EvaluateAny(candidates, contaminated, generated, start, at) ==
  LET accepted == {w \in candidates :
                     rejectionReason(w, contaminated, generated, start, at, 1) = None}
  IN  IF accepted = {} THEN [status |-> "UNKNOWN", value |-> None, accepted |-> {}, rejected |-> {}]
      ELSE [status |-> "AVAILABLE", value |-> Value(CHOOSE w \in accepted : TRUE),
            accepted |-> accepted, rejected |-> {}]

\* The only exact window, if nothing is wrong with it; the others are rejected for a reason.
Evaluate(candidates, contaminated, generated, start, at) ==
  LET Reason(w) ==
        rejectionReason(w, contaminated, generated, start, at, Cardinality(candidates))
      rejected == {[window |-> w, reason |-> Reason(w)] : w \in {c \in candidates : Reason(c) # None}}
  IN  IF candidates # {} /\ rejected = {}
      THEN [status |-> "AVAILABLE", value |-> Value(CHOOSE w \in candidates : TRUE),
            accepted |-> candidates, rejected |-> {}]
      ELSE [status |-> "UNKNOWN", value |-> None, accepted |-> {}, rejected |-> rejected]

-----------------------------------------------------------------------------
(* regression.Evaluate and Classify                                        *)

\* Wrong variant: a deployment of the same instant is on neither side.
ContaminationOfSides(others) ==
  LET listed == Earliest(others, MaxContaminating)
  IN  [before |-> {d \in listed : d.at < Selected.at}, concurrent |-> {},
       after |-> {d \in listed : d.at > Selected.at}, truncated |-> listed # others]

\* The other deployments between the start and the end of the comparison, up to a limit.
Contamination(others) ==
  LET listed == Earliest(others, MaxContaminating)
  IN  [before |-> {d \in listed : d.at < Selected.at},
       concurrent |-> {d \in listed : d.at = Selected.at},
       after |-> {d \in listed : d.at > Selected.at},
       truncated |-> listed # others]

\* Wrong variant: both deltas need not be great.
ClassifyByAbsolute(before, after) ==
  IF call.metric = "request_count" THEN "UNKNOWN"
  ELSE IF after - before >= (IF call.metric = "latency" THEN LatencyMin ELSE ErrorRateMin)
       THEN "CANDIDATE" ELSE "NO_SIGNAL"

\* Of the values of an available comparison.
Classify(before, after) ==
  LET candidate == IF call.metric = "error_rate" THEN after - before >= ErrorRateMin
                   ELSE /\ after - before >= LatencyMin
                        /\ (after - before) * 100 >= RelativePercent * before
  IN  IF call.metric = "request_count" \/ (call.metric # "error_rate" /\ before = 0) THEN "UNKNOWN"
      ELSE IF candidate THEN "CANDIDATE" ELSE "NO_SIGNAL"

Compared(generated) ==
  LET c == got.contamination
      before == Evaluate(got.before, c.before # {}, generated, BeforeStart, Selected.at)
      after == Evaluate(got.after, c.after # {}, generated, Selected.at, AfterEnd)
      available == /\ before.status = "AVAILABLE" /\ after.status = "AVAILABLE"
                   /\ ~c.truncated /\ c.before \cup c.after \cup c.concurrent = {}
                   /\ AfterEnd <= generated
  IN  [status |-> IF available THEN "AVAILABLE" ELSE "UNKNOWN",
       before |-> before.value, after |-> after.value,
       delta |-> IF available THEN after.value - before.value ELSE None,
       relative |-> IF available /\ before.value # 0
                    THEN [delta |-> after.value - before.value, of |-> before.value] ELSE None,
       classification |-> IF available THEN Classify(before.value, after.value) ELSE "UNKNOWN",
       sides |-> <<before, after>>, generated |-> generated]

-----------------------------------------------------------------------------
(* The commands                                                            *)

Start ==
  /\ phase = "idle"
  /\ call' \in Calls
  /\ phase' = call'.kind
  /\ states' = {db}
  /\ got' = [started |-> now]
  /\ UNCHANGED <<db, now, view, result>>

\* One query finds the windows, and whether a deployment contaminates them.
Baseline ==
  /\ phase = "baseline"
  /\ LET start == call.at - call.before
     IN  result' = Evaluate(Exact(call.service, call.endpoint, start, call.at),
                            StartedIn(call.service, start, call.at) # {},
                            got.started, start, call.at)
  /\ phase' = "done"
  /\ UNCHANGED <<db, now, call, view, got, states>>

ResolveDeployment ==
  /\ phase \in {"regression", "investigation"}
  /\ Read
  /\ \E d \in Facts.deployments :
       /\ d.id = call.deployment
       /\ got' = [started |-> got.started, deployment |-> d]
  /\ phase' = "before"
  /\ UNCHANGED <<db, now, call, result, states>>

ReadBefore ==
  /\ phase = "before"
  /\ Read
  /\ got' = [f \in DOMAIN got \cup {"before"} |->
               IF f = "before" THEN Exact(Selected.service, None, BeforeStart, Selected.at)
               ELSE got[f]]
  /\ phase' = "after"
  /\ UNCHANGED <<db, now, call, result, states>>

ReadAfter ==
  /\ phase = "after"
  /\ Read
  /\ got' = [f \in DOMAIN got \cup {"after"} |->
               IF f = "after" THEN Exact(Selected.service, None, Selected.at, AfterEnd)
               ELSE got[f]]
  /\ phase' = "contamination"
  /\ UNCHANGED <<db, now, call, result, states>>

ReadContamination ==
  /\ phase = "contamination"
  /\ Read
  /\ LET others == StartedIn(Selected.service, BeforeStart, AfterEnd) \ {Selected}
     IN  got' = [f \in DOMAIN got \cup {"contamination"} |->
                   IF f = "contamination" THEN Contamination(others) ELSE got[f]]
  /\ phase' = "compare"
  /\ UNCHANGED <<db, now, call, result, states>>

\* An investigation is generated when it is started, prodmap regression after its reads.
Compare ==
  /\ phase = "compare"
  /\ result' = Compared(IF call.kind = "investigation" THEN got.started ELSE now)
  /\ phase' = IF call.kind = "investigation" THEN "graph" ELSE "done"
  /\ UNCHANGED <<db, now, call, view, got, states>>

\* result with one more field.
Adding(field, value) ==
  result' = [f \in DOMAIN result \cup {field} |-> IF f = field THEN value ELSE result[f]]

\* What the service was seen to call in a window around its deployment.
ReadGraph ==
  /\ phase = "graph"
  /\ Read
  /\ LET around == {w \in Facts.windows :
                      /\ w.row.service = Selected.service /\ w.row.endpoint = None
                      /\ w.row.start <= Selected.at /\ Selected.at < w.row.end}
     IN  Adding("edges", UNION {{[window |-> w.row.id, kind |-> k] : k \in w.row.calls} : w \in around})
  /\ phase' = "timeline"
  /\ UNCHANGED <<db, now, call, got, states>>

Event(type, row) == [type |-> type, row |-> row]

EventPriority(e) ==
  IF e.type = "runtime" THEN 30 ELSE IF e.row.status = "rolled_back" THEN 10 ELSE 20

\* Wrong variant: what happened at one instant is shown in the order of the IDs.
EarlierByID(d, e) == d.row.at > e.row.at \/ (d.row.at = e.row.at /\ d.row.id < e.row.id)

\* The latest first, of one instant by priority and ID.
Earlier(d, e) ==
  \/ d.row.at > e.row.at
  \/ d.row.at = e.row.at /\ EventPriority(d) < EventPriority(e)
  \/ d.row.at = e.row.at /\ EventPriority(d) = EventPriority(e) /\ d.row.id < e.row.id

\* The one of the events that n - 1 others come before.
Nth(events, n) == CHOOSE e \in events : Cardinality({d \in events : Earlier(d, e)}) = n - 1

ReadTimeline ==
  /\ phase = "timeline"
  /\ Read
  /\ LET events == {Event("deployment", d) : d \in StartedIn(Selected.service, BeforeStart, AfterEnd)}
                     \cup {Event("runtime", r) :
                             r \in {x \in Facts.runtimes :
                                      /\ x.service = Selected.service
                                      /\ BeforeStart <= x.at /\ x.at < AfterEnd}}
     IN  Adding("timeline", [n \in {m \in 1..Cardinality(events) : m <= TimelineLimit} |->
                               Nth(events, n)])
  /\ phase' = "done"
  /\ UNCHANGED <<db, now, call, got, states>>

\* No such deployment, a failed query, or the end of the context.
Fail ==
  /\ phase \notin {"idle", "done", "failed"}
  /\ phase' = "failed"
  /\ UNCHANGED <<db, now, call, view, got, result, states>>

Next ==
  \/ CaptureSaved
  \/ DeploymentSaved
  \/ RuntimeSnapshotSaved
  \/ Tick
  \/ Start
  \/ Baseline
  \/ ResolveDeployment
  \/ ReadBefore
  \/ ReadAfter
  \/ ReadContamination
  \/ Compare
  \/ ReadGraph
  \/ ReadTimeline
  \/ Fail

Spec == Init /\ [][Next]_vars

-----------------------------------------------------------------------------
(* Properties                                                              *)

\* An available baseline is the value of the one window of its target that ends when
\* asked for, in which nothing was deployed and of which enough was seen.
BaselineIsClean ==
  (phase = "done" /\ call.kind = "baseline" /\ result.status = "AVAILABLE") =>
    \E s \in states : \E w \in s.windows :
      /\ {x \in s.windows : /\ x.row.service = call.service /\ x.row.endpoint = call.endpoint
                            /\ x.row.start = call.at - call.before /\ x.row.end = call.at} = {w}
      /\ result.value = Value(w)
      /\ w.row.count >= call.minSamples /\ w.row.coverage # "low"
      /\ w.observedAt <= got.started
      /\ \A d \in s.deployments :
           (d.service = call.service) => (d.at \notin (call.at - call.before)..(call.at - 1))

\* The windows of the compared service from one time to another.
ServiceWindows(s, from, to) ==
  {w \in s.windows : /\ w.row.service = Selected.service /\ w.row.endpoint = None
                     /\ w.row.start = from /\ w.row.end = to}

\* The signal in two windows, by the thresholds.
Signal(b, a) ==
  LET delta == Value(a) - Value(b)
      great == IF call.metric = "error_rate" THEN delta >= ErrorRateMin
               ELSE /\ delta >= LatencyMin
                    /\ 100 * Value(a) >= (100 + RelativePercent) * Value(b)
  IN  IF call.metric = "request_count" \/ (call.metric = "latency" /\ Value(b) = 0)
      THEN "UNKNOWN" ELSE IF great THEN "CANDIDATE" ELSE "NO_SIGNAL"

\* In s, the windows b and a differ as the result says, and no other deployment explains it.
Explains(s, b, a) ==
  /\ result.before = Value(b) /\ result.after = Value(a)
  /\ result.classification = Signal(b, a)
  /\ \A w \in {a, b} : w.row.count >= call.minSamples /\ w.observedAt <= result.generated
  /\ \A d \in s.deployments :
       (d.service = Selected.service /\ d # Selected) => (d.at \notin BeforeStart..(AfterEnd - 1))

\* However it was read, an available comparison is of windows that were stored together, at a
\* time when no other deployment of the service was known between their ends, and that have
\* both passed; its signal is theirs.  An investigation compares the only two such windows.
ComparedTogether ==
  (phase = "done" /\ call.kind # "baseline" /\ result.status = "AVAILABLE") =>
    /\ AfterEnd <= result.generated
    /\ \E s \in states :
         LET before == ServiceWindows(s, BeforeStart, Selected.at)
             after  == ServiceWindows(s, Selected.at, AfterEnd)
         IN  \E b \in before, a \in after :
               /\ Explains(s, b, a)
               /\ (call.kind = "investigation") => (before = {b} /\ after = {a})

\* What a command concludes was true of one state of the database while it ran.
ConclusionIsTrue == BaselineIsClean /\ ComparedTogether

\* The timeline of an investigation has the deployments its comparison was told of and no
\* others, unless one of them had too many; an available comparison was told of none.
TimelineAgrees ==
  (phase = "done" /\ call.kind = "investigation") =>
    LET c == got.contamination
        told == c.before \cup c.concurrent \cup c.after \cup {Selected}
        events == {result.timeline[n] : n \in DOMAIN result.timeline}
        shown == {e.row : e \in {f \in events : f.type = "deployment"}}
    IN  /\ (result.status = "AVAILABLE") => (told = {Selected})
        /\ \/ shown = told
           \/ c.truncated /\ Cardinality(told) = MaxContaminating + 1
           \/ Cardinality(events) = TimelineLimit /\ shown \subseteq told
===============================================================================
