-------------------- MODULE InvestigationDocument_proofs --------------------
(***************************************************************************)
(* What is concluded was true.  The invariant CInv ties what a command has *)
(* read to states of the database that it ran through: an investigation's  *)
(* reads to its one view, those of a comparison each to a state of its     *)
(* own, the last of which has the windows of those before.  From it follow *)
(* that a conclusion was true of one state (ConclusionIsTrue), that the    *)
(* timeline and the contamination of an investigation agree                *)
(* (TimelineAgrees), and that every rule of the validation of documents    *)
(* but two is met by what composes them (RefusalIsExplained).              *)
(*                                                                         *)
(* The places of the elements of a finite set in a total order are counted *)
(* first: they say what Earliest and Nth select.                           *)
(***************************************************************************)
EXTENDS InvestigationDocument, FiniteSetTheorems, TLAPS

Rows ==
  [windows : SUBSET [row : Windows, observedAt : Int],
   deployments : SUBSET Deployments, runtimes : SUBSET Runtimes]

\* A comparison is at one of these steps, or done.
Comparing(steps) == phase \in steps \/ (phase = "done" /\ call.kind # "baseline")

\* A read of the command may have shown s: an investigation has one view.
Source(s) == s \in states /\ ((call.kind = "investigation") => (s = view))

\* The deployments of the compared service from the start to the end of the comparison.
DeploymentsOf(s) ==
  {d \in s.deployments : d.service = Selected.service /\ BeforeStart <= d.at /\ d.at < AfterEnd}

EdgesOf(s) ==
  UNION {{[window |-> w.row.id, kind |-> k] : k \in w.row.calls} :
           w \in {w \in s.windows :
                   /\ w.row.service = Selected.service /\ w.row.endpoint = None
                   /\ w.row.start <= Selected.at /\ Selected.at < w.row.end}}

EventsOf(s) ==
  {Event("deployment", d) : d \in DeploymentsOf(s)}
  \cup {Event("runtime", r) :
          r \in {x \in s.runtimes :
                   x.service = Selected.service /\ BeforeStart <= x.at /\ x.at < AfterEnd}}

FirstEvents(events) ==
  [n \in {m \in 1..Cardinality(events) : m <= TimelineLimit} |-> Nth(events, n)]

ResultFields ==
  {"status", "before", "after", "delta", "relative", "classification", "sides", "generated"}

-----------------------------------------------------------------------------
\* The database only grows, and every state of it during the command is part of the last.
StatesOK ==
  /\ db \in Rows /\ IsFiniteSet(db.windows) /\ now \in Int
  /\ phase # "idle" =>
       /\ db \in states /\ states \subseteq Rows
       /\ \A s \in states : s.windows \subseteq db.windows /\ s.deployments \subseteq db.deployments

\* What is known of the command at each step.
CommandOK ==
  /\ phase \in {"idle", "baseline", "regression", "investigation", "before", "after",
                "contamination", "compare", "graph", "timeline", "done", "failed"}
  /\ phase = "idle" => view = None
  /\ phase # "idle" =>
       call \in Calls /\ "started" \in DOMAIN got /\ got.started \in Int
  /\ phase \in {"baseline", "regression", "investigation"} => call.kind = phase /\ view = None
  /\ phase \in {"graph", "timeline"} => call.kind = "investigation"
  /\ phase = "before" => DOMAIN got = {"started", "deployment"}
  /\ phase = "after" => DOMAIN got = {"started", "deployment", "before"}
  /\ phase = "contamination" => DOMAIN got = {"started", "deployment", "before", "after"}

\* The deployment is known, and an investigation has its view.
DeploymentKnown ==
  /\ call.kind \in {"regression", "investigation"}
  /\ "deployment" \in DOMAIN got /\ Selected \in Deployments
  /\ IF call.kind = "investigation" THEN view \in states /\ Selected \in view.deployments
     ELSE view = None

BeforeKnown ==
  /\ "before" \in DOMAIN got
  /\ \E s \in states : Source(s) /\ got.before = ServiceWindows(s, BeforeStart, Selected.at)

AfterKnown ==
  /\ "after" \in DOMAIN got
  /\ \E s \in states : Source(s) /\ got.after = ServiceWindows(s, Selected.at, AfterEnd)

\* The last read sees the windows that the reads before it found.
ContaminationKnown ==
  /\ "contamination" \in DOMAIN got
  /\ \E s \in states :
       /\ Source(s) /\ got.before \subseteq s.windows /\ got.after \subseteq s.windows
       /\ got.contamination = Contamination(DeploymentsOf(s) \ {Selected})

ReadsOK ==
  /\ Comparing({"before", "after", "contamination", "compare", "graph", "timeline"}) =>
       DeploymentKnown
  /\ Comparing({"after", "contamination", "compare", "graph", "timeline"}) => BeforeKnown
  /\ Comparing({"contamination", "compare", "graph", "timeline"}) => AfterKnown
  /\ Comparing({"compare", "graph", "timeline"}) => ContaminationKnown

\* A side of the comparison was made from the windows W that were read, and has a value only
\* if there is one and nothing is wrong with it.
SideIs(side, W) ==
  /\ side.accepted \subseteq W
  /\ \A x \in side.rejected : x.window \in W /\ x.reason \in Reasons
  /\ (side.status = "AVAILABLE") =>
       \E w \in W : /\ W = {w} /\ side.value = Value(w)
                    /\ w.row.count >= call.minSamples /\ w.observedAt <= result.generated

Uncontaminated(c) == ~c.truncated /\ c.before = {} /\ c.concurrent = {} /\ c.after = {}

\* The comparison has a signal only if both sides have values and nothing is against it.
SignalOK ==
  IF result.status = "AVAILABLE"
  THEN /\ result.sides[1].status = "AVAILABLE" /\ result.sides[2].status = "AVAILABLE"
       /\ Uncontaminated(got.contamination) /\ AfterEnd <= result.generated
       /\ result.delta = result.after - result.before
       /\ result.relative = IF result.before # 0
                            THEN [delta |-> result.after - result.before, of |-> result.before]
                            ELSE None
       /\ result.classification = Classify(result.before, result.after)
  ELSE result.status = "UNKNOWN" /\ result.delta = None /\ result.relative = None
       /\ result.classification = "UNKNOWN"

ResultKnown ==
  /\ ResultFields \subseteq DOMAIN result /\ result.generated \in Int
  /\ SideIs(result.sides[1], got.before) /\ SideIs(result.sides[2], got.after)
  /\ result.before = result.sides[1].value /\ result.after = result.sides[2].value
  /\ SignalOK

GraphKnown == "edges" \in DOMAIN result /\ result.edges = EdgesOf(view)

TimelineKnown == result.timeline = FirstEvents(EventsOf(view))

ResultOK ==
  /\ Comparing({"graph", "timeline"}) => ResultKnown
  /\ phase = "graph" => DOMAIN result = ResultFields
  /\ phase = "timeline" => DOMAIN result = ResultFields \cup {"edges"}
  /\ phase = "timeline" \/ (phase = "done" /\ call.kind = "investigation") => GraphKnown
  /\ phase = "done" /\ call.kind = "investigation" => TimelineKnown

\* When it is answered an investigation is done.
AnswerOK == answer # None => phase = "done" /\ call.kind = "investigation"

CInv == StatesOK /\ CommandOK /\ ReadsOK /\ ResultOK /\ AnswerOK /\ BaselineIsClean

-----------------------------------------------------------------------------
(* Finite sets in a total order: below[x] is what comes before x           *)

\* The places of the elements are those from 1 to their number.
LEMMA Places ==
  ASSUME NEW S, IsFiniteSet(S), NEW below \in [S -> SUBSET S],
         \A x \in S : x \notin below[x],
         \A x, y \in S : x \in below[y] => below[x] \subseteq below[y],
         \A x, y \in S : x = y \/ x \in below[y] \/ y \in below[x]
  PROVE  /\ Cardinality(S) \in Nat
         /\ \A x \in S : Cardinality(below[x]) \in Nat /\ Cardinality(below[x]) < Cardinality(S)
         /\ \A x, y \in S : x \in below[y] <=> Cardinality(below[x]) < Cardinality(below[y])
         /\ \A x, y \in S : Cardinality(below[x]) = Cardinality(below[y]) => x = y
         /\ \A n \in 1..Cardinality(S) : \E x \in S : Cardinality(below[x]) = n - 1
<1>1. Cardinality(S) \in Nat
  BY FS_CardinalityType
<1>2. \A x \in S : IsFiniteSet(below[x]) /\ Cardinality(below[x]) \in Nat
  <2>1. ASSUME NEW x \in S
        PROVE  IsFiniteSet(below[x]) /\ Cardinality(below[x]) \in Nat
    <3>1. below[x] \in SUBSET S
      OBVIOUS
    <3>2. IsFiniteSet(below[x])
      BY <3>1, FS_Subset
    <3> QED BY <3>2, FS_CardinalityType
  <2> QED BY <2>1
<1>3. ASSUME NEW x \in S, NEW y \in S, x \in below[y]
      PROVE  Cardinality(below[x]) < Cardinality(below[y])
  <2>1. below[x] \in SUBSET below[y] /\ below[x] # below[y]
    BY <1>3
  <2>2. IsFiniteSet(below[y])
    BY <1>2
  <2>3. Cardinality(below[x]) <= Cardinality(below[y])
        /\ Cardinality(below[x]) # Cardinality(below[y])
    BY <2>1, <2>2, FS_Subset
  <2> QED BY <1>2, <2>3
<1>4. ASSUME NEW x \in S, NEW y \in S, Cardinality(below[x]) = Cardinality(below[y])
      PROVE  x = y
  BY <1>2, <1>3, <1>4
<1>5. ASSUME NEW x \in S, NEW y \in S, Cardinality(below[x]) < Cardinality(below[y])
      PROVE  x \in below[y]
  <2>1. ~ (Cardinality(below[y]) < Cardinality(below[x]))
        /\ Cardinality(below[x]) # Cardinality(below[y])
    BY <1>2, <1>5
  <2> QED BY <1>3, <2>1
<1>6. \A x \in S : Cardinality(below[x]) < Cardinality(S)
  <2>1. ASSUME NEW x \in S
        PROVE  Cardinality(below[x]) < Cardinality(S)
    <3>1. below[x] \in SUBSET S /\ below[x] # S
      OBVIOUS
    <3>2. Cardinality(below[x]) <= Cardinality(S) /\ Cardinality(below[x]) # Cardinality(S)
      BY <3>1, FS_Subset
    <3> QED BY <1>1, <1>2, <3>2
  <2> QED BY <2>1
<1>7. \A n \in 1..Cardinality(S) : \E x \in S : Cardinality(below[x]) = n - 1
  <2> DEFINE T == 1..Cardinality(S)
             f == [x \in S |-> Cardinality(below[x]) + 1]
  <2>1. IsFiniteSet(T) /\ Cardinality(T) = Cardinality(S)
    <3>1. 1 \in Int /\ Cardinality(S) \in Int
      BY <1>1
    <3>2. /\ IsFiniteSet(1..Cardinality(S))
          /\ Cardinality(1..Cardinality(S)) =
               IF 1 > Cardinality(S) THEN 0 ELSE Cardinality(S) - 1 + 1
      BY <3>1, FS_Interval
    <3> QED BY <1>1, <3>2
  <2>2. f \in Injection(S, T)
    <3>1. f \in [S -> T]
      BY <1>1, <1>2, <1>6
    <3>2. \A x, y \in S : f[x] = f[y] => x = y
      BY <1>2, <1>4
    <3> QED BY <3>1, <3>2 DEF Injection, IsInjective
  <2>3. f \in Surjection(S, T)
    <3> HIDE DEF T, f
    <3> QED BY <2>1, <2>2, FS_Injection
  <2>4. ASSUME NEW n \in 1..Cardinality(S)
        PROVE  \E x \in S : Cardinality(below[x]) = n - 1
    <3>1. PICK x \in S : f[x] = n
      BY <2>3 DEF Surjection
    <3> QED BY <1>1, <1>2, <3>1
  <2> QED BY <2>4
<1> QED BY <1>1, <1>2, <1>3, <1>4, <1>5, <1>6, <1>7

\* The first n are all of them, or n.
LEMMA FirstAre ==
  ASSUME NEW S, IsFiniteSet(S), NEW below \in [S -> SUBSET S], NEW n \in Nat,
         \A x \in S : x \notin below[x],
         \A x, y \in S : x \in below[y] => below[x] \subseteq below[y],
         \A x, y \in S : x = y \/ x \in below[y] \/ y \in below[x],
         NEW F, F = {x \in S : Cardinality(below[x]) < n}
  PROVE  F \in SUBSET S /\ IsFiniteSet(F) /\ (F = S \/ Cardinality(F) = n)
<1>1. /\ Cardinality(S) \in Nat
      /\ \A x \in S : Cardinality(below[x]) \in Nat /\ Cardinality(below[x]) < Cardinality(S)
      /\ \A x, y \in S : Cardinality(below[x]) = Cardinality(below[y]) => x = y
      /\ \A k \in 1..Cardinality(S) : \E x \in S : Cardinality(below[x]) = k - 1
  BY Places
<1>2. F \in SUBSET S /\ IsFiniteSet(F)
  BY FS_Subset
<1>3. ASSUME F # S
      PROVE  Cardinality(F) = n
  <2> DEFINE f == [x \in F |-> Cardinality(below[x]) + 1]
             T == 1..n
  <2>1. PICK y \in S : y \notin F
    BY <1>2, <1>3
  <2>2. n < Cardinality(S)
    BY <1>1, <2>1
  <2>3. f \in Surjection(F, T)
    <3>1. f \in [F -> T]
      BY <1>1
    <3>2. \A k \in T : \E x \in F : f[x] = k
      <4>1. ASSUME NEW k \in T
            PROVE  \E x \in F : f[x] = k
        <5>1. k \in 1..Cardinality(S)
          BY <1>1, <2>2
        <5>2. PICK x \in S : Cardinality(below[x]) = k - 1
          BY <1>1, <5>1
        <5>3. x \in F /\ f[x] = k
          BY <5>2
        <5> QED BY <5>3
      <4> QED BY <4>1
    <3> QED BY <3>1, <3>2 DEF Surjection
  <2>4. f \in Injection(F, T)
    <3>1. f \in [F -> T]
      BY <2>3 DEF Surjection
    <3>2. \A u, v \in F : f[u] = f[v] => u = v
      BY <1>1
    <3> QED BY <3>1, <3>2 DEF Injection, IsInjective
  <2>5. Cardinality(T) = Cardinality(F)
    <3> HIDE DEF f, T
    <3> QED BY <1>2, <2>3, <2>4, FS_Surjection
  <2>6. Cardinality(T) = n
    <3>1. /\ IsFiniteSet(1..n)
          /\ Cardinality(1..n) = IF 1 > n THEN 0 ELSE n - 1 + 1
      BY FS_Interval
    <3> QED BY <3>1
  <2> QED BY <2>5, <2>6
<1> QED BY <1>2, <1>3

\* The constants of the commands.
LEMMA ComparisonFacts ==
  /\ IsFiniteSet(Windows) /\ IsFiniteSet(Deployments) /\ IsFiniteSet(Runtimes)
  /\ \A w, x \in Windows : w.id = x.id => w = x
  /\ \A w \in Windows :
       /\ w.start \in Int /\ w.end \in Int /\ w.start < w.end
       /\ w.count \in Nat /\ w.value \in Int /\ w.calls \subseteq Kinds
  /\ \A d, e \in Deployments : d.id = e.id => d = e
  /\ \A d \in Deployments : d.id \in Int /\ d.at \in Int /\ d.status \in Statuses
  /\ \A r, q \in Runtimes : r.id = q.id => r = q
  /\ \A r \in Runtimes : r.id \in Int /\ r.at \in Int /\ r.state \in ContainerStates
  /\ MaxContaminating \in Nat /\ TimelineLimit \in Nat /\ LatencyMin \in Nat
  /\ ErrorRateMin \in Nat /\ RelativePercent \in Nat /\ Latest \in Nat
BY ComparisonAssumption

\* What a command asks for.
LEMMA CallFacts ==
  ASSUME NEW c \in Calls
  PROVE  /\ c.kind \in {"baseline", "regression", "investigation"} /\ c.metric \in Metrics
         /\ c.minSamples \in Int /\ c.at \in Int
         /\ c.before \in Nat /\ c.before > 0 /\ c.after \in Nat /\ c.after > 0
BY ComparisonAssumption

\* A database is not None, nor is a number, a reason or a delta.
LEMMA NoneIsNothing ==
  /\ \A s \in Rows : s # None
  /\ \A i \in Int : i # None
  /\ \A r \in Reasons : r # None
  /\ \A r \in [delta : Int, of : Int] : r # None
<1>1. /\ None \notin Int \cup RejectionReasons \cup [delta : Int, of : Int]
      /\ None \notin [windows : SUBSET [row : Windows, observedAt : Int],
                      deployments : SUBSET Deployments, runtimes : SUBSET Runtimes]
  BY ComparisonAssumption
<1>2. Reasons \subseteq RejectionReasons
  BY DEF Reasons, RejectionReasons
<1>3. None \notin Rows
  BY <1>1 DEF Rows
<1>4. None \notin Int /\ None \notin RejectionReasons /\ None \notin [delta : Int, of : Int]
  BY <1>1
<1>5. None \notin Reasons
  BY <1>2, <1>4
<1> QED BY <1>3, <1>4, <1>5

\* The contaminating deployments that are listed are all of them, or as many as the limit.
LEMMA EarliestAre ==
  ASSUME NEW S \in SUBSET Deployments, NEW n \in Nat
  PROVE  /\ Earliest(S, n) \in SUBSET S /\ IsFiniteSet(Earliest(S, n))
         /\ Earliest(S, n) = S \/ Cardinality(Earliest(S, n)) = n
<1> DEFINE B(d) == {e \in S : e.at < d.at \/ (e.at = d.at /\ e.id < d.id)}
           below == [d \in S |-> B(d)]
           F == Earliest(S, n)
<1>1. IsFiniteSet(S) /\ \A d, e \in S : d.at \in Int /\ d.id \in Int /\ (d.id = e.id => d = e)
  BY ComparisonFacts, FS_Subset
<1>2. below \in [S -> SUBSET S]
  OBVIOUS
<1>3. \A x \in S : x \notin below[x]
  BY <1>1
<1>4. \A x, y \in S : x \in below[y] => below[x] \subseteq below[y]
  BY <1>1
<1>5. \A x, y \in S : x = y \/ x \in below[y] \/ y \in below[x]
  BY <1>1
<1>6. F = {x \in S : Cardinality(below[x]) < n}
  BY DEF Earliest
<1> HIDE DEF below, F
<1>7. F \in SUBSET S /\ IsFiniteSet(F) /\ (F = S \/ Cardinality(F) = n)
  BY <1>1, <1>2, <1>3, <1>4, <1>5, <1>6, FirstAre
<1> QED BY <1>7 DEF F

-----------------------------------------------------------------------------
(* The events of a timeline                                                *)

AllEvents ==
  {Event("deployment", d) : d \in Deployments} \cup {Event("runtime", r) : r \in Runtimes}

\* An event is of a deployment or a runtime, and is known from its priority and ID.
LEMMA EventsAre ==
  /\ IsFiniteSet(AllEvents)
  /\ \A e \in AllEvents :
       /\ e.row.at \in Int /\ e.row.id \in Int /\ EventPriority(e) \in Int
       /\ \/ e = Event("deployment", e.row) /\ e.row \in Deployments /\ EventPriority(e) # 30
          \/ e = Event("runtime", e.row) /\ e.row \in Runtimes /\ EventPriority(e) = 30
  /\ \A d, e \in AllEvents : EventPriority(d) = EventPriority(e) /\ d.row.id = e.row.id => d = e
<1>1. IsFiniteSet(AllEvents)
  <2> DEFINE D == {Event("deployment", d) : d \in Deployments}
             R == {Event("runtime", r) : r \in Runtimes}
  <2>1. IsFiniteSet(D)
    <3> DEFINE f == [d \in Deployments |-> Event("deployment", d)]
    <3>1. f \in Surjection(Deployments, D)
      BY DEF Surjection
    <3> HIDE DEF f, D
    <3> QED BY <3>1, ComparisonFacts, FS_Surjection
  <2>2. IsFiniteSet(R)
    <3> DEFINE f == [d \in Runtimes |-> Event("runtime", d)]
    <3>1. f \in Surjection(Runtimes, R)
      BY DEF Surjection
    <3> HIDE DEF f, R
    <3> QED BY <3>1, ComparisonFacts, FS_Surjection
  <2>3. AllEvents = D \cup R
    BY DEF AllEvents
  <2> HIDE DEF D, R
  <2> QED BY <2>1, <2>2, <2>3, FS_Union
<1>2. ASSUME NEW e \in AllEvents
      PROVE  /\ e.row.at \in Int /\ e.row.id \in Int /\ EventPriority(e) \in Int
             /\ \/ e = Event("deployment", e.row) /\ e.row \in Deployments /\ EventPriority(e) # 30
                \/ e = Event("runtime", e.row) /\ e.row \in Runtimes /\ EventPriority(e) = 30
  BY ComparisonFacts DEF AllEvents, Event, EventPriority
<1>3. \A d, e \in AllEvents :
        EventPriority(d) = EventPriority(e) /\ d.row.id = e.row.id => d = e
  BY <1>2, ComparisonFacts
<1> QED BY <1>1, <1>2, <1>3

\* A timeline shows its events once, in order, and all of them or as many as the limit.
LEMMA FirstEventsAre ==
  ASSUME NEW S \in SUBSET AllEvents, NEW t, t = FirstEvents(S)
  PROVE  /\ \A n \in DOMAIN t : n \in Nat /\ n >= 1 /\ t[n] \in S
         /\ \A n \in DOMAIN t \ {1} : n - 1 \in DOMAIN t
         /\ \A m, n \in DOMAIN t : m < n => Earlier(t[m], t[n])
         /\ \A m, n \in DOMAIN t : t[m] = t[n] => m = n
         /\ \/ {t[n] : n \in DOMAIN t} = S
            \/ Cardinality({t[n] : n \in DOMAIN t}) = TimelineLimit
<1> DEFINE B(e) == {d \in S : Earlier(d, e)}
           below == [e \in S |-> B(e)]
<1>1. /\ IsFiniteSet(S)
      /\ \A e \in S : e.row.at \in Int /\ e.row.id \in Int /\ EventPriority(e) \in Int
      /\ \A d, e \in S : EventPriority(d) = EventPriority(e) /\ d.row.id = e.row.id => d = e
  BY EventsAre, FS_Subset
<1>2. below \in [S -> SUBSET S]
  OBVIOUS
<1>3. \A x \in S : x \notin below[x]
  BY <1>1 DEF Earlier
<1>4. \A x, y \in S : x \in below[y] => below[x] \subseteq below[y]
  <2>1. ASSUME NEW x \in S, NEW y \in S, NEW z \in S, Earlier(x, y), Earlier(z, x)
        PROVE  Earlier(z, y)
    BY <1>1, <2>1 DEF Earlier
  <2> QED BY <2>1
<1>5. \A x, y \in S : x = y \/ x \in below[y] \/ y \in below[x]
  BY <1>1 DEF Earlier
<1>6. \A x, y \in S : x \in below[y] <=> Earlier(x, y)
  OBVIOUS
<1>7. \A n : Nth(S, n) = CHOOSE e \in S : Cardinality(below[e]) = n - 1
  BY DEF Nth
<1> HIDE DEF below
<1>8. /\ Cardinality(S) \in Nat
      /\ \A x \in S : Cardinality(below[x]) \in Nat /\ Cardinality(below[x]) < Cardinality(S)
      /\ \A x, y \in S : x \in below[y] <=> Cardinality(below[x]) < Cardinality(below[y])
      /\ \A x, y \in S : Cardinality(below[x]) = Cardinality(below[y]) => x = y
      /\ \A n \in 1..Cardinality(S) : \E x \in S : Cardinality(below[x]) = n - 1
  BY <1>1, <1>2, <1>3, <1>4, <1>5, Places
<1>9. \A n \in DOMAIN t : n \in 1..Cardinality(S) /\ n <= TimelineLimit
                          /\ t[n] \in S /\ Cardinality(below[t[n]]) = n - 1
  BY <1>7, <1>8 DEF FirstEvents
<1>10. DOMAIN t = {m \in 1..Cardinality(S) : m <= TimelineLimit}
  BY DEF FirstEvents
<1>11. \A n \in DOMAIN t : n \in Nat /\ n >= 1 /\ t[n] \in S
  BY <1>8, <1>9
<1>12. \A n \in DOMAIN t \ {1} : n - 1 \in DOMAIN t
  BY <1>8, <1>10, ComparisonFacts
<1>13. \A m, n \in DOMAIN t : m < n => Earlier(t[m], t[n])
  BY <1>6, <1>8, <1>9
<1>14. \A m, n \in DOMAIN t : t[m] = t[n] => m = n
  BY <1>8, <1>9
<1>15. \/ {t[n] : n \in DOMAIN t} = S
       \/ Cardinality({t[n] : n \in DOMAIN t}) = TimelineLimit
  <2>1. CASE Cardinality(S) <= TimelineLimit
    <3>1. ASSUME NEW e \in S
          PROVE  e \in {t[n] : n \in DOMAIN t}
      <4>1. PICK n \in 1..Cardinality(S) : n = Cardinality(below[e]) + 1
        BY <1>8
      <4>2. n \in DOMAIN t
        BY <1>8, <1>10, <2>1, ComparisonFacts
      <4>3. t[n] = e
        BY <1>8, <1>9, <4>1, <4>2
      <4> QED BY <4>2, <4>3
    <3> QED BY <1>11, <3>1
  <2>2. CASE TimelineLimit < Cardinality(S)
    <3> DEFINE F == {e \in S : Cardinality(below[e]) < TimelineLimit}
    <3>1. F = S \/ Cardinality(F) = TimelineLimit
      <4>1. TimelineLimit \in Nat /\ F = {e \in S : Cardinality(below[e]) < TimelineLimit}
        BY ComparisonFacts
      <4> HIDE DEF F
      <4> QED BY <1>1, <1>2, <1>3, <1>4, <1>5, <4>1, FirstAre
    <3>2. F # S
      <4>1. TimelineLimit + 1 \in 1..Cardinality(S)
        BY <1>8, <2>2, ComparisonFacts
      <4>2. PICK n \in 1..Cardinality(S) : n = TimelineLimit + 1
        BY <4>1
      <4>3. PICK x \in S : Cardinality(below[x]) = n - 1
        BY <1>8
      <4> QED BY <4>2, <4>3, ComparisonFacts
    <3>3. {t[n] : n \in DOMAIN t} = F
      <4>1. ASSUME NEW e \in F
            PROVE  e \in {t[n] : n \in DOMAIN t}
        <5>1. PICK n \in 1..Cardinality(S) : n = Cardinality(below[e]) + 1
          BY <1>8
        <5>2. n \in DOMAIN t
          BY <1>8, <1>10, <5>1, ComparisonFacts
        <5>3. t[n] = e
          BY <1>8, <1>9, <5>1, <5>2
        <5> QED BY <5>2, <5>3
      <4>2. ASSUME NEW n \in DOMAIN t
            PROVE  t[n] \in F
        BY <1>8, <1>9, ComparisonFacts
      <4> QED BY <4>1, <4>2
    <3> QED BY <3>1, <3>2, <3>3
  <2> QED BY <1>8, <2>1, <2>2, ComparisonFacts
<1> QED BY <1>11, <1>12, <1>13, <1>14, <1>15

-----------------------------------------------------------------------------
(* What is concluded from the windows that were read                       *)

\* What is concluded from the windows W if the deployments D contaminate them.
Concluded(W, D, generated, start, at) == Evaluate(W, D # {}, generated, start, at)

\* Nothing but the windows W is shown, and a value only if one is alone and nothing is wrong.
Judged(e, W, D, generated, at) ==
  /\ e.accepted \subseteq W
  /\ \A x \in e.rejected : x.window \in W /\ x.reason \in Reasons
  /\ (e.status = "AVAILABLE") =>
       /\ D = {} /\ at <= generated
       /\ \E w \in W :
            /\ W = {w} /\ e.value = Value(w)
            /\ w.row.count >= call.minSamples /\ w.row.coverage # "low"
            /\ w.observedAt <= generated

\* Of two windows or more none is accepted, and of one only if nothing is wrong with it.
LEMMA EvaluateIs ==
  ASSUME call \in Calls, NEW W \in SUBSET [row : Windows, observedAt : Int], IsFiniteSet(W),
         NEW D, NEW generated \in Int, NEW start \in Int, NEW at \in Int,
         NEW e, e = Concluded(W, D, generated, start, at)
  PROVE  Judged(e, W, D, generated, at)
<1> USE DEF Judged
<1> DEFINE Reason(w) == rejectionReason(w, D # {}, generated, start, at, Cardinality(W))
           rejected == {[window |-> w, reason |-> Reason(w)] : w \in {c \in W : Reason(c) # None}}
<1>1. \A w \in W : Reason(w) # None => Reason(w) \in Reasons
  BY DEF rejectionReason, Reasons
<1>2. \A w \in W : Reason(w) = None =>
        /\ D = {} /\ at <= generated /\ w.observedAt <= generated
        /\ w.row.count >= call.minSamples /\ w.row.coverage # "low"
        /\ ~(Cardinality(W) > 1)
  <2>1. \A w \in W : w.row \in Windows /\ w.observedAt \in Int /\ w.row.count \in Int
    BY ComparisonFacts
  <2>2. call.minSamples \in Int /\ Cardinality(W) \in Int
    BY CallFacts, FS_CardinalityType
  <2>3. \A r \in Reasons : r # None
    BY NoneIsNothing
  <2> QED BY <2>1, <2>2, <2>3 DEF rejectionReason, Reasons
<1>3. e = IF W # {} /\ rejected = {}
          THEN [status |-> "AVAILABLE", value |-> Value(CHOOSE w \in W : TRUE),
                accepted |-> W, rejected |-> {}]
          ELSE [status |-> "UNKNOWN", value |-> None, accepted |-> {}, rejected |-> rejected]
  BY DEF Evaluate, Concluded
<1>4. CASE W # {} /\ rejected = {}
  <2>1. \A w \in W : Reason(w) = None
    <3>1. ASSUME NEW w \in W, Reason(w) # None
          PROVE  FALSE
      <4>1. [window |-> w, reason |-> Reason(w)] \in rejected
        BY <3>1
      <4> QED BY <1>4, <4>1
    <3> QED BY <3>1
  <2>2. /\ e.status = "AVAILABLE" /\ e.accepted = W /\ e.rejected = {}
        /\ e.value = Value(CHOOSE w \in W : TRUE)
    BY <1>3, <1>4
  <2>3. \E w \in W : W = {w}
    <3>1. Cardinality(W) \in Nat /\ Cardinality(W) # 0
      BY <1>4, FS_CardinalityType, FS_EmptySet
    <3>2. Cardinality(W) = 1
      BY <1>2, <1>4, <2>1, <3>1
    <3> QED BY <3>2, FS_Singleton
  <2>4. PICK w \in W : W = {w}
    BY <2>3
  <2>5. (CHOOSE x \in W : TRUE) = w
    BY <2>4
  <2>6. e.value = Value(w)
    BY <2>2, <2>5
  <2> HIDE DEF Reason
  <2> QED BY <1>2, <2>1, <2>2, <2>4, <2>6
<1>5. CASE ~(W # {} /\ rejected = {})
  <2>1. e.status = "UNKNOWN" /\ e.accepted = {} /\ e.rejected = rejected
    BY <1>3, <1>5
  <2>2. \A x \in rejected : x.window \in W /\ x.reason \in Reasons
    <3> HIDE DEF Reason
    <3> QED BY <1>1
  <2> QED BY <2>1, <2>2
<1> QED BY <1>4, <1>5

\* A value is a number.
LEMMA ValueIs ==
  ASSUME NEW w \in [row : Windows, observedAt : Int]
  PROVE  Value(w) \in Int
BY ComparisonFacts DEF Value

\* The thresholds are those of Signal.
LEMMA SignalIs ==
  ASSUME call \in Calls, NEW b, NEW a, Value(b) \in Int, Value(a) \in Int
  PROVE  Classify(Value(b), Value(a)) = Signal(b, a)
<1> DEFINE x == Value(b)
           y == Value(a)
<1>1. x \in Int /\ y \in Int /\ RelativePercent \in Int
  BY ComparisonFacts
<1>2. call.metric \in {"request_count", "error_rate", "latency"}
  BY CallFacts DEF Metrics
<1>3. ((y - x) * 100 >= RelativePercent * x) <=> (100 * y >= (100 + RelativePercent) * x)
  <2> HIDE DEF x, y
  <2>1. (100 + RelativePercent) * x = 100 * x + RelativePercent * x
    BY <1>1
  <2>2. RelativePercent * x \in Int
    BY <1>1
  <2> QED BY <1>1, <2>1, <2>2
<1>4. CASE call.metric = "request_count"
  BY <1>4 DEF Classify, Signal
<1>5. CASE call.metric = "error_rate"
  BY <1>5 DEF Classify, Signal
<1>6. CASE call.metric = "latency" /\ x = 0
  BY <1>6 DEF Classify, Signal
<1>7. CASE call.metric = "latency" /\ x # 0
  <2>1. Classify(x, y) = IF y - x >= LatencyMin /\ (y - x) * 100 >= RelativePercent * x
                         THEN "CANDIDATE" ELSE "NO_SIGNAL"
    BY <1>7 DEF Classify
  <2>2. Signal(b, a) = IF y - x >= LatencyMin /\ 100 * y >= (100 + RelativePercent) * x
                       THEN "CANDIDATE" ELSE "NO_SIGNAL"
    BY <1>7 DEF Signal
  <2> QED BY <1>3, <2>1, <2>2
<1> QED BY <1>2, <1>4, <1>5, <1>6, <1>7

-----------------------------------------------------------------------------
(* What does not change after the reads                                    *)

\* The comparison depends on what was asked for and what was read.
LEMMA ResultStays ==
  ASSUME call' = call, got' = got, \A f \in ResultFields : result'[f] = result[f]
  PROVE  /\ \A side, W : SideIs(side, W)' <=> SideIs(side, W)
         /\ SignalOK' <=> SignalOK
<1>1. /\ result'.status = result.status /\ result'.before = result.before
      /\ result'.after = result.after /\ result'.delta = result.delta
      /\ result'.relative = result.relative /\ result'.sides = result.sides
      /\ result'.classification = result.classification
      /\ result'.generated = result.generated
  BY DEF ResultFields
<1>2. ASSUME NEW side, NEW W
      PROVE  SideIs(side, W)' <=> SideIs(side, W)
  BY <1>1 DEF SideIs, Value
<1>3. AfterEnd' = AfterEnd
  BY DEF AfterEnd, Selected
<1>4. Classify(result.before, result.after)' = Classify(result.before, result.after)
  BY <1>1 DEF Classify
<1>5. SignalOK' <=> SignalOK
  BY <1>1, <1>3, <1>4 DEF SignalOK, Uncontaminated
<1> QED BY <1>2, <1>5

\* What was read of a database depends on the deployment.
LEMMA ReadsStay ==
  ASSUME call' = call, got'.deployment = got.deployment, NEW s, NEW from, NEW to
  PROVE  /\ BeforeStart' = BeforeStart /\ AfterEnd' = AfterEnd /\ Selected' = Selected
         /\ ServiceWindows(s, from, to)' = ServiceWindows(s, from, to)
         /\ DeploymentsOf(s)' = DeploymentsOf(s) /\ EdgesOf(s)' = EdgesOf(s)
         /\ EventsOf(s)' = EventsOf(s)
<1>1. BeforeStart' = BeforeStart /\ AfterEnd' = AfterEnd /\ Selected' = Selected
  BY DEF BeforeStart, AfterEnd, Selected
<1>2. ServiceWindows(s, from, to)' = ServiceWindows(s, from, to)
  BY <1>1 DEF ServiceWindows
<1>3. DeploymentsOf(s)' = DeploymentsOf(s)
  BY <1>1 DEF DeploymentsOf
<1>4. EdgesOf(s)' = EdgesOf(s)
  BY <1>1 DEF EdgesOf
<1>5. EventsOf(s)' = EventsOf(s)
  BY <1>1, <1>3 DEF EventsOf
<1> QED BY <1>1, <1>2, <1>3, <1>4, <1>5

\* A field is added to a record.
LEMMA FieldAdded ==
  ASSUME NEW g, NEW field, NEW value,
         NEW new, new = [f \in DOMAIN g \cup {field} |-> IF f = field THEN value ELSE g[f]]
  PROVE  /\ DOMAIN new = DOMAIN g \cup {field} /\ new[field] = value
         /\ \A f \in DOMAIN g : f # field => new[f] = g[f]
OBVIOUS

-----------------------------------------------------------------------------
(* What other processes and later reads leave as it is                     *)

\* What is known of a command stays known while the database grows.
LEMMA KnownStays ==
  ASSUME call' = call, view' = view, states \subseteq states',
         \A f \in DOMAIN got : f \in DOMAIN got' /\ got'[f] = got[f]
  PROVE  /\ DeploymentKnown => DeploymentKnown'
         /\ DeploymentKnown /\ BeforeKnown => BeforeKnown'
         /\ DeploymentKnown /\ AfterKnown => AfterKnown'
         /\ DeploymentKnown /\ BeforeKnown /\ AfterKnown /\ ContaminationKnown
              => ContaminationKnown'
<1>1. ASSUME DeploymentKnown
      PROVE  /\ DeploymentKnown'
             /\ BeforeStart' = BeforeStart /\ AfterEnd' = AfterEnd /\ Selected' = Selected
  BY <1>1 DEF DeploymentKnown, Selected, BeforeStart, AfterEnd
<1>2. ASSUME NEW s \in states, Source(s)
      PROVE  s \in states' /\ Source(s)'
  BY <1>2 DEF Source
<1>3. ASSUME DeploymentKnown, BeforeKnown
      PROVE  BeforeKnown'
  <2>1. PICK s \in states : Source(s) /\ got.before = ServiceWindows(s, BeforeStart, Selected.at)
    BY <1>3 DEF BeforeKnown
  <2>2. ServiceWindows(s, BeforeStart, Selected.at)' = ServiceWindows(s, BeforeStart, Selected.at)
    BY <1>1, <1>3 DEF ServiceWindows
  <2>3. "before" \in DOMAIN got' /\ got'.before = got.before
    BY <1>3 DEF BeforeKnown
  <2> QED BY <1>2, <2>1, <2>2, <2>3 DEF BeforeKnown
<1>4. ASSUME DeploymentKnown, AfterKnown
      PROVE  AfterKnown'
  <2>1. PICK s \in states : Source(s) /\ got.after = ServiceWindows(s, Selected.at, AfterEnd)
    BY <1>4 DEF AfterKnown
  <2>2. ServiceWindows(s, Selected.at, AfterEnd)' = ServiceWindows(s, Selected.at, AfterEnd)
    BY <1>1, <1>4 DEF ServiceWindows
  <2>3. "after" \in DOMAIN got' /\ got'.after = got.after
    BY <1>4 DEF AfterKnown
  <2> QED BY <1>2, <2>1, <2>2, <2>3 DEF AfterKnown
<1>5. ASSUME DeploymentKnown, BeforeKnown, AfterKnown, ContaminationKnown
      PROVE  ContaminationKnown'
  <2>1. PICK s \in states :
          /\ Source(s) /\ got.before \subseteq s.windows /\ got.after \subseteq s.windows
          /\ got.contamination = Contamination(DeploymentsOf(s) \ {Selected})
    BY <1>5 DEF ContaminationKnown
  <2>2. /\ got'.before = got.before /\ got'.after = got.after
        /\ "contamination" \in DOMAIN got' /\ got'.contamination = got.contamination
    BY <1>5 DEF BeforeKnown, AfterKnown, ContaminationKnown
  <2>3. Contamination(DeploymentsOf(s) \ {Selected})' = Contamination(DeploymentsOf(s) \ {Selected})
    <3>1. Selected' = Selected /\ DeploymentsOf(s)' = DeploymentsOf(s)
      BY <1>1, <1>5 DEF DeploymentsOf
    <3> QED BY <3>1 DEF Contamination
  <2> QED BY <1>2, <2>1, <2>2, <2>3 DEF ContaminationKnown
<1> QED BY <1>1, <1>3, <1>4, <1>5

\* So does what was concluded, though more of it is added.
LEMMA ResultsStay ==
  ASSUME call' = call, view' = view, got' = got,
         \A f \in DOMAIN result : f \in DOMAIN result' /\ result'[f] = result[f]
  PROVE  /\ ResultKnown => ResultKnown'
         /\ GraphKnown => GraphKnown'
<1>1. ASSUME ResultKnown
      PROVE  ResultKnown'
  <2>1. \A f \in ResultFields : f \in DOMAIN result' /\ result'[f] = result[f]
    BY <1>1 DEF ResultKnown
  <2>2. /\ \A side, W : SideIs(side, W)' <=> SideIs(side, W)
        /\ SignalOK' <=> SignalOK
    BY <2>1, ResultStays
  <2>3. /\ result'.generated = result.generated /\ result'.sides = result.sides
        /\ result'.before = result.before /\ result'.after = result.after
    BY <2>1 DEF ResultFields
  <2>4. /\ SideIs(result.sides[1], got.before) /\ SideIs(result.sides[2], got.after)
        /\ result.before = result.sides[1].value /\ result.after = result.sides[2].value
        /\ SignalOK /\ result.generated \in Int
    BY <1>1 DEF ResultKnown
  <2>5. SideIs(result.sides[1], got.before)' /\ SideIs(result.sides[2], got.after)'
    <3>1. ASSUME NEW a, NEW b, NEW U, NEW W, SideIs(a, U), SideIs(b, W),
                 a = result.sides[1], b = result.sides[2], U = got.before, W = got.after
          PROVE  SideIs(result.sides[1], got.before)' /\ SideIs(result.sides[2], got.after)'
      <4>1. SideIs(a, U)' /\ SideIs(b, W)'
        BY <2>2, <3>1
      <4>2. a = result'.sides[1] /\ b = result'.sides[2] /\ U = got'.before /\ W = got'.after
        BY <2>3, <3>1
      <4> QED BY <4>1, <4>2
    <3> QED BY <2>4, <3>1
  <2> QED BY <2>1, <2>2, <2>3, <2>4, <2>5 DEF ResultKnown
<1>2. ASSUME GraphKnown
      PROVE  GraphKnown'
  <2>1. EdgesOf(view)' = EdgesOf(view)
    BY DEF EdgesOf, Selected
  <2> QED BY <1>2, <2>1 DEF GraphKnown
<1> QED BY <1>1, <1>2

\* The timeline of a view does not change.
LEMMA TimelineStays ==
  ASSUME call' = call, view' = view, got' = got, result' = result, TimelineKnown
  PROVE  TimelineKnown'
<1>1. EventsOf(view)' = EventsOf(view)
  BY DEF EventsOf, DeploymentsOf, BeforeStart, AfterEnd, Selected
<1>2. FirstEvents(EventsOf(view))' = FirstEvents(EventsOf(view))
  BY <1>1 DEF FirstEvents, Nth
<1> QED BY <1>2 DEF TimelineKnown

\* Nor does a baseline.
LEMMA BaselineStays ==
  ASSUME UNCHANGED <<phase, call, states, got, result>>, BaselineIsClean
  PROVE  BaselineIsClean'
BY DEF BaselineIsClean, Value

\* A step of somebody else, that leaves the command as it is.
LEMMA OthersKeep ==
  ASSUME CInv, UNCHANGED <<call, view, phase, got, result, answer>>, states \subseteq states',
         StatesOK', phase = "done" => states' = states
  PROVE  CInv'
<1>1. \A f \in DOMAIN got : f \in DOMAIN got' /\ got'[f] = got[f]
  OBVIOUS
<1>2. /\ DeploymentKnown => DeploymentKnown'
      /\ DeploymentKnown /\ BeforeKnown => BeforeKnown'
      /\ DeploymentKnown /\ AfterKnown => AfterKnown'
      /\ DeploymentKnown /\ BeforeKnown /\ AfterKnown /\ ContaminationKnown
           => ContaminationKnown'
  BY <1>1, KnownStays
<1>3. ReadsOK'
  BY <1>2 DEF CInv, ReadsOK, Comparing
<1>4. ResultOK'
  <2>1. ResultKnown => ResultKnown'
    BY ResultsStay
  <2>2. GraphKnown => GraphKnown'
    BY ResultsStay
  <2>3. TimelineKnown => TimelineKnown'
    BY TimelineStays
  <2> QED BY <2>1, <2>2, <2>3 DEF CInv, ResultOK, Comparing
<1>5. CommandOK' /\ AnswerOK'
  BY DEF CInv, CommandOK, AnswerOK
<1>6. BaselineIsClean'
  <2>1. CASE phase = "done"
    BY <2>1, BaselineStays DEF CInv
  <2>2. CASE phase # "done"
    BY <2>2 DEF BaselineIsClean
  <2> QED BY <2>1, <2>2
<1> QED BY <1>3, <1>4, <1>5, <1>6 DEF CInv

\* Other processes commit, time passes.
LEMMA CommitsKeep ==
  ASSUME CInv, CaptureSaved \/ DeploymentSaved \/ RuntimeSnapshotSaved \/ Tick,
         UNCHANGED answer
  PROVE  CInv'
<1>1. ASSUME NEW rows \in Rows, Committed(rows), IsFiniteSet(rows.windows),
             db.windows \subseteq rows.windows, db.deployments \subseteq rows.deployments
      PROVE  CInv'
  <2>1. /\ UNCHANGED <<now, call, view, phase, got, result>> /\ db' = rows
        /\ states' = states \cup {rows} /\ phase # "done" /\ phase # "idle"
    BY <1>1 DEF Committed
  <2>2. StatesOK'
    BY <1>1, <2>1 DEF CInv, StatesOK
  <2> QED BY <2>1, <2>2, OthersKeep
<1>2. db \in Rows /\ IsFiniteSet(db.windows) /\ now \in Int
  BY DEF CInv, StatesOK
<1>3. CASE CaptureSaved
  <2>1. PICK w \in Windows :
          Committed([db EXCEPT !.windows = @ \cup {[row |-> w, observedAt |-> now]}])
    BY <1>3 DEF CaptureSaved
  <2> DEFINE new == [row |-> w, observedAt |-> now]
             rows == [db EXCEPT !.windows = @ \cup {new}]
  <2>2. rows \in Rows /\ rows.windows = db.windows \cup {new} /\ rows.deployments = db.deployments
    BY <1>2 DEF Rows
  <2>3. IsFiniteSet(rows.windows)
    <3> HIDE DEF new, rows
    <3> QED BY <1>2, <2>2, FS_AddElement
  <2> QED BY <1>1, <2>1, <2>2, <2>3
<1>4. CASE DeploymentSaved
  <2>1. PICK d \in Deployments : Committed([db EXCEPT !.deployments = @ \cup {d}])
    BY <1>4 DEF DeploymentSaved
  <2> DEFINE rows == [db EXCEPT !.deployments = @ \cup {d}]
  <2>2. rows \in Rows /\ rows.windows = db.windows /\ db.deployments \subseteq rows.deployments
    BY <1>2 DEF Rows
  <2> QED BY <1>1, <1>2, <2>1, <2>2
<1>5. CASE RuntimeSnapshotSaved
  <2>1. PICK d \in Runtimes : Committed([db EXCEPT !.runtimes = @ \cup {d}])
    BY <1>5 DEF RuntimeSnapshotSaved
  <2> DEFINE rows == [db EXCEPT !.runtimes = @ \cup {d}]
  <2>2. rows \in Rows /\ rows.windows = db.windows /\ db.deployments = rows.deployments
    BY <1>2 DEF Rows
  <2> QED BY <1>1, <1>2, <2>1, <2>2
<1>6. CASE Tick
  <2>1. UNCHANGED <<db, call, view, phase, got, result, states>> /\ now' = now + 1
    BY <1>6 DEF Tick
  <2>2. StatesOK'
    BY <2>1 DEF CInv, StatesOK
  <2> QED BY <2>1, <2>2, OthersKeep
<1> QED BY <1>3, <1>4, <1>5, <1>6

-----------------------------------------------------------------------------
(* The steps of a command                                                  *)

\* Nothing is known before a command is given.
LEMMA ComparisonInit == DocumentInit => CInv
<1> SUFFICES ASSUME DocumentInit PROVE CInv
  OBVIOUS
<1>1. /\ now \in 0..Latest /\ phase = "idle" /\ view = None /\ answer = None
  BY DEF DocumentInit, Init
<1>2. db \in Rows /\ IsFiniteSet(db.windows)
  <2>1. PICK W \in SUBSET Windows, D \in SUBSET Deployments, R \in SUBSET Runtimes :
          db = [windows |-> {[row |-> w, observedAt |-> now] : w \in W},
                deployments |-> D, runtimes |-> R]
    BY DEF DocumentInit, Init
  <2> DEFINE T == {[row |-> w, observedAt |-> now] : w \in W}
             f == [w \in W |-> [row |-> w, observedAt |-> now]]
  <2>2. IsFiniteSet(W)
    BY ComparisonFacts, FS_Subset
  <2>3. f \in Surjection(W, T)
    BY DEF Surjection
  <2>4. now \in Int
    BY <1>1, ComparisonFacts
  <2>5. T \in SUBSET [row : Windows, observedAt : Int]
    BY <2>4
  <2>6. db \in Rows /\ db.windows = T
    BY <2>1, <2>5 DEF Rows
  <2> HIDE DEF T, f
  <2> QED BY <2>2, <2>3, <2>6, FS_Surjection
<1>3. StatesOK /\ CommandOK /\ AnswerOK
  BY <1>1, <1>2, ComparisonFacts DEF StatesOK, CommandOK, AnswerOK
<1>4. ReadsOK /\ ResultOK /\ BaselineIsClean
  BY <1>1 DEF ReadsOK, ResultOK, Comparing, BaselineIsClean
<1> QED BY <1>3, <1>4 DEF CInv

\* A step of the command itself: only its last ones may answer something, and none before them
\* is asked for what a comparison has read.
LEMMA StartKeeps ==
  ASSUME CInv, Start, UNCHANGED answer
  PROVE  CInv'
<1>1. /\ phase = "idle" /\ call' \in Calls /\ phase' = call'.kind /\ states' = {db}
      /\ got' = [started |-> now] /\ UNCHANGED <<db, now, view, result, answer>>
  BY DEF Start
<1>2. call'.kind \in {"baseline", "regression", "investigation"}
  BY <1>1, CallFacts
<1>3. /\ db \in Rows /\ IsFiniteSet(db.windows) /\ now \in Int /\ view = None
  BY <1>1 DEF CInv, StatesOK, CommandOK
<1>4. StatesOK'
  BY <1>1, <1>3 DEF StatesOK
<1>5. CommandOK' /\ AnswerOK'
  BY <1>1, <1>2, <1>3 DEF CInv, CommandOK, AnswerOK
<1>6. ReadsOK' /\ ResultOK' /\ BaselineIsClean'
  BY <1>1, <1>2 DEF ReadsOK, ResultOK, Comparing, BaselineIsClean
<1> QED BY <1>4, <1>5, <1>6 DEF CInv

\* A command that failed concludes nothing.
LEMMA FailKeeps ==
  ASSUME CInv, Fail, UNCHANGED answer
  PROVE  CInv'
<1>1. /\ phase' = "failed" /\ phase \notin {"idle", "done", "failed"}
      /\ UNCHANGED <<db, now, call, view, got, result, states, answer>>
  BY DEF Fail
<1>2. StatesOK' /\ CommandOK' /\ AnswerOK'
  BY <1>1 DEF CInv, StatesOK, CommandOK, AnswerOK
<1>3. ReadsOK' /\ ResultOK' /\ BaselineIsClean'
  BY <1>1 DEF ReadsOK, ResultOK, Comparing, BaselineIsClean
<1> QED BY <1>2, <1>3 DEF CInv

\* The one query of a baseline sees one state of the database.
LEMMA BaselineKeeps ==
  ASSUME CInv, Baseline, UNCHANGED answer
  PROVE  CInv'
<1> DEFINE start == call.at - call.before
           W == Exact(call.service, call.endpoint, start, call.at)
           D == StartedIn(call.service, start, call.at)
<1>1. /\ phase = "baseline" /\ phase' = "done"
      /\ result' = Evaluate(W, D # {}, got.started, start, call.at)
      /\ UNCHANGED <<db, now, call, view, got, states, answer>>
  BY DEF Baseline
<1>2. /\ db \in states /\ db \in Rows /\ IsFiniteSet(db.windows) /\ call.kind = "baseline"
      /\ view = None /\ call \in Calls /\ got.started \in Int
  BY <1>1 DEF CInv, StatesOK, CommandOK
<1>3. Facts = db
  BY <1>2 DEF Facts
<1>4. start \in Int /\ call.at \in Int
  BY <1>2, CallFacts
<1>5. W \in SUBSET [row : Windows, observedAt : Int] /\ IsFiniteSet(W)
  <2>1. W \in SUBSET db.windows
    BY <1>3 DEF Exact
  <2>2. db.windows \in SUBSET [row : Windows, observedAt : Int]
    BY <1>2 DEF Rows
  <2> HIDE DEF W
  <2> QED BY <1>2, <2>1, <2>2, FS_Subset
<1>6. (result'.status = "AVAILABLE") =>
         /\ D = {}
         /\ \E w \in W :
              /\ W = {w} /\ result'.value = Value(w)
              /\ w.row.count >= call.minSamples /\ w.row.coverage # "low"
              /\ w.observedAt <= got.started
  <2> DEFINE at == call.at
             generated == got.started
  <2>1. at \in Int /\ start \in Int /\ generated \in Int /\ call \in Calls
    BY <1>2, <1>4
  <2>2. PICK e : e = result'
    OBVIOUS
  <2>3. e = Concluded(W, D, generated, start, at)
    BY <1>1, <2>2 DEF Concluded
  <2>4. W \in SUBSET [row : Windows, observedAt : Int] /\ IsFiniteSet(W)
    BY <1>5
  <2> HIDE DEF W, D, start, at, generated
  <2>5. Judged(e, W, D, generated, at)
    BY <2>1, <2>3, <2>4, EvaluateIs
  <2> QED BY <2>2, <2>5 DEF generated, Judged
<1>7. BaselineIsClean'
  <2> DEFINE Clean(s, w) ==
               /\ {x \in s.windows : /\ x.row.service = call.service
                                     /\ x.row.endpoint = call.endpoint
                                     /\ x.row.start = start /\ x.row.end = call.at} = {w}
               /\ result'.value = Value(w)
               /\ w.row.count >= call.minSamples /\ w.row.coverage # "low"
               /\ w.observedAt <= got.started
               /\ \A d \in s.deployments :
                    (d.service = call.service) => (d.at \notin start..(call.at - 1))
  <2> SUFFICES ASSUME result'.status = "AVAILABLE"
               PROVE  \E s \in states : \E w \in s.windows : Clean(s, w)
    <3>1. \A w : Value(w)' = Value(w)
      BY <1>1 DEF Value
    <3> QED BY <1>1, <3>1 DEF BaselineIsClean
  <2>1. PICK w \in W :
          /\ W = {w} /\ result'.value = Value(w)
          /\ w.row.count >= call.minSamples /\ w.row.coverage # "low"
          /\ w.observedAt <= got.started
    BY <1>6
  <2>2. W = {x \in db.windows : /\ x.row.service = call.service
                                /\ x.row.endpoint = call.endpoint
                                /\ x.row.start = start /\ x.row.end = call.at}
    BY <1>3 DEF Exact
  <2>3. \A d \in db.deployments :
          (d.service = call.service) => (d.at \notin start..(call.at - 1))
    <3>1. \A d \in db.deployments : d.at \in Int
      BY <1>2, ComparisonFacts DEF Rows
    <3>2. \A d \in db.deployments :
            (d.service = call.service) => ~(start <= d.at /\ d.at < call.at)
      BY <1>3, <1>6 DEF StartedIn
    <3> QED BY <1>4, <3>1, <3>2
  <2>4. w \in db.windows
    BY <2>2
  <2> HIDE DEF W, start
  <2> QED BY <1>2, <2>1, <2>2, <2>3, <2>4
<1>8. StatesOK' /\ CommandOK' /\ AnswerOK'
  BY <1>1, <1>2 DEF CInv, StatesOK, CommandOK, AnswerOK
<1>9. ReadsOK' /\ ResultOK'
  BY <1>1, <1>2 DEF ReadsOK, ResultOK, Comparing
<1> QED BY <1>7, <1>8, <1>9 DEF CInv

\* A read of a comparison sees a state of the database, an investigation always the same.
LEMMA FactsAre ==
  ASSUME CInv, Read,
         phase \in {"before", "after", "contamination", "compare", "graph", "timeline"}
  PROVE  /\ DeploymentKnown /\ call \in Calls
         /\ view' = view /\ Facts \in states /\ Facts \in Rows /\ IsFiniteSet(Facts.windows)
         /\ Source(Facts) /\ Selected \in Deployments
         /\ call.kind # "investigation" => Facts = db
<1>1. DeploymentKnown /\ call \in Calls
  BY DEF CInv, ReadsOK, Comparing, CommandOK
<1>2. /\ db \in states /\ states \subseteq Rows /\ IsFiniteSet(db.windows)
      /\ \A s \in states : s.windows \subseteq db.windows
  BY DEF CInv, StatesOK
<1>3. \A s \in states : IsFiniteSet(s.windows) /\ s \in Rows
  <2>1. ASSUME NEW s \in states
        PROVE  IsFiniteSet(s.windows)
    <3>1. s.windows \in SUBSET db.windows
      BY <1>2
    <3> QED BY <1>2, <3>1, FS_Subset
  <2> QED BY <1>2, <2>1
<1>4. CASE call.kind = "investigation"
  <2>1. view \in states /\ view # None
    BY <1>1, <1>3, <1>4, NoneIsNothing DEF DeploymentKnown
  <2>2. Facts = view /\ view' = view
    BY <1>4, <2>1 DEF Facts, Read
  <2> QED BY <1>1, <1>3, <1>4, <2>1, <2>2 DEF Source, DeploymentKnown
<1>5. CASE call.kind # "investigation"
  <2>1. Facts = db /\ view' = None /\ view = None
    BY <1>1, <1>5 DEF Facts, Read, DeploymentKnown
  <2> QED BY <1>1, <1>2, <1>3, <1>5, <2>1 DEF Source, DeploymentKnown
<1> QED BY <1>4, <1>5

\* The first read of an investigation fixes its view.
LEMMA ResolveDeploymentKeeps ==
  ASSUME CInv, ResolveDeployment, UNCHANGED answer
  PROVE  CInv'
<1>1. /\ phase \in {"regression", "investigation"} /\ phase' = "before" /\ Read
      /\ UNCHANGED <<db, now, call, result, states, answer>>
  BY DEF ResolveDeployment
<1>2. PICK d \in Facts.deployments : got' = [started |-> got.started, deployment |-> d]
  BY DEF ResolveDeployment
<1>3. /\ db \in states /\ states \subseteq Rows /\ view = None /\ call.kind = phase
      /\ call \in Calls /\ got.started \in Int
  BY <1>1 DEF CInv, StatesOK, CommandOK
<1>4. Facts = db /\ view' = IF call.kind = "investigation" THEN db ELSE None
  BY <1>1, <1>3 DEF Facts, Read
<1>5. d \in Deployments
  BY <1>2, <1>3, <1>4 DEF Rows
<1>6. DeploymentKnown'
  BY <1>1, <1>2, <1>3, <1>4, <1>5 DEF DeploymentKnown, Selected
<1>7. ReadsOK' /\ ResultOK' /\ BaselineIsClean'
  BY <1>1, <1>6 DEF ReadsOK, ResultOK, Comparing, BaselineIsClean
<1>8. StatesOK' /\ AnswerOK'
  BY <1>1 DEF CInv, StatesOK, AnswerOK
<1>9. CommandOK'
  BY <1>1, <1>2, <1>3 DEF CommandOK
<1> QED BY <1>7, <1>8, <1>9 DEF CInv

\* The windows read of one side are those of a state of the database.
LEMMA ExactAre ==
  ASSUME NEW from, NEW to
  PROVE  Exact(Selected.service, None, from, to) = ServiceWindows(Facts, from, to)
BY DEF Exact, ServiceWindows

\* The windows before the deployment are those of a state of the database.
LEMMA ReadBeforeKeeps ==
  ASSUME CInv, ReadBefore, UNCHANGED answer
  PROVE  CInv'
<1> DEFINE W == Exact(Selected.service, None, BeforeStart, Selected.at)
<1>1. /\ phase = "before" /\ phase' = "after" /\ Read
      /\ got' = [f \in DOMAIN got \cup {"before"} |-> IF f = "before" THEN W ELSE got[f]]
      /\ UNCHANGED <<db, now, call, result, states, answer>>
  BY DEF ReadBefore
<1>2. /\ DeploymentKnown /\ call \in Calls /\ view' = view /\ Facts \in states /\ Source(Facts)
  BY <1>1, FactsAre
<1>3. DOMAIN got = {"started", "deployment"}
  BY <1>1 DEF CInv, CommandOK
<1>4. /\ DOMAIN got' = {"started", "deployment", "before"} /\ got'.before = W
      /\ \A f \in DOMAIN got : f \in DOMAIN got' /\ got'[f] = got[f]
  <2> HIDE DEF W
  <2> QED BY <1>1, <1>3
<1>5. DeploymentKnown'
  BY <1>1, <1>2, <1>4, KnownStays
<1>6. BeforeKnown'
  <2>1. W = ServiceWindows(Facts, BeforeStart, Selected.at)
    BY ExactAre
  <2>2. PICK s \in states : s = Facts
    BY <1>2
  <2>3. got'.deployment = got.deployment
    BY <1>3, <1>4
  <2>4. /\ BeforeStart' = BeforeStart /\ Selected' = Selected
        /\ ServiceWindows(s, BeforeStart, Selected.at)' =
             ServiceWindows(s, BeforeStart, Selected.at)
    <3>1. BeforeStart' = BeforeStart /\ Selected' = Selected
      BY <1>1, <2>3 DEF BeforeStart, Selected
    <3> QED BY <3>1 DEF ServiceWindows
  <2>5. s \in states' /\ Source(s)'
    BY <1>1, <1>2, <2>2 DEF Source
  <2>6. "before" \in DOMAIN got' /\ got'.before = ServiceWindows(s, BeforeStart, Selected.at)
    BY <1>4, <2>1, <2>2
  <2> QED BY <2>4, <2>5, <2>6 DEF BeforeKnown
<1>7. ReadsOK' /\ ResultOK' /\ BaselineIsClean'
  BY <1>1, <1>5, <1>6 DEF ReadsOK, ResultOK, Comparing, BaselineIsClean
<1>8. StatesOK' /\ AnswerOK'
  BY <1>1 DEF CInv, StatesOK, AnswerOK
<1>9. CommandOK'
  BY <1>1, <1>2, <1>3, <1>4 DEF CInv, CommandOK
<1> QED BY <1>7, <1>8, <1>9 DEF CInv

\* So are those after it, though a comparison may read them of a later state.
LEMMA ReadAfterKeeps ==
  ASSUME CInv, ReadAfter, UNCHANGED answer
  PROVE  CInv'
<1> DEFINE W == Exact(Selected.service, None, Selected.at, AfterEnd)
<1>1. /\ phase = "after" /\ phase' = "contamination" /\ Read
      /\ got' = [f \in DOMAIN got \cup {"after"} |-> IF f = "after" THEN W ELSE got[f]]
      /\ UNCHANGED <<db, now, call, result, states, answer>>
  BY DEF ReadAfter
<1>2. /\ DeploymentKnown /\ call \in Calls /\ view' = view /\ Facts \in states /\ Source(Facts)
  BY <1>1, FactsAre
<1>3. DOMAIN got = {"started", "deployment", "before"} /\ BeforeKnown
  BY <1>1 DEF CInv, CommandOK, ReadsOK, Comparing
<1>4. /\ DOMAIN got' = {"started", "deployment", "before", "after"} /\ got'.after = W
      /\ \A f \in DOMAIN got : f \in DOMAIN got' /\ got'[f] = got[f]
  <2> HIDE DEF W
  <2> QED BY <1>1, <1>3
<1>5. DeploymentKnown' /\ BeforeKnown'
  BY <1>1, <1>2, <1>3, <1>4, KnownStays
<1>6. AfterKnown'
  <2>1. W = ServiceWindows(Facts, Selected.at, AfterEnd)
    BY ExactAre
  <2>2. PICK s \in states : s = Facts
    BY <1>2
  <2>3. got'.deployment = got.deployment
    BY <1>3, <1>4
  <2>4. /\ AfterEnd' = AfterEnd /\ Selected' = Selected
        /\ ServiceWindows(s, Selected.at, AfterEnd)' = ServiceWindows(s, Selected.at, AfterEnd)
    <3>1. AfterEnd' = AfterEnd /\ Selected' = Selected
      BY <1>1, <2>3 DEF AfterEnd, Selected
    <3> QED BY <3>1 DEF ServiceWindows
  <2>5. s \in states' /\ Source(s)'
    BY <1>1, <1>2, <2>2 DEF Source
  <2>6. "after" \in DOMAIN got' /\ got'.after = ServiceWindows(s, Selected.at, AfterEnd)
    BY <1>4, <2>1, <2>2
  <2> QED BY <2>4, <2>5, <2>6 DEF AfterKnown
<1>7. ReadsOK' /\ ResultOK' /\ BaselineIsClean'
  BY <1>1, <1>5, <1>6 DEF ReadsOK, ResultOK, Comparing, BaselineIsClean
<1>8. StatesOK' /\ AnswerOK'
  BY <1>1 DEF CInv, StatesOK, AnswerOK
<1>9. CommandOK'
  BY <1>1, <1>2, <1>3, <1>4 DEF CInv, CommandOK
<1> QED BY <1>7, <1>8, <1>9 DEF CInv

\* The other deployments are read last, of a state that has every window read before.
LEMMA ReadContaminationKeeps ==
  ASSUME CInv, ReadContamination, UNCHANGED answer
  PROVE  CInv'
<1> DEFINE O == StartedIn(Selected.service, BeforeStart, AfterEnd) \ {Selected}
           C == Contamination(O)
<1>1. /\ phase = "contamination" /\ phase' = "compare" /\ Read
      /\ got' = [f \in DOMAIN got \cup {"contamination"} |->
                   IF f = "contamination" THEN C ELSE got[f]]
      /\ UNCHANGED <<db, now, call, result, states, answer>>
  BY DEF ReadContamination
<1>2. /\ DeploymentKnown /\ call \in Calls /\ view' = view /\ Facts \in states /\ Source(Facts)
      /\ call.kind # "investigation" => Facts = db
  BY <1>1, FactsAre
<1>3. /\ DOMAIN got = {"started", "deployment", "before", "after"} /\ BeforeKnown /\ AfterKnown
  BY <1>1 DEF CInv, CommandOK, ReadsOK, Comparing
<1>4. /\ DOMAIN got' = {"started", "deployment", "before", "after", "contamination"}
      /\ got'.contamination = C
      /\ \A f \in DOMAIN got : f \in DOMAIN got' /\ got'[f] = got[f]
  <2> HIDE DEF C
  <2> QED BY <1>1, <1>3
<1>5. DeploymentKnown' /\ BeforeKnown' /\ AfterKnown'
  BY <1>1, <1>2, <1>3, <1>4, KnownStays
<1>6. ASSUME NEW s \in states, Source(s)
      PROVE  s.windows \subseteq Facts.windows
  BY <1>1, <1>2, <1>6 DEF CInv, StatesOK, Source
<1>7. got.before \subseteq Facts.windows /\ got.after \subseteq Facts.windows
  <2>1. PICK s \in states : Source(s) /\ got.before = ServiceWindows(s, BeforeStart, Selected.at)
    BY <1>3 DEF BeforeKnown
  <2>2. PICK t \in states : Source(t) /\ got.after = ServiceWindows(t, Selected.at, AfterEnd)
    BY <1>3 DEF AfterKnown
  <2> QED BY <1>6, <2>1, <2>2 DEF ServiceWindows
<1>8. ContaminationKnown'
  <2>1. PICK s \in states : s = Facts
    BY <1>2
  <2>2. C = Contamination(DeploymentsOf(s) \ {Selected})
    <3>1. StartedIn(Selected.service, BeforeStart, AfterEnd) = DeploymentsOf(s)
      BY <2>1 DEF StartedIn, DeploymentsOf
    <3> QED BY <3>1
  <2>3. /\ got'.deployment = got.deployment /\ got'.before = got.before /\ got'.after = got.after
    BY <1>3, <1>4
  <2>4. Selected' = Selected /\ BeforeStart' = BeforeStart /\ AfterEnd' = AfterEnd
    BY <1>1, <2>3 DEF Selected, BeforeStart, AfterEnd
  <2>5. Contamination(DeploymentsOf(s) \ {Selected})' = Contamination(DeploymentsOf(s) \ {Selected})
    <3>1. DeploymentsOf(s)' = DeploymentsOf(s)
      BY <2>4 DEF DeploymentsOf
    <3> QED BY <2>4, <3>1 DEF Contamination
  <2>6. s \in states' /\ Source(s)'
    BY <1>1, <1>2, <2>1 DEF Source
  <2>7. /\ "contamination" \in DOMAIN got' /\ got'.before \subseteq s.windows
        /\ got'.after \subseteq s.windows
        /\ got'.contamination = Contamination(DeploymentsOf(s) \ {Selected})
    <3> HIDE DEF C
    <3> QED BY <1>4, <1>7, <2>1, <2>2, <2>3
  <2> QED BY <2>5, <2>6, <2>7 DEF ContaminationKnown
<1>9. ReadsOK' /\ ResultOK' /\ BaselineIsClean'
  BY <1>1, <1>5, <1>8 DEF ReadsOK, ResultOK, Comparing, BaselineIsClean
<1>10. StatesOK' /\ AnswerOK'
  BY <1>1 DEF CInv, StatesOK, AnswerOK
<1>11. CommandOK'
  BY <1>1, <1>2, <1>3, <1>4 DEF CInv, CommandOK
<1> QED BY <1>9, <1>10, <1>11 DEF CInv

\* The result is made from what was read, and known from then on.
LEMMA CompareKnows ==
  ASSUME CInv, phase = "compare", NEW generated \in Int, result' = Compared(generated),
         UNCHANGED <<call, view, got, states>>
  PROVE  ResultKnown' /\ DOMAIN result' = ResultFields
<1> DEFINE c == got.contamination
           b == Evaluate(got.before, c.before # {}, generated, BeforeStart, Selected.at)
           a == Evaluate(got.after, c.after # {}, generated, Selected.at, AfterEnd)
           available == /\ b.status = "AVAILABLE" /\ a.status = "AVAILABLE"
                        /\ ~c.truncated /\ c.before \cup c.after \cup c.concurrent = {}
                        /\ AfterEnd <= generated
<1>1. /\ DeploymentKnown /\ BeforeKnown /\ AfterKnown /\ call \in Calls
  BY DEF CInv, ReadsOK, Comparing, CommandOK
<1>2. /\ Selected.at \in Int /\ BeforeStart \in Int /\ AfterEnd \in Int
  BY <1>1, ComparisonFacts, CallFacts DEF DeploymentKnown, BeforeStart, AfterEnd
<1>3. ASSUME NEW s \in states, NEW from, NEW to
      PROVE  /\ ServiceWindows(s, from, to) \in SUBSET [row : Windows, observedAt : Int]
             /\ IsFiniteSet(ServiceWindows(s, from, to))
  <2>1. s \in Rows /\ s.windows \subseteq db.windows /\ IsFiniteSet(db.windows)
    BY <1>1 DEF CInv, StatesOK
  <2> DEFINE W == ServiceWindows(s, from, to)
  <2>2. W \in SUBSET db.windows /\ W \in SUBSET s.windows
    BY <2>1 DEF ServiceWindows
  <2>3. s.windows \in SUBSET [row : Windows, observedAt : Int]
    BY <2>1 DEF Rows
  <2> HIDE DEF W
  <2>4. IsFiniteSet(W)
    BY <2>1, <2>2, FS_Subset
  <2>5. W \in SUBSET [row : Windows, observedAt : Int]
    BY <2>2, <2>3
  <2> QED BY <2>4, <2>5 DEF W
<1>4. /\ got.before \in SUBSET [row : Windows, observedAt : Int] /\ IsFiniteSet(got.before)
      /\ got.after \in SUBSET [row : Windows, observedAt : Int] /\ IsFiniteSet(got.after)
  BY <1>1, <1>3 DEF BeforeKnown, AfterKnown
<1>5. /\ b = Concluded(got.before, c.before, generated, BeforeStart, Selected.at)
      /\ a = Concluded(got.after, c.after, generated, Selected.at, AfterEnd)
  BY DEF Concluded
<1>6. result' =
        [status |-> IF available THEN "AVAILABLE" ELSE "UNKNOWN",
         before |-> b.value, after |-> a.value,
         delta |-> IF available THEN a.value - b.value ELSE None,
         relative |-> IF available /\ b.value # 0
                      THEN [delta |-> a.value - b.value, of |-> b.value] ELSE None,
         classification |-> IF available THEN Classify(b.value, a.value) ELSE "UNKNOWN",
         sides |-> <<b, a>>, generated |-> generated]
  BY DEF Compared
<1> HIDE DEF b, a, available, c
<1>7. ASSUME NEW W \in SUBSET [row : Windows, observedAt : Int], IsFiniteSet(W), NEW D,
             NEW start \in Int, NEW at \in Int,
             NEW e, e = Concluded(W, D, generated, start, at)
      PROVE  /\ e.accepted \subseteq W
             /\ \A x \in e.rejected : x.window \in W /\ x.reason \in Reasons
             /\ (e.status = "AVAILABLE") =>
                  \E w \in W : /\ W = {w} /\ e.value = Value(w)
                               /\ w.row.count >= call.minSamples /\ w.observedAt <= generated
  <2>1. call \in Calls
    BY <1>1
  <2>2. Judged(e, W, D, generated, at)
    BY <1>7, <2>1, EvaluateIs
  <2> QED BY <2>2 DEF Judged
<1>8. /\ DOMAIN result' = ResultFields /\ result'.generated = generated
      /\ result'.sides[1] = b /\ result'.sides[2] = a
      /\ result'.before = b.value /\ result'.after = a.value
  BY <1>6 DEF ResultFields
<1>9. ASSUME NEW e, NEW W, e.accepted \subseteq W,
             \A x \in e.rejected : x.window \in W /\ x.reason \in Reasons,
             (e.status = "AVAILABLE") =>
               \E w \in W : /\ W = {w} /\ e.value = Value(w)
                            /\ w.row.count >= call.minSamples /\ w.observedAt <= generated
      PROVE  SideIs(e, W)'
  <2>1. \A w : Value(w)' = Value(w)
    BY DEF Value
  <2> QED BY <1>8, <1>9, <2>1 DEF SideIs
<1>10. /\ SideIs(result.sides[1], got.before)' /\ SideIs(result.sides[2], got.after)'
  <2>1. /\ b = Concluded(got.before, got.contamination.before, generated, BeforeStart, Selected.at)
        /\ a = Concluded(got.after, got.contamination.after, generated, Selected.at, AfterEnd)
    BY <1>5 DEF c
  <2>2. PICK W, V, e, f :
          W = got.before /\ V = got.after /\ e = result'.sides[1] /\ f = result'.sides[2]
    OBVIOUS
  <2>3. /\ e = Concluded(W, got.contamination.before, generated, BeforeStart, Selected.at)
        /\ f = Concluded(V, got.contamination.after, generated, Selected.at, AfterEnd)
    BY <1>8, <2>1, <2>2
  <2>4. /\ W \in SUBSET [row : Windows, observedAt : Int] /\ IsFiniteSet(W)
        /\ V \in SUBSET [row : Windows, observedAt : Int] /\ IsFiniteSet(V)
    BY <1>4, <2>2
  <2>5. SideIs(e, W)'
    BY <1>2, <1>7, <1>9, <2>3, <2>4
  <2>6. SideIs(f, V)'
    BY <1>2, <1>7, <1>9, <2>3, <2>4
  <2>7. W = got'.before /\ V = got'.after /\ e = result'.sides[1] /\ f = result'.sides[2]
    BY <2>2
  <2> QED BY <2>5, <2>6, <2>7
<1>11. SignalOK'
  <2>1. PICK x, y : x = b.value /\ y = a.value
    OBVIOUS
  <2>2. Classify(x, y)' = Classify(x, y)
    BY DEF Classify
  <2>3. AfterEnd' = AfterEnd
    BY DEF AfterEnd, Selected
  <2>4. CASE available
    <3>1. /\ result'.status = "AVAILABLE" /\ result'.before = x /\ result'.after = y
          /\ result'.delta = y - x /\ result'.classification = Classify(x, y)
          /\ result'.relative = IF x # 0 THEN [delta |-> y - x, of |-> x] ELSE None
      BY <1>6, <2>1, <2>4
    <3>2. /\ b.status = "AVAILABLE" /\ a.status = "AVAILABLE" /\ AfterEnd <= generated
          /\ Uncontaminated(got.contamination)
      BY <2>4 DEF available, c, Uncontaminated
    <3>3. Uncontaminated(got.contamination)'
      BY <3>2 DEF Uncontaminated
    <3>4. Classify(result.before, result.after)' = Classify(x, y)
      BY <3>1 DEF Classify
    <3> QED BY <1>8, <2>3, <3>1, <3>2, <3>3, <3>4 DEF SignalOK
  <2>5. CASE ~available
    <3>1. /\ result'.status = "UNKNOWN" /\ result'.delta = None /\ result'.relative = None
          /\ result'.classification = "UNKNOWN"
      BY <1>6, <2>5
    <3> QED BY <3>1 DEF SignalOK
  <2> QED BY <2>4, <2>5
<1> QED BY <1>8, <1>10, <1>11 DEF ResultKnown

\* The signal is that of the windows that were read.
LEMMA CompareKeeps ==
  ASSUME CInv, Compare, UNCHANGED answer
  PROVE  CInv'
<1>1. /\ phase = "compare"
      /\ result' = Compared(IF call.kind = "investigation" THEN got.started ELSE now)
      /\ phase' = IF call.kind = "investigation" THEN "graph" ELSE "done"
      /\ UNCHANGED <<db, now, call, view, got, states, answer>>
  BY DEF Compare
<1>2. DeploymentKnown /\ BeforeKnown /\ AfterKnown /\ ContaminationKnown
  BY <1>1 DEF CInv, ReadsOK, Comparing
<1>3. call \in Calls /\ got.started \in Int /\ now \in Int /\ "started" \in DOMAIN got
  BY <1>1 DEF CInv, StatesOK, CommandOK
<1>4. ResultKnown' /\ DOMAIN result' = ResultFields
  <2>1. PICK generated : generated = IF call.kind = "investigation" THEN got.started ELSE now
    OBVIOUS
  <2>2. generated \in Int
    BY <1>3, <2>1
  <2>3. result' = Compared(generated)
    BY <1>1, <2>1
  <2> QED BY <1>1, <2>2, <2>3, CompareKnows
<1>5. DeploymentKnown' /\ BeforeKnown' /\ AfterKnown' /\ ContaminationKnown'
  BY <1>1, <1>2, KnownStays
<1>6. call.kind \in {"regression", "investigation"}
  BY <1>2 DEF DeploymentKnown
<1>7. ReadsOK'
  BY <1>1, <1>5 DEF ReadsOK, Comparing
<1>8. ResultOK'
  BY <1>1, <1>4, <1>6 DEF ResultOK, Comparing
<1>9. StatesOK' /\ CommandOK'
  BY <1>1, <1>3 DEF CInv, StatesOK, CommandOK
<1>10. AnswerOK' /\ BaselineIsClean'
  BY <1>1, <1>6 DEF CInv, AnswerOK, BaselineIsClean
<1> QED BY <1>7, <1>8, <1>9, <1>10 DEF CInv

\* What is left of an investigation adds to its result and changes nothing in it.
LEMMA ReadGraphKeeps ==
  ASSUME CInv, ReadGraph, UNCHANGED answer
  PROVE  CInv'
<1> DEFINE E == EdgesOf(Facts)
<1>1. /\ phase = "graph" /\ phase' = "timeline" /\ Read
      /\ UNCHANGED <<db, now, call, got, states, answer>>
  BY DEF ReadGraph
<1>2. result' = [f \in DOMAIN result \cup {"edges"} |-> IF f = "edges" THEN E ELSE result[f]]
  BY DEF ReadGraph, Adding, EdgesOf
<1>3. /\ DeploymentKnown /\ call \in Calls /\ view' = view /\ Facts \in states /\ Source(Facts)
  BY <1>1, FactsAre
<1>4. /\ call.kind = "investigation" /\ DOMAIN result = ResultFields /\ ResultKnown
      /\ BeforeKnown /\ AfterKnown /\ ContaminationKnown
  BY <1>1 DEF CInv, CommandOK, ResultOK, ReadsOK, Comparing
<1>5. Facts = view
  BY <1>3, <1>4 DEF Source
<1>6. /\ DOMAIN result' = ResultFields \cup {"edges"} /\ result'.edges = E
      /\ \A f \in DOMAIN result : f \in DOMAIN result' /\ result'[f] = result[f]
  <2> HIDE DEF E
  <2> QED BY <1>2, <1>4 DEF ResultFields
<1>7. ResultKnown'
  BY <1>1, <1>3, <1>4, <1>6, ResultsStay
<1>8. GraphKnown'
  <2>1. EdgesOf(view)' = EdgesOf(view)
    BY <1>1, <1>3 DEF EdgesOf, Selected
  <2> HIDE DEF E
  <2>2. E = EdgesOf(view)
    BY <1>5 DEF E
  <2> QED BY <1>6, <2>1, <2>2 DEF GraphKnown
<1>9. DeploymentKnown' /\ BeforeKnown' /\ AfterKnown' /\ ContaminationKnown'
  BY <1>1, <1>3, <1>4, KnownStays
<1>10. ReadsOK' /\ ResultOK'
  BY <1>1, <1>6, <1>7, <1>8, <1>9 DEF ReadsOK, ResultOK, Comparing
<1>11. StatesOK' /\ CommandOK' /\ AnswerOK' /\ BaselineIsClean'
  BY <1>1, <1>3, <1>4 DEF CInv, StatesOK, CommandOK, AnswerOK, BaselineIsClean
<1> QED BY <1>10, <1>11 DEF CInv

\* The timeline is the first of the events of the view.
LEMMA ReadTimelineKeeps ==
  ASSUME CInv, ReadTimeline, UNCHANGED answer
  PROVE  CInv'
<1> DEFINE T == FirstEvents(EventsOf(Facts))
<1>1. /\ phase = "timeline" /\ phase' = "done" /\ Read
      /\ UNCHANGED <<db, now, call, got, states, answer>>
  BY DEF ReadTimeline
<1>2. result' = [f \in DOMAIN result \cup {"timeline"} |->
                   IF f = "timeline" THEN T ELSE result[f]]
  BY DEF ReadTimeline, Adding, EventsOf, DeploymentsOf, StartedIn, FirstEvents
<1>3. /\ DeploymentKnown /\ call \in Calls /\ view' = view /\ Facts \in states /\ Source(Facts)
  BY <1>1, FactsAre
<1>4. /\ call.kind = "investigation" /\ DOMAIN result = ResultFields \cup {"edges"}
      /\ ResultKnown /\ GraphKnown /\ BeforeKnown /\ AfterKnown /\ ContaminationKnown
  BY <1>1 DEF CInv, CommandOK, ResultOK, ReadsOK, Comparing
<1>5. Facts = view
  BY <1>3, <1>4 DEF Source
<1>6. /\ result'.timeline = T
      /\ \A f \in DOMAIN result : f \in DOMAIN result' /\ result'[f] = result[f]
  <2> HIDE DEF T
  <2> QED BY <1>2, <1>4 DEF ResultFields
<1>7. ResultKnown' /\ GraphKnown'
  BY <1>1, <1>3, <1>4, <1>6, ResultsStay
<1>8. TimelineKnown'
  <2>1. EventsOf(view)' = EventsOf(view)
    BY <1>1, <1>3 DEF EventsOf, DeploymentsOf, BeforeStart, AfterEnd, Selected
  <2>2. FirstEvents(EventsOf(view))' = FirstEvents(EventsOf(view))
    BY <2>1 DEF FirstEvents, Nth
  <2> HIDE DEF T
  <2>3. T = FirstEvents(EventsOf(view))
    BY <1>5 DEF T
  <2> QED BY <1>6, <2>2, <2>3 DEF TimelineKnown
<1>9. DeploymentKnown' /\ BeforeKnown' /\ AfterKnown' /\ ContaminationKnown'
  BY <1>1, <1>3, <1>4, KnownStays
<1>10. ReadsOK' /\ ResultOK'
  BY <1>1, <1>4, <1>7, <1>8, <1>9 DEF ReadsOK, ResultOK, Comparing
<1>11. StatesOK' /\ CommandOK' /\ AnswerOK' /\ BaselineIsClean'
  BY <1>1, <1>3, <1>4 DEF CInv, StatesOK, CommandOK, AnswerOK, BaselineIsClean
<1> QED BY <1>10, <1>11 DEF CInv

\* An answer is given once, when the investigation is done.
LEMMA AnswerKeeps ==
  ASSUME CInv, Answer
  PROVE  CInv'
<1>1. /\ phase = "done" /\ call.kind = "investigation"
      /\ UNCHANGED <<db, now, call, view, phase, got, result, states>>
  BY DEF Answer, vars
<1>2. DeploymentKnown /\ BeforeKnown /\ AfterKnown /\ ContaminationKnown
      /\ GraphKnown /\ TimelineKnown
  BY <1>1 DEF CInv, ReadsOK, ResultOK, Comparing
<1>3. DeploymentKnown' /\ BeforeKnown' /\ AfterKnown' /\ ContaminationKnown'
  BY <1>1, <1>2, KnownStays
<1>4. ResultKnown => ResultKnown'
  BY <1>1, ResultsStay
<1>5. GraphKnown'
  BY <1>1, <1>2, ResultsStay
<1>6. TimelineKnown'
  BY <1>1, <1>2, TimelineStays
<1>7. BaselineIsClean'
  BY <1>1 DEF BaselineIsClean
<1>8. ReadsOK' /\ ResultOK'
  BY <1>1, <1>3, <1>4, <1>5, <1>6 DEF CInv, ReadsOK, ResultOK, Comparing
<1>9. StatesOK' /\ CommandOK' /\ AnswerOK'
  BY <1>1 DEF CInv, StatesOK, CommandOK, AnswerOK
<1> QED BY <1>7, <1>8, <1>9 DEF CInv

\* Every step of a command and of the others.
LEMMA ComparisonStep ==
  ASSUME CInv, [DocumentNext]_documentVars
  PROVE  CInv'
<1>1. CASE Next /\ UNCHANGED answer
  <2>1. CASE CaptureSaved \/ DeploymentSaved \/ RuntimeSnapshotSaved \/ Tick
    BY <1>1, <2>1, CommitsKeep
  <2>2. CASE Start
    BY <1>1, <2>2, StartKeeps
  <2>3. CASE Baseline
    BY <1>1, <2>3, BaselineKeeps
  <2>4. CASE ResolveDeployment
    BY <1>1, <2>4, ResolveDeploymentKeeps
  <2>5. CASE ReadBefore
    BY <1>1, <2>5, ReadBeforeKeeps
  <2>6. CASE ReadAfter
    BY <1>1, <2>6, ReadAfterKeeps
  <2>7. CASE ReadContamination
    BY <1>1, <2>7, ReadContaminationKeeps
  <2>8. CASE Compare
    BY <1>1, <2>8, CompareKeeps
  <2>9. CASE ReadGraph
    BY <1>1, <2>9, ReadGraphKeeps
  <2>10. CASE ReadTimeline
    BY <1>1, <2>10, ReadTimelineKeeps
  <2>11. CASE Fail
    BY <1>1, <2>11, FailKeeps
  <2> QED BY <1>1, <2>1, <2>2, <2>3, <2>4, <2>5, <2>6, <2>7, <2>8, <2>9, <2>10, <2>11 DEF Next
<1>2. CASE Answer
  BY <1>2, AnswerKeeps
<1>3. CASE UNCHANGED documentVars
  <2>1. UNCHANGED <<db, now, call, view, phase, got, result, states, answer>>
    BY <1>3 DEF documentVars, vars
  <2>2. StatesOK'
    BY <2>1 DEF CInv, StatesOK
  <2> QED BY <2>1, <2>2, OthersKeep
<1> QED BY <1>1, <1>2, <1>3 DEF DocumentNext

\* What a comparison lists is split at its deployment; if nothing is, there was nothing.
LEMMA ContaminationIs ==
  ASSUME Selected \in Deployments, NEW O \in SUBSET Deployments,
         NEW c, c = Contamination(O)
  PROVE  /\ c.before \cup c.concurrent \cup c.after = Earliest(O, MaxContaminating)
         /\ c.truncated <=> Earliest(O, MaxContaminating) # O
         /\ Uncontaminated(c) => O = {}
<1> DEFINE listed == Earliest(O, MaxContaminating)
<1>1. listed \in SUBSET O
  BY ComparisonFacts, EarliestAre
<1>2. \A d \in listed : d.at \in Int
  BY <1>1, ComparisonFacts
<1>3. Selected.at \in Int
  BY ComparisonFacts
<1>4. c = [before |-> {d \in listed : d.at < Selected.at},
           concurrent |-> {d \in listed : d.at = Selected.at},
           after |-> {d \in listed : d.at > Selected.at},
           truncated |-> listed # O]
  BY DEF Contamination
<1> HIDE DEF listed
<1>5. /\ c.before = {d \in listed : d.at < Selected.at}
      /\ c.concurrent = {d \in listed : d.at = Selected.at}
      /\ c.after = {d \in listed : d.at > Selected.at}
  BY <1>4
<1>6. c.truncated <=> listed # O
  <2>1. c.truncated = (listed # O)
    BY <1>4
  <2>2. CASE listed = O
    BY <2>1, <2>2
  <2>3. CASE listed # O
    BY <2>1, <2>3
  <2> QED BY <2>2, <2>3
<1>7. c.before \cup c.concurrent \cup c.after = listed
  BY <1>2, <1>3, <1>5
<1>8. Uncontaminated(c) => O = {}
  BY <1>6, <1>7 DEF Uncontaminated
<1> QED BY <1>6, <1>7, <1>8 DEF listed

\* What is known of an investigation or a comparison that is done.
LEMMA DoneIs ==
  ASSUME CInv, phase = "done", call.kind # "baseline"
  PROVE  /\ call \in Calls /\ DeploymentKnown /\ BeforeKnown /\ AfterKnown /\ ContaminationKnown
         /\ ResultKnown /\ states \subseteq Rows
         /\ Selected.at \in Int /\ BeforeStart \in Int /\ AfterEnd \in Int
         /\ BeforeStart < Selected.at /\ Selected.at < AfterEnd
<1>1. /\ call \in Calls /\ DeploymentKnown /\ BeforeKnown /\ AfterKnown /\ ContaminationKnown
      /\ ResultKnown /\ states \subseteq Rows
  BY DEF CInv, StatesOK, CommandOK, ReadsOK, ResultOK, Comparing
<1>2. Selected.at \in Int
  BY <1>1, ComparisonFacts DEF DeploymentKnown
<1>3. /\ BeforeStart \in Int /\ AfterEnd \in Int
      /\ BeforeStart < Selected.at /\ Selected.at < AfterEnd
  BY <1>1, <1>2, CallFacts DEF BeforeStart, AfterEnd
<1> QED BY <1>1, <1>2, <1>3

\* An available comparison is of windows stored together, and nothing else explains it.
LEMMA ComparedIsTrue == CInv => ComparedTogether
<1> SUFFICES ASSUME CInv, phase = "done", call.kind # "baseline", result.status = "AVAILABLE"
             PROVE  /\ AfterEnd <= result.generated
                    /\ \E s \in states :
                         \E b \in ServiceWindows(s, BeforeStart, Selected.at),
                            a \in ServiceWindows(s, Selected.at, AfterEnd) :
                           /\ Explains(s, b, a)
                           /\ (call.kind = "investigation") =>
                                /\ ServiceWindows(s, BeforeStart, Selected.at) = {b}
                                /\ ServiceWindows(s, Selected.at, AfterEnd) = {a}
  BY DEF ComparedTogether
<1>1. /\ call \in Calls /\ DeploymentKnown /\ BeforeKnown /\ AfterKnown /\ ContaminationKnown
      /\ ResultKnown /\ states \subseteq Rows
      /\ Selected.at \in Int /\ BeforeStart \in Int /\ AfterEnd \in Int
  BY DoneIs
<1>2. /\ result.sides[1].status = "AVAILABLE" /\ result.sides[2].status = "AVAILABLE"
      /\ Uncontaminated(got.contamination) /\ AfterEnd <= result.generated
      /\ result.classification = Classify(result.before, result.after)
  BY <1>1 DEF ResultKnown, SignalOK
<1>3. PICK s \in states :
        /\ Source(s) /\ got.before \subseteq s.windows /\ got.after \subseteq s.windows
        /\ got.contamination = Contamination(DeploymentsOf(s) \ {Selected})
  BY <1>1 DEF ContaminationKnown
<1>4. PICK b \in got.before :
        /\ got.before = {b} /\ result.sides[1].value = Value(b)
        /\ b.row.count >= call.minSamples /\ b.observedAt <= result.generated
  BY <1>1, <1>2 DEF ResultKnown, SideIs
<1>5. PICK a \in got.after :
        /\ got.after = {a} /\ result.sides[2].value = Value(a)
        /\ a.row.count >= call.minSamples /\ a.observedAt <= result.generated
  BY <1>1, <1>2 DEF ResultKnown, SideIs
<1>6. /\ b \in ServiceWindows(s, BeforeStart, Selected.at)
      /\ (call.kind = "investigation") => ServiceWindows(s, BeforeStart, Selected.at) = {b}
  <2>1. PICK t \in states : Source(t) /\ got.before = ServiceWindows(t, BeforeStart, Selected.at)
    BY <1>1 DEF BeforeKnown
  <2>2. b \in ServiceWindows(s, BeforeStart, Selected.at)
    BY <1>3, <2>1 DEF ServiceWindows
  <2>3. (call.kind = "investigation") => t = s
    BY <1>3, <2>1 DEF Source
  <2> QED BY <1>4, <2>1, <2>2, <2>3
<1>7. /\ a \in ServiceWindows(s, Selected.at, AfterEnd)
      /\ (call.kind = "investigation") => ServiceWindows(s, Selected.at, AfterEnd) = {a}
  <2>1. PICK t \in states : Source(t) /\ got.after = ServiceWindows(t, Selected.at, AfterEnd)
    BY <1>1 DEF AfterKnown
  <2>2. a \in ServiceWindows(s, Selected.at, AfterEnd)
    BY <1>3, <2>1 DEF ServiceWindows
  <2>3. (call.kind = "investigation") => t = s
    BY <1>3, <2>1 DEF Source
  <2> QED BY <1>5, <2>1, <2>2, <2>3
<1>8. result.before = Value(b) /\ result.after = Value(a)
  BY <1>1, <1>4, <1>5 DEF ResultKnown
<1>9. result.classification = Signal(b, a)
  <2>1. b \in [row : Windows, observedAt : Int] /\ a \in [row : Windows, observedAt : Int]
    BY <1>1, <1>3 DEF Rows
  <2>2. Value(b) \in Int /\ Value(a) \in Int
    BY <2>1, ValueIs
  <2>3. Classify(Value(b), Value(a)) = Signal(b, a)
    BY <1>1, <2>2, SignalIs
  <2> QED BY <1>2, <1>8, <2>3
<1>10. \A d \in s.deployments :
         (d.service = Selected.service /\ d # Selected) => (d.at \notin BeforeStart..(AfterEnd - 1))
  <2>1. s.deployments \subseteq Deployments /\ Selected \in Deployments
    BY <1>1 DEF Rows, DeploymentKnown
  <2>2. PICK O \in SUBSET Deployments : O = DeploymentsOf(s) \ {Selected}
    BY <2>1 DEF DeploymentsOf
  <2>3. O = {}
    BY <1>2, <1>3, <2>1, <2>2, ContaminationIs
  <2>4. \A d \in s.deployments : d.at \in Int
    BY <2>1, ComparisonFacts
  <2>5. \A d \in s.deployments :
          (d.service = Selected.service /\ d # Selected) =>
            ~(BeforeStart <= d.at /\ d.at < AfterEnd)
    BY <2>2, <2>3 DEF DeploymentsOf
  <2> QED BY <1>1, <2>4, <2>5
<1>11. Explains(s, b, a)
  BY <1>4, <1>5, <1>8, <1>9, <1>10 DEF Explains
<1> QED BY <1>2, <1>6, <1>7, <1>11

\* The timeline of an investigation is of its view, as are the deployments it was told of.
LEMMA TimelineIsAgreed == CInv => TimelineAgrees
<1> DEFINE c == got.contamination
           told == c.before \cup c.concurrent \cup c.after \cup {Selected}
           events == {result.timeline[n] : n \in DOMAIN result.timeline}
           shown == {e.row : e \in {f \in events : f.type = "deployment"}}
           D == DeploymentsOf(view)
           O == D \ {Selected}
           listed == Earliest(O, MaxContaminating)
<1> SUFFICES ASSUME CInv, phase = "done", call.kind = "investigation"
             PROVE  /\ (result.status = "AVAILABLE") => (told = {Selected})
                    /\ \/ shown = told
                       \/ c.truncated /\ Cardinality(told) = MaxContaminating + 1
                       \/ Cardinality(events) = TimelineLimit /\ shown \subseteq told
  BY DEF TimelineAgrees
<1>1. /\ call \in Calls /\ DeploymentKnown /\ ContaminationKnown /\ ResultKnown
      /\ states \subseteq Rows
      /\ Selected.at \in Int /\ BeforeStart < Selected.at /\ Selected.at < AfterEnd
  BY DoneIs
<1>2. /\ view \in states /\ view \in Rows
      /\ Selected \in Deployments /\ Selected \in view.deployments
      /\ view.deployments \subseteq Deployments /\ view.runtimes \subseteq Runtimes
  BY <1>1 DEF DeploymentKnown, Rows
<1>3. c = Contamination(O)
  BY <1>1 DEF ContaminationKnown, Source
<1>4. O \in SUBSET Deployments /\ Selected \notin O /\ D = O \cup {Selected}
  <2>1. Selected \in D
    <3>1. BeforeStart \in Int /\ AfterEnd \in Int
      BY DoneIs
    <3> QED BY <1>1, <1>2, <3>1 DEF DeploymentsOf
  <2> QED BY <1>2, <2>1 DEF DeploymentsOf
<1>5. /\ told = listed \cup {Selected} /\ (c.truncated <=> listed # O)
      /\ Uncontaminated(c) => O = {}
  <2> HIDE DEF c, O
  <2>1. /\ c.before \cup c.concurrent \cup c.after = listed
        /\ c.truncated <=> listed # O
        /\ Uncontaminated(c) => O = {}
    BY <1>2, <1>3, <1>4, ContaminationIs
  <2> QED BY <2>1
<1>6. /\ listed \in SUBSET O /\ IsFiniteSet(listed)
      /\ listed = O \/ Cardinality(listed) = MaxContaminating
  <2> HIDE DEF O
  <2> QED BY <1>4, ComparisonFacts, EarliestAre
<1>7. (result.status = "AVAILABLE") => (told = {Selected})
  BY <1>1, <1>5, <1>6 DEF ResultKnown, SignalOK
<1>8. CASE listed = O
  <2>1. PICK S \in SUBSET AllEvents : S = EventsOf(view)
    BY <1>2 DEF AllEvents, EventsOf, DeploymentsOf
  <2>2. result.timeline = FirstEvents(S)
    BY <2>1 DEF CInv, ResultOK, TimelineKnown
  <2>3. /\ \A n \in DOMAIN result.timeline : result.timeline[n] \in S
        /\ events = S \/ Cardinality(events) = TimelineLimit
    <3>1. PICK t : t = result.timeline
      OBVIOUS
    <3>2. /\ \A n \in DOMAIN t : n \in Nat /\ n >= 1 /\ t[n] \in S
          /\ \/ {t[n] : n \in DOMAIN t} = S
             \/ Cardinality({t[n] : n \in DOMAIN t}) = TimelineLimit
      BY <2>2, <3>1, FirstEventsAre
    <3> QED BY <3>1, <3>2
  <2>4. \A e \in S : e.type = "deployment" => e.row \in D
    BY <2>1 DEF EventsOf, Event
  <2>5. events \subseteq S
    BY <2>3
  <2>6. told = D
    BY <1>4, <1>5, <1>8
  <2>7. shown \subseteq D
    <3> HIDE DEF events
    <3> QED BY <2>4, <2>5
  <2>8. ASSUME events = S
        PROVE  D \subseteq shown
    <3>1. ASSUME NEW d \in D
          PROVE  d \in shown
      <4>1. Event("deployment", d) \in S
        BY <2>1 DEF EventsOf
      <4>2. Event("deployment", d).type = "deployment" /\ Event("deployment", d).row = d
        BY DEF Event
      <4> HIDE DEF events
      <4> QED BY <2>8, <4>1, <4>2
    <3> QED BY <3>1
  <2> HIDE DEF told, shown, events, D
  <2> QED BY <1>7, <2>3, <2>6, <2>7, <2>8
<1>9. CASE listed # O
  <2>1. Cardinality(listed) = MaxContaminating /\ Selected \notin listed /\ IsFiniteSet(listed)
    BY <1>4, <1>6, <1>9
  <2> HIDE DEF listed
  <2>2. Cardinality(listed \cup {Selected}) = Cardinality(listed) + 1
    BY <2>1, FS_AddElement
  <2>3. c.truncated
    BY <1>5, <1>9
  <2> QED BY <1>5, <1>7, <2>1, <2>2, <2>3
<1> QED BY <1>8, <1>9

\* What composes an investigation is what its document is checked for, rule by rule.
LEMMA ComparisonPasses ==
  ASSUME CInv, phase = "done", call.kind = "investigation",
         NEW d, d = documentFrom(result)
  PROVE  /\ regressionFromDocument(d) <=> ~LacksDelta
         /\ sameClassification(d)
<1>1. /\ call \in Calls /\ DeploymentKnown /\ BeforeKnown /\ AfterKnown /\ ContaminationKnown
      /\ ResultKnown /\ states \subseteq Rows
      /\ Selected.at \in Int /\ BeforeStart \in Int /\ AfterEnd \in Int
      /\ BeforeStart < Selected.at /\ Selected.at < AfterEnd
  BY DoneIs
<1>2. /\ d.deployment = Selected /\ d.metric = call.metric /\ d.status = result.status
      /\ d.sides = result.sides /\ d.delta = result.delta /\ d.relative = result.relative
      /\ d.contamination = got.contamination /\ d.classification = result.classification
      /\ d.since = BeforeStart /\ d.until = AfterEnd
  BY DEF documentFrom
<1>3. ASSUME NEW s \in states, NEW W, NEW from \in Int, NEW to \in Int,
             W = ServiceWindows(s, from, to), NEW side, SideIs(side, W)
      PROVE  sideFromDocument(side, from, to)
  BY <1>3 DEF SideIs, ServiceWindows, sideFromDocument
<1>4. /\ sideFromDocument(d.sides[1], d.since, d.deployment.at)
      /\ sideFromDocument(d.sides[2], d.deployment.at, d.until)
  BY <1>1, <1>2, <1>3 DEF BeforeKnown, AfterKnown, ResultKnown
<1>5. CASE result.status = "AVAILABLE"
  <2>1. /\ result.sides[1].status = "AVAILABLE" /\ result.sides[2].status = "AVAILABLE"
        /\ Uncontaminated(got.contamination)
        /\ result.delta = result.after - result.before
        /\ result.relative = IF result.before # 0
                             THEN [delta |-> result.after - result.before, of |-> result.before]
                             ELSE None
        /\ result.classification = Classify(result.before, result.after)
        /\ result.before = result.sides[1].value /\ result.after = result.sides[2].value
    BY <1>1, <1>5 DEF ResultKnown, SignalOK
  <2>2. result.before \in Int /\ result.after \in Int
    <3>1. PICK s \in states : got.before = ServiceWindows(s, BeforeStart, Selected.at)
      BY <1>1 DEF BeforeKnown
    <3>2. PICK t \in states : got.after = ServiceWindows(t, Selected.at, AfterEnd)
      BY <1>1 DEF AfterKnown
    <3>3. /\ \A w \in got.before : w \in [row : Windows, observedAt : Int]
          /\ \A w \in got.after : w \in [row : Windows, observedAt : Int]
      BY <1>1, <3>1, <3>2 DEF ServiceWindows, Rows
    <3>4. PICK b \in got.before : result.before = Value(b)
      BY <1>1, <2>1 DEF ResultKnown, SideIs
    <3>5. PICK a \in got.after : result.after = Value(a)
      BY <1>1, <2>1 DEF ResultKnown, SideIs
    <3> QED BY <3>3, <3>4, <3>5, ValueIs
  <2>3. result.delta \in Int /\ result.delta # None
    BY <2>1, <2>2, NoneIsNothing
  <2>4. result.before # 0 =>
          /\ result.relative # None
          /\ result.relative.delta = result.delta /\ result.relative.of = result.before
    <3>1. ASSUME result.before # 0
          PROVE  result.relative \in [delta : Int, of : Int]
                 /\ result.relative.delta = result.delta /\ result.relative.of = result.before
      BY <2>1, <2>2, <3>1
    <3> QED BY <3>1, NoneIsNothing
  <2>5. result.before = 0 => result.relative = None
    BY <2>1
  <2>6. LacksDelta <=> call.metric = "latency" /\ result.relative = None
    BY <1>5, <2>4, <2>5 DEF LacksDelta
  <2>7. regressionFromDocument(d) <=> ~LacksDelta
    <3>1. d.contamination.before \cup d.contamination.concurrent \cup d.contamination.after = {}
          /\ ~d.contamination.truncated
      BY <1>2, <2>1 DEF Uncontaminated
    <3>2. (d.relative # None /\ result.before # 0) =>
             (d.relative.delta * result.before = d.delta * d.relative.of)
      BY <1>2, <2>4
    <3>3. /\ d.sides[1].status = "AVAILABLE" /\ d.sides[2].status = "AVAILABLE"
          /\ d.sides[1].value = result.before /\ d.sides[2].value = result.after
          /\ d.delta # None /\ d.delta = result.after - result.before
      BY <1>2, <2>1, <2>3
    <3>4. LacksDelta <=> d.metric = "latency" /\ d.relative = None
      BY <1>2, <2>6
    <3>5. regressionFromDocument(d) <=> ((d.metric = "latency") => (d.relative # None))
      BY <1>2, <1>4, <1>5, <3>1, <3>2, <3>3 DEF regressionFromDocument
    <3> QED BY <3>4, <3>5
  <2>8. sameClassification(d)
    BY <1>2, <1>5, <2>1 DEF sameClassification
  <2> QED BY <2>7, <2>8
<1>6. CASE result.status # "AVAILABLE"
  <2>1. result.classification = "UNKNOWN"
    BY <1>1, <1>6 DEF ResultKnown, SignalOK
  <2>2. ~LacksDelta
    BY <1>6 DEF LacksDelta
  <2>3. regressionFromDocument(d)
    BY <1>2, <1>4, <1>6 DEF regressionFromDocument
  <2> QED BY <1>2, <1>6, <2>1, <2>2, <2>3 DEF sameClassification
<1> QED BY <1>5, <1>6

\* A dependency is shown unless it is of a kind no document may show.
LEMMA TopologyPasses ==
  ASSUME CInv, phase = "done", call.kind = "investigation",
         NEW d, d = documentFrom(result)
  PROVE  validateTopology(d) <=>
           ~ \E w \in view.windows :
               /\ w.row.service = Selected.service /\ w.row.endpoint = None
               /\ Selected.at \in w.row.start..(w.row.end - 1)
               /\ w.row.calls \cap {"cache", "other"} # {}
<1>1. /\ DeploymentKnown /\ states \subseteq Rows /\ Selected.at \in Int
  BY DoneIs
<1>2. \A w \in view.windows : w.row \in Windows
  BY <1>1 DEF DeploymentKnown, Rows
<1>3. \A w \in view.windows :
        /\ w.row.start \in Int /\ w.row.end \in Int /\ w.row.calls \subseteq Kinds
        /\ Selected.at \in w.row.start..(w.row.end - 1)
             <=> w.row.start <= Selected.at /\ Selected.at < w.row.end
  BY <1>1, <1>2, ComparisonFacts
<1>4. d.edges = EdgesOf(view)
  <2>1. d.edges = result.edges
    BY DEF documentFrom
  <2> QED BY <2>1 DEF CInv, ResultOK, GraphKnown
<1> DEFINE Around(w) == /\ w.row.service = Selected.service /\ w.row.endpoint = None
                        /\ Selected.at \in w.row.start..(w.row.end - 1)
<1>5. \A w \in view.windows : Around(w) => \A k \in w.row.calls : \E e \in d.edges : e.kind = k
  <2>1. ASSUME NEW w \in view.windows, Around(w), NEW k \in w.row.calls
        PROVE  \E e \in d.edges : e.kind = k
    <3>1. [window |-> w.row.id, kind |-> k] \in EdgesOf(view)
      BY <1>3, <2>1 DEF EdgesOf
    <3> QED BY <1>4, <3>1
  <2> QED BY <2>1
<1>6. \A e \in d.edges : \E w \in view.windows : Around(w) /\ e.kind \in w.row.calls
  BY <1>3, <1>4 DEF EdgesOf
<1>7. \A k \in Kinds :
        k \in {"service", "database", "queue", "external_api"} <=> k \notin {"cache", "other"}
  BY DEF Kinds
<1> HIDE DEF Around
<1>8. validateTopology(d) <=>
        ~ \E w \in view.windows : Around(w) /\ w.row.calls \cap {"cache", "other"} # {}
  BY <1>3, <1>5, <1>6, <1>7 DEF validateTopology
<1> QED BY <1>8 DEF Around

\* A document's kinds are in the order of the priorities of the events.
LEMMA KindsAre ==
  ASSUME NEW e \in AllEvents
  PROVE  /\ KindPriority(KindOf(e)) = EventPriority(e)
         /\ validTimelineKind(KindOf(e)) <=>
              ~(e.type = "deployment" /\ e.row.status = "unknown")
         /\ KindOf(e) = "runtime_observed" <=> e.type # "deployment"
         /\ e.type # "deployment" => e.type = "runtime" /\ e.row.state \in ContainerStates
<1>1. \/ e = Event("deployment", e.row) /\ e.row \in Deployments
      \/ e = Event("runtime", e.row) /\ e.row \in Runtimes
  BY EventsAre
<1>2. CASE e = Event("runtime", e.row) /\ e.row \in Runtimes
  <2>1. e.type = "runtime" /\ e.row.state \in ContainerStates
    BY <1>2, ComparisonFacts DEF Event
  <2> QED BY <2>1 DEF KindOf, KindPriority, EventPriority, validTimelineKind
<1>3. CASE e = Event("deployment", e.row) /\ e.row \in Deployments
  <2>1. e.type = "deployment" /\ e.row.status \in Statuses
    BY <1>3, ComparisonFacts DEF Event
  <2>2. KindOf(e) = DeploymentKind[e.row.status]
    BY <2>1 DEF KindOf
  <2>3. EventPriority(e) = IF e.row.status = "rolled_back" THEN 10 ELSE 20
    BY <2>1 DEF EventPriority
  <2>4. CASE e.row.status = "unknown"
    <3>1. KindOf(e) = "deployment_unknown"
      BY <2>2, <2>4 DEF DeploymentKind
    <3> QED BY <2>1, <2>3, <2>4, <3>1 DEF KindPriority, validTimelineKind
  <2>5. CASE e.row.status = "rolled_back"
    <3>1. KindOf(e) = "rollback_declared"
      BY <2>2, <2>5 DEF DeploymentKind
    <3> QED BY <2>1, <2>3, <2>5, <3>1 DEF KindPriority, validTimelineKind
  <2>6. CASE e.row.status \in {"pending", "running", "succeeded", "failed", "cancelled"}
    <3>1. KindOf(e) \in {"deployment_pending", "deployment_running", "deployment_succeeded",
                         "deployment_failed", "deployment_cancelled"}
      BY <2>2, <2>6 DEF DeploymentKind
    <3> QED BY <2>1, <2>3, <2>6, <3>1 DEF KindPriority, validTimelineKind
  <2> QED BY <2>1, <2>4, <2>5, <2>6 DEF Statuses
<1> QED BY <1>1, <1>2, <1>3

\* An event is shown unless no document may show it; their order is the document's.
LEMMA TimelinePasses ==
  ASSUME CInv, phase = "done", call.kind = "investigation",
         NEW d, d = documentFrom(result)
  PROVE  validateTimeline(d) <=>
           ~ \E n \in DOMAIN result.timeline :
               LET e == result.timeline[n]
               IN  IF e.type = "deployment" THEN e.row.status = "unknown"
                   ELSE e.row.state = "removing"
<1> DEFINE Unknown(e) == IF e.type = "deployment" THEN e.row.status = "unknown"
                         ELSE e.row.state = "removing"
<1>1. /\ DeploymentKnown /\ states \subseteq Rows /\ Selected.at \in Int
      /\ BeforeStart \in Int /\ AfterEnd \in Int
  BY DoneIs
<1>2. PICK t : t = result.timeline
  OBVIOUS
<1>3. PICK S \in SUBSET AllEvents : S = EventsOf(view)
  BY <1>1 DEF AllEvents, EventsOf, DeploymentsOf, DeploymentKnown, Rows
<1>4. t = FirstEvents(S)
  BY <1>2, <1>3 DEF CInv, ResultOK, TimelineKnown
<1>5. /\ \A n \in DOMAIN t : n \in Nat /\ n >= 1 /\ t[n] \in S
      /\ \A n \in DOMAIN t \ {1} : n - 1 \in DOMAIN t
      /\ \A m, n \in DOMAIN t : m < n => Earlier(t[m], t[n])
      /\ \A m, n \in DOMAIN t : t[m] = t[n] => m = n
  BY <1>4, FirstEventsAre
<1>6. d.events = [n \in DOMAIN t |->
                    [id |-> EventId(t[n]), time |-> t[n].row.at, service |-> t[n].row.service,
                     kind |-> KindOf(t[n]),
                     state |-> IF t[n].type = "runtime" THEN t[n].row.state ELSE None]]
  BY <1>2 DEF documentFrom
<1>7. DOMAIN d.events = DOMAIN t
  BY <1>6
<1>8. \A n \in DOMAIN t :
        /\ d.events[n].id = EventId(t[n]) /\ d.events[n].time = t[n].row.at
        /\ d.events[n].service = t[n].row.service /\ d.events[n].kind = KindOf(t[n])
        /\ d.events[n].state = IF t[n].type = "runtime" THEN t[n].row.state ELSE None
  BY <1>6
<1>9. d.since = BeforeStart /\ d.until = AfterEnd /\ d.deployment = Selected
  BY DEF documentFrom
<1>10. ASSUME NEW n \in DOMAIN t
       PROVE  /\ d.since <= d.events[n].time /\ d.events[n].time < d.until
              /\ d.events[n].service = d.deployment.service
  <2>1. /\ t[n].row.service = Selected.service
        /\ BeforeStart <= t[n].row.at /\ t[n].row.at < AfterEnd
    <3>1. t[n] \in EventsOf(view)
      BY <1>3, <1>5
    <3> QED BY <3>1 DEF EventsOf, DeploymentsOf, Event
  <2> QED BY <1>8, <1>9, <2>1
<1>11. ASSUME NEW n \in DOMAIN t
       PROVE  (/\ validTimelineKind(d.events[n].kind)
               /\ (d.events[n].kind = "runtime_observed") => validRuntimeState(d.events[n].state))
              <=> ~Unknown(t[n])
  <2>1. t[n] \in AllEvents
    BY <1>5
  <2>2. /\ validTimelineKind(KindOf(t[n])) <=>
             ~(t[n].type = "deployment" /\ t[n].row.status = "unknown")
        /\ KindOf(t[n]) = "runtime_observed" <=> t[n].type # "deployment"
        /\ t[n].type # "deployment" => t[n].type = "runtime" /\ t[n].row.state \in ContainerStates
    BY <2>1, KindsAre
  <2>3. CASE t[n].type = "deployment"
    <3>1. d.events[n].kind # "runtime_observed"
      BY <1>8, <2>2, <2>3
    <3>2. validTimelineKind(d.events[n].kind) <=> t[n].row.status # "unknown"
      BY <1>8, <2>2, <2>3
    <3> QED BY <2>3, <3>1, <3>2
  <2>4. CASE t[n].type # "deployment"
    <3>1. d.events[n].kind = "runtime_observed" /\ validTimelineKind(d.events[n].kind)
      BY <1>8, <2>2, <2>4
    <3>2. d.events[n].state = t[n].row.state /\ t[n].row.state \in ContainerStates
      BY <1>8, <2>2, <2>4
    <3>3. validRuntimeState(d.events[n].state) <=> t[n].row.state # "removing"
      BY <3>2 DEF validRuntimeState, ContainerStates
    <3> QED BY <2>4, <3>1, <3>3
  <2> QED BY <2>3, <2>4
<1>12. ASSUME NEW n \in DOMAIN t, NEW m \in DOMAIN t, d.events[n].id = d.events[m].id
       PROVE  n = m
  <2>1. EventId(t[n]) = EventId(t[m]) /\ t[n] \in AllEvents /\ t[m] \in AllEvents
    BY <1>5, <1>8, <1>12
  <2>2. t[n].type = t[m].type /\ t[n].row.id = t[m].row.id
    BY <2>1 DEF EventId
  <2>3. t[n] = t[m]
    BY <2>1, <2>2, EventsAre, ComparisonFacts DEF Event
  <2> QED BY <1>5, <2>3
<1>13. ASSUME NEW n \in DOMAIN t \ {1}
       PROVE  timelineOrdered(d.events[n - 1], d.events[n])
  <2>1. PICK m \in DOMAIN t : m = n - 1
    BY <1>5
  <2>2. Earlier(t[m], t[n]) /\ t[m] \in AllEvents /\ t[n] \in AllEvents
    BY <1>5, <2>1
  <2>3. /\ KindPriority(d.events[m].kind) = EventPriority(t[m])
        /\ KindPriority(d.events[n].kind) = EventPriority(t[n])
    BY <1>8, <2>2, KindsAre
  <2>4. /\ d.events[m].time = t[m].row.at /\ d.events[n].time = t[n].row.at
        /\ d.events[m].id[2] = t[m].row.id /\ d.events[n].id[2] = t[n].row.id
        /\ t[m].row.id \in Int /\ t[n].row.id \in Int
    BY <1>8, <2>2, EventsAre DEF EventId
  <2>5. timelineOrdered(d.events[m], d.events[n])
    BY <2>2, <2>3, <2>4 DEF Earlier, timelineOrdered
  <2> QED BY <2>1, <2>5
<1>14. validateTimeline(d) <=> \A n \in DOMAIN t : ~Unknown(t[n])
  <2> HIDE DEF Unknown
  <2>1. ASSUME \A n \in DOMAIN t : ~Unknown(t[n])
        PROVE  validateTimeline(d)
    BY <1>7, <1>10, <1>11, <1>12, <1>13, <2>1 DEF validateTimeline
  <2>2. ASSUME validateTimeline(d), NEW n \in DOMAIN t
        PROVE  ~Unknown(t[n])
    <3>1. /\ validTimelineKind(d.events[n].kind)
          /\ (d.events[n].kind = "runtime_observed") => validRuntimeState(d.events[n].state)
      BY <1>7, <2>2 DEF validateTimeline
    <3> QED BY <1>11, <3>1
  <2> QED BY <2>1, <2>2
<1> QED BY <1>2, <1>14

\* The evidence referred to is the evidence shown.
LEMMA ReferencesPass ==
  ASSUME NEW d, d = documentFrom(result)
  PROVE  validateEvidenceReferences(d)
<1>1. /\ d.sides = result.sides /\ d.edges = result.edges
      /\ d.references = evidenceReferences(result, result.timeline)
  BY DEF documentFrom
<1>2. {d.events[n].id : n \in DOMAIN d.events} =
        {EventId(result.timeline[n]) : n \in DOMAIN result.timeline}
  BY DEF documentFrom
<1>3. /\ d.references.accepted = UNION {Ids(result.sides[n].accepted) : n \in 1..2}
      /\ d.references.rejected = UNION {RejectedIds(result.sides[n]) : n \in 1..2}
      /\ d.references.graph = {e.window : e \in result.edges}
      /\ d.references.timeline = {EventId(result.timeline[n]) : n \in DOMAIN result.timeline}
  BY <1>1 DEF evidenceReferences
<1>4. 1..2 = {1, 2}
  OBVIOUS
<1>5. /\ UNION {Ids(result.sides[n].accepted) : n \in 1..2} =
           Ids(result.sides[1].accepted) \cup Ids(result.sides[2].accepted)
      /\ UNION {RejectedIds(result.sides[n]) : n \in 1..2} =
           RejectedIds(result.sides[1]) \cup RejectedIds(result.sides[2])
  BY <1>4
<1> QED BY <1>1, <1>2, <1>3, <1>5 DEF validateEvidenceReferences

\* A document is refused only for what no document may show.
LEMMA ValidationIs ==
  ASSUME CInv, phase = "done", call.kind = "investigation"
  PROVE  validateDocument(documentFrom(result)) <=> ~(LacksDelta \/ UnknownToDocuments)
<1>1. PICK d : d = documentFrom(result)
  OBVIOUS
<1>2. regressionFromDocument(d) <=> ~LacksDelta
  BY <1>1, ComparisonPasses
<1>3. sameClassification(d)
  BY <1>1, ComparisonPasses
<1>4. validateTopology(d) /\ validateTimeline(d) <=> ~UnknownToDocuments
  <2> DEFINE A == \E w \in view.windows :
                     /\ w.row.service = Selected.service /\ w.row.endpoint = None
                     /\ Selected.at \in w.row.start..(w.row.end - 1)
                     /\ w.row.calls \cap {"cache", "other"} # {}
             B == \E n \in DOMAIN result.timeline :
                    LET e == result.timeline[n]
                    IN  IF e.type = "deployment" THEN e.row.status = "unknown"
                        ELSE e.row.state = "removing"
  <2>1. validateTopology(d) <=> ~A
    BY <1>1, TopologyPasses
  <2>2. validateTimeline(d) <=> ~B
    BY <1>1, TimelinePasses
  <2>3. UnknownToDocuments <=> A \/ B
    BY DEF UnknownToDocuments
  <2> HIDE DEF A, B
  <2> QED BY <2>1, <2>2, <2>3
<1>5. validateEvidenceReferences(d)
  BY <1>1, ReferencesPass
<1>6. validateDocument(d) <=>
        regressionFromDocument(d) /\ validateTopology(d) /\ validateTimeline(d)
  BY <1>3, <1>5 DEF validateDocument
<1> QED BY <1>1, <1>2, <1>4, <1>6

\* Once it is answered nothing about it changes.
LEMMA AnswersStand ==
  ASSUME CInv, RefusalIsExplained, [DocumentNext]_documentVars
  PROVE  RefusalIsExplained'
<1>1. CASE Answer
  <2>1. /\ phase = "done" /\ call.kind = "investigation"
        /\ answer' = IF validateDocument(documentFrom(result)) THEN "shown" ELSE "refused"
        /\ UNCHANGED <<db, now, call, view, phase, got, result, states>>
    BY <1>1 DEF Answer, vars
  <2>2. validateDocument(documentFrom(result)) <=> ~(LacksDelta \/ UnknownToDocuments)
    BY <2>1, ValidationIs
  <2>3. (answer' = "refused") <=> (LacksDelta \/ UnknownToDocuments)
    BY <2>1, <2>2
  <2>4. LacksDelta' <=> LacksDelta
    BY <2>1 DEF LacksDelta
  <2>5. UnknownToDocuments' <=> UnknownToDocuments
    BY <2>1 DEF UnknownToDocuments, Selected
  <2> QED BY <2>3, <2>4, <2>5 DEF RefusalIsExplained
<1>2. CASE Next /\ UNCHANGED answer
  <2>1. CASE answer = None
    BY <1>2, <2>1 DEF RefusalIsExplained
  <2>2. CASE answer # None
    <3>1. phase = "done"
      BY <2>2 DEF CInv, AnswerOK
    <3>2. ~Next
      BY <3>1 DEF Next, CaptureSaved, DeploymentSaved, RuntimeSnapshotSaved, Committed, Tick,
                  Start, Baseline, ResolveDeployment, ReadBefore, ReadAfter, ReadContamination,
                  Compare, ReadGraph, ReadTimeline, Fail
    <3> QED BY <1>2, <3>2
  <2> QED BY <2>1, <2>2
<1>3. CASE UNCHANGED documentVars
  <2>1. UNCHANGED <<db, now, call, view, phase, got, result, states, answer>>
    BY <1>3 DEF documentVars, vars
  <2> QED BY <2>1 DEF RefusalIsExplained, LacksDelta, UnknownToDocuments, Selected
<1> QED BY <1>1, <1>2, <1>3 DEF DocumentNext

-----------------------------------------------------------------------------
(* Theorems                                                                *)

\* CInv holds of every investigation, comparison and baseline.
LEMMA DocumentInvariant == DocumentSpec => []CInv
<1>1. DocumentInit => CInv
  BY ComparisonInit
<1>2. CInv /\ [DocumentNext]_documentVars => CInv'
  BY ComparisonStep
<1> QED BY <1>1, <1>2, PTL DEF DocumentSpec

\* What a baseline, a comparison or an investigation concludes was true of one state of the
\* database while it ran, whatever captures, deployments and containers were committed between
\* its reads.
THEOREM ConclusionsAreTrue == DocumentSpec => []ConclusionIsTrue
<1>1. CInv => ConclusionIsTrue
  BY ComparedIsTrue DEF CInv, ConclusionIsTrue
<1> QED BY <1>1, DocumentInvariant, PTL

\* The timeline of an investigation shows the deployments its comparison was told of, unless
\* one of the two lists reached its limit.
THEOREM TimelinesAgree == DocumentSpec => []TimelineAgrees
<1>1. CInv => TimelineAgrees
  BY TimelineIsAgreed
<1> QED BY <1>1, DocumentInvariant, PTL

\* An investigation is refused by the validation of documents if, and only if, it lacks the
\* relative delta of its metric or has a kind or state that the store accepts and no document
\* may show: every other rule agrees with how it was composed.
THEOREM RefusalsAreExplained == DocumentSpec => []RefusalIsExplained
<1>1. DocumentInit => RefusalIsExplained
  BY DEF DocumentInit, RefusalIsExplained
<1>2. CInv /\ RefusalIsExplained /\ [DocumentNext]_documentVars => RefusalIsExplained'
  BY AnswersStand
<1> QED BY <1>1, <1>2, DocumentInvariant, PTL DEF DocumentSpec
=============================================================================
