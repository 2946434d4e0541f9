----------------------------- MODULE SpanAggregation -----------------------------
(***************************************************************************)
(* One call of Decode: the spans of a file come in the order of its lines  *)
(* and resources, whatever that is, and become telemetry windows and       *)
(* observed dependencies.  A dependency is known from the span that        *)
(* answered an outbound one, or else from what that one declares.          *)
(***************************************************************************)
EXTENDS Integers, SequencesExt

CONSTANTS Nil,          \* an absent value: "" in the code
          Captures,     \* the files, each a set of spans
          MaxParents,   \* ancestors looked at for the origin of a span
          MaxEvidence,  \* evidence kept for an observation
          MaxServices, MaxEndpoints, MaxDependencies

(***************************************************************************)
(* A span has a key, the key of its parent or Nil, the keys it is linked   *)
(* to, its service, kind, endpoint or Nil, evidence (in the order of       *)
(* fingerprints) and the targets it declares.  It failed, had links        *)
(* dropped, and is inside the window, or not.                              *)
(***************************************************************************)
ASSUME SpansAssumption ==
  /\ MaxEvidence \in Nat \ {0, 1} /\ MaxParents \in Nat
  /\ \A capture \in Captures : \A s \in capture :
       /\ s.kind \in {"server", "client", "producer", "consumer", "internal"}
       /\ DOMAIN s.declares \subseteq {"peer", "database", "messaging", "rpc", "address"}
       /\ (s.endpoint # Nil) => (s.kind = "server")
       /\ s.evidence \in Nat /\ {s.failed, s.dropped, s.inside} \subseteq BOOLEAN

VARIABLES unread,       \* spans of the file that are still to come
          decodePhase,
          order,        \* the spans accepted, in the order they came
          resolved,     \* how many of them have been resolved
          windows,      \* requests and errors of each service and each endpoint
          observations  \* of each service, origin and dependency
decodeVars == <<unread, decodePhase, order, resolved, windows, observations>>

NoRows == [k \in {} |-> Nil]

DecodeInit ==
  /\ unread \in Captures
  /\ decodePhase = "read"
  /\ order = <<>>
  /\ resolved = 0
  /\ windows = NoRows
  /\ observations = NoRows

Accepted  == ToSet(order)
Services  == {s.service : s \in Accepted}
Endpoints == {s.endpoint : s \in Accepted} \ {Nil}
Bit(b)    == IF b THEN 1 ELSE 0

With(rows, k, row) == [j \in DOMAIN rows \cup {k} |-> IF j = k THEN row ELSE rows[j]]

-----------------------------------------------------------------------------
(* The first pass                                                          *)

AddDuration(rows, k, s) ==
  LET row == IF k \in DOMAIN rows THEN rows[k] ELSE [requests |-> 0, errors |-> 0]
  IN  With(rows, k, [requests |-> row.requests + 1, errors |-> row.errors + Bit(s.failed)])

Counted(s) ==
  LET ofService == AddDuration(windows, <<s.service, Nil>>, s)
  IN  IF s.endpoint = Nil THEN ofService
      ELSE AddDuration(ofService, <<s.service, s.endpoint>>, s)

Duplicate(s) == \E t \in Accepted : t.key = s.key

\* A span outside of the window, or without a useful service, is ignored.
ReadSpan(s) ==
  /\ decodePhase = "read"
  /\ unread' = unread \ {s}
  /\ ~Duplicate(s)
  /\ order' = IF s.inside THEN Append(order, s) ELSE order
  /\ windows' = IF s.inside /\ s.kind = "server" THEN Counted(s) ELSE windows
  /\ UNCHANGED <<decodePhase, resolved, observations>>

WithinLimits == Cardinality(Services) <= MaxServices /\ Cardinality(Endpoints) <= MaxEndpoints

EndFirstPass ==
  /\ decodePhase = "read" /\ unread = {}
  /\ WithinLimits
  /\ decodePhase' = "resolve"
  /\ UNCHANGED <<unread, order, resolved, windows, observations>>

-----------------------------------------------------------------------------
(* The resolution of an outbound span                                      *)

\* Wrong variant: any child will do, of whatever kind.
AnswersAny(s, t) == t.service # s.service /\ (t.parent = s.key \/ s.key \in t.links)

\* t answers s: the child of a client is a server, and a consumer is linked to its producer.
Answers(s, t) ==
  /\ t.service # s.service
  /\ \/ s.kind = "client" /\ t.kind = "server" /\ t.parent = s.key
     \/ s.kind = "producer" /\ t.kind = "consumer" /\ s.key \in t.links

Answering(spans, s) == {t \in spans : Answers(s, t)}

AnsweringServices(spans, s) == {t.service : t \in Answering(spans, s)}

\* Bases and limitations are numbered as the code orders their texts.
Basis == [rpc |-> 1, database |-> 2, conflict |-> 3, messaging |-> 4, address |-> 5,
          parent |-> 6, peer |-> 7, link |-> 8]
Limitation == [targetUnobserved |-> 1, addressDerived |-> 2, contradicted |-> 3, droppedLinks |-> 4,
               manyLinked |-> 5, noConsumer |-> 6, nothingObserved |-> 7, noSpan |-> 8,
               noServer |-> 9]

Precedence == <<"peer", "database", "messaging", "rpc", "address">>
DependencyKind == [peer |-> "service", rpc |-> "service", database |-> "database",
                   messaging |-> "queue", address |-> "external_api"]

SemanticLimitation(c, target) ==
  IF c \in {"peer", "rpc"}
  THEN IF target # Nil THEN Limitation.noSpan ELSE Limitation.nothingObserved
  ELSE IF c = "database" THEN Limitation.noServer
  ELSE IF c = "messaging" THEN Limitation.noConsumer
  ELSE Limitation.addressDerived

\* The places in Precedence of the conventions that s follows.
Declared(s) == {n \in DOMAIN Precedence : Precedence[n] \in DOMAIN s.declares}

\* What the span declares, by the first of the conventions; several services that answered are
\* a limitation of it.
semanticDependency(spans, s, answered) ==
  LET c      == Precedence[Min(Declared(s))]
      kind   == DependencyKind[c]
      target == IF kind = "service" /\ \E t \in spans : t.service = s.declares[c]
                THEN s.declares[c] ELSE Nil
  IN  [dependency |-> <<kind, s.declares[c]>>,
       target     |-> target,
       confidence |-> IF c = "address" THEN "LOW" ELSE "MEDIUM",
       basis      |-> Basis[c],
       limits     |-> IF answered > 1
                      THEN {Limitation.manyLinked} \cup
                           (IF kind = "service" /\ target = Nil
                            THEN {Limitation.targetUnobserved} ELSE {})
                      ELSE {SemanticLimitation(c, target)},
       evidence   |-> {s.evidence},
       pair       |-> <<>>,
       failed     |-> s.failed]

Contradicted(s, service) ==
  \E c \in DOMAIN s.declares \cap {"peer", "rpc"} : s.declares[c] # service

\* The service that answered, though it may not be the one declared.
linkedDependency(spans, s) ==
  LET linked    == Answering(spans, s)
      first     == CHOOSE t \in linked : \A u \in linked : t.evidence <= u.evidence
      conflict  == Contradicted(s, first.service)
      dropped   == s.kind = "producer" /\ (s.dropped \/ first.dropped)
  IN  [dependency |-> <<"service", first.service>>,
       target     |-> first.service,
       confidence |-> IF conflict \/ dropped THEN "MEDIUM" ELSE "HIGH",
       basis      |-> IF conflict THEN Basis.conflict
                      ELSE IF s.kind = "client" THEN Basis.parent ELSE Basis.link,
       limits     |-> (IF conflict THEN {Limitation.contradicted} ELSE {}) \cup
                      (IF dropped THEN {Limitation.droppedLinks} ELSE {}),
       evidence   |-> {s.evidence, first.evidence},
       pair       |-> <<s.evidence, first.evidence>>,
       failed     |-> s.failed \/ (s.kind = "client" /\ \E t \in linked : t.failed)]

\* Wrong variant: of several services that answered, the first.
resolveDependencyByOrder(spans, s) ==
  IF Answering(spans, s) = {} THEN semanticDependency(spans, s, 0)
  ELSE linkedDependency(spans, s)

resolveDependency(spans, s) ==
  LET answered == Cardinality(AnsweringServices(spans, s))
  IN  IF answered = 1 THEN linkedDependency(spans, s)
      ELSE semanticDependency(spans, s, answered)

\* The endpoint of its own service that s was sent for, found through its ancestors.
originEndpoint(spans, s) ==
  LET found[n \in 0..MaxParents, key \in UNION {{t.key, t.parent} : t \in spans}] ==
        LET parents == {t \in spans : t.key = key}
            t       == CHOOSE t \in parents : TRUE
        IN  IF n = 0 \/ parents = {} THEN Nil
            ELSE IF t.service = s.service /\ t.kind = "server" /\ t.endpoint # Nil THEN t.endpoint
            ELSE found[n - 1, t.parent]
  IN  found[MaxParents, s.parent]

-----------------------------------------------------------------------------
(* The second pass                                                         *)

Rank == [LOW |-> 1, MEDIUM |-> 2, HIGH |-> 3]

\* Sorted, the elements of S come before those of T: they are less where the two first differ,
\* or T goes on where S ends.
SortedBefore(S, T) ==
  \E least \in (S \ T) \cup (T \ S) :
    /\ \A x \in (S \ T) \cup (T \ S) : least <= x
    /\ IF least \in S THEN \E x \in T : x > least ELSE \A x \in S : x < least

observationMetadataLess(r, o) ==
  r.basis < o.basis \/ (r.basis = o.basis /\ SortedBefore(r.limits, o.limits))

\* Wrong variant: what comes later is as good.
BetterOrLater(r, o) == Rank[r.confidence] >= Rank[o.confidence]

Better(r, o) ==
  \/ Rank[r.confidence] > Rank[o.confidence]
  \/ Rank[r.confidence] = Rank[o.confidence] /\ observationMetadataLess(r, o)

PairBefore(p, q) == p[1] < q[1] \/ (p[1] = q[1] /\ p[2] < q[2])

LeastPairs(pairs) ==
  {p \in pairs : Cardinality({q \in pairs : PairBefore(q, p)}) < MaxEvidence \div 2}

LeastEvidence(evidence, n) == {e \in evidence : Cardinality({f \in evidence : f < e}) < n}

\* The first resolution of an observation, before it is counted.
Observation(r) ==
  [requests |-> 0, errors |-> 0, target |-> r.target, confidence |-> r.confidence,
   basis |-> r.basis, limits |-> r.limits, evidence |-> {}, pairs |-> {},
   hardCap |-> FALSE, conflict |-> FALSE, capLimits |-> {}]

\* A linked sample that is not certain.
Caps(r) == r.confidence = "MEDIUM" /\ r.pair # <<>>

Counts(o, r) ==
  [o EXCEPT !.requests  = @ + 1,
            !.errors    = @ + Bit(r.failed),
            !.target    = IF @ = Nil THEN r.target ELSE @,
            !.evidence  = LeastEvidence(@ \cup r.evidence, MaxEvidence),
            !.pairs     = LeastPairs(@ \cup ({r.pair} \ {<<>>})),
            !.hardCap   = @ \/ Caps(r),
            !.conflict  = @ \/ (Caps(r) /\ r.basis = Basis.conflict),
            !.capLimits = IF Caps(r) THEN @ \cup r.limits ELSE @]

Describes(o, r) ==
  IF Better(r, o)
  THEN [o EXCEPT !.confidence = r.confidence, !.basis = r.basis, !.limits = r.limits]
  ELSE o

\* Wrong variant: the cap is that of the sample and not of the observation.
NotCapped(o) == o

Capped(o) ==
  IF o.hardCap
  THEN [o EXCEPT !.confidence = "MEDIUM",
                 !.limits     = @ \cup o.capLimits,
                 !.basis      = IF o.conflict THEN Basis.conflict ELSE @]
  ELSE o

ObservationKey(spans, s) ==
  <<s.service, originEndpoint(spans, s), resolveDependency(spans, s).dependency>>

\* The one service that answered is known, or what the span declares.
IsResolved(spans, s) ==
  /\ s.kind \in {"client", "producer"}
  /\ Cardinality(AnsweringServices(spans, s)) = 1 \/ Declared(s) # {}

Current(spans, rows, s) ==
  LET k == ObservationKey(spans, s)
  IN  IF k \in DOMAIN rows THEN rows[k] ELSE Observation(resolveDependency(spans, s))

Aggregated(spans, rows, s) ==
  LET r == resolveDependency(spans, s)
  IN  IF IsResolved(spans, s)
      THEN With(rows, ObservationKey(spans, s),
                Capped(Describes(Counts(Current(spans, rows, s), r), r)))
      ELSE rows

TargetsDiffer(spans, rows, s) ==
  /\ IsResolved(spans, s)
  /\ LET target == Current(spans, rows, s).target
         other  == resolveDependency(spans, s).target
     IN  {target, other} \cap {Nil} = {} /\ target # other

ResolveSpan ==
  /\ decodePhase = "resolve" /\ resolved < Len(order)
  /\ LET s == order[resolved + 1]
     IN  /\ ~TargetsDiffer(Accepted, observations, s)
         /\ observations' = Aggregated(Accepted, observations, s)
  /\ resolved' = resolved + 1
  /\ UNCHANGED <<unread, decodePhase, order, windows>>

\* Wrong variant: the least evidence, whatever it is of.
SelectedLeast(o) == LeastEvidence(o.evidence, MaxEvidence)

\* Both ends of a few links first, and then the rest.
Selected(o) ==
  LET ofPairs == UNION {{p[1], p[2]} : p \in o.pairs}
  IN  ofPairs \cup LeastEvidence(o.evidence \ ofPairs, MaxEvidence - Cardinality(ofPairs))

Dependencies == {k[3] : k \in DOMAIN observations}

Finish ==
  /\ decodePhase = "resolve" /\ resolved = Len(order)
  /\ Cardinality(Dependencies) <= MaxDependencies
  /\ decodePhase' = "done"
  /\ observations' = [k \in DOMAIN observations |->
                        [observations[k] EXCEPT !.evidence = Selected(observations[k])]]
  /\ UNCHANGED <<unread, order, resolved, windows>>

\* One span may spoil the file.
Faulty ==
  \/ decodePhase = "read" /\ unread # {} /\ \E s \in unread : Duplicate(s)
  \/ decodePhase = "read" /\ unread = {} /\ ~WithinLimits
  \/ /\ decodePhase = "resolve" /\ resolved < Len(order)
     /\ TargetsDiffer(Accepted, observations, order[resolved + 1])
  \/ /\ decodePhase = "resolve" /\ resolved = Len(order)
     /\ Cardinality(Dependencies) > MaxDependencies

FailDecode(faulty) ==
  /\ decodePhase \in {"read", "resolve"}
  /\ faulty
  /\ decodePhase' = "failed"
  /\ UNCHANGED <<unread, order, resolved, windows, observations>>

Reject == FailDecode(Faulty)

\* The context has ended; it is looked at from time to time.
Cancel == FailDecode(TRUE)

DecodeNext ==
  \/ \E s \in unread : ReadSpan(s)
  \/ EndFirstPass
  \/ ResolveSpan
  \/ Finish
  \/ Reject
  \/ Cancel

DecodeSpec == DecodeInit /\ [][DecodeNext]_decodeVars

-----------------------------------------------------------------------------
(* Properties                                                              *)

\* The services that answered s, said once more.
Remote(s) ==
  LET children == {t \in Accepted : s.kind = "client" /\ t.kind = "server" /\ t.parent = s.key}
      linked   == {t \in Accepted : s.kind = "producer" /\ t.kind = "consumer" /\ s.key \in t.links}
  IN  {t.service : t \in children \cup linked} \ {s.service}

Samples(k) ==
  {s \in Accepted : IsResolved(Accepted, s) /\ ObservationKey(Accepted, s) = k}

Resolution(s) == resolveDependency(Accepted, s)

Uncertain(s) == Resolution(s).pair # <<>> /\ Resolution(s).confidence = "MEDIUM"

\* The firmest of the samples, and of those of equal firmness the first by its texts.
BestOf(samples) ==
  {r \in {Resolution(s) : s \in samples} :
     \A t \in samples :
       LET q == Resolution(t)
       IN  /\ Rank[q.confidence] <= Rank[r.confidence]
           /\ Rank[q.confidence] = Rank[r.confidence] => ~observationMetadataLess(q, r)}

\* The requests to a service, at an endpoint of it or at all.
Served(k) ==
  {s \in Accepted : s.kind = "server" /\ s.service = k[1] /\ k[2] \in {Nil, s.endpoint}}

\* Whatever the order of the lines, an observation counts each of its samples once, a request
\* and the error of either side being one error, and is as firm as the firmest, unless a linked
\* one is uncertain; a server is counted for its service and for its endpoint (ADR-017).
ObservationsExact ==
  decodePhase = "done" =>
    /\ DOMAIN observations =
         {ObservationKey(Accepted, s) : s \in {t \in Accepted : IsResolved(Accepted, t)}}
    /\ \A k \in DOMAIN observations :
         LET o == observations[k] IN
         /\ o.requests = Cardinality(Samples(k))
         /\ o.errors = Cardinality({s \in Samples(k) : Resolution(s).failed})
         /\ IF \E s \in Samples(k) : Uncertain(s)
            THEN o.confidence = "MEDIUM"
            ELSE \E r \in BestOf(Samples(k)) :
                   o.confidence = r.confidence /\ o.basis = r.basis /\ o.limits = r.limits
    /\ DOMAIN windows =
         UNION {{s.service} \X {Nil, s.endpoint} : s \in {t \in Accepted : t.kind = "server"}}
    /\ \A k \in DOMAIN windows :
         windows[k] = [requests |-> Cardinality(Served(k)),
                       errors   |-> Cardinality({s \in Served(k) : s.failed})]

\* Only one service answered s, and it is the dependency d.
AnsweredBy(s, d) == \E x \in Remote(s) : Remote(s) = {x} /\ d = <<"service", x>>

\* A dependency of high confidence was answered by the one service it names, and no span of the
\* same origin that only this service answered declared another, or lost links.
HighIsCertain ==
  (decodePhase = "done") => \A k \in DOMAIN observations : observations[k].confidence = "HIGH" =>
    LET answered == {s \in Accepted : /\ s.service = k[1] /\ originEndpoint(Accepted, s) = k[2]
                                      /\ AnsweredBy(s, k[3])}
    IN  /\ answered # {}
        /\ \A s \in answered :
             /\ {s.declares[c] : c \in DOMAIN s.declares \cap {"peer", "rpc"}} \subseteq Remote(s)
             /\ s.kind = "producer" => ~s.dropped

\* The evidence of an observation is bounded, and of a linked one it shows both ends of a link.
EvidenceShowsLink ==
  (decodePhase = "done") => \A k \in DOMAIN observations :
    LET evidence == observations[k].evidence
        links    == {p \in Samples(k) \X Accepted :
                       p[2].service \in Remote(p[1]) /\ <<"service", p[2].service>> = k[3]}
    IN  /\ Cardinality(evidence) <= MaxEvidence
        /\ (\E s \in Samples(k) : Cardinality(Remote(s)) = 1) =>
             \E p \in links : {p[1].evidence, p[2].evidence} \subseteq evidence

\* A link between services is claimed as firmly as its spans allow, and shows them.
LinksAreCertain == HighIsCertain /\ EvidenceShowsLink

\* Claimed by the tests of the decoder, and not so: observations do not depend on the order of spans.
SameWhateverOrder ==
  LET AggregatedNext(rows, s) == Aggregated(Accepted, rows, s)
  IN  (decodePhase = "resolve" /\ resolved = Len(order)) =>
        observations = FoldLeft(AggregatedNext, NoRows, Reverse(order))
===============================================================================
