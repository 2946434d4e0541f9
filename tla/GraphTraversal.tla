---------------------------- MODULE GraphTraversal ----------------------------
(***************************************************************************)
(* topology.Build and the reads of internal/sqlite/telemetry.go under it:  *)
(* a breadth-first traversal of the dependencies observed at one instant,  *)
(* cut at limits of depth, nodes and edges.  Each level is a query of its  *)
(* own.  The graph command gives Build the store, so that another process  *)
(* may commit between two levels; an investigation gives it one snapshot.  *)
(*                                                                         *)
(* Nodes are integers in their semantic order, dependencies before         *)
(* services; edges are ordered by their ends, then by number, which stands *)
(* for kind, window, counts and the other fields the code compares.        *)
(***************************************************************************)
EXTENDS Integers, FiniteSets

CONSTANTS Services,     \* nodes that are services
          Others,       \* nodes that are dependencies of other kinds
          Edges,        \* the observations that may be stored
          Commits,      \* what one ingestion adds: records with services and edges
          Queries,      \* the queries that may be asked
          EdgesPerNode, \* the edges read for each node that may be shown
          Readers,      \* "snapshot" and "store"
          None

Query ==
  [all : BOOLEAN, selects : SUBSET Services, at : Int, minimum : Nat,
   depth : Nat \ {0}, maxNodes : Nat \ {0}]

\* What a module that instantiates this one assumes of its constants.
GraphAssumption ==
  /\ Services \subseteq Int /\ Others \subseteq Int /\ Services \cap Others = {}
  /\ IsFiniteSet(Services) /\ IsFiniteSet(Edges)
  /\ \A e \in Edges :
       /\ e.from \in Services /\ e.to \in Services \cup Others /\ e.number \in Int
       /\ e.start \in Int /\ e.end \in Int /\ e.start < e.end /\ e.rank \in 1..3
  /\ \A e, f \in Edges : <<e.from, e.to, e.number>> = <<f.from, f.to, f.number>> => e = f
  /\ \A c \in Commits :
       /\ c.services \subseteq Services /\ c.edges \subseteq Edges
       /\ \A e \in c.edges : {e.from, e.to} \subseteq c.services \cup Others
  /\ \A q \in Queries : q \in Query
  /\ EdgesPerNode \in Nat \ {0}
  /\ None \notin [services : SUBSET Services, edges : SUBSET Edges]
  /\ Readers \subseteq {"snapshot", "store"}

VARIABLES db,        \* the services and observations committed
          reader,    \* what Build reads through
          view,      \* what the snapshot shows, None before its first read
          query,
          phase,     \* "roots", "levels", "done" or "failed"
          depth,     \* levels read so far
          frontier,  \* the services to be expanded next
          seen,      \* the nodes of the result
          roots, selected, truncated,
          remaining, \* how many edges may still be read
          versions   \* the databases there were during the call (history variable)
result == <<roots, selected, truncated>>
vars == <<db, reader, view, query, phase, depth, frontier, seen, result, remaining, versions>>

NoFacts == [services |-> {}, edges |-> {}]

Init ==
  /\ db = NoFacts
  /\ reader \in Readers
  /\ view = None
  /\ query \in Queries
  /\ phase = "roots"
  /\ depth = 0
  /\ frontier = {} /\ seen = {} /\ roots = {} /\ selected = {}
  /\ truncated = FALSE
  /\ remaining = query.maxNodes * EdgesPerNode
  /\ versions = {NoFacts}

-----------------------------------------------------------------------------
(* Another process                                                         *)

\* SaveTelemetry commits a capture.
IngestionCommitted ==
  /\ phase \in {"roots", "levels"}
  /\ \E c \in Commits :
       db' = [services |-> db.services \cup c.services, edges |-> db.edges \cup c.edges]
  /\ versions' = versions \cup {db'}
  /\ UNCHANGED <<reader, view, query, phase, depth, frontier, seen, result, remaining>>

-----------------------------------------------------------------------------
(* The reads                                                               *)

\* Wrong variant: an investigation reads through its store, too.
FactsOfStore == db

\* A deferred transaction fixes its snapshot at its first read.
Facts == IF reader = "snapshot" /\ view # None THEN view ELSE db

Read == view' = IF reader = "snapshot" THEN Facts ELSE None

\* The first n of a set of integers.
FirstNodes(S, n) == {x \in S : Cardinality({y \in S : y < x}) < n}

EdgeLess(e, f) ==
  \/ e.from < f.from
  \/ e.from = f.from /\ e.to < f.to
  \/ e.from = f.from /\ e.to = f.to /\ e.number < f.number

FirstEdges(S, n) == {e \in S : Cardinality({f \in S : EdgeLess(f, e)}) < n}

\* Observed in a window around the instant, firmly enough.
Active(edges) ==
  {e \in edges : e.start <= query.at /\ query.at < e.end /\ e.rank >= query.minimum}

\* resolveGraphRoots
Candidates == IF query.all THEN Facts.services ELSE Facts.services \cap query.selects

-----------------------------------------------------------------------------
(* Build                                                                   *)

Fail ==
  /\ phase' = "failed"
  /\ UNCHANGED <<depth, frontier, seen, result, remaining>>

\* No service, or several for one selector; otherwise as many roots as may be shown.
ResolveRoots ==
  /\ phase = "roots"
  /\ Read
  /\ \/ /\ Candidates = {} \/ (~query.all /\ Cardinality(Candidates) > 1)
        /\ Fail
     \/ /\ Candidates # {} /\ (query.all \/ Cardinality(Candidates) = 1)
        /\ roots' = FirstNodes(Candidates, query.maxNodes)
        /\ seen' = roots'
        /\ frontier' = roots'
        /\ truncated' = (roots' # Candidates)
        /\ phase' = "levels"
        /\ UNCHANGED <<depth, selected, remaining>>
  /\ UNCHANGED <<db, reader, query, versions>>

Expanding == phase = "levels" /\ depth < query.depth /\ frontier # {}

\* The rows that observedGraph finds for the frontier, before its limit.
Matching == {e \in Active(Facts.edges) : e.from \in frontier}

Observed == FirstEdges(Matching, remaining)

\* The nodes of this level that are new, and those of them there is room for, in the
\* order in which the sorted edges come to them.
NewNodes == {e.to : e \in Observed} \ seen

CameBefore(m, n) ==
  \E e \in Observed : e.to = m /\ \A f \in Observed : f.to = n => EdgeLess(e, f)

\* Wrong variant: the limit is looked at once a level.
AdmittedByLevel ==
  IF Cardinality(seen) < query.maxNodes THEN NewNodes ELSE {}

Admitted ==
  {n \in NewNodes :
     Cardinality(seen) + Cardinality({m \in NewNodes : CameBefore(m, n)}) < query.maxNodes}

\* Wrong variant: only the rows the query left out count as a loss.
CutByEdgesOnly == Observed # Matching

Cut == Observed # Matching \/ Admitted # NewNodes

\* Wrong variant: edges to nodes left out are kept.
SelectAll == selected \cup Observed

Select == selected \cup {e \in Observed : e.to \in seen \cup Admitted}

ExpandLevel ==
  /\ Expanding /\ remaining > 0
  /\ Read
  /\ seen' = seen \cup Admitted
  /\ selected' = Select
  /\ truncated' = (truncated \/ Cut)
  /\ remaining' = remaining - Cardinality(Observed)
  /\ frontier' = Admitted \cap Services
  /\ depth' = depth + 1
  /\ UNCHANGED <<db, reader, query, phase, roots, versions>>

\* No more edges may be read, or nothing is left to be expanded.
Finish ==
  /\ phase = "levels"
  /\ \/ Expanding /\ remaining = 0 /\ truncated' = TRUE
     \/ ~Expanding /\ UNCHANGED truncated
  /\ phase' = "done"
  /\ UNCHANGED <<db, reader, view, query, depth, frontier, seen, roots, selected, remaining,
                 versions>>

\* The context ends, or a query fails.
Cancel ==
  /\ phase \in {"roots", "levels"}
  /\ Fail
  /\ UNCHANGED <<db, reader, view, query, versions>>

Next == IngestionCommitted \/ ResolveRoots \/ ExpandLevel \/ Finish \/ Cancel

Spec == Init /\ [][Next]_vars

-----------------------------------------------------------------------------
(* Properties                                                              *)

Nodes == Services \cup Others

\* The observations a query is about.
Asked(edges) ==
  {e \in edges : query.at \in e.start..(e.end - 1) /\ e.rank \in query.minimum..3}

\* The nodes at most k edges away from the roots.
Within(edges, k) ==
  LET reach[n \in 0..k] ==
        IF n = 0 THEN roots
        ELSE reach[n - 1] \cup {e.to : e \in {f \in edges : f.from \in reach[n - 1]}}
  IN  reach[k]

\* The result is the part of the graph of v that the query asks for.
IsGraphOf(v) ==
  /\ seen = Within(Asked(v.edges), query.depth)
  /\ selected = {e \in Asked(v.edges) : e.from \in Within(Asked(v.edges), query.depth - 1)}

\* A result that does not say it was cut has everything within its depth that one
\* database shows, when it is read through a snapshot.
SnapshotIsWhole ==
  phase = "done" /\ ~truncated /\ reader = "snapshot" => IsGraphOf(view)

\* However it was cut, the result is within the limits, its edges join its nodes, and
\* each node is connected with a root by edges of the result.
ResultIsConnected ==
  /\ Cardinality(seen) <= query.maxNodes
  /\ Cardinality(selected) <= query.maxNodes * EdgesPerNode
  /\ \A e \in selected : {e.from, e.to} \subseteq seen
  /\ seen = Within(selected, query.depth)

\* "No observed relations" is said only if at some time in the call the roots were known
\* and had none.
AbsenceIsReal ==
  phase = "done" /\ selected = {} /\ ~truncated =>
    \E v \in versions :
      /\ roots \subseteq v.services
      /\ \A e \in Asked(v.edges) : e.from \notin roots

\* However it was cut, a result hangs together and claims no absence that was not.
ResultIsSound == ResultIsConnected /\ AbsenceIsReal
===============================================================================
