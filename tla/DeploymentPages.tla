---------------------------- MODULE DeploymentPages ----------------------------
(***************************************************************************)
(* A listing read page by page while other processes ingest: prodmap       *)
(* deploys with the association of each deployment with runtimes, the      *)
(* discovery of deployments over MCP, and the timeline.  A page is one     *)
(* query from where the cursor of the page before stands; the runtimes of  *)
(* a page of deploys are read by a later query, outside a transaction.     *)
(* A listing whose window was not asked for ends at the time of the call.  *)
(*                                                                         *)
(* All rows are of the environment asked for.  Deployment IDs and row IDs  *)
(* are integers in their textual order, times are integers.                *)
(***************************************************************************)
EXTENDS RuntimeAssociation, Sequences

CONSTANTS Records,      \* the deployments that may be ingested
          Observations, \* the rows of runtime_instances that may be ingested
          MaxPerPage,   \* MaxRuntimeCandidatesPerPage
          Queries,      \* the listings that may be asked for
          Clock,        \* the instants at which a page may be asked for
          Span          \* how far back a listing goes by default

ASSUME PagesAssumption ==
  /\ MaxPerPage \in Nat /\ Span \in Nat \ {0} /\ Clock \subseteq Nat
  /\ IsFiniteSet(Records) /\ \A d \in Records : d.id \in Int /\ d.start \in Int
  /\ IsFiniteSet(Observations)
  /\ \A o \in Observations : o.id \in Int /\ o.at \in Int /\ o.service \in Int
  /\ \A d, e \in Records : d.id = e.id => d = e
  /\ \A o, p \in Observations :
       o.id = p.id \/ <<o.container, o.at>> = <<p.container, p.at>> => o = p
  /\ \A q \in Queries :
       /\ q.kind \in {"deploys", "discover", "timeline"}
       /\ q.limit \in Nat \ {0}
       /\ q.since \in Int \cup {None} /\ q.until \in Int \cup {None}
       /\ q.since # None => \A until \in IF q.until = None THEN Clock ELSE {q.until} :
                              q.since < until
       /\ q.kind = "timeline" => q.status = None
  /\ None \notin Int /\ None \notin [key : Int \X Int \X Int, window : [since : Int, until : Int]]

VARIABLES deployments,  \* the rows of deployments
          observations, \* the rows of runtime_instances
          query,
          now,
          phase,        \* "page", "attach", "done" or "refused"
          cursor,       \* of the page before: the key of its last item, its window; None at first
          page,         \* the rows of this page, each with what its query says of it
          delivered,    \* the items of the pages returned so far
          read          \* the tables as the reads of the last page found them (history variable)
vars == <<deployments, observations, query, now, phase, cursor, page, delivered, read>>

Init ==
  /\ deployments \in SUBSET Records
  /\ observations \in SUBSET Observations
  /\ query \in Queries
  /\ now \in Clock
  /\ phase = "page"
  /\ cursor = None
  /\ page = <<>>
  /\ delivered = <<>>
  /\ read = [first |-> {}, window |-> None, found |-> {}, deployments |-> {}, observations |-> {},
             from |-> 1]

-----------------------------------------------------------------------------
(* Other processes, and the clock                                          *)

Open == phase \in {"page", "attach"}

DeploymentSaved ==
  /\ Open
  /\ \E d \in Records \ deployments : deployments' = deployments \cup {d}
  /\ UNCHANGED <<observations, query, now, phase, cursor, page, delivered, read>>

RuntimeSnapshotSaved ==
  /\ Open
  /\ \E o \in Observations \ observations : observations' = observations \cup {o}
  /\ UNCHANGED <<deployments, query, now, phase, cursor, page, delivered, read>>

Tick ==
  /\ Open
  /\ now + 1 \in Clock /\ now' = now + 1
  /\ UNCHANGED <<deployments, observations, query, phase, cursor, page, delivered, read>>

-----------------------------------------------------------------------------
(* The window of a page                                                    *)

\* What the flags or the input say, up to now by default.
AskedWindow ==
  LET until == IF query.until = None THEN now ELSE query.until
  IN  [since |-> IF query.since = None THEN until - Span ELSE query.since, until |-> until]

\* Wrong variant: the window of a later page is worked out anew.
WindowOfEachCall == AskedWindow

\* The input of the MCP server is completed from its cursor.
ListQueryWindow == IF cursor = None THEN AskedWindow ELSE cursor.window

Window == IF query.kind = "discover" THEN ListQueryWindow ELSE AskedWindow

\* Wrong variant: the cursor of another window is taken.
AnyCursor == TRUE

\* A cursor is signed with the filters and the window of its page.
Compatible == cursor # None => cursor.window = Window

-----------------------------------------------------------------------------
(* The rows of a listing and their order                                   *)

\* The priority of a row in the timeline's query.
EventPriority(e) ==
  IF e.type = "runtime" THEN 30
  ELSE IF e.row.status = "rolled_back" THEN 10 ELSE 20

\* Wrong variant: all deployments have one priority in the cursor.
PriorityByType(e) == IF e.type = "runtime" THEN 30 ELSE 20

\* timeline.Priority of the kind of an event, for its cursor.
Priority(e) ==
  IF e.type = "deployment" /\ e.row.status = "rolled_back" THEN 10
  ELSE IF e.type = "runtime" THEN 30 ELSE 20

Event(type, row, time) == [type |-> type, row |-> row, time |-> time]

Asked(service, time) ==
  query.service \in {None, service} /\ Window.since <= time /\ time < Window.until

Listed(ds, os) ==
  {Event("deployment", d, d.start) :
     d \in {x \in ds : Asked(x.service, x.start) /\ query.status \in {None, x.status}}}
  \cup
  {Event("runtime", o, o.at) :
     o \in {x \in os : query.kind = "timeline" /\ Asked(x.service, x.at)}}

\* The latest first; in the timeline by priority and ID, otherwise by ID backwards.
KeyWith(e, priority) ==
  IF query.kind = "timeline" THEN <<0 - e.time, priority, e.row.id>>
  ELSE <<0 - e.time, 0, 0 - e.row.id>>

Key(e) == KeyWith(e, EventPriority(e))

Less(j, k) ==
  \/ j[1] < k[1]
  \/ j[1] = k[1] /\ j[2] < k[2]
  \/ j[1] = k[1] /\ j[2] = k[2] /\ j[3] < k[3]

Sorted(S) ==
  CHOOSE q \in [1..Cardinality(S) -> S] :
    \A m, n \in DOMAIN q : m < n => Less(Key(q[m]), Key(q[n]))

FirstN(S, n) == {e \in S : Cardinality({f \in S : Less(Key(f), Key(e))}) < n}

-----------------------------------------------------------------------------
(* One page                                                                *)

\* The rows the query returns: one more than the page may have.
Rows ==
  FirstN({e \in Listed(deployments, observations) : cursor = None \/ Less(cursor.key, Key(e))},
         query.limit + 1)

\* Wrong variant: the next deployment is looked for among those asked for.
NextAmongListed(d) ==
  LET later == {e \in deployments : e.service = d.service /\ e.start > d.start
                                    /\ query.status \in {None, e.status}}
  IN  IF later = {} THEN None
      ELSE (CHOOSE e \in later : \A f \in later : e.start <= f.start).start

NextDeploymentAt(d) ==
  LET later == {e \in deployments : e.service = d.service /\ e.start > d.start}
  IN  IF later = {} THEN None
      ELSE (CHOOSE e \in later : \A f \in later : e.start <= f.start).start

Concurrent(d) ==
  \E e \in deployments : e.service = d.service /\ e.start = d.start /\ e.id # d.id

\* What the same query says of a row of deploys.
Item(e) ==
  IF query.kind = "deploys"
  THEN [event |-> e, next |-> NextDeploymentAt(e.row), concurrent |-> Concurrent(e.row)]
  ELSE [event |-> e]

CursorAt(e) == [key |-> KeyWith(e, Priority(e)), window |-> Window]

\* Wrong variant: the row that is one too many becomes the cursor.
CursorAfterRows(rows) ==
  IF Cardinality(rows) <= query.limit THEN None ELSE CursorAt(Sorted(rows)[query.limit + 1])

\* The cursor of the next page, None when this page is the last.
NextCursor(rows) ==
  IF Cardinality(rows) <= query.limit THEN None ELSE CursorAt(Sorted(rows)[query.limit])

\* What the first page could have shown.
First == IF cursor = None THEN Listed(deployments, observations) ELSE read.first

\* The page is returned; without a cursor it was the last one.
Deliver(items, next) ==
  /\ delivered' = delivered \o items
  /\ cursor' = next
  /\ phase' = IF next = None THEN "done" ELSE "page"

\* A page of discovery or of the timeline is one query.
ReadListing ==
  /\ phase = "page" /\ query.kind # "deploys" /\ Compatible
  /\ LET events == Sorted(FirstN(Rows, query.limit))
     IN  Deliver([n \in DOMAIN events |-> Item(events[n])], NextCursor(Rows))
  /\ read' = [read EXCEPT !.first = First, !.window = Window, !.from = Len(delivered) + 1]
  /\ UNCHANGED <<deployments, observations, query, now, page>>

\* A page of deploys without rows is complete; the evidence of the others never changes.
ReadDeployments ==
  /\ phase = "page" /\ query.kind = "deploys" /\ Compatible
  /\ LET events == Sorted(FirstN(Rows, query.limit))
         items == [n \in DOMAIN events |-> Item(events[n])]
     IN  IF items = <<>>
         THEN Deliver(<<>>, None) /\ UNCHANGED page
         ELSE /\ page' = [items |-> items, next |-> NextCursor(Rows), until |-> Window.until]
              /\ phase' = "attach"
              /\ UNCHANGED <<cursor, delivered>>
  /\ read' = [read EXCEPT !.first = First, !.window = Window, !.found = deployments]
  /\ UNCHANGED <<deployments, observations, query, now>>

\* A cursor that does not fit is an error, and no page follows.
RefuseCursor ==
  /\ phase = "page" /\ ~ Compatible
  /\ phase' = "refused"
  /\ UNCHANGED <<deployments, observations, query, now, cursor, page, delivered, read>>

PageServices == {page.items[n].event.row.service : n \in DOMAIN page.items}

EarliestStart ==
  LET times == {page.items[n].event.time : n \in DOMAIN page.items}
  IN  CHOOSE t \in times : \A u \in times : t <= u

\* The rows that were valid between the earliest deployment of the page and its end.
Overlapping ==
  {o \in observations :
     /\ o.service \in PageServices /\ o.at < page.until
     /\ ~ \E p \in observations :
            p.container = o.container /\ o.at < p.at /\ p.at <= EarliestStart}

\* By service, time and ID.
RowLess(o, p) ==
  \/ o.service < p.service
  \/ o.service = p.service /\ o.at < p.at
  \/ o.service = p.service /\ o.at = p.at /\ o.id < p.id

FirstRows(n) == {o \in Overlapping : Cardinality({p \in Overlapping : RowLess(p, o)}) < n}

\* Wrong variant: what does not fit is left out unnoticed.
LoadedUpToLimit == FirstRows(MaxPerPage)

Loaded == FirstRows(MaxPerPage + 1)

\* attachRuntimeAssociations, and the return of the page.
AttachRuntimes ==
  /\ phase = "attach"
  /\ LET Associated(item) ==
           [event |-> item.event,
            association |->
              RuntimeAssociationOf(observations, Loaded, item.event.row, item.next,
                item.concurrent, page.until, Cardinality(Loaded) > MaxPerPage)]
     IN  Deliver([n \in DOMAIN page.items |-> Associated(page.items[n])], page.next)
  /\ read' = [read EXCEPT !.deployments = read.found, !.observations = observations,
                          !.from = Len(delivered) + 1]
  /\ page' = <<>>
  /\ UNCHANGED <<deployments, observations, query, now>>

\* A call that fails returns nothing, and is made again with the same cursor.
Fail ==
  /\ phase = "attach"
  /\ phase' = "page"
  /\ page' = <<>>
  /\ UNCHANGED <<deployments, observations, query, now, cursor, delivered, read>>

Next ==
  \/ DeploymentSaved
  \/ RuntimeSnapshotSaved
  \/ Tick
  \/ ReadListing
  \/ ReadDeployments
  \/ RefuseCursor
  \/ AttachRuntimes
  \/ Fail

Spec == Init /\ [][Next]_vars

-----------------------------------------------------------------------------
(* Properties                                                              *)

\* However much is ingested between the pages, no row comes twice, the latest come first,
\* and what was there at the first page and comes before the cursor has been delivered:
\* all of it at the end, though the clock runs.  Only a command whose window ended at its
\* own time may be refused its next page, never a caller of the MCP server.
PagesComplete ==
  /\ \A m, n \in DOMAIN delivered : m < n =>
       /\ delivered[m].event # delivered[n].event
       /\ delivered[m].event.time >= delivered[n].event.time
  /\ phase = "done" =>
       \A e \in read.first : \E n \in DOMAIN delivered : delivered[n].event = e
  /\ phase = "refused" => query.until = None /\ query.kind # "discover"

\* The items of the last page.
LastPage == {delivered[n] : n \in {m \in DOMAIN delivered : m >= read.from}}

Associations == IF query.kind = "deploys" THEN LastPage ELSE {}

\* Observed of the service of d in d's time, as long as no later deployment is known.
After(d) ==
  {o \in read.observations :
     /\ o.service = d.service
     /\ o.at \in d.start..(read.window.until - 1) /\ o.at - d.start < Delay
     /\ \A e \in read.deployments : e.service = d.service => e.start \notin (d.start + 1)..o.at}

\* A deployment is confirmed only by a container of its image, first seen in its time; by
\* all containers seen in it that can be compared; not if another deployment started with
\* it, and not if its image was running before in a row that was still valid.
MatchedIsConfirmed ==
  \A item \in Associations : item.association.status = "MATCHED" =>
    LET d == item.event.row
    IN  /\ \E o \in After(d) : d.ids \cap o.ids # {}
        /\ \A o \in After(d) :
             (\A p \in After(d) : p.container = o.container => o.at <= p.at) =>
               o.ids = {} \/ d.ids \cap o.ids # {}
        /\ \A e \in read.deployments :
             e.service = d.service /\ e.start = d.start => e = d
        /\ \A o \in read.observations :
             o.service = d.service /\ o.at < d.start /\ d.ids \cap o.ids # {} =>
               \E p \in read.observations :
                 p.container = o.container /\ p.at \in (o.at + 1)..d.start

\* A conclusion is drawn from all containers seen in the time of the deployment, or not
\* at all.
ConclusionSeesAll ==
  \A item \in Associations : item.association.status # "UNKNOWN" =>
    {o.container : o \in item.association.seen} = {o.container : o \in After(item.event.row)}

\* What is concluded of a deployment and its runtimes is of this deployment, and of all of them.
ConclusionIsSound == MatchedIsConfirmed /\ ConclusionSeesAll
===============================================================================
