-------------------------------- MODULE MCReads --------------------------------
(***************************************************************************)
(* Small instances of a listing and of a graph that are read while other   *)
(* processes commit.                                                       *)
(***************************************************************************)
EXTENDS Reads

-----------------------------------------------------------------------------
(* Listings: deployments that start together and one after another, and    *)
(* containers seen before, at, between and after them.                     *)

D(id, service, status, start, ids) ==
  [id |-> id, service |-> service, status |-> status, start |-> start, ids |-> ids,
   commit |-> IF ids = {} THEN None ELSE "sha1", verified |-> status = "succeeded"]

O(id, container, service, at, ids, commit) ==
  [id |-> id, container |-> container, service |-> service, at |-> at, ids |-> ids,
   commit |-> commit]

SomeRecords ==
  {D(2, 1, "succeeded", 2, {"x"}), D(1, 1, "failed", 4, {"x"}), D(4, 1, "rolled_back", 2, {"y"}),
   D(3, 2, "succeeded", 3, {"y"})}

SomeObservations ==
  {O(1, "a", 1, 1, {"x"}, None), O(2, "a", 1, 2, {"x"}, None), O(3, "b", 1, 3, {"x"}, "sha2"),
   O(4, "c", 1, 3, {"y"}, None), O(5, "d", 1, 4, {"x"}, "sha1"), O(6, "e", 2, 4, {}, None)}

Listing(kind, status, limits) ==
  [kind : {kind}, service : {None, 1}, status : status, since : {1, 2}, until : {3, 5},
   limit : limits]

SomeQueries ==
  Listing("discover", {None, "succeeded"}, {1, 2})
  \cup Listing("timeline", {None}, {1, 2, 3})
  \cup {[kind |-> "deploys", service |-> None, status |-> status, since |-> 1,
         until |-> until, limit |-> limit] :
           status \in {None, "succeeded"}, until \in {4, 6}, limit \in {2}}
  \cup {[kind |-> "deploys", service |-> 1, status |-> "succeeded", since |-> 1, until |-> 6,
         limit |-> 1]}
  \cup [kind : {"discover", "timeline", "deploys"}, service : {1}, status : {None},
        since : {None, 1}, until : {None}, limit : {1}]

-----------------------------------------------------------------------------
(* Graphs: three services in a cycle, a database, two observations of one  *)
(* dependency, one that ends at the instant asked for and one of low       *)
(* confidence; limits that cut between levels and within them.             *)

E(from, to, number, end, rank) ==
  [from |-> from, to |-> to, number |-> number, start |-> 1, end |-> end, rank |-> rank]

MCEdges ==
  {E(2, 3, 1, 4, 3), E(2, 3, 2, 4, 2), E(2, 4, 1, 4, 2), E(3, 4, 1, 4, 3), E(4, 2, 1, 4, 3),
   E(3, 1, 1, 4, 2), E(4, 1, 1, 2, 2), E(2, 1, 1, 4, 1)}

MCCommits ==
  {[services |-> {2, 3}, edges |-> {e \in MCEdges : e.from = 2 /\ e.to = 3}],
   [services |-> {2, 4}, edges |-> {E(2, 4, 1, 4, 2), E(4, 2, 1, 4, 3), E(2, 1, 1, 4, 1)}],
   [services |-> {3, 4}, edges |-> {E(3, 4, 1, 4, 3), E(3, 1, 1, 4, 2), E(4, 1, 1, 2, 2)}]}

MCGraphQueries ==
  [all : BOOLEAN, selects : {{2}, {3}, {2, 4}}, at : {1, 2}, minimum : {1, 2, 3},
   depth : 1..3, maxNodes : 1..4]

-----------------------------------------------------------------------------
\* Discovery shows no runtimes, and three of them are enough for the timeline.  The clock
\* matters where the window depends on it.
Relevant ==
  /\ (query.until # None) => (now = 5)
  /\ (query.until = None) => \A o \in observations : o.id \in {3, 4}
  /\ (query.kind = "discover") => (observations = {})
  /\ (query.kind = "timeline") => \A o \in observations : o.id \in {2, 3, 4}
================================================================================
