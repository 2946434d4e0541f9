\* Listings page by page and every query of a small graph, while other processes save.
\* A listing ends, so does a behaviour.
SPECIFICATION ReadsSpec
CONSTANTS
  None = None
  Delay = 3
  MaxPerDeployment = 2
  MaxPerPage = 3
  Records <- SomeRecords
  Observations <- SomeObservations
  Queries <- SomeQueries
  Clock = {4, 5}
  Span = 2
  Services = {2, 3, 4}
  Others = {1}
  Edges <- MCEdges
  Commits <- MCCommits
  GraphQueries <- MCGraphQueries
  EdgesPerNode = 2
  Readers = {"snapshot", "store"}
CONSTRAINT Relevant
INVARIANTS
  PagesComplete
  ConclusionIsSound
  SnapshotIsWhole
  ResultIsSound
CHECK_DEADLOCK FALSE
