\* One call, or the saves of one store, in every order of what happens around them.  A call
\* ends, so does a behaviour.
SPECIFICATION CallsSpec
CONSTANTS
  None = None
  Artifacts = {1, 2, 3}
  Created <- MCCreated
  Compatible = {1, 2}
  Agreeing = {1, 3}
  PageSize = 1
  MaxPages = 2
  MaxRedirects = 2
  MaxAttempts = 3
  MaxBudget = 3
  Waits = {0, 2}
  Urls = {"mirror", "cdn", "lan"}
  Endpoint = "zip"
  HostOf <- MCHostOf
  Unsafe = {"lan"}
  Containers = {1, 2, 3}
  ImageOf <- MCImageOf
  Concurrency = 2
  Blocks = 2
  MaxWrites = 2
  MaxClock = 2
  Full = 3
  Deadlines = {1, 2, 4, 5, None}
  Attempts = 3
  MaxSaves = 2
  MaxImageCreatedClockSkew = 1
  Batches <- MCBatches
  Lookups <- MCLookups
  Objects = {"r1", "t1", "r2"}
  PeelsTo <- MCPeelsTo
  Long = {"r2"}
  MaxLookups = 2
  Nil = Nil
  Captures <- SomeFiles
  MaxParents = 3
  MaxEvidence = 3
  MaxServices = 3
  MaxEndpoints = 2
  MaxDependencies = 4
INVARIANTS
  SourcesAreTrue
  NewestIsStored
  RequestsContained
  SavedIsEarned
  LoadedAsInspected
  PoolIsRestored
  ObservationsExact
  LinksAreCertain
PROPERTIES
  CallsReturn
CHECK_DEADLOCK FALSE
