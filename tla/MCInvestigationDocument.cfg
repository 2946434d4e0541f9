\* One command while captures, deployments and containers are saved; it ends, so does a behaviour.
SPECIFICATION DocumentSpec
CONSTANTS
  None = None
  MaxContaminating = 1
  TimelineLimit = 2
  LatencyMin = 20
  ErrorRateMin = 5
  RelativePercent = 25
  Latest = 2
  MaxCommits = 2
  Windows <- SomeWindows
  Deployments <- SomeDeployments
  Runtimes <- SomeRuntimes
  Calls <- SomeCalls
CONSTRAINT FewTogether
INVARIANTS
  ConclusionIsTrue
  TimelineAgrees
  RefusalIsExplained
CHECK_DEADLOCK FALSE
