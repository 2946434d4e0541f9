\* An investigation of a latency that was zero before the deployment.
SPECIFICATION DocumentSpec
CONSTANTS
  None = None
  MaxContaminating = 1
  TimelineLimit = 2
  LatencyMin = 20
  ErrorRateMin = 5
  RelativePercent = 25
  Latest = 2
  MaxCommits = 2
  Windows <- SomeWindows
  Deployments <- SomeDeployments
  Runtimes <- SomeRuntimes
  Calls <- SomeCalls
CONSTRAINT FewTogether
INVARIANTS
  MissingDeltaIsUnknown
CHECK_DEADLOCK FALSE
