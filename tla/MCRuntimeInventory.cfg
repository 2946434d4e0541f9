\* Snapshots of four instants, or evidence about one, arriving in every order and any
\* number of times, conflicts included.
SPECIFICATION Spec
CONSTANTS
  None = None
  Containers = {"c1", "c2", "c3"}
  Times = {1, 2, 3, 4}
  Services = {"api", "web"}
  Metadata = {"running", "exited"}
  Artifacts <- MCArtifacts
  Images = {1, 2}
  Revisions = {"r1", "r2"}
  Aliases = {1, 2}
  Commits = {"r1", "r2"}
  Derivations <- MCDerivations
  Priority <- MCPriority
  Fingerprint <- MCFingerprint
  Repositories = {"repo", "moved"}
  Snapshots <- MCSnapshots
CONSTRAINT FewTogether
INVARIANTS
  TypeOK
  PointInTimeExact
  AliasPointInTime
  CommittedIsHistory
PROPERTIES
  HistoryPreserved
  ConclusionNeverWeakens
  ReplayHarmless
  AnswersFollowHistory
