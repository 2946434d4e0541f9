\* Six captures and three runtime snapshots in any order, any number of times.
SPECIFICATION Spec
CONSTANTS
  None = None
  Sources = {"x", "y"}
  Environments = {"prod", "test"}
  Times = {1, 2, 3, 4, 5, 6}
  Hashes = {"h1", "h2", "h3", "h4", "h5"}
  Services = {"api", "pay"}
  Operations = {"get"}
  Dependencies <- MCDependencies
  Names = {1, 2, 3}
  Fingerprints = {"f1", "f2"}
  RuntimeName <- MCRuntimeName
  Captures <- MCCaptures
  RuntimeFacts <- MCRuntimeFacts
INVARIANTS
  WholeCaptures
  RowsFollowFacts
PROPERTIES
  WindowStands
