\* Commands and a server of three releases on one database, dying and starting again.
SPECIFICATION Spec
CONSTANTS
  None = None
  Commands = {"first", "second"}
  Server = "server"
  Calls = {"c1", "c2"}
  Foundation = 1
  Releases <- SomeReleases
INVARIANTS
  WholeRelease
  ServedSchemaCovers
PROPERTIES
  StartedIsCurrent
  CallsEnd
