\* What an observation says against the order of the spans.
SPECIFICATION DecodeSpec
CONSTANTS
  Nil = Nil
  Captures <- SomeFiles
  MaxParents = 3
  MaxEvidence = 3
  MaxServices = 3
  MaxEndpoints = 2
  MaxDependencies = 4
INVARIANTS
  SameWhateverOrder
CHECK_DEADLOCK FALSE
