\* Packages are written to one path and verified, in every order, with a power loss
\* anywhere.  Every call ends, and so does a behaviour.
SPECIFICATION Spec
CONSTANTS
  None = None
  Foreign = Foreign
  Calls = {c1, c2, c3}
  Accepted = {c1, c2}
  Verifiers = {v1}
  Entries = 2
  MaxLosses = 1
SYMMETRY Symmetry
INVARIANTS
  SuccessIsKept
  PublishedVerifies
PROPERTIES
  ImplementsWriteOnce
CHECK_DEADLOCK FALSE
