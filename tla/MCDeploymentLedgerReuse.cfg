\* A ledger may name one deployment and service in two environments.
SPECIFICATION Spec
CONSTANTS
  None = None
  Requests <- MCRequests
  Inventories <- MCInventories
  Latest = 1
INVARIANTS
  ReuseIsConflict
