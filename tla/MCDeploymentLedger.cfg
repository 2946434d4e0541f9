\* Every order of eight requests from two sources and two refreshes, with replays and crashes.
SPECIFICATION Spec
CONSTANTS
  None = None
  Requests <- MCRequests
  Inventories <- MCInventories
  Latest = 1
INVARIANTS
  TypeOK
  WholeLedgers
  AcceptedIsStored
PROPERTIES
  FirstClaimStands
  ReplayHarmless
  LinksUnambiguous
