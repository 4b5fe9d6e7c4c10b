SPECIFICATION FairSpec
CONSTANTS
  Resources = {r1, r2}
  Confirmations = 2
  Window = 2
  PendingTTL = 5
  MarkAfter = 2
  HideAfter = 4
  DeleteAfter = 6
  UnhealthyAfter = 4
  UnavailableAfter = 8
  Horizon = 9
  MaxEvents = 3
INVARIANTS AllocatableIsListed
PROPERTIES LeaseDroppedLate SnapshotConverges
