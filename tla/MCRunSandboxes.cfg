SPECIFICATION FairSpec
CONSTANTS
  r1 = r1
  r2 = r2
  b1 = b1
  b2 = b2
  None = None
  Sandboxes = {s1}
  Runs = {r1, r2}
  Batches = {b1, b2}
  BatchOf <- MCBatchOf
  ReleaseAttempts = 2
  Environments <- MCEnvironments
CHECK_DEADLOCK FALSE
PROPERTIES LeaseReturned CrashedIsReturned
