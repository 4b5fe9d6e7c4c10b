SPECIFICATION FairSpec
CONSTANTS
  u1 = u1
  u2 = u2
  p1 = p1
  p2 = p2
  i1 = i1
  NoImage = NoImage
  Free = Free
  Keys = {1, 2}
  Users = {u1, u2}
  Processes = {p1, p2}
  Images = {i1, i2}
  Lease = 1
  BuildTTL = 1
  FailedTTL = 1
  Grace = 2
  MaxLag = 1
  MaxAge = 3
  Environments <- MCEnvironments
INVARIANTS LeaseStands WritersOwnTheRecord
 
