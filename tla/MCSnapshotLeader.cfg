SPECIFICATION FairLeaderSpec
CONSTANTS
  Pools = {p1, p2}
  Mortal = {p1}
  None = none
  TTL = 4
  Deadline = 4
  Interval = 3
  Providers = 2
  MaxFaults = 6
INVARIANTS OneLeader NoLostRefresh
PROPERTIES RefreshRecurs
