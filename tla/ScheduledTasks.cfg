SPECIFICATION FairSpec
CONSTANTS
  w1 = w1
  w2 = w2
  Nobody = Nobody
  Sent = Sent
  Workers <- TwoWorkers
  Occurrences <- TwoOccurrences
  LastInstant = 2
  Lease = 2
  ClaimLen = 1
  Environments <- Scenarios
INVARIANTS OneAtATime ExpiredWasSilent
PROPERTIES OccurrenceOnce LastWord
