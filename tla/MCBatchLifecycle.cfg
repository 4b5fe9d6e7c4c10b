SPECIFICATION FairSpec
CONSTANTS
  s1 = s1
  s2 = s2
  Submitters = {s1, s2}
  Join = "partial_ok"
  Environments <- MCEnvironments
CHECK_DEADLOCK FALSE
INVARIANTS OneOwner AnswersAsStored 
PROPERTIES OrphanWithRunsSettles
