SPECIFICATION FairSpec
CONSTANTS
  MaxAttempts = 2
  CleanupAttempts = 3
  Outcomes <- MCOutcomes
  Environments <- MCEnvironments
CHECK_DEADLOCK FALSE
INVARIANTS CompletedIsCommitted TokenOfThisAttempt DoneIsSettled
PROPERTIES CrashIsRecovered
