SPECIFICATION FairSpec
CONSTANTS
  Runs <- MCRuns
  StageOf <- MCStageOf
  KeyOf <- MCKeyOf
  Limit <- MCLimit
  Concurrency = 2
  MaxAttempts = 2
  Joins = {"all_success", "partial_ok", "first_success", "fail_fast"}
  Outcomes <- MCOutcomes
CHECK_DEADLOCK FALSE
INVARIANTS ReturnsEveryResult SlotsHonoured StagesInOrder
PROPERTIES FairRetry NoRetryOnceStopping EventuallyEnds
