SPECIFICATION FairSpec
CONSTANTS
  Workers <- OneWorker
  Scheduler = "scheduler"
  MaxAttempts = 2
  Scenarios <- BlockedScenarios
PROPERTY OthersGoOn
CHECK_DEADLOCK FALSE
