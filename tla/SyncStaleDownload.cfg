SPECIFICATION Spec
CONSTANTS
  Workers <- OneWorker
  Scheduler = "scheduler"
  MaxAttempts = 3
  Scenarios <- StaleScenarios
INVARIANT NothingLost
CHECK_DEADLOCK FALSE
