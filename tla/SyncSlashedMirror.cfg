SPECIFICATION Spec
CONSTANTS
  Workers <- OneWorker
  Scheduler = "scheduler"
  MaxAttempts = 2
  Scenarios <- SlashedScenarios
PROPERTY DeletesPropagate
CHECK_DEADLOCK FALSE
