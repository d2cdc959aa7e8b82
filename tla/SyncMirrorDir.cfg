SPECIFICATION Spec
CONSTANTS
  Workers <- OneWorker
  Scheduler = "scheduler"
  MaxAttempts = 2
  Scenarios <- MirrorDirScenarios
PROPERTY DeleteNeedsEvidence
CHECK_DEADLOCK FALSE
