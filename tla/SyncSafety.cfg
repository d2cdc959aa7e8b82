SPECIFICATION Spec
CONSTANTS
  Workers <- TwoWorkers
  Scheduler = "scheduler"
  MaxAttempts = 2
  Scenarios <- SafetyScenarios
INVARIANTS TypeOK IndexConsistent NothingLost
PROPERTIES  ConflictsKept DeleteNeedsEvidence PlansJustified PlansApart PlansComplete LossesExplained
CHECK_DEADLOCK FALSE
