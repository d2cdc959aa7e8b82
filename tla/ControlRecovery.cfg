SPECIFICATION FairSpec
CONSTANTS
  Tasks = {"t1"}
  Conns = {"c1", "c2"}
  Runners = {"scheduler", "watcher"}
  Handlers = {"h1"}
  Directions = {"bidirectional"}
  Slots = {1}
  MaxAttempts = 2
  Budgets <- ErrorAndOther
INVARIANT RefIntegrity
PROPERTY DegradedRecovers
CHECK_DEADLOCK FALSE
