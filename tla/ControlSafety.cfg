SPECIFICATION Spec
CONSTANTS
  Tasks = {"t1"}
  Conns = {"c1"}
  Runners = {"scheduler", "poller"}
  Handlers = {"h1"}
  Directions = {"bidirectional"}
  Slots = {1}
  MaxAttempts = 2
  Budgets <- RequestOrErrors
INVARIANTS TypeOK RefIntegrity RetryingNeedsOverlap
PROPERTY ActivationNeedsStart
CHECK_DEADLOCK FALSE
