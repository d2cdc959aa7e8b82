SPECIFICATION Spec
CONSTANTS
  Tasks = {"t1"}
  Conns = {"c1"}
  Runners = {"scheduler"}
  Handlers = {"h1"}
  Directions = {"bidirectional"}
  Slots = {1}
  MaxAttempts = 2
  Budgets <- TwoRequests
PROPERTY PauseHolds
CHECK_DEADLOCK FALSE
