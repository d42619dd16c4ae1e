CONSTANTS
  Requests = {r1, r2}
  Agents = {a1}
  NoAgent = NoAgent
  None = None
  Costs = {1}
  DEFAULT_BUDGET <- DefaultBudget
  LimitValues = {1, 2}
  MaxDay = 1
  RedisEnabled = TRUE
SYMMETRY Symmetry
SPECIFICATION Spec
INVARIANT UnreachableFallsBack
CHECK_DEADLOCK FALSE
