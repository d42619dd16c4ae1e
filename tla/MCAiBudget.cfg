CONSTANTS
  Requests = {r1, r2, r3}
  Agents = {a1}
  NoAgent = NoAgent
  None = None
  Costs = {1}
  DEFAULT_BUDGET <- DefaultBudget
  LimitValues = {1, 2}
  MaxDay = 2
  RedisEnabled = TRUE
SYMMETRY Symmetry
SPECIFICATION Spec
INVARIANTS
  ReservationsSerialized
  BudgetHolds
PROPERTY OnlyHolderReleases
CHECK_DEADLOCK FALSE
