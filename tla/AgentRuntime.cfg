SPECIFICATION FairSpec
CONSTANTS
  Runs = {run1}
  MaxIterations = 3
  MaxCost = 3
  \* Free, cheap, and two of them over the cap.
  Costs = {0, 1, 2}
  MaxCalls = 2
INVARIANTS
  CostCapped
  UsageAccounted
PROPERTIES
  AbortedRunStops
  EveryRunStops
