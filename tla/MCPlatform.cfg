SPECIFICATION MCSpec
CONSTANTS
  Scenes = {"steps", "scaling", "saga", "capacity", "tasks", "goals", "registry", "outbox",
            "stream", "audit", "experiments", "loop"}
  Slots = {h1, h2}
  Pairs = {h1, h2}
  Triples = {r1, r2, r3}
  Twins = {e1, e2}
  Saga = saga
  Deployments = {"d1"}
  UUIDs = {"u1"}
  Demands <- TwoDemands
  SagaReplicas = {0, 2, 4}
  SagaMaxReplicas = 3
  OthersReplicas = {9}
  MaxReplicas = 10
  TaskConfidences = {0, 1}
  TokenUses = {1}
  MaxIterations = {1, 3}
  TokenBudgets = {2, 4}
  DefaultMaxIterations = 3
  DefaultTokenBudget = 4
  DefaultMinConfidence = 1
  Complexities = {"SIMPLE_QUERY", "SIMPLE_CLASSIFICATION", "COMPLEX_REASONING", "CRITICAL_DECISION"}
  RiskLevels = {"LOW", "HIGH", "CRITICAL"}
  AgentNames = {"a1"}
  Versions = {"1.0.0", "2.0.0"}
  Confidences = {2000, 10000}
  MaxSent = 4
  Servers = {"p1", "p2"}
  Listeners = {"l1"}
  Scenarios = {"scenario"}
  LiveTokens = 2
  FallbackTokens = 1
  MaxCrashes = 1
  MaxTurns = 2
  MaxCost = 2
  Costs = {1}
  MaxCalls = 1
  MaxStops = 2
  RosterSize <- Sizes
  None = None
SYMMETRY Symmetric
INVARIANTS
  StepsTellTheTruth
  EveryoneHasATurn
  ClusterFollowsEvents
  FailedSagaIsUndone
  SettlesInOneMove
  TasksStop
  TrustIsEarned
  
  
  OneLoop
PROPERTY
  StopIsHeeded
CHECK_DEADLOCK FALSE
