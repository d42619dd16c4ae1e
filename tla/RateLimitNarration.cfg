SPECIFICATION MCSpec
CONSTANTS
  Scenes = {"supervisor"}
  None = None
  Visits = {1}
  Calls = {1, 2}
  Parts = {"first", "second"}
  Changing = "first"
  MaxChanges = 1
  MaxFailures = 1
  MaxClicks = 1
  FeedLimit = 1
  Staff = {"a1", "a2"}
  Furniture = {"coffee"}
  Coffee = "coffee"
  Side = 1
  MaxTrips = 2
  MaxEdits = 3
  Asks = {1, 2}
  Modes = {"STEADY_STATE", "FLASH_SALE"}
  MaxSeconds = 1
  MaxCommands = 1
  MaxLost = 1
  Tabs = {"hris", "infrastructure"}
  Reloads = {1, 2}
  MaxReloads = 3
  Tickets = {"t1", "t2"}
  Requests = {1, 2}
  MaxRequests = 3
  Agents = {agent}
  Narrators = {narrator}
  Reasoners = {reasoner}
  Operator = operator
  MinPause = 1
  DefaultPause = 2
  RetryAfters <- MCRetryAfters
  MaxHits = 5
INVARIANT NarrationDoesNotPause
CHECK_DEADLOCK FALSE
