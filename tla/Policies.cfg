SPECIFICATION PolicySpec
CONSTANTS
  Workloads <- AllWorkloads
  Leeway = 0
  Preplace = {"greedy", "task0"}
  Planned = {"pressurefit", "max_reduce", "min_grow", "roundtrip_planner", "belady_reactive"}
  Suits <- SuitsAll
  Orders <- BothWays
INVARIANTS BookkeepingExact Fits ReadsLatest SearchKeepsBest
CHECK_DEADLOCK FALSE
