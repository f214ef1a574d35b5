SPECIFICATION PolicySpec
CONSTANTS
  Workloads <- WithScratch
  Leeway = 0
  Preplace = {"greedy", "task0"}
  Planned = {"roundtrip_planner", "belady_reactive"}
  Suits <- SuitsAny
  Orders <- BothWays
INVARIANT Fits
CHECK_DEADLOCK FALSE
