SPECIFICATION Spec
CONSTANTS
    Align = 2
    Depth = 2
    MaxFaults = 2
    Launches <- MCLaunches
    Scenarios <- AllScenarios
INVARIANTS
    TrainsOnTheStream
    RecordsResume
    EachTokenOnce
CHECK_DEADLOCK FALSE
