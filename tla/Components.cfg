SPECIFICATION ComponentsSpec
CONSTANTS
    Configs <- MCConfigs
    Hw <- MCHw
    Objects <- MCObjects
    MaxLevel = 1
    MaxIters = 2
    Makespans <- MCMakespans
    Builds <- MCBuilds
    Chains <- MCChains
    Segments = 2
    Chunks = 2
    small = small
    medium = medium
    large = large
    Tags = {small, medium, large}
    SizeOf <- ByteSizes
    Sizes <- AllSizes
    Budget = 5242880
    Regimes = {"slab", "record", "vmm"}
    Births = 3
    Runs = 2
    Physical = {4194304, 5242880}
INVARIANTS
    TrainsSequentially
    WorkAccounted
    SearchNeverLoses
    TrainsEveryRound
    FreezeExact
    BackwardSeesForward
    GradientsWhole
    MemoryPartitioned
    PoisonOrdered
    ArenaExact
CHECK_DEADLOCK FALSE
