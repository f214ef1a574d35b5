SPECIFICATION FairSpec
CHECK_DEADLOCK FALSE
CONSTANTS
    Scripts <- WriteDuringSend
    NumCalls = 3
    Objects = {1, 2}
    Extents = {1, 2}
PROPERTY CallsAnswered
