CONSTANTS
    a = a
    b = b
    c = c
    Objects = {a, b, c}
    Nil = Nil
    Programs <- Scenarios
SPECIFICATION FairSpec
INVARIANTS OffsetsDisjoint PoolReturned
PROPERTY Terminates
CHECK_DEADLOCK FALSE
