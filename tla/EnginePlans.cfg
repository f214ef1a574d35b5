CONSTANTS
    a = a
    b = b
    c = c
    Objects = {a, b, c}
    Nil = Nil
    Programs <- AllPlans
SPECIFICATION Spec
INVARIANTS LedgerExact NoMisfire ReadsSequential LanesUndisturbed AmpleMemorySuffices
CHECK_DEADLOCK FALSE
