SPECIFICATION Spec
CHECK_DEADLOCK FALSE
CONSTANTS
    Links <- Resending
    Tries = 3
    RingSize = 2
INVARIANT CommittedOnce
