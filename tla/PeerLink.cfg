SPECIFICATION FairSpec
CHECK_DEADLOCK FALSE
CONSTANTS
    Links <- AllLinks
    Tries = 3
    RingSize = 2
INVARIANTS NothingTorn CommittedOnce
PROPERTIES DeliversOnce OverwritesInOrder EverySendEnds
