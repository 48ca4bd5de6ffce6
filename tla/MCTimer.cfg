SPECIFICATION FairSpec
CONSTANTS
    Node = {n1, n2}
    TIME_NEAR_SHIFT = 1
    TIME_LEVEL_SHIFT = 1
    MaxTime = 15
INVARIANT OnTime
PROPERTY EveryTimerFires
