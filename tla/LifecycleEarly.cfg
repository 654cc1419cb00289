CONSTANTS
    ThreadCount = 2
    ThreadLimit = 4
SPECIFICATION FairSpec
PROPERTY EveryShutdownEnds
CHECK_DEADLOCK FALSE
