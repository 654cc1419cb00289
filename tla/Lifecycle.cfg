CONSTANTS
    ThreadCount = 2
    ThreadLimit = 4
SPECIFICATION FairSpec
INVARIANTS
    TypeOK
    CleanExit
    AbortOnlyBySelfStop
    AlwaysAccepting
    IndInv
PROPERTIES
    ShutdownEnds
CHECK_DEADLOCK FALSE
