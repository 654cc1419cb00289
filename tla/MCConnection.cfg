CONSTANTS
    t1 = t1
    t2 = t2
    Idle = Idle
    Gone = Gone
    MaxLines = 3
    Threads <- ThreadsMC
SPECIFICATION FairSpec
INVARIANTS
    TypeOK
    HandledInOrder
    FirstUserGetsCard
    ReadsPileUp
    IndInv
PROPERTIES
    LineHandled
    Released
CHECK_DEADLOCK FALSE
