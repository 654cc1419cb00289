CONSTANTS
    t1 = t1
    t2 = t2
    Idle = Idle
    Gone = Gone
    MaxLines = 3
    Threads <- OneThreadMC
SPECIFICATION Spec
INVARIANTS
    CardIsCard
CHECK_DEADLOCK FALSE
