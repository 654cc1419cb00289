CONSTANTS
    ThreadCount = 2
    ThreadLimit = 4
SPECIFICATION Spec
INVARIANT CleanShutdown
CHECK_DEADLOCK FALSE
