CONSTANTS
    admin = admin
    NoName = NoName
    MaxWords = 3
    MaxWordLength = 2
    MaxUnsignedLong = 4
    PoolSize = 2
    Admins <- AdminsMC
    NoNames <- NoNamesMC
    Numbers <- NumbersMC
SPECIFICATION FairSpec
INVARIANTS
    TypeOK
    SpellingsMeet
    FoundAsTyped
PROPERTIES
    LineServed
CHECK_DEADLOCK FALSE
