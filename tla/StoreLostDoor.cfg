CONSTANTS
    n1 = n1
    u1 = u1
    u2 = u2
    d1 = d1
    cli1 = cli1
    NoThread = NoThread
    Absent = Absent
    NoText = NoText
    LevelModulus = 2
    MaxUserEntries = 2
    MaxDoorEntries = 1
    Names <- NamesMC
    Uids <- UidsMC
    Doors <- DoorsMC
    TypedLevels <- TypedLevelsMC
    CliThreads <- CliThreadsMC
    ClientThreads <- ClientThreadsMC
    InitialFiles <- InitialFilesMC
    Faults <- FaultsMC
SPECIFICATION HSpec
INVARIANT AckedDoorSurvives
