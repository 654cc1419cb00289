CONSTANTS
    n1 = n1
    n2 = n2
    u1 = u1
    u2 = u2
    d1 = d1
    cli1 = cli1
    cli2 = cli2
    client1 = client1
    client2 = client2
    NoThread = NoThread
    Absent = Absent
    NoText = NoText
    LevelModulus = 2
    MaxUserEntries = 1
    MaxDoorEntries = 1
    Names <- FewNames
    Uids <- FewUids
    Doors <- DoorsMC
    TypedLevels <- FewLevels
    CliThreads <- CliThreadsMC
    ClientThreads <- TwoClientThreads
    InitialFiles <- FewFiles
    Faults <- FaultsMC
SPECIFICATION FairSpec
PROPERTIES
    CheckAnswered
    CommandEndsWhenAlone
