CONSTANTS
    n1 = n1
    n2 = n2
    u1 = u1
    u2 = u2
    d1 = d1
    cli1 = cli1
    cli2 = cli2
    client1 = client1
    client2 = client2
    NoThread = NoThread
    Absent = Absent
    NoText = NoText
    LevelModulus = 2
    MaxUserEntries = 2
    MaxDoorEntries = 2
    Names <- NamesMC
    Uids <- UidsMC
    Doors <- DoorsMC
    TypedLevels <- TypedLevelsMC
    CliThreads <- CliThreadsMC
    ClientThreads <- ClientThreadsMC
    InitialFiles <- InitialFilesMC
    Faults <- FaultsMC
SPECIFICATION Spec
SYMMETRY SymmetryMC
INVARIANTS
    TypeOK
    DoorsMatchFile
    LiveUsersOnFile
    FileSafeBeforeRename
    RestartInventsNoDoor
    IndInv
PROPERTIES
    DecisionFromOneTable
    Implements
