CONSTANTS
    Modulus = 16
    Pn532ToHost = 13
    FirmwareCommand = 2
    SamCommand = 4
    ScanCommand = 10
    MaxUidLength = 2
    NoCard = NoCard
    BufferSize = 4
    MaxSockets = 3
    Cards <- CardsMC
SPECIFICATION FairSpec
PROPERTY VerifyEnds
CHECK_DEADLOCK FALSE
