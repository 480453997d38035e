SPECIFICATION FairSpec
CONSTANTS
    Size = 2
    LocalSize = 2
    Threshold = 64
    Name <- Names
    DType <- DTypes
    Sources0 <- Complete0
    Programs <- CallPrograms
INVARIANTS
    Handshake
PROPERTIES
    ChangeOnlyWhenParked
    CallsReturn
    HandlesComplete
