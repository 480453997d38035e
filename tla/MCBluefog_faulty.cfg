SPECIFICATION Spec
CONSTANTS
    Size = 2
    LocalSize = 2
    Threshold = 64
    Name <- Names
    DType <- DTypes
    Sources0 <- Complete0
    Programs <- FaultyPrograms
INVARIANTS
    CollectivesMatch
CHECK_DEADLOCK FALSE
