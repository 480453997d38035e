SPECIFICATION Spec
CONSTANTS
    Size = 2
    LocalSize = 2
    Threshold = 32
    Name <- Names
    DType <- DTypes
    Sources0 <- Complete0
    Programs <- CorePrograms
INVARIANTS
    TypeOK
    CollectivesMatch
    RequestAccounting
    HandleAccounting
    ErrorsJustified
    ReadyInTable
    OutcomesAgree
    NoAbort
    FusionSound
