SPECIFICATION Spec
CONSTANTS
    Size = 3
    LocalSize = 3
    Threshold = 64
    Name <- Names
    DType <- DTypes
    Sources0 <- Ring
    Programs <- ThreePrograms
INVARIANTS
    ReceivesServed
    ShutdownTogether
