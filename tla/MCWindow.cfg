SPECIFICATION Spec
CONSTANTS
    Scale <- MCScale
    Rank <- MCRank
    Name <- MCName
    SlotLists <- MCSlotLists
    Topo <- MCTopo
    TopoWeighted = FALSE
    Jobs <- MCJobs
INVARIANTS
    MassConserved
    PTracksTensor
    VersionsMeanFresh
    WindowsConsistent
PROPERTIES
    ImplementsLock
    UsesMutex
    CallsEnd
