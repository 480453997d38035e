SPECIFICATION Spec
CONSTANTS
    Scale <- MCScale
    Rank <- MCRank
    Name <- MCName
    SlotLists <- MCSlotLists
    Topo <- MCTopo
    TopoWeighted = FALSE
    Jobs <- MCExample
PROPERTIES
    CallsEnd
