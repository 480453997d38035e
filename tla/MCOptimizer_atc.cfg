SPECIFICATION Spec
CONSTANTS
    Rank <- MCRanks2
    Param <- Params
    Peers <- RingPeers
    LocalSize = 2
    Setups <- AtcSetups
INVARIANTS
    NoGradientLost
