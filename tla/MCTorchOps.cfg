SPECIFICATION Spec
CONSTANTS
    Scale <- MCScale
    Rank <- MCRank
    LocalSize = 2
    Jobs <- MCJobs
INVARIANTS
    CacheMatchesCommunicator
    WeightsHonoured
    HandlesConsistent
PROPERTIES
    CallsPairUp
    ScriptsEnd
