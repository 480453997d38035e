SPECIFICATION Spec
CONSTANTS
    Scale <- MCScale
    Jobs <- MCJobs
INVARIANTS
    DynamicListsMatch
    WeightsKeepTheMean
    PeriodConnects
