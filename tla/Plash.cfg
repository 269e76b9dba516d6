SPECIFICATION FairSpec
CONSTANTS
    a1 = a1
    a2 = a2
    a3 = a3
    d1 = d1
    Appends <- MCAppends
    Drops = {d1}
    DropOf <- MCDropOf
    SizeOf <- MCSizeOf
    FaultsOf <- MCFaultsOf
    MaxCancels = 1
    MaxLate = 1
    PageSize = 2
INVARIANTS
    TypeOK
    CommittedIntact
    NothingLeftBehind
    DropOrdinalsDense
    AcknowledgedReported
    NodeStateFinal
    SummaryComplete
PROPERTIES
    SequenceKept
    AppendsAnswered
    PlashEnds
CHECK_DEADLOCK FALSE
