SPECIFICATION FairSpec
CONSTANTS
    m1 = m1
    m2 = m2
    m3 = m3
    m4 = m4
    ordered = ordered
    unordered = unordered
    NoMachine = NoMachine
    Machines <- MCTwoMachines
    Children <- MCOneChild
    AllowsPriority = TRUE
    PartialChildren <- MCOneChild
    PrioritizePartial = TRUE
    InitialLimit = 2
    Limits = {2}
    ChildLimits = {1}
    MaxParks = 1
    MaxPrioritized = 0
PROPERTY WaitersPass
CHECK_DEADLOCK FALSE
