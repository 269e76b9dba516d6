SPECIFICATION Spec
CONSTANTS
    m1 = m1
    m2 = m2
    m3 = m3
    m4 = m4
    ordered = ordered
    unordered = unordered
    NoMachine = NoMachine
    Machines <- MCFourMachines
    Children <- MCChildren
    AllowsPriority = TRUE
    PartialChildren <- MCChildren
    PrioritizePartial = TRUE
    InitialLimit = 1
    Limits = {1, 2}
    ChildLimits = {1, 2}
    MaxParks = 1
    MaxPrioritized = 1
INVARIANTS TypeOK WithinLimit Accounting ChildNotIdle
PROPERTY PlacesHandedOn
SYMMETRY Symmetry
