SPECIFICATION Spec
CONSTANTS
    a1 = a1
    a2 = a2
    a3 = a3
    d1 = d1
    Appends <- MCAppends
    Drops = {d1}
    DropOf <- MCDropOf
    SizeOf <- MCSizeOf
    FaultsOf <- NoFaultsOf
    MaxCancels = 0
    MaxLate = 3
    PageSize = 2
INVARIANT
    RefusedRolledBack
CHECK_DEADLOCK FALSE
