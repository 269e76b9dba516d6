SPECIFICATION FairSpec
CONSTANTS
    e1 = e1
    e2 = e2
    Events <- MCEvents
    Inputs <- MCInputs
    Delta = 2
    FirstPulse = 3
    LastPulse = 7
    MinCachePulseAge = 2
    MaxPastPulseAge = 6
    MaxRollbacks = 1
INVARIANTS
    TypeOK
    NoPanic
    HandledInItsPulse
    OnePresent
    AcceptedNotLost
    PulseDataKept
CHECK_DEADLOCK FALSE
PROPERTY
    EarlyEventsEnd
