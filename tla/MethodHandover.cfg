SPECIFICATION Spec
CONSTANTS
    r1 = r1
    r2 = r2
    r3 = r3
    t1 = t1
    t2 = t2
    t3 = t3
    t4 = t4
    Requests <- MCRequests
    Pulses <- MCPulses
    PulseOf <- MCPulseOf
    ObjectPulse = 1
    Tasks <- MCTasks
    Call <- MCCall
    SlotOf <- MCSlotOf
    Constructors = {}
    CallFlag <- MCFlag
    MethodFlag <- MCFlag
    OutcomesOf <- MCOutcomesOf
    Callers = {r1}
    MaxOutgoingSendCount = 2
    Handovers <- MCHandovers
    Skewed = FALSE
    Timely = TRUE
CHECK_DEADLOCK FALSE
INVARIANTS
    TypeOK
    OrderedExclusion
    AtMostOnce
    NoPanic
    ReportAccepted
PROPERTIES
    NoLostUpdate
    RegistryUse
