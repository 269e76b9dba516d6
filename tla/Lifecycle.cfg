SPECIFICATION Spec
CONSTANTS
    r1 = r1
    r2 = r2
    r3 = r3
    r4 = r4
    t1 = t1
    t2 = t2
    t3 = t3
    t4 = t4
    t5 = t5
    Requests <- MCRequests
    Pulses <- MCPulses
    PulseOf <- MCPulseOf
    ObjectPulse = 2
    Tasks <- MCTasks
    Call <- MCCall
    SlotOf <- MCSlotOf
    Constructors = {r1}
    CallFlag <- MCCallFlag
    MethodFlag <- MCMethodFlag
    OutcomesOf <- MCOutcomesOf
    Callers = {}
    MaxOutgoingSendCount = 2
    Handovers <- MCHandovers
    Skewed = FALSE
    Timely = TRUE
CHECK_DEADLOCK FALSE
INVARIANTS
    AtMostOnce
PROPERTIES
    NoLostUpdate
    NoRunAfterDeactivation
