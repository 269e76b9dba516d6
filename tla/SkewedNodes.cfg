SPECIFICATION Spec
CONSTANTS
    r1 = r1
    r2 = r2
    t1 = t1
    t2 = t2
    t3 = t3
    Requests <- MCRequests
    Pulses <- MCPulses
    PulseOf <- MCPulseOf
    ObjectPulse = 1
    Tasks <- MCTasks
    Call <- MCCall
    SlotOf <- MCSlotOf
    Constructors = {}
    CallFlag <- MCFlag
    MethodFlag <- MCFlag
    OutcomesOf <- MCOutcomesOf
    Callers = {}
    MaxOutgoingSendCount = 2
    Handovers <- MCHandovers
    Skewed = TRUE
    Timely = FALSE
CHECK_DEADLOCK FALSE
INVARIANTS
    EffectExclusion
    AtMostOnce
    ReportAccepted
