SPECIFICATION FairSpec
CONSTANTS
    r1 = r1
    r2 = r2
    r3 = r3
    r4 = r4
    t1 = t1
    t2 = t2
    t3 = t3
    t4 = t4
    t5 = t5
    Requests <- MCRequests
    Pulses <- MCPulses
    PulseOf <- MCPulseOf
    ObjectPulse = 1
    Tasks <- MCTasks
    Call <- MCCall
    SlotOf <- MCSlotOf
    Constructors = {r4}
    CallFlag <- MCFlag
    MethodFlag <- MCFlag
    OutcomesOf <- MCOutcomesOf
    Callers = {r1}
    MaxOutgoingSendCount = 1
    Handovers <- MCHandovers
    Skewed = FALSE
    Timely = TRUE
CHECK_DEADLOCK FALSE
PROPERTIES
    CallsEnd
