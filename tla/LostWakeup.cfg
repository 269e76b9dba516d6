SPECIFICATION FairSpec
CONSTANTS
    r1 = r1
    r2 = r2
    t1 = t1
    t2 = t2
    t3 = t3
    t4 = t4
    Requests <- MCRequests
    Pulses <- TwoPulses
    PulseOf <- NewPulseOf
    ObjectPulse = 2
    Tasks <- MCTasks
    Call <- EarlyCall
    SlotOf <- EarlySlotOf
    Constructors = {r1}
    CallFlag <- MCFlag
    MethodFlag <- MCFlag
    OutcomesOf <- MCOutcomesOf
    Callers = {}
    MaxOutgoingSendCount = 2
    Handovers <- MCHandovers
    Skewed = FALSE
    Timely = TRUE
CHECK_DEADLOCK FALSE
PROPERTIES
    WaitersPass
