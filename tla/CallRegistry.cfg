SPECIFICATION Spec
CONSTANTS
    r1 = r1
    r2 = r2
    r3 = r3
    r4 = r4
    Requests <- MCRequests
    Pulses <- MCPulses
    PulseOf <- MCPulseOf
    Flags <- MCFlags
    FlagOf <- MCFlagOf
INVARIANTS
    TypeOK
    RegistryConsistent
    ResultsFollowRequests
PROPERTY
    OnlyForward
