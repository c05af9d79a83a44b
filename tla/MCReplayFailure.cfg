SPECIFICATION AgentSpec
CONSTANTS
    c1 = c1
    c2 = c2
    CPUs <- MCCPUs
    RingSize = 1
    Modes = {"replay"}
    Capacities = {1, 2}
    MaxEvents = 5
    SockBuf = 1
INVARIANTS
    ReplayEndsOnFailure
