SPECIFICATION AgentFairSpec
CONSTANTS
    c1 = c1
    c2 = c2
    CPUs <- MCCPUs
    RingSize = 2
    Modes = {"ebpf", "replay"}
    Capacities = {1, 2}
    MaxEvents = 4
    SockBuf = 1
INVARIANTS
    AgentInv
    OnlyKernelLossIsSilent
    DrainAtExit
PROPERTIES
    ImplementsChannelSink
    ExitingEndsAgent
