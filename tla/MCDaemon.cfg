SPECIFICATION FairSpec
CONSTANTS
    agent = agent
    stranger = stranger
    Clients <- MCClients
    Genuine <- MCGenuine
    MaxRecords = 3
    Backlog = 1
INVARIANTS
    NoDescriptorLeaks
    ProcessedAll
PROPERTIES
    ReturnsToAccept
    SignalEndsAfterConnection
CHECK_DEADLOCK FALSE
