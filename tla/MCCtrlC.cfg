SPECIFICATION FairSpec
CONSTANTS
    agent = agent
    stranger = stranger
    Clients <- MCClients
    Genuine <- MCGenuine
    MaxRecords = 1
    Backlog = 2
PROPERTY
    CtrlCEndsDaemon
CHECK_DEADLOCK FALSE
