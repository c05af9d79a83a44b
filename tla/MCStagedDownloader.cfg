SPECIFICATION CorrSpec
CONSTANTS
    Window = 2
    Threshold = 2
    kMaxDownloads = 1
    kMaxStaged = 3
    kMaxHistPerKey = 2
    kSweepKeys = 1
    Execs <- StagedExecs
    FileOpens <- StagedWrites
    Connects <- NoEvents
    Skew = 0
    MaxTime = 3
    MaxBoots = 0
    MaxSeen = 1
INVARIANTS
    EveryStagedExecIsReported
