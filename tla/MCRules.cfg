SPECIFICATION MCSpec
CONSTANTS
    Window = 2
    Threshold = 2
    kMaxDownloads = 2
    kMaxStaged = 1
    kMaxHistPerKey = 2
    kSweepKeys = 1
    Execs <- MCExecs
    FileOpens <- SomeFileOpens
    Connects <- SomeConnects
    Skew = 1
    MaxTime = 5
    MaxBoots = 1
    MaxSeen = 3
INVARIANTS
    CorrTypeOK
    DownloadExecExact
    WriteExecExact
    BeaconExact
