SPECIFICATION MCSpec
CONSTANTS
    Window = 1
    Threshold = 2
    kMaxDownloads = 1
    kMaxStaged = 1
    kMaxHistPerKey = 2
    kSweepKeys = 1
    Execs <- MCExecs
    FileOpens <- MCFileOpens
    Connects <- MCConnects
    LlmSeverities = {0, 4}
    Skew = 0
    MaxTime = 2
    MaxBoots = 1
    MaxSeen = 1
    LlmModes = {"mock", "real"}
    Caps = {2}
    Corpus <- MCCorpus
    Delays = {1}
    Tenth = 2
    MaxFiles = 2
    MaxEntries = 2
VIEW View
INVARIANTS
    ChainIsCritical
    SilenceHasAReason
    GateIsExact
