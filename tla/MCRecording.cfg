SPECIFICATION MCSpec
CONSTANTS
    PQSEC_ANCESTORS = 4
    Addresses = {"45.9.0.1"}
    MaxNumber = 20
    Text <- MCText
    Characters <- MCCharacters
    Names <- MCNames
    Sensitive <- MCSensitive
    Inodes = {1, 2}
    Programs <- MCPrograms
    ExecFiles <- MCExecFiles
    Ports = {4}
    Gaps <- MCGaps
    Ms = 2
    MinGap = 4
    FlushEvery = 2
    MaxRecorded = 4
    MaxChanges = 1
INVARIANTS
    ReadsBackAll
    LosesOnlyATail
    DriftBounded
