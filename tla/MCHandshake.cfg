SPECIFICATION Spec
CONSTANTS
    ClientSessions = {c1, c2}
    ServerSessions = {s1, s2}
    Foreign = foreign
    MaxAltered = 1
SYMMETRY Symmetry
INVARIANTS
    ClientAgreement
    ServerAgreement
    OneToOne
    KeysMatchTranscript
CHECK_DEADLOCK FALSE
