SPECIFICATION Spec
CONSTANTS
    c2s = c2s
    s2c = s2c
    m1 = m1
    m2 = m2
    big = big
    Keys <- MCKeys
    Payloads <- MCPayloads
    Oversize <- MCOversize
    SeqMax = 3
INVARIANTS
    RecordInv
    NonceNeverReused
    DeliveredIsPrefix
    OpensExactlyNext
