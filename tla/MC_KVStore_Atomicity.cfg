CONSTANTS
    p1 = p1
    p2 = p2
    k1 = k1
    k2 = k2
    Procs <- MCProcs
    Keys <- MCKeys
    MaxSessions <- MCMaxSessions
    MaxBatchSize <- MCMaxBatchSize
    MaxVersion <- MCMaxVersion
SYMMETRY MCSymmetry
SPECIFICATION Spec
INVARIANTS
    Atomicity
