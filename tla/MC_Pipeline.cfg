CONSTANTS
    om = om
    fl = fl
    fl2 = fl2
    off = off
    lim = lim
    oc = oc
    ins1 = ins1
    ins2 = ins2
    m1 = m1
    m2 = m2
    Nil = Nil
    Tx = Tx
    Loop = Loop
    Ops <- MCOps
    Kind <- MCKind
    Arg <- MCArg
    Models <- MCModels
    ModelName <- MCModelName
    Pipelines <- MCPipelines
    Keys <- MCKeys
    MaxCalls = 4
SPECIFICATION Spec
INVARIANT
    TypeOK
    StreamMatchesReference
    RowsKeyed
PROPERTY
    Atomicity
