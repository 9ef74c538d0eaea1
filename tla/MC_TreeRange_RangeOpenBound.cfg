CONSTANTS
    Namespace <- MCNamespace
    Others <- MCOthers
    TreeValues <- MCValues
    Bounds <- MCValues
    Requests <- AllRequests
    Nil = Nil
SPECIFICATION Spec
PROPERTY
    RangeOpenBound
