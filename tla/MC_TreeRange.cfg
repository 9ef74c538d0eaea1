CONSTANTS
    Namespace <- MCNamespace
    Others <- MCOthers
    TreeValues <- MCValues
    Bounds <- MCValues
    Requests <- MCClosedRequests
    Nil = Nil
SPECIFICATION Spec
INVARIANT
    TypeOK
PROPERTY
    ImplementsOrderedTree
