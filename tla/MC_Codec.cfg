CONSTANTS
    Namespaces <- MCNamespaces
    Values <- MCValues
SPECIFICATION Spec
INVARIANTS
    TypeOK
    NamespaceIsolation
    EqualConsistent
    FixedWidthOrder
    StructFieldsVisible
    IndexedFields
