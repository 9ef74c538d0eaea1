CONSTANTS
    Namespaces <- MCNamespaces
    Values <- MCValues
SPECIFICATION Spec
INVARIANT
    ComparerContract
