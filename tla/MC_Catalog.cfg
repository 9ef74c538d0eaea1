CONSTANTS
    g1 = g1
    g2 = g2
    t1 = t1
    t2 = t2
    n1 = n1
    n2 = n2
    Goroutines <- MCGoroutines
    Types <- MCTypes
    Names <- MCNames
    TypeName <- MCTypeName
    MaxIds <- MCMaxIds
    MaxCalls <- MCMaxCalls
    MaxCrashes <- MCMaxCrashes
SYMMETRY MCSymmetry
SPECIFICATION Spec
INVARIANTS
    TypeOK
    CatalogConsistent
    NoPanic
