CONSTANTS
    Nil = Nil
    Values <- MCValues
    Stored <- MCStored
    Keys = {1, 2}
    MaxCalls = 3
SPECIFICATION Spec
INVARIANT
    DocumentCoherent
