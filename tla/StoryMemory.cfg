SPECIFICATION Spec
CONSTANTS
    Compactions = {k1, k2}
    Indexings = {i1, i2}
    MaxEntries = 3
    KeepRecent = 1
    PassageLimit = 1
    TripleOf <- MCTripleOf
    Related <- MCRelated
    Earlier <- MCEarlier
    MaxTriples = 2
    MaxConflicts = 2
SYMMETRY MCSymmetry
INVARIANTS
    TypeOK
    NothingForgotten
PROPERTIES
    VisibilityKept
    SupersededIsFinal
CHECK_DEADLOCK FALSE
