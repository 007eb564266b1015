SPECIFICATION Spec
CONSTANTS
    c1 = c1
    c2 = c2
    c3 = c3
    c4 = c4
    IDs = {c1, c2, c3, c4}
INVARIANT NoDuplicates
PROPERTY ImplementsPendingPauses
