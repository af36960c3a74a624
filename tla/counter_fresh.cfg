SPECIFICATION Spec
SYMMETRY MC_Symmetry
CONSTANTS
    t1 = t1
    t2 = t2
    t3 = t3
    Threads = {t1, t2, t3}
    MaxId = 4
    U64 = 16
INVARIANTS TypeOK BelowNext
PROPERTY Fresh
