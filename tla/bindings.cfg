SPECIFICATION Spec
CONSTANTS
    w = w
    x = x
    y = y
    z = z
    c1 = c1
    c2 = c2
    Var = {x, y, z}
    Const = {c1, c2}
    Goals <- MC_WithValues
    MaxGoals = 3
    MaxStack = 18
    MaxChoices = 2
SYMMETRY MC_Symmetry
INVARIANTS TypeOK SnapshotsIntact LookupEnds NoRuntimeError
PROPERTY ImplementsStore
CHECK_DEADLOCK FALSE
