CONSTANTS
    x = x
    y = y
    c1 = c1
    c2 = c2
    Var = {x, y}
    Const = {c1, c2}
    Goals <- MC_Goals
    MaxOuter = 2
    MaxInner = 2
    MaxStack = 12
    MaxChoices = 1
SPECIFICATION Spec
SYMMETRY MC_Symmetry
CHECK_DEADLOCK FALSE
INVARIANTS
    TypeOK
    ResultsSound
    FirstComplete
