SPECIFICATION Spec
CONSTANTS
    x = x
    y = y
    z = z
    c1 = c1
    c2 = c2
    Var = {x, y, z}
    Const = {c1, c2}
    Goals <- MC_Goals
    MaxGoals = 3
    StackLimit = 40
INVARIANTS AnswersGoals NeverOverflows
PROPERTY Settles
CHECK_DEADLOCK FALSE
