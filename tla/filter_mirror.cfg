SPECIFICATION Spec
CONSTANTS
    Types <- MCTypes
    Root = "Foo"
    PlanRoot = "Foo"
    Requests <- MCMirrored
    Databases <- MCDatabases
INVARIANT ResultsMean
CHECK_DEADLOCK FALSE
