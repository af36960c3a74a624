SPECIFICATION Spec
CONSTANTS
    Types <- MCTypes
    Root = "Foo"
    PlanRoot = "Foo"
    Requests <- MCRequests
    Databases <- MCDatabases
INVARIANTS
    ResultsMean
    FilterSound
    FilterComplete
    PlanSound
    PlanComplete
CHECK_DEADLOCK FALSE
