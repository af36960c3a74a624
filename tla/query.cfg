CONSTANTS
    StackLimit = 40
    Terms <- MC_Terms
    Queries <- MC_AllQueries
    Policies <- MC_AllPolicies
    Worlds <- MC_Worlds
    Endless = {"loop"}
    Timeouts = {0, 60}
    MaxDepth = 4
SPECIFICATION PromiseSpec
CHECK_DEADLOCK FALSE
INVARIANTS
    TypeOK
    QueriesBalanced
    NeverPanics
PROPERTIES
    Terminates
    ImplementsAnswers
