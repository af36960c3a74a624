SPECIFICATION Spec
CONSTANTS
    MaxInt = 7
    Exact = 4
    Unit = 2
    StringOrder <- MCStringOrder
    Queries <- MCQueries
INVARIANT SolutionsKept
CHECK_DEADLOCK FALSE
