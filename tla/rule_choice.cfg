SPECIFICATION Spec
CONSTANTS
    Mro <- MCMro
    Members <- MCMembers
    FieldType <- MCFieldType
    Calls <- MCCalls
INVARIANTS
    CheckDecides
    CallsMatching
    SortedBySpecificity
CHECK_DEADLOCK FALSE
