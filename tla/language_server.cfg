CONSTANTS
    Text <- MC_Text
    Files <- MC_Files
    Path <- MC_Path
    Directories <- MC_Directories
    MaxChanges = 2
SPECIFICATION Spec
INVARIANTS
    ShownIsCurrent
    HasAllFiles
    DeletedIsForgotten
CHECK_DEADLOCK FALSE
