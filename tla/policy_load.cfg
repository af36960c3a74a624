CONSTANTS
    t1 = t1
    t2 = t2
    NoThread = NoThread
    Threads = {t1, t2}
    Files = {"f", "g", "b"}
    NoFile = ""
    Contents <- MC_Contents
    Loads <- MC_Loads
    MaxLoads = 3
SPECIFICATION Spec
SYMMETRY MC_Symmetry
INVARIANTS
    TypeOK
    FilesOnce
    FailedLeavesNothing
    PolicyValid
