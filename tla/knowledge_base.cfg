CONSTANTS
    Class <- MC_Class
    Builtins = {"String", "List", "Dictionary"}
    Text <- MC_Text
    Loads <- MC_Loads
    World <- MC_World
    MaxChain = 4
SPECIFICATION Spec
INVARIANTS
    BlocksAgree
    RulesCovered
    RelationsImplemented
    BlocksMean
    OrderIrrelevant
