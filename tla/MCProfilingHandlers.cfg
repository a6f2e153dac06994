SPECIFICATION Spec
CONSTANTS
    NotGlobal = NotGlobal
    Agents = {1, 2}
    Bits = {0, 1}
    POOLSIZE = 7
    sizeofCFG = 2
    sizeofBLOCK = 1
    NumBlocks <- MCNumBlocks
    Libs <- MCLibs
    AppsOf <- MCAppsOf
INVARIANTS
    TypeOK
    AllocationsAreDisjoint
    WeightsAreEntries
    CountsAreOfTheRun
    StatsAreOfTheValues
