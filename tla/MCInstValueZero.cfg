SPECIFICATION Spec
CONSTANTS
    w1 = w1
    w2 = w2
    t1 = t1
    t2 = t2
    t3 = t3
    k1 = k1
    k2 = k2
    MaxIid = 3
    MaxDsts = 2
    SeedMax = 8
    GprBits = 4
    LongBits = 4
    KNames <- MCKNames
    Warps <- MCWarps
    Threads <- MCThreads
    WarpOf <- MCWarpOf
    Grids <- MCGrids
    Apps <- MCApps
    Sites <- MCSites
INVARIANT
    OneThreadUnlessWarpModel
