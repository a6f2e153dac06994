SPECIFICATION FairCampaign
CONSTANTS
    k1 = k1
    k2 = k2
    MaxIid = 9
    RegBits = 2
    AddrBits = 4
    IntBits = 3
    SeedMax = 4
    KNames <- MCKNames
    Threads <- MCThreads
    Grids <- MCGrids
    Apps <- MCApps
    Sites <- MCSites
INVARIANTS
    TypeOK
    SiteIsStruck
    FlipIsTheModel
    ProfileIsTheRows
PROPERTIES
    ImplementsMisdirection
    DrawnSiteIsStruck
