SPECIFICATION FairSpec
CONSTANTS
    t1 = t1
    t2 = t2
    r1 = r1
    k1 = k1
    k2 = k2
    NoThread = NoThread
    MaxIid = 5
    KNames <- MCKNames
    Threads <- MCThreads
    Regs <- MCRegs
    Grids <- MCGrids
    Apps <- MCApps
    Sites <- MCSites
INVARIANTS
    TypeOK
    ArmedOnlyInNamedLaunch
    AtMostOneSelection
    OneOutcome
    OutcomeIsFirstAccess
PROPERTIES
    SiteInRangeIsDecided
