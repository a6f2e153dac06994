SPECIFICATION FairSpec
CONSTANTS
    w1 = w1
    w2 = w2
    w3 = w3
    Warps <- ThreeWarps
    Keys <- MCKeys
    NumSlots = 3
    MaxRetries = 3
    Word = 268435456
    InOrder = TRUE
    MaxCalls = 4
INVARIANTS
    TypeOK
    KeyHasOneEntry
    SizeIsEntries
    AddressesHold
PROPERTIES
    CallsReturn
    ImplementsCounters
