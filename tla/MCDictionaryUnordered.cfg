SPECIFICATION Spec
CONSTANTS
    w1 = w1
    w2 = w2
    w3 = w3
    Warps <- TwoWarps
    Keys <- MCKeys
    NumSlots = 3
    MaxRetries = 3
    Word = 268435456
    InOrder = FALSE
    MaxCalls = 3
INVARIANT
    AddressesHold
