SPECIFICATION FairSpec
CONSTANTS
    e1 = e1
    e2 = e2
    placed = placed
    filled = filled
    s1 = s1
    s2 = s2
    p1 = p1
    p2 = p2
    Event <- Events
    Input <- Inputs
    ClassOf <- Classes
    StoreOf <- TwoStores
    Processor <- OneProcessor
    Millisecond = 1
    MaxFault <- LoopFaults
    MaxFaults = 3
    MaxTime = 4
PROPERTIES
    EventuallyCounted
