SPECIFICATION Spec
CONSTANTS
    e1 = e1
    e2 = e2
    placed = placed
    filled = filled
    s1 = s1
    s2 = s2
    p1 = p1
    p2 = p2
    Event <- Events
    Input <- Inputs
    ClassOf <- Classes
    StoreOf <- OneStore
    Processor <- TwoProcessors
    Millisecond = 1
    MaxFault <- SaveFaults
    MaxFaults = 2
    MaxTime = 5
SYMMETRY Symmetry
INVARIANTS
    TypeOK
    NoneMissed
    CountedOnce
    OutputsBounded
PROPERTIES
    InOrder
    WatermarkForward
