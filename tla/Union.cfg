CONSTANTS
    c1 = c1
    c2 = c2
    Client = {c1, c2}
    Id = {1, 2, 3}
    Stored <- MCStored
    Busy = {1}
    Value = {1, 2}
    None = None
    Idle = Idle
    AtMost = {0, 1}
    MaxSave = 2
    MaxDelete = 1
    MaxTail = 1
    MaxFind = 1
SYMMETRY MCSymmetry
SPECIFICATION Spec
INVARIANTS Recorded FindMerged
PROPERTIES NoBlindOverwrite
CHECK_DEADLOCK FALSE
