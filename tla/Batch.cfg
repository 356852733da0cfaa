CONSTANTS
    person = person
    employee = employee
    other = other
    left = left
    right = right
    p1 = p1
    e1 = e1
    o1 = o1
    Obj = {p1, e1, o1}
    Class = {person, employee, other}
    Store = {left, right}
    Value = {a, b}
    ClassOf <- MCClassOf
    StoreOf <- MCStoreOf
    IsA <- MCIsA
    Refers <- MCRefers
    Filters <- MCFilters
    UseTx = TRUE
    None = None
    MaxBlocks = 2
    MaxOther = 1
    MaxFault = 1
SPECIFICATION Spec
INVARIANTS StoreAtomic RolledBack Complete
CHECK_DEADLOCK FALSE
