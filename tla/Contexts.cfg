CONSTANTS
    traitable = traitable
    person = person
    plain = plain
    firm = firm
    both = both
    Class = {traitable, person, plain, firm, both}
    Mro <- MCMro
    WithHistory = {person, firm, both}
    Lists <- MCLists
    Root = traitable
    Store = {s1, s2}
    Time = {t1, t2}
    Live = Live
    None = None
    MaxOpen = 3
SYMMETRY MCSymmetry
SPECIFICATION Spec
INVARIANTS AsOfScoped
PROPERTIES Restored
