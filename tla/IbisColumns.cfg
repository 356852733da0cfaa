SPECIFICATION Spec
CONSTANTS
    p1 = p1
    p2 = p2
    name = name
    tags = tags
    v = v
    Null = Null
    Missing = Missing
    Nobody = Nobody
    Process <- Processes
    Key <- Keys
    Eligible = {name}
    IndexKey = {tags}
    Value = {v}
    Doc <- Docs
    OwnTx <- OwnTxs
INVARIANTS
    TypeOK
    FindAgrees
PROPERTIES
    CacheKept
    SavedReadable
    IndicesKept
