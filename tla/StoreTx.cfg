SPECIFICATION Spec
CONSTANTS
    c1 = c1
    c2 = c2
    i1 = i1
    Client <- MCClient
    Id <- MCId
    Value <- MCValue
    NoDoc = NoDoc
    Clean = Clean
    Idle = Idle
    v1 = v1
    v2 = v2
    v3 = v3
    KeepHistory = TRUE
    UseTx = TRUE
    Immutable = FALSE
    Outer = "none"
    Lifecycle = {"delete", "restore"}
    MaxRev = 3
    MaxEpoch = 2
SYMMETRY MCSymmetry
INVARIANTS
    TypeOK
    VersionIdentity
PROPERTIES
    NoLostUpdate
    ImplementsAuditedStore
