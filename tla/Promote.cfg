CONSTANTS
    Core = core
    Siblings = {kernel}
    None = None
    Machine = {m1}
    Idle = Idle
    MaxSrc = 1
    MaxFault = 1
    MaxProd = 1
    MaxYank = 1
SPECIFICATION FairSpec
INVARIANTS TypeOK PinsResolve TriggerHasRelease PointerAtLatest
PROPERTIES ReleasesKept Recovered
