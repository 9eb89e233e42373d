SPECIFICATION Spec
CONSTANTS
    Requests = {r1, r2, r3}
    MaxBlocks = 1
    Pages = {p1, p2}
    CpuSlots = {c1, c2}
    StagingSlots = {s1}
    Values = {a, b}
    Torn = b
    PageSize = 1
    MaxTokens = 1
    OffloadPercent = 50
    GpuBudget = 1
    PromotePerStep = 1
    MixedFetch = FALSE
    None = None
SYMMETRY Symmetry
INVARIANTS
    TypeOK
    CpuSlotsConserved
    StagingSlotsConserved
    LruMatchesResidency
    BackedByCpu
    CpuCountExact
    StagedCopyMatches
    StagedMapSound
PROPERTY ImplementsBlockStore
CHECK_DEADLOCK FALSE
