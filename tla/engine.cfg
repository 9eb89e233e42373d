SPECIFICATION EngineSpec
CONSTANTS
    Requests = {r1, r2}
    MaxBlocks = 3
    Pages = {nul, p1, p2, p3, p4}
    CpuSlots = {c1, c2, c3}
    StagingSlots = {s1}
    Values <- MCValues
    Torn = Garbage
    PageSize = 2
    MaxTokens = 5
    OffloadPercent = 50
    GpuBudget = 1
    PromotePerStep = 1
    MixedFetch = FALSE
    None = None
    NullPage = nul
    Garbage = Garbage
    PromptLen <- MCPromptLen
    MaxNew = 2
    MaxChunk = 2
    Window = 2
    TrueFreeModes = {TRUE, FALSE}
    MaxPreempt = 0
    MaxSkips = 0
    Short = r1
    ShortPrompt = 2
    LongPrompt = 3
SYMMETRY SlotSymmetry
INVARIANTS
    EngineTypeOK
    DecodeReadsOwn
    OffloadedHoldsOwn
    GpuBlockOwnsPage
    NoOrphans
PROPERTIES
    NoCountInPrefill
    WindowNeverSkipped
CHECK_DEADLOCK FALSE
