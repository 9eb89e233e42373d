SPECIFICATION EngineSpec
CONSTANTS
    Requests = {r1, r2}
    MaxBlocks = 3
    Pages = {nul, p1, p2, p3}
    CpuSlots = {c1, c2}
    StagingSlots = {s1}
    Values <- MCValues
    Torn = Garbage
    PageSize = 1
    MaxTokens = 3
    OffloadPercent = 50
    GpuBudget = 1
    PromotePerStep = 0
    MixedFetch = FALSE
    None = None
    NullPage = nul
    Garbage = Garbage
    PromptLen <- MCPromptLen
    MaxNew = 1
    MaxChunk = 2
    Window = 1
    TrueFreeModes = {TRUE}
    MaxPreempt = 1
    MaxSkips = 0
    Short = r1
    ShortPrompt = 2
    LongPrompt = 2
SYMMETRY Symmetry
INVARIANT OffloadedHoldsOwn
CHECK_DEADLOCK FALSE
