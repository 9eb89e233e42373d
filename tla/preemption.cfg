SPECIFICATION EngineSpec
CONSTANTS
    Requests = {r1, r2}
    MaxBlocks = 2
    Pages = {nul, p1, p2, p3}
    CpuSlots = {c1, c2}
    StagingSlots = {s1}
    Values <- MCValues
    Torn = Garbage
    PageSize = 1
    MaxTokens = 2
    OffloadPercent = 50
    GpuBudget = 1
    PromotePerStep = 1
    MixedFetch = FALSE
    None = None
    NullPage = nul
    Garbage = Garbage
    PromptLen <- MCPromptLen
    MaxNew = 1
    MaxChunk = 2
    Window = 1
    TrueFreeModes = {TRUE}
    MaxPreempt = 1
    MaxSkips = 1
    Short = r1
    ShortPrompt = 1
    LongPrompt = 1
SYMMETRY Symmetry
PROPERTY UsesTables
CHECK_DEADLOCK FALSE
