SPECIFICATION Spec
CONSTANTS
    a = a b = b k1 = k1 ka = ka kb = kb kc = kc
    Requests = {a, b}
    NumPages = 4
    Keys <- MCKeys
    KeyOf <- MCKeyOf
    PromptLen <- MCPromptLen
    MaxNew = 1
    MaxChunk = 3
    PageSize = 2
    FixedSlots = {0, 1, 4}
    Estimates = {0, 3}
    Floor = 1
    FracPercent = 25
    MaxMishaps = 2
    NoKey = NoKey
    Garbage = Garbage
INVARIANTS
    PoolTypeOK
    PagesConserved
    TailNeverAllocated
    CacheSound
    TablesHoldOwn
    CopiesHoldOwn
    UncachedReusedFirst
CHECK_DEADLOCK FALSE
