SPECIFICATION Spec
CONSTANTS
    Requests = {a, b, c}
    Pages = {p1, p2, p3}
    PageSize = 2
    PromptLen <- MCPromptLen
    MaxLen = 4
    MaxBs = 2
    MaxPreempt = 0
    MaxGiven = 1
    NoReq = NoReq
    NoPage = NoPage
    Garbage = Garbage
INVARIANT OffloadedStaySelectable
CHECK_DEADLOCK FALSE
