SPECIFICATION Spec
CONSTANTS
    Requests = {a, b, c}
    Pages = {p1, p2, p3, p4}
    PageSize = 2
    PromptLen <- MCPromptLen
    MaxLen = 4
    MaxBs = 2
    MaxPreempt = 1
    MaxGiven = 1
    NoReq = NoReq
    NoPage = NoPage
    Garbage = Garbage
SYMMETRY MCSymmetry
INVARIANTS
    SlotTypeOK
    CodesAreOwn
PROPERTY SteadyRowsKeepCodes
CHECK_DEADLOCK FALSE
