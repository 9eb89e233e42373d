SPECIFICATION Spec
CONSTANTS
    Workers = {w1, w2}
    CpuBlocks = {b1, b2}
    MaxEvents = 3
    Depth = 2
    MaxRaises = 1
INVARIANTS
    TypeOK
    BlocksConserved
    CompletedFiredEverywhere
    CompletedInOrder
PROPERTY
    RecordedEventCompletes
