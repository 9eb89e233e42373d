SPECIFICATION Spec
CONSTANTS
    Workers = {w1}
    CpuBlocks = {b1, b2}
    MaxEvents = 2
    Depth = 1
    MaxRaises = 1
PROPERTY
    EveryEventCompletes
