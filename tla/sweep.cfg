SPECIFICATION Spec
CONSTANTS
    CasesOf <- MCCasesOf
    Versions = {1, 2}
    MaxFaults = 2
INVARIANTS
    SweepTypeOK
    CompleteIsOneAttempt
    OneVersion
    ResultsKept
    TaintedServerNotReused
    SummaryStaysTrue
PROPERTY SweepCompletes
