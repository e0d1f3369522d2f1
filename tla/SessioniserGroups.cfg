SPECIFICATION Spec
CONSTANTS
    k1 = k1
    k2 = k2
    Keys <- TwoKeys
    Kinds <- PlainKinds
    Rules <- MCRules
    SeverityWeight = 40
    AlertMinimum = 2500
    Gap = 1
    MaxDuration = 2
    Batch = 2
    Prompt = TRUE
    FaultKinds <- NoFaults
    MaxEvents = 4
    MaxReplays = 0
    LastArrival = 5
    MaxTime = 5
    MaxFaults = 0
INVARIANTS RowsAreGroups
