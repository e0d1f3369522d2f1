SPECIFICATION Spec
CONSTANTS
    k1 = k1
    k2 = k2
    Keys <- MCKeys
    Kinds <- MCKinds
    Rules <- MCRules
    SeverityWeight = 40
    AlertMinimum = 2500
    Gap = 1
    MaxDuration = 1
    Batch = 2
    Prompt = FALSE
    FaultKinds <- AllFaults
    MaxEvents = 2
    MaxReplays = 1
    LastArrival = 2
    MaxTime = 2
    MaxFaults = 1
INVARIANTS TypeOK CountedOnce MemoryHasItsRow AlertsAreJustified
PROPERTIES ClosedRowsFrozen
