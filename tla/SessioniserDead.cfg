SPECIFICATION Spec
CONSTANTS
    k1 = k1
    k2 = k2
    Keys <- MCKeys
    Kinds <- PlainKinds
    Rules <- MCRules
    SeverityWeight = 40
    AlertMinimum = 2500
    Gap = 1
    MaxDuration = 2
    Batch = 2
    Prompt = FALSE
    FaultKinds <- LostConnections
    MaxEvents = 1
    MaxReplays = 0
    LastArrival = 1
    MaxTime = 2
    MaxFaults = 1
PROPERTIES Reconnects
