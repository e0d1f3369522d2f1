SPECIFICATION Spec
CONSTANTS
    k1 = k1
    k2 = k2
    Keys <- MCKeys
    Kinds <- MCKinds
    Rules <- MCRules
    SeverityWeight = 40
    AlertMinimum = 2500
    Gap = 1
    MaxDuration = 2
    Batch = 2
    Prompt = FALSE
    FaultKinds <- KillsAndRedis
    MaxEvents = 2
    MaxReplays = 0
    LastArrival = 1
    MaxTime = 3
    MaxFaults = 1
INVARIANTS SettledIsCounted AlertsAreComplete
PROPERTIES CountedOrLeftPending OpenSessionsClose
