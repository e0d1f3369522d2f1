SPECIFICATION Spec
CONSTANTS
    e1 = e1
    e2 = e2
    Events <- MCEvents
    Rejected <- OneRejected
    FaultKinds <- AllFaults
    Batch = 2
    MaxLen = 2
    MaxEntries = 4
    MaxContainers = 2
    MaxFaults = 2
INVARIANTS TypeOK SettledIsStored
PROPERTIES KeepsPromise StoredOrLeftPending Reclaims
