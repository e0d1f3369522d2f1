SPECIFICATION Spec
CONSTANTS
    e1 = e1
    e2 = e2
    Events <- MCEvents
    Rejected <- NoneRejected
    FaultKinds <- Reconnects
    Batch = 2
    MaxLen = 2
    MaxEntries = 2
    MaxContainers = 1
    MaxFaults = 1
PROPERTIES EveryEntryStored
