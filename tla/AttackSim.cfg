SPECIFICATION Spec
CONSTANTS
    Registry <- MCRegistry
    Mixes <- MCMixes
    Onlys <- MCOnlys
    Train <- MCTrain
    HeldOut <- MCHeldOut
    Grants <- MCGrants
    Concurrency = 2
    MinAttempts = 3
    MinDistinct = 2
    MaxFaults = 2
INVARIANTS TypeOK OneCampaignPerSource ManifestTellsAll CountsBracketTraffic BruteTripsRule DropperGetsIn
CHECK_DEADLOCK FALSE
