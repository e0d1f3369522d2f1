SPECIFICATION Spec
CONSTANTS
    EventAt <- ThirdRepeats
    Bad <- SecondIsBad
    Count = 2
    QueueMax = 2
    Page = 2
    MaxRows = 3
    WireMax = 1
    MaxFaults = 1
INVARIANTS TypeOK NothingSkipped FramesInOrder NoRowTwice ListIsNewest
PROPERTIES LiveReaches
CHECK_DEADLOCK FALSE
