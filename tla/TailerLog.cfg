SPECIFICATION Spec
CONSTANTS
    Junk <- SecondIsJunk
    MaxLines = 3
    MaxRotations = 2
    MaxTruncations = 1
    MaxCrashes = 1
INVARIANTS TypeOK RestartLosesNothing RepetitionIsBounded NewLinesInOrder
PROPERTIES EveryLinePublished
