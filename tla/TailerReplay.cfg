SPECIFICATION Spec
CONSTANTS
    Junk <- NoJunk
    MaxLines = 2
    MaxRotations = 1
    MaxTruncations = 0
    MaxCrashes = 0
INVARIANTS NoReplay
