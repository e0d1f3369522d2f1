SPECIFICATION Spec
CONSTANTS
    Null = Null
    Ids <- MCIds
    At <- MCAt
    Limits <- MCLimits
INVARIANTS TypeOK PagesDescend NothingSkipped
