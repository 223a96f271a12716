SPECIFICATION FairSpec
CONSTANTS
    Files = {f1, f2}
    MaxRetries = 1
    MaxPins = 1
    None = None
INVARIANTS
    ShownIsSaved
PROPERTIES
    CancelStops
    SendingEnds
CHECK_DEADLOCK FALSE
