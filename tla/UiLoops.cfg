\* Two servers, of which any may fail, and versions below, at and above the
\* program's; up to three loops inside each other.
CONSTANTS
    Build = 1
    Servers = 2
    Versions = {0, 1, 2}
    MaxDepth = 3
SPECIFICATION LiveSpec
INVARIANTS
    TypeOK
    TickHasFrame
    LoadsNewest
    NoLoopStranded
    EndsOnRequest
PROPERTY UpdateReturns
CHECK_DEADLOCK FALSE
