\* Two files with lines of 2, 0 and 3 bytes; 3 bytes and a line end fill the
\* buffer, and with a tail in front they do not fit.
CONSTANTS
    MaxFiles = 2
    FileSize = 9
    EndOffsets = {3, 4, 8}
    BufferSize = 4
    MaxStarts = 2
SPECIFICATION Spec
CHECK_DEADLOCK FALSE
INVARIANTS
    LinesAreWhole
PROPERTIES
    FeedsLines
    PollCatchesUp
