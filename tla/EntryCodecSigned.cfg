\* Entries with negative values too.
CONSTANTS
    Entries <- MCEntriesSigned
    Garbage <- MCGarbage
    DigitBits = 2
    Digit = 4
    Sizes <- MCSizes
    IntBits = 9
    IdBits = 24
    ArraySize = 78
SPECIFICATION CodecSpec
CHECK_DEADLOCK FALSE
INVARIANTS
    CompressedFits
