\* Lines of the log and their beginnings; entries whose signed fields are not negative.
CONSTANTS
    Sheets <- MCSheets
    Databases <- MCDatabases
    NoSheet = NoSheet
    NoName = NN
    Entries <- MCEntries
    Garbage <- MCGarbage
    DigitBits = 2
    Digit = 4
    Sizes <- MCSizes
    IntBits = 9
    IdBits = 24
    ArraySize = 78
    IntValues = 512
    IdValues = 16777216
SPECIFICATION LineSpec
CHECK_DEADLOCK FALSE
INVARIANTS
    RoundTrip
    LinesAreRead
