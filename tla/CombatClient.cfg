\* Two logs, up to four lines in all, two players.
CONSTANTS
    Names = {A, B}
    NoName = NoName
    Mob = Mob
    Nobody = Nobody
    MobId = 99
    NoLine = NoLine
    Lines <- MCLines
    Entries <- MCEntries
    MaxEntries = 4
    MaxStarts = 2
SYMMETRY MCSymmetry
SPECIFICATION ClientSpec
CHECK_DEADLOCK FALSE
INVARIANTS
    ClientTypeOK
    RowsKeepNames
    OwnerIsZero
    SendsOwnEvents
    AnnouncesName
    DisplayIsCurrent
