\* Logs of up to six entries, three displays to go back to.
CONSTANTS
    Entries <- MCEntries
    MaxEntries = 6
    Player = Player
    NoAbility = NoAbility
    Mob = Mob
    Strike = Strike
    Drain = Drain
    MaxHistory = 3
SPECIFICATION DisplaySpec
CHECK_DEADLOCK FALSE
INVARIANTS
    DisplayTypeOK
    RowsAreCurrent
    RowsAreSums
    DrillPath
    NoHitMissed
    OneEncounterPerFight
