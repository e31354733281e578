\* Three sockets that join, leave, come back and name themselves; events, queries and
\* contradicting answers.  2 is an id of a player, or of none yet.
CONSTANTS
    Sockets = {s1, s2, s3}
    NoName = NN
    Names = {NN, n1, n2}
    StringIds = {i1}
    Strings = {t1, t2}
    NoString = NS
    Units = {0, 2}
    MaxWork = 7
SPECIFICATION Spec
SYMMETRY Symmetry
CHECK_DEADLOCK FALSE
INVARIANTS
    TypeOK
    UniqueIds
    NextIdCoversPlayers
    NamesHaveOwners
    NamesDiffer
    RosterFollows
    RelayExact
    ResultsAgree
    AskersAnswered
PROPERTIES
    NoDoubleCount
