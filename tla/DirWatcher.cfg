\* Three calls of watch and stop, then the destructor; two directories, one new file.
CONSTANTS
    Dirs = {d1, d2}
    NoDir = NoDir
    Handles = {h1}
    NoHandle = NoHandle
    MaxCalls = 3
    MaxChanges = 1
SPECIFICATION Spec
CHECK_DEADLOCK FALSE
INVARIANTS
    TypeOK
    NoMissedWakeup
    ReportedOnce
    AsleepIsClosed
PROPERTY CallsReturn
