\* One call is enough: the new thread stores its initial state over the change.
CONSTANTS
    Dirs = {d1}
    NoDir = NoDir
    Handles = {h1}
    NoHandle = NoHandle
    MaxCalls = 2
    MaxChanges = 0
SPECIFICATION Spec
CHECK_DEADLOCK FALSE
PROPERTY PickedUp
