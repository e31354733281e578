\* A download that failed counts as installed.
CONSTANTS
    Build = 1
    Servers = 2
    Versions = {0, 1, 2}
    MaxDepth = 3
SPECIFICATION Spec
INVARIANT InstalledUpdate
CHECK_DEADLOCK FALSE
