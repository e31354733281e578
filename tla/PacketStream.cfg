\* Up to four packets of 3, 5, 8 and 20 bytes, cut anywhere by recvs of 1 to 4 bytes.
CONSTANTS
    Packets <- MCPackets
    MaxPackets = 4
    RecvLength = 4
    Base = 4
SPECIFICATION StreamSpec
CHECK_DEADLOCK FALSE
INVARIANTS
    StreamIntact
    PacketsInOrder
