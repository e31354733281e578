\* The room made for a recv that fails stays in the buffer.
CONSTANTS
    Packets <- MCPackets
    MaxPackets = 4
    RecvLength = 4
    Base = 4
SPECIFICATION StreamSpec
CHECK_DEADLOCK FALSE
INVARIANT BufferHoldsReceived
