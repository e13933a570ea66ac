\* One connection, a RESET and another one are enough.
CONSTANTS
    MaxClients = 2
    SendLen = 2
    RecvLen = 2
    RxSize = 2
    DataSize = 1
    MaxConns = 2
    MaxSent = 1
SPECIFICATION Spec
INVARIANT AcceptAssertHolds
CHECK_DEADLOCK FALSE
