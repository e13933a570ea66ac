\* Two connections through two slots, four bytes from the peers in all; a slot can
\* hold more bytes than the console's buffer.
CONSTANTS
    MaxClients = 2
    SendLen = 2
    RecvLen = 4
    RxSize = 3
    DataSize = 2
    MaxConns = 2
    MaxSent = 4
SPECIFICATION FairSpec
INVARIANTS TypeOK ReadOnce AssertsHold
PROPERTIES Drains WriteAnswered
CHECK_DEADLOCK FALSE
