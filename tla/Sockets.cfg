\* Four connections through two slots, buffers of three bytes.
CONSTANTS
    MaxClients = 2
    BuffLen = 3
    DataLen = 2
    MaxConns = 4
SPECIFICATION Spec
INVARIANTS TypeOK Watched NoCrossTalk
PROPERTY OnlyOldestEvicted
CHECK_DEADLOCK FALSE
