\* A table of four entries over three descriptors, one file, one int of the packet.
CONSTANTS
    ListSize = 4
    PacketLen = 1
    MaxFd = 2
    Files = {"log"}
    MaxSize = 1
    FollowOn = FALSE
SPECIFICATION Spec
INVARIANTS TypeOK NoStale NoLeak KnowsPosition
PROPERTIES OthersKept ResetFrees
CHECK_DEADLOCK FALSE
