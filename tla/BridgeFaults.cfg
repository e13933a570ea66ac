\* Every fault.
CONSTANTS
    DataSize = 6
    Reset <- MCReset
    Close <- MCClose
    Version <- MCVersion
    Crc <- MCCrc
    Modules = {"fileio", "console"}
    cmdHdlrs <- MCcmdHdlrs
    runners <- MCrunners
    resets <- MCresets
    Results <- MCResults
    Requests <- FewRequests
    MaxFrames = 2
    MaxFaults = 2
    FaultKinds <- AllFaults
SPECIFICATION Spec
INVARIANTS TypeOK NoInvention OneReplyPerFrame
PROPERTIES ResetLeavesNothing
CHECK_DEADLOCK FALSE
