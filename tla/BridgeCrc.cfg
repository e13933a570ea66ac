\* A request cut short before its CRC, or bytes that come late.
CONSTANTS
    DataSize = 6
    Reset <- MCReset
    Close <- MCClose
    Version <- MCVersion
    Crc <- MCCrc
    Modules = {"fileio", "console"}
    cmdHdlrs <- MCcmdHdlrs
    runners <- MCrunners
    resets <- MCresets
    Results <- MCResults
    Requests <- FewRequests
    MaxFrames = 2
    MaxFaults = 2
    FaultKinds <- AllFaults
SPECIFICATION Spec
INVARIANT CrcWasReceived
CHECK_DEADLOCK FALSE
