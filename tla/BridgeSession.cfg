\* Sessions of up to three requests of every kind; one byte, the port or the program may be lost.
CONSTANTS
    DataSize = 6
    Reset <- MCReset
    Close <- MCClose
    Version <- MCVersion
    Crc <- MCCrc
    Modules = {"fileio", "console"}
    cmdHdlrs <- MCcmdHdlrs
    runners <- MCrunners
    resets <- MCresets
    Results <- MCResults
    Requests <- AllRequests
    MaxFrames = 3
    MaxFaults = 1
    FaultKinds <- SessionFaults
SPECIFICATION FairSpec
PROPERTIES ImplementsService EveryRequestHandled Reconnects
CHECK_DEADLOCK FALSE
