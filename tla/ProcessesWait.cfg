\* A child that still runs is waited for.
CONSTANTS
    NumIds = 2
    MaxInt8 = 1
    BuffSize = 2
    MaxPids = 3
    MaxBusy = 1
    MaxOutput = 2
SPECIFICATION Spec
INVARIANT WaitAnswersAfterExit
CHECK_DEADLOCK FALSE
