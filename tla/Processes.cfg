\* A table of two entries, three children (so one entry is overwritten), of which two
\* write, a buffer of two bytes.
CONSTANTS
    NumIds = 2
    MaxInt8 = 1
    BuffSize = 2
    MaxPids = 3
    MaxBusy = 2
    MaxOutput = 2
SPECIFICATION FairSpec
INVARIANTS TypeOK OutputOnce NoneLost
PROPERTIES RunningHonest ResumesOnExit
CHECK_DEADLOCK FALSE
