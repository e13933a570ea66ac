\* Two fields, two values of each, two handlers of each; room for two updates and a half.
CONSTANTS
    Fields = {"f", "g"}
    RxSize = 5
    DataSize = 1
    MaxVersion = 2
    MaxHandlers = 2
SPECIFICATION FairSpec
INVARIANTS TypeOK WholeUpdates OnlyAsked
PROPERTY UpdateArrives
CHECK_DEADLOCK FALSE
