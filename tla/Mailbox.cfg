\* Three connections through two slots, three messages of any kind; the microcontroller's
\* buffer holds one of them and a half.
CONSTANTS
    MaxClients = 2
    RecvLen = 4
    RxSize = 3
    DataSize = 1
    Keys = {"k"}
    MaxConns = 3
    MaxMsgs = 3
SPECIFICATION FairSpec
INVARIANTS TypeOK RawOnce
PROPERTIES AnswerWhole Served
CHECK_DEADLOCK FALSE
