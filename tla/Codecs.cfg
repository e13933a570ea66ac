\* Messages of up to two members, nested twice, with a first buffer of eight characters;
\* streams of up to four bytes over bytes that exercise every shift; every one-bit error,
\* and longer ones within a byte and across the end of one.
CONSTANTS
    AllocLen = 8
    MaxAlloc = 64
    Texts <- MCTexts
    Seed = 65535
    Bytes = {0, 1, 15, 88, 128, 170, 255}
    Errors = {1, 2, 4, 8, 16, 32, 64, 128, 129, 255, 256, 384, 4080, 32769, 65535}
    MaxLength = 4
SPECIFICATION Spec
INVARIANTS CrcIsReference ErrorsDetected RoomIsExact PrefixesWait ReadsBack
CHECK_DEADLOCK FALSE
