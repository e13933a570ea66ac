----------------------------- MODULE JsonBuffer -----------------------------
(***************************************************************************)
(* The buffer that json.c writes a message to, one step for each memcpy:    *)
(* room is asked for (checkOutputBufferSize), the characters are copied and *)
(* the account of the room is settled (writeNext).  How large the buffer is *)
(* follows from what was asked for; how much of it is left is counted       *)
(* apart from that.                                                         *)
(***************************************************************************)
EXTENDS Integers, Sequences

CONSTANTS
    AllocLen,   \* MANGOH_BRIDGE_JSON_BUFFER_ALLOC_LEN, 64
    MaxAlloc,   \* bound: the largest buffer that realloc gives
    Texts       \* the texts that are written, each the sequence of its pieces: the room
                \* that is asked for, and the characters

\* The values of k in getNextPowerOfTwo, up to a size that no text of the program has.
Shifted ==
    {1, 2, 4, 8, 16, 32, 64, 128, 256, 512, 1024, 2048, 4096, 8192, 16384, 32768, 65536,
     131072, 262144, 524288, 1048576, 2097152, 4194304, 8388608, 16777216, 33554432,
     67108864, 134217728, 268435456, 536870912, 1073741824}

ASSUME BufferAssumption ==
    /\ AllocLen \in Shifted /\ MaxAlloc \in Shifted /\ AllocLen <= MaxAlloc
    /\ \A t \in Texts : /\ Len(t) \in Nat
                        /\ \A i \in 1..Len(t) : t[i].room \in Nat /\ Len(t[i].chars) \in Nat

VARIABLES
    pieces,     \* the text, piece by piece
    done,       \* how many of them are written
    output,     \* the buffer: cap characters, len of them used, and room, what the code
                \* counts as free (allocLen)
    stage       \* write, aborted (a failed assertion) or noMemory

writer == <<pieces, done, output, stage>>

\* mangoh_bridge_json_getNextPowerOfTwo
NextPowerOfTwo(n) == CHOOSE k \in Shifted : k >= n /\ (k = 1 \/ k \div 2 < n)

\* Mutant of checkRoom: the whole new size is added to the room.
checkRoomWhole(b, size) ==
    IF b.room >= size THEN b
    ELSE LET incr == NextPowerOfTwo(b.len + size)
         IN  [cap |-> incr, room |-> b.room + incr, len |-> b.len]

\* checkOutputBufferSize: when the room is too little the buffer is reallocated, and
\* half its new size counts as new room.
checkRoom(b, size) ==
    IF b.room >= size THEN b
    ELSE LET incr == NextPowerOfTwo(b.len + size)
         IN  [cap |-> incr, room |-> b.room + incr \div 2, len |-> b.len]

\* writeNext asserts that there is room.
Fits(b, piece) == checkRoom(b, piece.room).room >= Len(piece.chars)
writeNext(b, piece) ==
    LET g == checkRoom(b, piece.room)
    IN  [cap |-> g.cap, room |-> g.room - Len(piece.chars), len |-> g.len + Len(piece.chars)]

-----------------------------------------------------------------------------
WriterInit ==
    /\ pieces \in Texts
    /\ done = 0
    /\ output = [cap |-> AllocLen, room |-> AllocLen, len |-> 0]
    /\ stage = "write"

\* The piece that is written next.
Writing == stage = "write" /\ done < Len(pieces)
Current == pieces[done + 1]

\* Nothing has to be reallocated for it, or realloc gives what is asked for.
Granted == output.room >= Current.room \/ output.len + Current.room <= MaxAlloc

WritePiece ==
    /\ Writing /\ Granted /\ Fits(output, Current)
    /\ output' = writeNext(output, Current)
    /\ done' = done + 1
    /\ UNCHANGED <<pieces, stage>>

\* The assertion of writeNext fails, with the characters copied already.
WriteAborts ==
    /\ Writing /\ Granted /\ ~Fits(output, Current)
    /\ stage' = "aborted"
    /\ UNCHANGED <<pieces, done, output>>

\* realloc fails: the buffer is freed, and the caller gets LE_NO_MEMORY.
NoMemory ==
    /\ Writing /\ output.room < Current.room
    /\ stage' = "noMemory"
    /\ UNCHANGED <<pieces, done, output>>

WriterNext == WritePiece \/ WriteAborts \/ NoMemory

Writer == WriterInit /\ [][WriterNext]_writer

-----------------------------------------------------------------------------
\* No count of the writer goes below zero: what is written was counted as free (writeNext).
BufferTypeOK ==
    /\ pieces \in Texts /\ done \in 0..Len(pieces)
    /\ output \in [cap : Nat, room : Nat, len : Nat]
    /\ stage \in {"write", "aborted", "noMemory"}

\* No piece asks for more room than there was at first.
ShortPieces == \A i \in 1..Len(pieces) : pieces[i].room <= AllocLen

\* The assertion fails for no piece that asked for the room it needs: only where a
\* character is written for which no room was asked, the comma of writeObject.
AbortsUnasked ==
    stage = "aborted" => done < Len(pieces) /\ Current.room < Len(Current.chars)

\* As long as no piece is longer than the first buffer, the writer's account of its
\* buffer is exact - the assertion of writeNext stands for the real end of the buffer -
\* and room that was asked for is there.
RoomIsExact == ShortPieces => output.room + output.len = output.cap /\ AbortsUnasked
=============================================================================
