------------------------------- MODULE FileIO -------------------------------
(***************************************************************************)
(* The file commands of the bridge (fileIO.c): a table of descriptors       *)
(* indexed by the ids the microcontroller uses, on top of the kernel's      *)
(* descriptors, which the other modules share and which are recycled.       *)
(*                                                                          *)
(* A handler runs to its end before anything else happens, so each is one   *)
(* step, with the response it ends with; the response may fail to be sent.  *)
(* Ids are int8_t in the requests: the upper half of the table is given out *)
(* by OPEN and reached by no other request, the memory before the table is  *)
(* reached instead: the packet's registers, that is the request's own bytes,*)
(* and before them command handlers nobody registered, that is zeros.       *)
(*                                                                          *)
(* close() frees the descriptor also when it reports an error (EIO, EINTR), *)
(* as Linux does.                                                           *)
(***************************************************************************)
EXTENDS Integers, FiniteSets

CONSTANTS
    ListSize,  \* MANGOH_BRIDGE_FILEIO_LIST_SIZE, 256
    PacketLen, \* the ints of the packet, between the command handlers and fdList
    MaxFd,     \* bound: the largest descriptor of the process
    Files,     \* the names of files
    MaxSize,   \* bound: the size of a file, and the largest position
    FollowOn   \* bound: whether behaviours go on once a request worked on a
               \* descriptor that is not its id's own (misclosed, astray)

ASSUME ListAssumption == ListSize \in Nat /\ ListSize > 0 /\ ListSize % 2 = 0
ASSUME PacketAssumption == PacketLen \in Nat
ASSUME FdAssumption == MaxFd \in Nat /\ MaxSize \in Nat /\ MaxSize > 0 /\ FollowOn \in BOOLEAN

INVALID_FD == -1
Half == ListSize \div 2
Ids == 0..ListSize - 1
Fds == 0..MaxFd
Modes == {"r", "w", "a"}
Unknown == -1

VARIABLES
    fdList,     \* the table, and the memory before it
    nextId,     \* the id of the next file opened
    kernel,     \* the kernel's descriptors: [owner, file, mode, pos]
    size,       \* the size of each file, -1 when there is none
    \* history
    given,      \* the file the microcontroller opened under each id, or "none"
    believed,   \* the position it works out from the responses
    outlived,   \* the entries that kept their number when it was closed
    misclosed,  \* an open descriptor was closed that was not the id's own
    astray,     \* READ, WRITE or SEEK worked on a file that was not the id's own
    spilled     \* an entry in use was overwritten, or an open's response not sent

vars == <<fdList, nextId, kernel, size, given, believed, outlived, misclosed, astray, spilled>>
notes == <<outlived, misclosed, astray, spilled>>

Free == [owner |-> "free",  file |-> "none", mode |-> "none", pos |-> 0]
Other == [owner |-> "other", file |-> "none", mode |-> "none", pos |-> 0]
File(f, m) == [owner |-> "file", file |-> f, mode |-> m, pos |-> 0]

\* The lowest free descriptor is the one open() returns.
FreeFds == {d \in Fds : kernel[d] = Free}
NewFd == CHOOSE d \in FreeFds : \A e \in FreeFds : d <= e

\* The table index a request's id byte stands for, an int8_t.
Index(id) == IF id < Half THEN id ELSE id - ListSize

\* The descriptors a request may find there: any number, where the packet is.
Named(id) ==
    IF Index(id) \in -PacketLen..-1 THEN Fds \cup {INVALID_FD} ELSE {fdList[Index(id)]}

\* The id has an entry whose number is still the one OPEN put there.
Own(id) == Index(id) \in Ids \ outlived

IsOpen(fd) == fd \in Fds /\ kernel[fd] # Free
OnFile(fd) == IsOpen(fd) /\ kernel[fd].owner = "file"
MoveTo(fd, p) == [kernel EXCEPT ![fd].pos = p]

\* What the microcontroller works out from a response, of a file it knows open.
Believe(id, p) ==
    [believed EXCEPT ![id] =
        IF given[id] = "none" \/ ~Own(id) \/ p > MaxSize THEN Unknown ELSE p]

Least(m, n) == IF m <= n THEN m ELSE n

Init ==
    /\ fdList = [i \in -Half..ListSize - 1 |-> IF i < 0 THEN 0 ELSE INVALID_FD]
    /\ nextId = 0
    /\ kernel = [d \in Fds |-> IF d = 0 THEN Other ELSE Free]
    /\ size \in [Files -> {-1, 1}]
    /\ given = [id \in Ids |-> "none"]
    /\ believed = [id \in Ids |-> Unknown]
    /\ outlived = {}
    /\ misclosed = FALSE
    /\ astray = FALSE
    /\ spilled = FALSE

-----------------------------------------------------------------------------
\* Mutant of nextIdAfter: the id is not wrapped.
nextIdUnwrapped(id) == id + 1

nextIdAfter(id) == (id + 1) % ListSize

\* mangoh_bridge_fileio_open succeeds, at the second open() when the file exists:
\* the entry nextId is overwritten, and nextId moves on once the response is sent.
open(f, m) ==
    /\ FreeFds # {}
    /\ m = "r" => size[f] >= 0
    /\ fdList' = [fdList EXCEPT ![nextId] = NewFd]
    /\ kernel' = [kernel EXCEPT ![NewFd] = File(f, m)]
    /\ size' = [size EXCEPT ![f] = IF @ < 0 THEN 0 ELSE @]
    /\ \/ /\ nextId' = nextIdAfter(nextId)
          /\ given' = [given EXCEPT ![nextId] = f]
          /\ believed' = [believed EXCEPT ![nextId] = IF m = "a" \/ nextId >= Half THEN Unknown ELSE 0]
          /\ spilled' = (spilled \/ fdList[nextId] # INVALID_FD)
       \/ /\ spilled' = TRUE
          /\ UNCHANGED <<nextId, given, believed>>
    /\ outlived' = outlived \ {nextId}
    /\ UNCHANGED <<misclosed, astray>>

\* Both open() calls fail, for whatever reason: the entry is lost, NACK.
openFails ==
    /\ fdList' = [fdList EXCEPT ![nextId] = INVALID_FD]
    /\ spilled' = (spilled \/ fdList[nextId] # INVALID_FD)
    /\ outlived' = outlived \ {nextId}
    /\ UNCHANGED <<nextId, kernel, size, given, believed, misclosed, astray>>

\* Mutant of Written: a short write counts as a success.
WrittenAny(k, n) == TRUE

\* The test of the number of bytes written.
Written(k, n) == k = n

\* A request works on the file fd, which is the id's own or not.
works(id, fd) ==
    /\ OnFile(fd)
    /\ astray' = (astray \/ ~Own(id))
    /\ UNCHANGED <<fdList, nextId, given, outlived, misclosed, spilled>>

\* mangoh_bridge_fileio_write of n bytes, k of which the kernel takes.
write(id, fd, n) ==
    /\ works(id, fd)
    /\ kernel[fd].mode \in {"w", "a"}
    /\ LET d == kernel[fd]
           from == IF d.mode = "a" THEN size[d.file] ELSE d.pos
       IN  \E k \in 0..n :
             /\ from + k <= MaxSize
             /\ kernel' = MoveTo(fd, IF k = 0 THEN d.pos ELSE from + k)
             /\ size' = [size EXCEPT ![d.file] = IF k > 0 /\ from + k > @ THEN from + k ELSE @]
             /\ \/ /\ Written(k, n)
                   /\ believed' = Believe(id, IF believed[id] = Unknown \/ d.mode = "a"
                                              THEN Unknown ELSE believed[id] + n)
                \/ believed' = Believe(id, Unknown)  \* NACK, or nothing was sent

\* mangoh_bridge_fileio_seek: answered with OK.
seek(id, fd, pos) ==
    /\ works(id, fd)
    /\ kernel' = MoveTo(fd, pos)
    /\ believed' = Believe(id, pos)
    /\ UNCHANGED size

\* mangoh_bridge_fileio_position: answered with the position.
position(id, fd) ==
    /\ OnFile(fd)
    /\ believed' = Believe(id, kernel[fd].pos)
    /\ UNCHANGED <<fdList, nextId, kernel, size, given, notes>>

\* mangoh_bridge_fileio_read of n bytes: answered with what was there.
read(id, fd, n) ==
    /\ works(id, fd)
    /\ kernel[fd].mode = "r"
    /\ LET d == kernel[fd]
           k == IF d.pos >= size[d.file] THEN 0 ELSE Least(n, size[d.file] - d.pos)
       IN  /\ kernel' = MoveTo(fd, d.pos + k)
           /\ believed' = Believe(id, IF believed[id] = Unknown THEN Unknown ELSE believed[id] + k)
    /\ UNCHANGED size

\* seek, position or read whose response is not sent: the position may have moved.
lostAnswer(id, fd) ==
    /\ works(id, fd)
    /\ \E p \in 0..MaxSize : kernel' = MoveTo(fd, p)
    /\ believed' = Believe(id, Unknown)
    /\ UNCHANGED size

\* Mutant of close: the entry is kept after the response too.
closeKeepsEntry(id, fd) ==
    /\ kernel' = IF IsOpen(fd) THEN [kernel EXCEPT ![fd] = Free] ELSE kernel
    /\ misclosed' = (misclosed \/ (IsOpen(fd) /\ ~Own(id)))
    /\ given' = [given EXCEPT ![id] = "none"]
    /\ believed' = [believed EXCEPT ![id] = Unknown]
    /\ outlived' = outlived \ {Index(id)}
    /\ UNCHANGED <<fdList, nextId, size, astray, spilled>>

\* mangoh_bridge_fileio_close: closing what is not open is answered with OK too.  The
\* entry is cleared once the response is sent; it stays when that fails, and when
\* close() reports an error (NACK).  What is written to the packet does not last.
close(id, fd) ==
    /\ kernel' = IF IsOpen(fd) THEN [kernel EXCEPT ![fd] = Free] ELSE kernel
    /\ misclosed' = (misclosed \/ (IsOpen(fd) /\ ~Own(id)))
    /\ believed' = [believed EXCEPT ![id] = Unknown]
    /\ \/ /\ fdList' = IF Index(id) \in -PacketLen..-1
                       THEN fdList ELSE [fdList EXCEPT ![Index(id)] = INVALID_FD]
          /\ given' = [given EXCEPT ![id] = "none"]
          /\ outlived' = outlived \ {Index(id)}
       \/ /\ outlived' = IF IsOpen(fd) /\ Own(id) THEN outlived \cup {id} ELSE outlived
          /\ UNCHANGED <<fdList, given>>
    /\ UNCHANGED <<nextId, size, astray, spilled>>

\* mangoh_bridge_fileio_reset closes the entries in use from the first on and stops
\* where close() fails: at one that is not open (any more), or before it, at an
\* error.  ListSize: nowhere.
InUse == {i \in Ids : fdList[i] # INVALID_FD}
Stale == {i \in InUse : kernel[fdList[i]] = Free \/ \E j \in InUse : j < i /\ fdList[j] = fdList[i]}
Stops == {i \in InUse \cup {ListSize} : \A j \in Stale : i <= j}

\* What a RESET that stops there did to the kernel and to the history.
closesUpTo(stop) ==
    /\ kernel' = [d \in Fds |-> IF \E i \in InUse : i <= stop /\ fdList[i] = d
                                THEN Free ELSE kernel[d]]
    /\ given' = [id \in Ids |-> IF id < stop THEN "none" ELSE given[id]]
    /\ believed' = [id \in Ids |-> IF id <= stop THEN Unknown ELSE believed[id]]
    /\ outlived' = {i \in outlived \cup ({stop} \ Stale) : i \in Ids /\ i >= stop}
    /\ misclosed' = (misclosed \/ \E i \in InUse \ Stale : i <= stop /\ i \in outlived)
    /\ UNCHANGED <<size, astray, spilled>>

\* Mutant of reset: the entries are closed and not cleared.
resetKeepsEntries ==
    \E stop \in Stops :
        /\ closesUpTo(stop)
        /\ nextId' = IF stop = ListSize THEN 0 ELSE nextId
        /\ UNCHANGED fdList

\* Mutant of reset: the table is cleared and nothing is closed.
resetForgets ==
    /\ fdList' = [i \in DOMAIN fdList |-> IF i \in Ids THEN INVALID_FD ELSE fdList[i]]
    /\ nextId' = 0
    /\ given' = [id \in Ids |-> "none"]
    /\ believed' = [id \in Ids |-> Unknown]
    /\ outlived' = {}
    /\ UNCHANGED <<kernel, size, misclosed, astray, spilled>>

\* The entry RESET stops at keeps its number, and nextId is reset only when it gets
\* through; otherwise the bridge leaves RESET unanswered.
reset ==
    \E stop \in Stops :
        /\ closesUpTo(stop)
        /\ fdList' = [i \in DOMAIN fdList |-> IF i \in InUse /\ i < stop
                                              THEN INVALID_FD ELSE fdList[i]]
        /\ nextId' = IF stop = ListSize THEN 0 ELSE nextId

\* The rest of the program opens a descriptor or closes one of its own.
otherOpens ==
    /\ FreeFds # {}
    /\ kernel' = [kernel EXCEPT ![NewFd] = Other]
    /\ UNCHANGED <<fdList, nextId, size, given, believed, notes>>

otherCloses ==
    /\ \E d \in Fds \ {0} : kernel[d] = Other /\ kernel' = [kernel EXCEPT ![d] = Free]
    /\ UNCHANGED <<fdList, nextId, size, given, believed, notes>>

\* The ids the microcontroller uses: those it was given, and small ones, also after
\* it closed them (a request retried).
UsedIds == {id \in Ids : id < Half \/ given[id] # "none"}

Command ==
    \/ \E f \in Files, m \in Modes : open(f, m)
    \/ openFails
    \/ \E id \in UsedIds : \E fd \in Named(id) :
          \/ \E n \in 1..2 : write(id, fd, n) \/ read(id, fd, n)
          \/ \E p \in 0..MaxSize : seek(id, fd, p)
          \/ position(id, fd)
          \/ lostAnswer(id, fd)
          \/ close(id, fd)
    \/ reset

Next ==
    /\ FollowOn \/ (~misclosed /\ ~astray)
    /\ Command \/ otherOpens \/ otherCloses

Spec == Init /\ [][Next]_vars

-----------------------------------------------------------------------------
\* The types of the table and of the kernel's descriptors.
TypeOK ==
    /\ fdList \in [-Half..ListSize - 1 -> Fds \cup {INVALID_FD}]
    /\ nextId \in Ids
    /\ kernel \in [Fds -> [owner : {"free", "other", "file"}, file : Files \cup {"none"},
                           mode : Modes \cup {"none"}, pos : 0..MaxSize]]
    /\ size \in [Files -> -1..MaxSize]
    /\ given \in [Ids -> Files \cup {"none"}]
    /\ believed \in [Ids -> -1..MaxSize]
    /\ outlived \subseteq Ids
    /\ misclosed \in BOOLEAN /\ astray \in BOOLEAN /\ spilled \in BOOLEAN

\* Every entry is the descriptor of an open file and no two are the same one, though
\* descriptors are recycled at once, except the entries that a CLOSE whose close() or
\* response failed, or a RESET that stopped, left behind - as long as no descriptor
\* is closed through one of those or through an id that does not fit int8_t.
NoStale ==
    ~misclosed =>
        /\ \A i \in InUse \ outlived : kernel[fdList[i]].owner = "file"
        /\ \A i, j \in InUse \ outlived : fdList[i] = fdList[j] => i = j

\* Every file that is open has an entry of its own, where CLOSE and RESET find it,
\* also after a RESET that stopped and whatever was closed by mistake, unless an
\* entry was overwritten as well (open, openFails).
NoLeak ==
    ~spilled =>
        \A d \in Fds : kernel[d].owner = "file" => \E i \in InUse \ outlived : fdList[i] = d

\* A microcontroller that adds up the responses it gets knows which file an id
\* works on and the position in it, also after short writes, lost responses and a
\* RESET that stopped, unless a request reached a file through an id that does not
\* fit int8_t or whose CLOSE failed.
KnowsPosition ==
    ~misclosed /\ ~astray /\ ~spilled =>
        \A id \in (0..Half - 1) \ outlived : given[id] # "none" =>
            /\ OnFile(fdList[id])
            /\ kernel[fdList[id]].file = given[id]
            /\ believed[id] \in {Unknown, kernel[fdList[id]].pos}

\* The file commands and RESET never close a descriptor of the rest of the program,
\* such as the serial port opened again under a recycled number, but through an
\* entry left behind or an id that does not fit int8_t.
OthersKept ==
    [][~misclosed' /\ Command
         => \A d \in Fds : kernel[d] = Other => kernel'[d] = Other]_vars

\* RESET meets a number that is not open only at an entry left behind: where it stops,
\* one was, or is from now on, since close() reported an error on it.  When it gets
\* through, the table is empty, the ids start again at 0 and no file is open (unless
\* one was already lost).
ResetFrees ==
    [][reset /\ ~misclosed'
         => /\ \A i \in InUse' : \E j \in outlived' : j <= i
            /\ InUse' = {} =>
                  /\ nextId' = 0
                  /\ ~spilled => \A d \in Fds : kernel'[d].owner # "file"]_vars
=============================================================================
