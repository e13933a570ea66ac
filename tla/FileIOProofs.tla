---------------------------- MODULE FileIOProofs ----------------------------
(***************************************************************************)
(* Theorems about FileIO, for every size of the table, number of descriptors*)
(* and set of files: the files that are open have entries of their own, the *)
(* microcontroller knows what an id stands for, and nothing but its own     *)
(* files is ever closed, until a request works on a descriptor that is not  *)
(* its id's own: through an entry that a close() or a response that failed  *)
(* left behind, or through an id that does not fit int8_t.                  *)
(***************************************************************************)
EXTENDS FileIO, FiniteSums, TLAPS

LEMMA Constants ==
    /\ ListSize \in Nat /\ ListSize > 0 /\ Half \in Nat /\ Half > 0 /\ ListSize = 2 * Half
    /\ MaxFd \in Nat /\ MaxSize \in Nat /\ MaxSize > 0
    /\ Unknown \in -1..MaxSize /\ 0 \in -1..MaxSize /\ 1 \in -1..MaxSize
    /\ 0 \in Fds /\ 0 \in Ids /\ INVALID_FD \notin Fds /\ Unknown \notin 0..MaxSize
    /\ \A id \in Ids : id \in -Half..ListSize - 1 /\ Index(id) \in -Half..ListSize - 1
    /\ \A id \in Ids : id < Half => Index(id) = id
    /\ \A id \in Ids : ~(id < Half) => Index(id) < 0
    /\ \A i \in -Half..ListSize - 1 : i < 0 \/ i \in Ids
    /\ \A i \in -Half..-1 : i \in -Half..ListSize - 1 /\ i < 0
    /\ \A id \in 0..Half - 1 : id \in Ids /\ id < Half
    /\ \A id \in Ids : id >= 0
<1>1. ListSize \in Nat /\ ListSize > 0 /\ ListSize % 2 = 0 /\ MaxFd \in Nat /\ MaxSize \in Nat
      /\ MaxSize > 0
  BY ListAssumption, FdAssumption
<1>2. Half \in Nat /\ ListSize = 2 * Half
  BY <1>1 DEF Half
<1> QED
  BY <1>1, <1>2 DEF Fds, Ids, INVALID_FD, Unknown, Index

\* What open() returns is a descriptor that was free.
LEMMA NewIsFree ==
    ASSUME FreeFds # {}
    PROVE  NewFd \in Fds /\ kernel[NewFd] = Free
<1>1. FreeFds \subseteq Nat
  BY Constants DEF FreeFds, Fds
<1>2. \E d \in FreeFds : \A e \in FreeFds : d <= e
  BY <1>1, LeastOf
<1>3. NewFd \in FreeFds
  BY <1>2 DEF NewFd
<1> QED
  BY <1>3 DEF FreeFds

\* The id after the last one is the first.
LEMMA NextIdType ==
    ASSUME nextId \in Ids
    PROVE  nextIdAfter(nextId) \in Ids
BY Constants DEF nextIdAfter, Ids

-----------------------------------------------------------------------------
\* A file that is open has a name, a mode and a size.
Shape ==
    \A d \in Fds : kernel[d].owner = "file" =>
        /\ kernel[d].file \in Files
        /\ kernel[d].mode \in Modes
        /\ size[kernel[d].file] >= 0

Descriptors == [owner : {"free", "other", "file"}, file : Files \cup {"none"},
                mode : Modes \cup {"none"}, pos : 0..MaxSize]

LEMMA DescriptorTypes ==
    /\ Free \in Descriptors /\ Free.owner = "free" /\ Free.pos = 0
    /\ Other \in Descriptors /\ Other.owner = "other"
    /\ Free # Other
    /\ \A f \in Files, m \in Modes :
          /\ File(f, m) \in Descriptors
          /\ File(f, m).owner = "file" /\ File(f, m).file = f
          /\ File(f, m).mode = m /\ File(f, m).pos = 0
BY Constants DEF Descriptors, Free, Other, File, Modes

\* Moving a position changes nothing else.
LEMMA MoveToType ==
    ASSUME TypeOK, NEW fd, OnFile(fd), NEW p \in 0..MaxSize, kernel' = MoveTo(fd, p)
    PROVE  /\ fd \in Fds
           /\ kernel' \in [Fds -> Descriptors]
           /\ \A d \in Fds : /\ kernel'[d].owner = kernel[d].owner
                             /\ kernel'[d].file = kernel[d].file
                             /\ kernel'[d].mode = kernel[d].mode
           /\ \A d \in Fds : d # fd => kernel'[d] = kernel[d]
           /\ kernel'[fd].pos = p
<1>1. fd \in Fds /\ kernel \in [Fds -> Descriptors]
  BY DEF OnFile, IsOpen, TypeOK, Descriptors
<1>2. kernel' = [kernel EXCEPT ![fd] = [kernel[fd] EXCEPT !.pos = p]]
  BY DEF MoveTo
<1>3. kernel'[fd] = [kernel[fd] EXCEPT !.pos = p]
  BY <1>1, <1>2
<1>4. kernel[fd] \in Descriptors
  BY <1>1
<1>5. [kernel[fd] EXCEPT !.pos = p] \in Descriptors
  BY <1>4 DEF Descriptors
<1> QED
  BY <1>1, <1>2, <1>3, <1>4, <1>5 DEF Descriptors

LEMMA BelieveType ==
    ASSUME TypeOK, NEW id \in Ids, NEW p \in Int, p >= -1, believed' = Believe(id, p)
    PROVE  believed' \in [Ids -> -1..MaxSize]
BY Constants DEF TypeOK, Believe, Unknown

\* What a request names is a descriptor number or INVALID_FD, and it is the entry's
\* where the id has one.
LEMMA NamedType ==
    ASSUME TypeOK, NEW id \in Ids, NEW fd \in Named(id)
    PROVE  /\ fd \in Fds \cup {INVALID_FD}
           /\ Own(id) => id \in Ids \ outlived /\ Index(id) = id /\ fd = fdList[id]
           /\ id < Half => Index(id) = id /\ fd = fdList[id]
<1>1. fdList[Index(id)] \in Fds \cup {INVALID_FD}
  BY Constants DEF TypeOK
<1>2. fd \in Fds \cup {INVALID_FD}
  BY <1>1 DEF Named
<1>3. Index(id) >= 0 => Index(id) = id /\ fd = fdList[id]
  <2>1. Index(id) >= 0 => Index(id) \notin -PacketLen..-1
    BY PacketAssumption
  <2>2. Index(id) >= 0 => Index(id) = id
    BY Constants
  <2> QED
    BY <2>1, <2>2 DEF Named
<1>4. Own(id) => Index(id) >= 0 /\ Index(id) \in Ids \ outlived
  BY Constants DEF Own
<1> QED
  BY <1>2, <1>3, <1>4, Constants

-----------------------------------------------------------------------------
\* An entry left behind still has its number.
LeftBehind == outlived \subseteq InUse

\* The inductive invariant.
FileInv == TypeOK /\ Shape /\ LeftBehind /\ NoStale /\ NoLeak /\ KnowsPosition

LEMMA InitInv == Init => FileInv
<1> SUFFICES ASSUME Init
             PROVE  FileInv
  OBVIOUS
<1>1. fdList \in [-Half..ListSize - 1 -> Fds \cup {INVALID_FD}]
  BY Constants DEF Init
<1>2. InUse = {}
  BY Constants DEF Init, InUse
<1>3. kernel \in [Fds -> Descriptors] /\ \A d \in Fds : kernel[d].owner # "file"
  BY DescriptorTypes DEF Init
<1>4. TypeOK
  <2>1. -1 \in -1..MaxSize /\ 1 \in -1..MaxSize
    BY Constants
  <2>2. size \in [Files -> -1..MaxSize]
    BY <2>1 DEF Init
  <2>3. /\ nextId \in Ids /\ given \in [Ids -> Files \cup {"none"}]
        /\ believed \in [Ids -> -1..MaxSize]
        /\ outlived \subseteq Ids
        /\ misclosed \in BOOLEAN /\ astray \in BOOLEAN /\ spilled \in BOOLEAN
    BY <2>1, Constants DEF Init, Unknown
  <2> QED
    BY <1>1, <1>3, <2>2, <2>3 DEF TypeOK, Descriptors
<1>5. Shape /\ LeftBehind /\ NoStale /\ NoLeak /\ KnowsPosition
  BY <1>2, <1>3, Constants DEF Init, Shape, LeftBehind, NoStale, NoLeak, KnowsPosition
<1> QED
  BY <1>4, <1>5 DEF FileInv

\* The ids KnowsPosition speaks of, and what it says of one.
Known(id) ==
    /\ ~misclosed /\ ~astray /\ ~spilled
    /\ id \in (0..Half - 1) \ outlived /\ given[id] # "none"

Right(id) ==
    /\ OnFile(fdList[id])
    /\ kernel[fdList[id]].file = given[id]
    /\ believed[id] \in {Unknown, kernel[fdList[id]].pos}

LEMMA KnownRight == KnowsPosition <=> \A id : Known(id) => Right(id)
BY DEF KnowsPosition, Known, Right

LEMMA KnownRightNext == KnowsPosition' <=> \A id : Known(id)' => Right(id)'
BY DEF KnowsPosition, Known, Right

\* An id it speaks of has an entry of its own.
LEMMA KnownEntry ==
    ASSUME FileInv, NEW id, Known(id)
    PROVE  /\ id \in Ids /\ id < Half /\ Right(id) /\ ~misclosed
           /\ id \in InUse \ outlived /\ fdList[id] \in Fds
           /\ kernel[fdList[id]].owner = "file"
<1>1. id \in Ids /\ id < Half /\ ~misclosed /\ id \notin outlived
  BY Constants DEF Known
<1>2. Right(id)
  BY KnownRight DEF FileInv
<1>3. fdList[id] \in Fds /\ kernel[fdList[id]].owner = "file"
  BY <1>2 DEF Right, OnFile, IsOpen
<1>4. id \in InUse
  BY <1>1, <1>3, Constants DEF InUse
<1> QED
  BY <1>1, <1>2, <1>3, <1>4

\* A request that works on an open file: it moves the position, may let the file
\* grow, and the microcontroller works out the position or gives up on it.
LEMMA WorkInv ==
    ASSUME FileInv, NEW id \in Ids, NEW fd \in Named(id), OnFile(fd),
           NEW p \in 0..MaxSize, kernel' = MoveTo(fd, p),
           NEW b \in Int, b >= -1, believed' = Believe(id, b),
           Known(id) => b \in {Unknown, p},
           size' \in [Files -> -1..MaxSize], \A f \in Files : size[f] >= 0 => size'[f] >= 0,
           astray' \in BOOLEAN, astray => astray',
           Own(id) \/ astray' \/ kernel' = kernel,
           UNCHANGED <<fdList, nextId, given, outlived, misclosed, spilled>>
    PROVE  FileInv'
<1>1. /\ fd \in Fds
      /\ kernel' \in [Fds -> Descriptors]
      /\ \A d \in Fds : /\ kernel'[d].owner = kernel[d].owner
                        /\ kernel'[d].file = kernel[d].file
                        /\ kernel'[d].mode = kernel[d].mode
      /\ \A d \in Fds : d # fd => kernel'[d] = kernel[d]
      /\ kernel'[fd].pos = p
  BY MoveToType DEF FileInv
<1>2. believed' \in [Ids -> -1..MaxSize]
  BY BelieveType DEF FileInv
<1>3. TypeOK'
  BY <1>1, <1>2 DEF FileInv, TypeOK, Descriptors
<1>4. Shape'
  BY <1>1 DEF FileInv, Shape
<1>5. InUse' = InUse /\ \A i \in InUse : fdList[i] \in Fds
  BY Constants DEF InUse, FileInv, TypeOK
<1>6. NoStale'
  BY <1>1, <1>5 DEF FileInv, NoStale
<1>7. NoLeak'
  BY <1>1, <1>5 DEF FileInv, NoLeak
<1>8. KnowsPosition'
  <2> SUFFICES ASSUME NEW j, Known(j)'
               PROVE  Right(j)'
    BY KnownRightNext
  <2>1. Known(j) /\ ~astray'
    BY DEF Known
  <2>2. /\ j \in Ids /\ j < Half /\ Right(j) /\ ~misclosed
        /\ j \in InUse \ outlived /\ fdList[j] \in Fds
        /\ kernel[fdList[j]].owner = "file"
    BY <2>1, KnownEntry
  <2>3. OnFile(fdList[j])' /\ kernel'[fdList'[j]].file = given'[j]
    <3>1. kernel'[fdList[j]].owner = "file" /\ kernel'[fdList[j]].file = given[j]
      BY <1>1, <2>2 DEF Right
    <3> QED
      BY <2>2, <3>1, DescriptorTypes DEF OnFile, IsOpen
  <2>4. believed'[j] \in {Unknown, kernel'[fdList[j]].pos}
    <3>1. CASE j = id
      <4>1. b \in {Unknown, p} /\ fd = fdList[j]
        BY <2>1, <2>2, <3>1, NamedType DEF FileInv
      <4>2. believed'[j] \in {b, Unknown}
        BY <2>2, <3>1 DEF Believe, FileInv, TypeOK
      <4> QED
        BY <1>1, <4>1, <4>2
    <3>2. CASE j # id
      <4>1. believed'[j] = believed[j]
        BY <2>2, <3>2 DEF Believe, FileInv, TypeOK
      <4>2. CASE Own(id)
        <5>1. id \in InUse \ outlived /\ fd = fdList[id]
          BY <1>1, <4>2, NamedType, Constants DEF FileInv, InUse
        <5>2. fdList[j] # fd
          BY <2>2, <3>2, <5>1 DEF FileInv, NoStale
        <5> QED
          BY <1>1, <2>2, <4>1, <5>2 DEF Right
      <4>3. CASE kernel' = kernel
        BY <2>2, <4>1, <4>3 DEF Right
      <4> QED
        BY <2>1, <4>2, <4>3
    <3> QED
      BY <3>1, <3>2
  <2> QED
    BY <2>3, <2>4 DEF Right
<1> QED
  BY <1>3, <1>4, <1>5, <1>6, <1>7, <1>8 DEF FileInv, LeftBehind

\* What is known of an id that works on an open file.
LEMMA OpenFile ==
    ASSUME FileInv, NEW id \in Ids, NEW fd \in Named(id), OnFile(fd)
    PROVE  /\ fd \in Fds /\ kernel \in [Fds -> Descriptors] /\ kernel[fd] \in Descriptors
           /\ kernel[fd].pos \in 0..MaxSize /\ kernel[fd].file \in Files
           /\ believed[id] \in -1..MaxSize
           /\ size \in [Files -> -1..MaxSize] /\ size[kernel[fd].file] \in 0..MaxSize
           /\ Known(id) => believed[id] \in {Unknown, kernel[fd].pos}
<1>1. /\ fd \in Fds /\ kernel \in [Fds -> Descriptors] /\ kernel[fd] \in Descriptors
      /\ kernel[fd].pos \in 0..MaxSize /\ kernel[fd].file \in Files
      /\ believed[id] \in -1..MaxSize
      /\ size \in [Files -> -1..MaxSize] /\ size[kernel[fd].file] >= 0
  BY DEF FileInv, TypeOK, Descriptors, Shape, OnFile, IsOpen
<1>2. size[kernel[fd].file] \in 0..MaxSize
  BY <1>1, Constants
<1>3. Known(id) => believed[id] \in {Unknown, kernel[fd].pos}
  <2>1. Known(id) => Right(id) /\ fd = fdList[id]
    BY KnownEntry, NamedType DEF FileInv
  <2> QED
    BY <2>1 DEF Right
<1> QED
  BY <1>1, <1>2, <1>3

LEMMA ReadingInv ==
    ASSUME FileInv, NEW id \in Ids, NEW fd \in Named(id),
           \/ position(id, fd) \/ lostAnswer(id, fd)
           \/ \E p \in 0..MaxSize : seek(id, fd, p)
           \/ \E n \in 1..2 : read(id, fd, n)
    PROVE  FileInv'
<1>1. /\ OnFile(fd) /\ UNCHANGED <<fdList, nextId, size, given, outlived, misclosed, spilled>>
      /\ astray' \in BOOLEAN /\ (astray => astray')
      /\ Own(id) \/ astray' \/ kernel' = kernel
  BY DEF position, lostAnswer, seek, read, works, notes, FileInv, TypeOK
<1>2. /\ size' \in [Files -> -1..MaxSize]
      /\ \A f \in Files : size[f] >= 0 => size'[f] >= 0
      /\ -1 \in Int /\ Unknown = -1
  BY <1>1 DEF FileInv, TypeOK, Unknown
<1>3. /\ fd \in Fds /\ kernel \in [Fds -> Descriptors] /\ kernel[fd] \in Descriptors
      /\ kernel[fd].pos \in 0..MaxSize /\ kernel[fd].file \in Files
      /\ believed[id] \in -1..MaxSize /\ size[kernel[fd].file] \in 0..MaxSize
      /\ Known(id) => believed[id] \in {Unknown, kernel[fd].pos}
  BY <1>1, OpenFile
<1>4. CASE position(id, fd)
  <2>1. kernel' = MoveTo(fd, kernel[fd].pos)
    <3>1. kernel' = kernel
      BY <1>4 DEF position
    <3>2. [kernel[fd] EXCEPT !.pos = kernel[fd].pos] = kernel[fd]
      BY <1>3 DEF Descriptors
    <3> QED
      BY <1>3, <3>1, <3>2 DEF MoveTo
  <2>2. believed' = Believe(id, kernel[fd].pos) /\ kernel[fd].pos \in Int /\ kernel[fd].pos >= -1
    BY <1>3, <1>4 DEF position
  <2> QED
    BY <1>1, <1>2, <1>3, <2>1, <2>2, WorkInv
<1>5. CASE lostAnswer(id, fd)
  <2>1. PICK p \in 0..MaxSize : kernel' = MoveTo(fd, p)
    BY <1>5 DEF lostAnswer
  <2>2. believed' = Believe(id, -1)
    BY <1>2, <1>5 DEF lostAnswer
  <2> QED
    BY <1>1, <1>2, <2>1, <2>2, WorkInv
<1>6. CASE \E p \in 0..MaxSize : seek(id, fd, p)
  <2>1. PICK p \in 0..MaxSize : kernel' = MoveTo(fd, p) /\ believed' = Believe(id, p)
    BY <1>6 DEF seek
  <2>2. p \in Int /\ p >= -1
    OBVIOUS
  <2> QED
    BY <1>1, <1>2, <2>1, <2>2, WorkInv
<1>7. CASE \E n \in 1..2 : read(id, fd, n)
  <2>1. PICK n \in 1..2 : read(id, fd, n)
    BY <1>7
  <2> DEFINE d == kernel[fd]
             k == IF d.pos >= size[d.file] THEN 0 ELSE Least(n, size[d.file] - d.pos)
             b == IF believed[id] = Unknown THEN Unknown ELSE believed[id] + k
  <2>2. kernel' = MoveTo(fd, d.pos + k) /\ believed' = Believe(id, b)
    BY <2>1 DEF read
  <2>3. k \in Nat /\ d.pos + k \in 0..MaxSize
    BY <1>3, Constants DEF Least
  <2>4. b \in Int /\ b >= -1
    BY <1>2, <1>3, <2>3
  <2>5. Known(id) => b \in {Unknown, d.pos + k}
    BY <1>3
  <2> HIDE DEF d, k, b
  <2> QED
    BY <1>1, <1>2, <2>2, <2>3, <2>4, <2>5, WorkInv
<1> QED
  BY <1>4, <1>5, <1>6, <1>7

LEMMA WriteInv ==
    ASSUME FileInv, NEW id \in Ids, NEW fd \in Named(id), NEW n \in 1..2, write(id, fd, n)
    PROVE  FileInv'
<1> DEFINE d == kernel[fd]
           from == IF d.mode = "a" THEN size[d.file] ELSE d.pos
<1>1. /\ OnFile(fd) /\ d.mode \in {"w", "a"}
      /\ UNCHANGED <<fdList, nextId, given, outlived, misclosed, spilled>>
      /\ astray' \in BOOLEAN /\ (astray => astray') /\ (Own(id) \/ astray')
  BY DEF write, works, FileInv, TypeOK
<1>2. /\ d.pos \in 0..MaxSize /\ d.file \in Files
      /\ believed[id] \in -1..MaxSize /\ size[d.file] \in 0..MaxSize
      /\ size \in [Files -> -1..MaxSize]
      /\ Unknown = -1
      /\ Known(id) => believed[id] \in {Unknown, d.pos}
  BY <1>1, OpenFile DEF Unknown
<1>3. from \in Nat
  BY <1>2
<1>4. PICK k \in 0..n :
        /\ from + k <= MaxSize
        /\ kernel' = MoveTo(fd, IF k = 0 THEN d.pos ELSE from + k)
        /\ size' = [size EXCEPT ![d.file] = IF k > 0 /\ from + k > @ THEN from + k ELSE @]
        /\ \/ /\ Written(k, n)
              /\ believed' = Believe(id, IF believed[id] = Unknown \/ d.mode = "a"
                                         THEN Unknown ELSE believed[id] + n)
           \/ believed' = Believe(id, Unknown)
  BY DEF write
<1> DEFINE p == IF k = 0 THEN d.pos ELSE from + k
<1>5. p \in 0..MaxSize
  BY <1>2, <1>3, <1>4
<1>6. size' \in [Files -> -1..MaxSize] /\ \A f \in Files : size[f] >= 0 => size'[f] >= 0
  <2> HIDE DEF from, d
  <2> QED
    BY <1>2, <1>3, <1>4, Constants
<1>7. \E b \in Int : b >= -1 /\ believed' = Believe(id, b) /\ (Known(id) => b \in {Unknown, p})
  <2>1. CASE believed' = Believe(id, Unknown)
    BY <1>2, <2>1
  <2>2. CASE /\ Written(k, n)
             /\ believed' = Believe(id, IF believed[id] = Unknown \/ d.mode = "a"
                                         THEN Unknown ELSE believed[id] + n)
    <3>1. CASE believed[id] = Unknown \/ d.mode = "a"
      BY <1>2, <2>2, <3>1
    <3>2. CASE ~(believed[id] = Unknown \/ d.mode = "a")
      <4>1. believed' = Believe(id, believed[id] + n) /\ believed[id] + n \in Int
            /\ believed[id] + n >= -1
        BY <1>2, <2>2, <3>2
      <4>2. k = n /\ from = d.pos /\ p = d.pos + n
        BY <2>2, <3>2 DEF Written
      <4>3. Known(id) => believed[id] + n = p
        BY <1>2, <3>2, <4>2
      <4> QED
        BY <4>1, <4>3
    <3> QED
      BY <3>1, <3>2
  <2> QED
    BY <1>4, <2>1, <2>2
<1> HIDE DEF p, d, from
<1> QED
  BY <1>1, <1>4, <1>5, <1>6, <1>7, WorkInv DEF p

-----------------------------------------------------------------------------
\* OPEN, whose response may not be sent: the entry nextId has a new descriptor, and
\* what it had is lost.
LEMMA OpenInv ==
    ASSUME FileInv, NEW f \in Files, NEW m \in Modes, open(f, m)
    PROVE  FileInv'
<1>1. NewFd \in Fds /\ kernel[NewFd] = Free
  BY NewIsFree DEF open
<1>2. /\ fdList \in [-Half..ListSize - 1 -> Fds \cup {INVALID_FD}]
      /\ kernel \in [Fds -> Descriptors] /\ size \in [Files -> -1..MaxSize]
      /\ nextId \in Ids /\ nextId \in -Half..ListSize - 1
  BY Constants DEF FileInv, TypeOK, Descriptors
<1>3. /\ fdList' = [fdList EXCEPT ![nextId] = NewFd]
      /\ kernel' = [kernel EXCEPT ![NewFd] = File(f, m)]
      /\ outlived' = outlived \ {nextId}
      /\ UNCHANGED <<misclosed, astray>>
  BY DEF open
<1>4. /\ kernel' \in [Fds -> Descriptors]
      /\ kernel'[NewFd] = File(f, m) /\ kernel'[NewFd].owner = "file"
      /\ \A d \in Fds : d # NewFd => kernel'[d] = kernel[d]
  BY <1>1, <1>2, <1>3, DescriptorTypes
<1>5. size' \in [Files -> -1..MaxSize] /\ size'[f] >= 0
      /\ \A g \in Files : size[g] >= 0 => size'[g] >= 0
  BY <1>2, Constants DEF open
<1>6. TypeOK'
  <2>1. nextId' \in Ids
    BY <1>2, NextIdType DEF open
  <2>2. given' \in [Ids -> Files \cup {"none"}] /\ believed' \in [Ids -> -1..MaxSize]
    <3>1. 0 \in -1..MaxSize /\ Unknown \in -1..MaxSize
      BY Constants DEF Unknown
    <3>2. /\ given' \in {given, [given EXCEPT ![nextId] = f]}
          /\ \E b \in -1..MaxSize : believed' \in {believed, [believed EXCEPT ![nextId] = b]}
      BY <3>1 DEF open
    <3>3. given \in [Ids -> Files \cup {"none"}] /\ believed \in [Ids -> -1..MaxSize]
      BY DEF FileInv, TypeOK
    <3> QED
      BY <1>2, <3>2, <3>3
  <2>3. spilled' \in BOOLEAN
    BY DEF open, FileInv, TypeOK
  <2> QED
    BY <1>1, <1>2, <1>3, <1>4, <1>5, <2>1, <2>2, <2>3 DEF FileInv, TypeOK, Descriptors
<1>7. Shape'
  BY <1>4, <1>5, DescriptorTypes DEF FileInv, Shape
<1>8. /\ InUse' = InUse \cup {nextId}
      /\ InUse' \ outlived' = (InUse \ outlived) \cup {nextId}
      /\ fdList'[nextId] = NewFd
      /\ \A i \in InUse \ {nextId} : fdList'[i] = fdList[i] /\ fdList[i] \in Fds
  BY <1>1, <1>2, <1>3, Constants DEF InUse
<1>9. ~misclosed => \A i \in InUse \ outlived : fdList[i] # NewFd
  BY <1>1, DescriptorTypes DEF FileInv, NoStale
<1>10. NoStale'
  BY <1>3, <1>4, <1>8, <1>9 DEF FileInv, NoStale
<1>11. spilled' \/ (~spilled /\ nextId \notin InUse)
  BY <1>2 DEF open, InUse
<1>12. NoLeak'
  BY <1>3, <1>4, <1>8, <1>11 DEF FileInv, NoLeak
<1>13. KnowsPosition'
  <2> SUFFICES ASSUME NEW j, Known(j)'
               PROVE  Right(j)'
    BY KnownRightNext
  <2>1. /\ j \in Ids /\ ~spilled /\ nextId \notin InUse
        /\ given' = [given EXCEPT ![nextId] = f]
        /\ believed' = [believed EXCEPT ![nextId] =
                            IF m = "a" \/ nextId >= Half THEN Unknown ELSE 0]
    BY <1>11, Constants DEF Known, open
  <2>2. CASE j = nextId
    <3>1. fdList'[j] = NewFd /\ given'[j] = f /\ believed'[j] \in {Unknown, 0}
      BY <1>8, <2>1, <2>2 DEF FileInv, TypeOK
    <3>2. /\ kernel'[NewFd].owner = "file" /\ kernel'[NewFd] # Free
          /\ kernel'[NewFd].file = f /\ kernel'[NewFd].pos = 0
      BY <1>4, DescriptorTypes
    <3> QED
      BY <1>1, <3>1, <3>2 DEF Right, OnFile, IsOpen
  <2>3. CASE j # nextId
    <3>1. given'[j] = given[j] /\ believed'[j] = believed[j]
      BY <2>1, <2>3 DEF FileInv, TypeOK
    <3>2. Known(j)
      BY <1>3, <2>1, <2>3, <3>1 DEF Known
    <3>3. j \in InUse \ outlived /\ Right(j) /\ ~misclosed /\ fdList[j] \in Fds
      BY <3>2, KnownEntry
    <3>4. fdList'[j] = fdList[j] /\ fdList[j] # NewFd
      BY <1>8, <1>9, <2>3, <3>3
    <3>5. kernel'[fdList[j]] = kernel[fdList[j]]
      BY <1>4, <3>3, <3>4
    <3> QED
      BY <3>1, <3>3, <3>4, <3>5 DEF Right, OnFile, IsOpen
  <2> QED
    BY <2>2, <2>3
<1> QED
  BY <1>3, <1>6, <1>7, <1>8, <1>10, <1>12, <1>13 DEF FileInv, LeftBehind

LEMMA OpenFailsInv ==
    ASSUME FileInv, openFails
    PROVE  FileInv'
<1>1. /\ fdList \in [-Half..ListSize - 1 -> Fds \cup {INVALID_FD}]
      /\ nextId \in Ids /\ nextId \in -Half..ListSize - 1
  BY Constants DEF FileInv, TypeOK
<1>2. /\ fdList' = [fdList EXCEPT ![nextId] = INVALID_FD]
      /\ outlived' = outlived \ {nextId}
      /\ UNCHANGED <<nextId, kernel, size, given, believed, misclosed, astray>>
  BY DEF openFails
<1>3. TypeOK'
  BY <1>1, <1>2 DEF openFails, FileInv, TypeOK
<1>4. Shape'
  BY <1>1, <1>2 DEF FileInv, Shape
<1>5. /\ InUse' = InUse \ {nextId} /\ InUse' \ outlived' \subseteq InUse \ outlived
      /\ \A i \in InUse' : fdList'[i] = fdList[i]
  BY <1>1, <1>2, Constants DEF InUse
<1>6. NoStale'
  BY <1>2, <1>5 DEF FileInv, NoStale
<1>7. spilled' \/ (~spilled /\ nextId \notin InUse)
  BY <1>1 DEF openFails, InUse
<1>8. NoLeak'
  BY <1>2, <1>5, <1>7 DEF FileInv, NoLeak
<1>9. KnowsPosition'
  <2> SUFFICES ASSUME NEW j, Known(j)'
               PROVE  Right(j)'
    BY KnownRightNext
  <2>1. ~spilled /\ nextId \notin InUse /\ fdList' = fdList /\ j \notin outlived'
    BY <1>1, <1>2, <1>7 DEF InUse, Known
  <2>2. CASE j # nextId
    <3>1. Known(j)
      BY <1>2, <2>1, <2>2 DEF Known
    <3> QED
      BY <1>2, <2>1, <3>1, KnownEntry DEF Right, OnFile, IsOpen
  <2>3. CASE j = nextId
    <3>1. j \notin outlived
      BY <2>1, <2>3 DEF FileInv, LeftBehind
    <3>2. Known(j)
      BY <1>2, <2>1, <3>1 DEF Known
    <3> QED
      BY <2>1, <2>3, <3>2, KnownEntry
  <2> QED
    BY <2>2, <2>3
<1> QED
  BY <1>2, <1>3, <1>4, <1>5, <1>6, <1>8, <1>9 DEF FileInv, LeftBehind

\* CLOSE frees the descriptor it names and at most clears the entry of that number;
\* where it did not, the entry is left behind.
LEMMA CloseEffect ==
    ASSUME FileInv, NEW id \in Ids, NEW fd \in Named(id), close(id, fd)
    PROVE  /\ kernel' \in [Fds -> Descriptors]
           /\ \A d \in Fds : kernel'[d] = IF IsOpen(fd) /\ d = fd THEN Free ELSE kernel[d]
           /\ fdList' \in [-Half..ListSize - 1 -> Fds \cup {INVALID_FD}]
           /\ InUse' \subseteq InUse /\ \A i \in InUse' : fdList'[i] = fdList[i]
           /\ \A i \in InUse \ InUse' : i = Index(id) /\ fdList[i] = fd
           /\ InUse' \ outlived' \subseteq InUse \ outlived
           /\ outlived' \subseteq InUse'
           /\ \A i \in outlived' \ outlived : fdList[i] = fd /\ IsOpen(fd) /\ Own(id)
           /\ Own(id) /\ IsOpen(fd) => id \in InUse \ outlived /\ id \notin InUse' \ outlived'
<1>1. /\ fdList \in [-Half..ListSize - 1 -> Fds \cup {INVALID_FD}]
      /\ kernel \in [Fds -> Descriptors] /\ Index(id) \in -Half..ListSize - 1
      /\ outlived \subseteq InUse
  BY Constants DEF FileInv, TypeOK, Descriptors, LeftBehind
<1>2. /\ kernel' \in [Fds -> Descriptors]
      /\ \A d \in Fds : kernel'[d] = IF IsOpen(fd) /\ d = fd THEN Free ELSE kernel[d]
  <2>1. CASE IsOpen(fd)
    BY <1>1, <2>1, DescriptorTypes DEF close, IsOpen
  <2>2. CASE ~IsOpen(fd)
    BY <1>1, <2>2 DEF close
  <2> QED
    BY <2>1, <2>2
<1>3. Own(id) => id \in Ids \ outlived /\ Index(id) = id /\ fd = fdList[id]
  BY NamedType DEF FileInv
<1>4. Own(id) /\ IsOpen(fd) => id \in InUse \ outlived
  BY <1>3, Constants DEF InUse, IsOpen
<1>5. CASE Index(id) \notin -PacketLen..-1 /\ fdList' = [fdList EXCEPT ![Index(id)] = INVALID_FD]
           /\ outlived' = outlived \ {Index(id)}
  <2>1. fd = fdList[Index(id)]
    BY <1>5 DEF Named
  <2>2. fdList' \in [-Half..ListSize - 1 -> Fds \cup {INVALID_FD}]
    BY <1>1, <1>5
  <2>3. InUse' = InUse \ {Index(id)}
    BY <1>1, <1>5, Constants DEF InUse
  <2>4. \A i \in InUse' : fdList'[i] = fdList[i]
    BY <1>1, <1>5, <2>3, Constants DEF InUse
  <2> QED
    BY <1>1, <1>2, <1>3, <1>4, <1>5, <2>1, <2>2, <2>3, <2>4
<1>6. CASE fdList' = fdList /\ outlived' = outlived \ {Index(id)} /\ Index(id) \in -PacketLen..-1
  <2>1. Index(id) \notin Ids
    BY <1>6, Constants, PacketAssumption DEF Ids
  <2>2. outlived' = outlived /\ InUse' = InUse /\ ~Own(id)
    BY <1>1, <1>6, <2>1 DEF InUse, Own
  <2> QED
    BY <1>1, <1>2, <1>6, <2>2
<1>7. CASE /\ fdList' = fdList
           /\ outlived' = IF IsOpen(fd) /\ Own(id) THEN outlived \cup {id} ELSE outlived
  <2>1. InUse' = InUse
    BY <1>7 DEF InUse
  <2> QED
    BY <1>1, <1>2, <1>3, <1>4, <1>7, <2>1
<1> QED
  BY <1>5, <1>6, <1>7 DEF close

LEMMA CloseInv ==
    ASSUME FileInv, NEW id \in Ids, NEW fd \in Named(id), close(id, fd)
    PROVE  FileInv'
<1>1. /\ kernel \in [Fds -> Descriptors] /\ fdList \in [-Half..ListSize - 1 -> Fds \cup {INVALID_FD}]
      /\ given \in [Ids -> Files \cup {"none"}] /\ believed \in [Ids -> -1..MaxSize]
      /\ believed' = [believed EXCEPT ![id] = Unknown]
      /\ given' \in {given, [given EXCEPT ![id] = "none"]}
      /\ misclosed' = (misclosed \/ (IsOpen(fd) /\ ~Own(id)))
      /\ UNCHANGED <<nextId, size, astray, spilled>>
  BY DEF FileInv, TypeOK, Descriptors, close
<1>2. /\ kernel' \in [Fds -> Descriptors]
      /\ \A d \in Fds : kernel'[d] = IF IsOpen(fd) /\ d = fd THEN Free ELSE kernel[d]
      /\ fdList' \in [-Half..ListSize - 1 -> Fds \cup {INVALID_FD}]
      /\ InUse' \subseteq InUse /\ \A i \in InUse' : fdList'[i] = fdList[i]
      /\ \A i \in InUse \ InUse' : i = Index(id) /\ fdList[i] = fd
      /\ InUse' \ outlived' \subseteq InUse \ outlived
      /\ outlived' \subseteq InUse'
      /\ \A i \in outlived' \ outlived : fdList[i] = fd /\ IsOpen(fd) /\ Own(id)
      /\ Own(id) /\ IsOpen(fd) => id \in InUse \ outlived /\ id \notin InUse' \ outlived'
  BY CloseEffect
<1>3. TypeOK'
  <2>1. given' \in [Ids -> Files \cup {"none"}] /\ believed' \in [Ids -> -1..MaxSize]
    BY <1>1, Constants
  <2>2. outlived' \subseteq Ids /\ misclosed' \in BOOLEAN
    BY <1>1, <1>2 DEF InUse, FileInv, TypeOK
  <2> QED
    BY <1>1, <1>2, <2>1, <2>2 DEF FileInv, TypeOK, Descriptors
<1>4. Shape'
  BY <1>1, <1>2, DescriptorTypes DEF FileInv, Shape
<1>5. LeftBehind'
  BY <1>2 DEF LeftBehind
\* No other entry has the number that is closed, where it is the id's own.
<1>6. ~misclosed' /\ IsOpen(fd) => \A i \in InUse \ outlived : i # id => fdList[i] # fd
  BY <1>1, <1>2, NamedType DEF FileInv, NoStale
<1>7. ~misclosed' => \A i \in InUse' \ outlived' : kernel'[fdList[i]] = kernel[fdList[i]]
  <2> SUFFICES ASSUME ~misclosed', NEW i \in InUse' \ outlived'
               PROVE  kernel'[fdList[i]] = kernel[fdList[i]]
    OBVIOUS
  <2>1. fdList[i] \in Fds
    BY <1>1, <1>2, Constants DEF InUse
  <2>2. IsOpen(fd) => i # id
    BY <1>1, <1>2
  <2>3. IsOpen(fd) => fdList[i] # fd
    BY <1>2, <1>6, <2>2
  <2> QED
    BY <1>2, <2>1, <2>3
<1>8. NoStale'
  <2> SUFFICES ASSUME ~misclosed'
               PROVE  /\ \A i \in InUse' \ outlived' : kernel'[fdList[i]].owner = "file"
                      /\ \A i, j \in InUse' \ outlived' : fdList[i] = fdList[j] => i = j
    BY <1>2 DEF NoStale
  <2>1. /\ \A i \in InUse \ outlived : kernel[fdList[i]].owner = "file"
        /\ \A i, j \in InUse \ outlived : fdList[i] = fdList[j] => i = j
        /\ InUse' \ outlived' \subseteq InUse \ outlived
    BY <1>1, <1>2 DEF FileInv, NoStale
  <2> QED
    BY <1>7, <2>1
<1>9. NoLeak'
  <2> SUFFICES ASSUME ~spilled, NEW d \in Fds, kernel'[d].owner = "file"
               PROVE  \E i \in InUse' \ outlived' : fdList'[i] = d
    BY <1>1 DEF NoLeak
  <2>1. kernel'[d] = kernel[d] /\ (IsOpen(fd) => d # fd)
    BY <1>2, DescriptorTypes
  <2>2. d # fd
    BY <2>1, DescriptorTypes DEF IsOpen
  <2>3. PICK i \in InUse \ outlived : fdList[i] = d
    BY <2>1 DEF FileInv, NoLeak
  <2> QED
    BY <1>2, <2>2, <2>3
<1>10. KnowsPosition'
  <2> SUFFICES ASSUME NEW j, Known(j)'
               PROVE  Right(j)'
    BY KnownRightNext
  <2>1. /\ ~misclosed /\ ~misclosed' /\ ~astray /\ ~spilled
        /\ j \in (0..Half - 1) \ outlived' /\ given'[j] # "none" /\ j \in Ids
    BY <1>1, Constants DEF Known
  <2>2. CASE j # id
    <3>1. j \notin outlived
      <4>1. CASE j \in InUse'
        BY <2>1, <4>1, <1>1, <1>2 DEF close, Own
      <4>2. CASE j \notin InUse'
        <5>1. j \notin InUse \/ j = Index(id)
          BY <1>2, <4>2
        <5>2. j # Index(id)
          BY <2>1, <2>2, Constants DEF Index
        <5> QED
          BY <5>1, <5>2 DEF FileInv, LeftBehind
      <4> QED
        BY <4>1, <4>2
    <3>2. given'[j] = given[j] /\ believed'[j] = believed[j]
      BY <1>1, <2>1, <2>2
    <3>3. Known(j)
      BY <2>1, <3>1, <3>2 DEF Known
    <3>4. Right(j) /\ j \in InUse \ outlived /\ fdList[j] \in Fds
      BY <3>3, KnownEntry
    <3>5. fdList'[j] = fdList[j] /\ kernel'[fdList[j]] = kernel[fdList[j]]
      <4>1. j # Index(id)
        BY <2>1, <2>2, Constants DEF Index
      <4>2. j \in InUse' \ outlived'
        BY <1>2, <2>1, <3>4, <4>1
      <4> QED
        BY <1>2, <1>7, <2>1, <4>2
    <3> QED
      BY <3>2, <3>4, <3>5 DEF Right, OnFile, IsOpen
  <2>3. CASE j = id
    <3>1. given' = given /\ fdList' = fdList /\ Index(id) = id
          /\ outlived' = IF IsOpen(fd) /\ Own(id) THEN outlived \cup {id} ELSE outlived
      BY <1>1, <2>1, <2>3, Constants DEF close
    <3>2. Known(j)
      BY <2>1, <2>3, <3>1 DEF Known
    <3>3. Right(j) /\ j \in InUse \ outlived /\ fd = fdList[id]
      BY <2>1, <2>3, <3>2, KnownEntry, NamedType DEF FileInv
    <3>4. IsOpen(fd) /\ Own(id)
      BY <2>1, <2>3, <3>1, <3>3 DEF Right, OnFile, Own
    <3> QED
      BY <2>1, <2>3, <3>1, <3>4
  <2> QED
    BY <2>2, <2>3
<1> QED
  BY <1>3, <1>4, <1>5, <1>8, <1>9, <1>10 DEF FileInv

\* RESET frees the numbers of the entries up to the one it stops at, which it keeps.
LEMMA ResetEffect ==
    ASSUME FileInv, reset
    PROVE  \E stop \in Stops :
             /\ kernel' \in [Fds -> Descriptors]
             /\ \A d \in Fds : kernel'[d] =
                   IF \E i \in InUse : i <= stop /\ fdList[i] = d THEN Free ELSE kernel[d]
             /\ fdList' \in [-Half..ListSize - 1 -> Fds \cup {INVALID_FD}]
             /\ stop \in Nat /\ InUse' = {i \in InUse : i >= stop}
             /\ \A i \in InUse' : fdList'[i] = fdList[i]
             /\ nextId' = IF stop = ListSize THEN 0 ELSE nextId
             /\ closesUpTo(stop)
<1>1. PICK stop \in Stops :
        /\ closesUpTo(stop)
        /\ fdList' = [i \in DOMAIN fdList |-> IF i \in InUse /\ i < stop
                                              THEN INVALID_FD ELSE fdList[i]]
        /\ nextId' = IF stop = ListSize THEN 0 ELSE nextId
  BY DEF reset
<1>2. /\ fdList \in [-Half..ListSize - 1 -> Fds \cup {INVALID_FD}]
      /\ kernel \in [Fds -> Descriptors]
  BY DEF FileInv, TypeOK, Descriptors
<1>3. stop \in Nat
  BY Constants DEF Stops, InUse, Ids
<1>4. /\ kernel' \in [Fds -> Descriptors]
      /\ \A d \in Fds : kernel'[d] =
            IF \E i \in InUse : i <= stop /\ fdList[i] = d THEN Free ELSE kernel[d]
  <2>1. kernel' = [d \in Fds |-> IF \E i \in InUse : i <= stop /\ fdList[i] = d
                                THEN Free ELSE kernel[d]]
    BY <1>1 DEF closesUpTo
  <2> QED
    BY <1>2, <2>1, DescriptorTypes
<1>5. \A i \in Ids : fdList'[i] = IF i \in InUse /\ i < stop THEN INVALID_FD ELSE fdList[i]
  BY <1>1, <1>2, Constants
<1>6. InUse' = {i \in InUse : i >= stop}
  <2>1. \A i \in Ids : i \in Nat
    BY Constants DEF Ids
  <2> QED
    BY <1>3, <1>5, <2>1 DEF InUse
<1>7. \A i \in InUse' : fdList'[i] = fdList[i]
  BY <1>3, <1>5, <1>6, Constants DEF InUse, Ids
<1>8. fdList' \in [-Half..ListSize - 1 -> Fds \cup {INVALID_FD}]
  BY <1>1, <1>2
<1> QED
  BY <1>1, <1>3, <1>4, <1>6, <1>7, <1>8

\* As long as RESET closes nothing through an entry left behind, the entries of their
\* own that remain are behind the one it stops at, and the numbers it closed differ
\* from theirs.
LEMMA ResetKeeps ==
    ASSUME FileInv, NEW stop \in Stops, closesUpTo(stop), ~misclosed',
           InUse' = {i \in InUse : i >= stop}, stop \in Nat
    PROVE  /\ ~misclosed
           /\ \A k \in InUse' \ outlived' :
                 /\ k \in InUse \ outlived /\ k > stop
                 /\ \A i \in InUse : i <= stop => fdList[i] # fdList[k]
<1>1. /\ ~misclosed /\ \A i \in InUse \ Stale : i <= stop => i \notin outlived
      /\ outlived' = {i \in outlived \cup ({stop} \ Stale) : i \in Ids /\ i >= stop}
  BY DEF closesUpTo
<1>2. \A i \in InUse : i \in Nat /\ i \in Ids
  BY Constants DEF InUse, Ids
<1>3. \A i \in InUse : i < stop => i \notin Stale /\ i \notin outlived
  <2>1. \A i \in InUse : i < stop => i \notin Stale
    BY <1>2 DEF Stops, InUse
  <2> QED
    BY <1>1, <1>2, <2>1
<1>4. /\ \A i \in InUse \ outlived : kernel[fdList[i]].owner = "file"
      /\ \A i, j \in InUse \ outlived : fdList[i] = fdList[j] => i = j
  BY <1>1 DEF FileInv, NoStale
<1>5. \A i \in InUse : i <= stop /\ i \notin outlived => i \notin Stale
  <2> SUFFICES ASSUME NEW i \in InUse, i <= stop, i \notin outlived, i \in Stale
               PROVE  FALSE
    OBVIOUS
  <2>1. kernel[fdList[i]] # Free
    BY <1>4, DescriptorTypes
  <2>2. PICK j \in InUse : j < i /\ fdList[j] = fdList[i]
    BY <2>1 DEF Stale
  <2>3. j \notin outlived
    BY <1>2, <1>3, <2>2
  <2> QED
    BY <1>2, <1>4, <2>2, <2>3
<1>6. ASSUME NEW k \in InUse' \ outlived'
      PROVE  /\ k \in InUse \ outlived /\ k > stop
             /\ \A i \in InUse : i <= stop => fdList[i] # fdList[k]
  <2>1. k \in InUse /\ k >= stop /\ k \notin outlived
    BY <1>1, <1>2, <1>6
  <2>2. k # stop
    BY <1>1, <1>2, <1>5, <1>6, <2>1
  <2>3. ASSUME NEW i \in InUse, i <= stop, fdList[i] = fdList[k]
        PROVE  FALSE
    <3>1. i # k
      BY <1>2, <2>1, <2>2, <2>3
    <3>2. i \in outlived
      BY <1>4, <2>1, <2>3, <3>1
    <3>3. i \in Stale /\ ~(i < stop)
      BY <1>1, <1>3, <2>3, <3>2
    <3>4. kernel[fdList[i]] # Free
      BY <1>4, <2>1, <2>3, DescriptorTypes
    <3>5. PICK j \in InUse : j < i /\ fdList[j] = fdList[i]
      BY <3>3, <3>4 DEF Stale
    <3>6. j \notin outlived /\ j # k
      BY <1>2, <1>3, <2>1, <2>3, <3>5
    <3> QED
      BY <1>4, <2>1, <2>3, <3>5, <3>6
  <2> QED
    BY <1>2, <2>1, <2>2, <2>3
<1> QED
  BY <1>1, <1>6

LEMMA ResetInv ==
    ASSUME FileInv, reset
    PROVE  FileInv'
<1>1. PICK stop \in Stops :
        /\ kernel' \in [Fds -> Descriptors]
        /\ \A d \in Fds : kernel'[d] =
              IF \E i \in InUse : i <= stop /\ fdList[i] = d THEN Free ELSE kernel[d]
        /\ fdList' \in [-Half..ListSize - 1 -> Fds \cup {INVALID_FD}]
        /\ stop \in Nat /\ InUse' = {i \in InUse : i >= stop}
        /\ \A i \in InUse' : fdList'[i] = fdList[i]
        /\ nextId' = IF stop = ListSize THEN 0 ELSE nextId
        /\ closesUpTo(stop)
  BY ResetEffect
<1>2. /\ given' = [id \in Ids |-> IF id < stop THEN "none" ELSE given[id]]
      /\ believed' = [id \in Ids |-> IF id <= stop THEN Unknown ELSE believed[id]]
      /\ outlived' = {i \in outlived \cup ({stop} \ Stale) : i \in Ids /\ i >= stop}
      /\ misclosed' = (misclosed \/ \E i \in InUse \ Stale : i <= stop /\ i \in outlived)
      /\ UNCHANGED <<size, astray, spilled>>
  BY <1>1 DEF closesUpTo
<1>3. \A i \in Ids : i \in Nat
  BY Constants DEF Ids
<1>4. TypeOK'
  <2>1. /\ nextId \in Ids /\ given \in [Ids -> Files \cup {"none"}]
        /\ believed \in [Ids -> -1..MaxSize] /\ misclosed \in BOOLEAN
    BY DEF FileInv, TypeOK
  <2>2. nextId' \in Ids /\ outlived' \subseteq Ids /\ misclosed' \in BOOLEAN
    BY <1>1, <1>2, <2>1, Constants
  <2>3. given' \in [Ids -> Files \cup {"none"}] /\ believed' \in [Ids -> -1..MaxSize]
    BY <1>2, <2>1, Constants
  <2> QED
    BY <1>1, <1>2, <2>2, <2>3 DEF FileInv, TypeOK, Descriptors
<1>5. Shape'
  <2>1. \A d \in Fds : kernel'[d] \in {Free, kernel[d]}
    BY <1>1
  <2> QED
    BY <1>2, <2>1, DescriptorTypes DEF FileInv, Shape
<1>6. LeftBehind'
  <2>1. \A i \in Ids : i = stop => i \in InUse
    BY <1>3, Constants DEF Stops, Ids
  <2> QED
    BY <1>1, <1>2, <2>1 DEF FileInv, LeftBehind
<1>7. ~misclosed' =>
        /\ ~misclosed
        /\ \A k \in InUse' \ outlived' :
              /\ k \in InUse \ outlived /\ k > stop
              /\ \A i \in InUse : i <= stop => fdList[i] # fdList[k]
  BY <1>1, ResetKeeps
<1>8. \A i \in InUse : fdList[i] \in Fds
  BY Constants DEF InUse, FileInv, TypeOK
<1>9. ~misclosed' => \A k \in InUse' \ outlived' : kernel'[fdList[k]] = kernel[fdList[k]]
  BY <1>1, <1>7, <1>8
<1>10. NoStale'
  <2> SUFFICES ASSUME ~misclosed'
               PROVE  /\ \A i \in InUse' \ outlived' : kernel'[fdList[i]].owner = "file"
                      /\ \A i, j \in InUse' \ outlived' : fdList[i] = fdList[j] => i = j
    BY <1>1 DEF NoStale
  <2> QED
    BY <1>7, <1>9 DEF FileInv, NoStale
<1>11. NoLeak'
  <2> SUFFICES ASSUME ~spilled, NEW d \in Fds, kernel'[d].owner = "file"
               PROVE  \E i \in InUse' \ outlived' : fdList'[i] = d
    BY <1>2 DEF NoLeak
  <2>1. kernel'[d] = kernel[d] /\ \A i \in InUse : i <= stop => fdList[i] # d
    BY <1>1, DescriptorTypes
  <2>2. PICK i \in InUse \ outlived : fdList[i] = d
    BY <2>1 DEF FileInv, NoLeak
  <2>3. i > stop /\ i \in Nat
    BY <1>1, <1>3, <2>1, <2>2 DEF InUse
  <2>4. i \in InUse' \ outlived'
    BY <1>1, <1>2, <2>2, <2>3
  <2> QED
    BY <1>1, <2>2, <2>4
<1>12. KnowsPosition'
  <2> SUFFICES ASSUME NEW j, Known(j)'
               PROVE  Right(j)'
    BY KnownRightNext
  <2>1. /\ ~misclosed' /\ ~astray /\ ~spilled
        /\ j \in (0..Half - 1) \ outlived' /\ given'[j] # "none" /\ j \in Ids /\ j \in Nat
    BY <1>2, <1>3, Constants DEF Known
  <2>2. ~(j < stop) /\ given'[j] = given[j] /\ j >= stop
    BY <1>1, <1>2, <2>1
  <2>3. j \notin outlived
    BY <1>2, <2>1, <2>2
  <2>4. Known(j)
    BY <1>7, <2>1, <2>2, <2>3 DEF Known
  <2>5. Right(j) /\ j \in InUse \ outlived /\ fdList[j] \in Fds
    BY <2>4, KnownEntry
  <2>6. j \in InUse' \ outlived'
    BY <1>1, <2>1, <2>2, <2>5
  <2>7. /\ fdList'[j] = fdList[j] /\ kernel'[fdList[j]] = kernel[fdList[j]]
        /\ j > stop /\ believed'[j] = believed[j]
    BY <1>1, <1>2, <1>7, <1>9, <2>1, <2>6
  <2> QED
    BY <2>2, <2>5, <2>7 DEF Right, OnFile, IsOpen
<1> QED
  BY <1>4, <1>5, <1>6, <1>10, <1>11, <1>12 DEF FileInv

\* What the rest of the program opens was free and what it closes was its own.
LEMMA OtherInv ==
    ASSUME FileInv, otherOpens \/ otherCloses
    PROVE  FileInv'
<1>1. UNCHANGED <<fdList, nextId, size, given, believed, outlived, misclosed, astray, spilled>>
  BY DEF otherOpens, otherCloses, notes
<1>2. PICK d \in Fds, k \in {Free, Other} :
        /\ kernel' = [kernel EXCEPT ![d] = k]
        /\ \/ kernel[d] = Free
           \/ kernel[d] = Other /\ d # 0
  <2>1. CASE otherOpens
    BY <2>1, NewIsFree DEF otherOpens
  <2>2. CASE otherCloses
    BY <2>2 DEF otherCloses
  <2> QED
    BY <2>1, <2>2
<1>3. /\ kernel \in [Fds -> Descriptors] /\ kernel[d].owner # "file"
      /\ kernel' \in [Fds -> Descriptors]
      /\ kernel'[d].owner # "file"
      /\ \A e \in Fds : e # d => kernel'[e] = kernel[e]
  BY <1>2, DescriptorTypes DEF FileInv, TypeOK, Descriptors
<1>4. \A e \in Fds : kernel[e].owner = "file" \/ kernel'[e].owner = "file"
        => kernel'[e] = kernel[e]
  BY <1>3
<1>5. TypeOK' /\ Shape'
  BY <1>1, <1>3, <1>4 DEF FileInv, TypeOK, Shape, Descriptors
<1>6. InUse' = InUse /\ \A i \in InUse : fdList[i] \in Fds
  BY <1>1, Constants DEF InUse, FileInv, TypeOK
<1>7. LeftBehind' /\ NoStale' /\ NoLeak'
  BY <1>1, <1>4, <1>6 DEF FileInv, LeftBehind, NoStale, NoLeak
<1>8. KnowsPosition'
  <2> SUFFICES ASSUME NEW j, Known(j)'
               PROVE  Right(j)'
    BY KnownRightNext
  <2>1. Known(j)
    BY <1>1 DEF Known
  <2>2. Right(j) /\ fdList[j] \in Fds /\ kernel[fdList[j]].owner = "file"
    BY <2>1, KnownEntry
  <2> QED
    BY <1>1, <1>4, <2>2 DEF Right, OnFile, IsOpen
<1> QED
  BY <1>5, <1>7, <1>8 DEF FileInv

LEMMA CommandInv ==
    ASSUME FileInv, Command
    PROVE  FileInv'
BY OpenInv, OpenFailsInv, ReadingInv, WriteInv, CloseInv, ResetInv DEF Command, UsedIds

LEMMA NextInv == FileInv /\ [Next]_vars => FileInv'
<1>1. ASSUME FileInv, Next
      PROVE  FileInv'
  BY <1>1, CommandInv, OtherInv DEF Next
<1>2. ASSUME FileInv, UNCHANGED vars
      PROVE  FileInv'
  BY <1>2 DEF vars, notes, FileInv, TypeOK, Shape, LeftBehind, NoStale, NoLeak, KnowsPosition,
              InUse, OnFile, IsOpen
<1> QED
  BY <1>1, <1>2

LEMMA Invariant == Spec => []FileInv
BY InitInv, NextInv, PTL DEF Spec

-----------------------------------------------------------------------------
\* The table, the kernel's descriptors and the microcontroller's view keep their
\* types: no position or size of a file that is not there is ever used.
THEOREM TypeCorrect == Spec => []TypeOK
<1>1. FileInv => TypeOK
  BY DEF FileInv
<1> QED
  BY <1>1, Invariant, PTL

\* Every entry is the descriptor of an open file of its own (open, close and reset),
\* except those that a close() or a response that failed left behind, until a
\* descriptor is closed through one of them or through an id beyond int8_t.
THEOREM EntriesAreOpenFiles == Spec => []NoStale
<1>1. FileInv => NoStale
  BY DEF FileInv
<1> QED
  BY <1>1, Invariant, PTL

\* Every open file has an entry of its own, where CLOSE and RESET find it, unless an
\* entry in use was overwritten (open, openFails).
THEOREM OpenFilesAreEntries == Spec => []NoLeak
<1>1. FileInv => NoLeak
  BY DEF FileInv
<1> QED
  BY <1>1, Invariant, PTL

\* What the microcontroller works out from the responses it gets is the file and the
\* position the kernel has for its id, through short writes, lost responses and a
\* RESET that stopped, until a request works on a file that is not its id's own.
THEOREM PositionIsKnown == Spec => []KnowsPosition
<1>1. FileInv => KnowsPosition
  BY DEF FileInv
<1> QED
  BY <1>1, Invariant, PTL

\* No command and no RESET closes a descriptor of the rest of the program, although
\* numbers are recycled, but through an entry left behind or an id beyond int8_t.
THEOREM ForeignKept == Spec => OthersKept
<1> DEFINE A == ~misclosed' /\ Command
                  => \A d \in Fds : kernel[d] = Other => kernel'[d] = Other
<1>1. FileInv /\ [Next]_vars => [A]_vars
  <2> SUFFICES ASSUME FileInv, ~misclosed', Command,
                      NEW d \in Fds, kernel[d] = Other
               PROVE  kernel'[d] = Other
    OBVIOUS
  <2>1. ASSUME NEW f \in Files, NEW m \in Modes, open(f, m)
        PROVE  kernel'[d] = Other
    BY <2>1, NewIsFree, DescriptorTypes DEF open, FileInv, TypeOK
  <2>2. CASE openFails
    BY <2>2 DEF openFails
  <2>3. ASSUME NEW fd, OnFile(fd), NEW p, kernel' = MoveTo(fd, p)
        PROVE  kernel'[d] = Other
    <3>1. d # fd
      BY <2>3, DescriptorTypes DEF OnFile
    <3> QED
      BY <2>3, <3>1 DEF MoveTo, FileInv, TypeOK
  <2>4. ASSUME NEW id \in Ids, NEW fd \in Named(id), close(id, fd)
        PROVE  kernel'[d] = Other
    <3>1. ~misclosed /\ (IsOpen(fd) => Own(id))
      BY <2>4 DEF close
    <3>2. IsOpen(fd) => id \in InUse \ outlived /\ fd = fdList[id]
      BY <2>4, <3>1, CloseEffect, NamedType DEF FileInv
    <3>3. IsOpen(fd) => fd # d
      BY <3>1, <3>2, DescriptorTypes DEF FileInv, NoStale
    <3> QED
      BY <2>4, <3>3, CloseEffect
  <2>5. CASE reset
    <3>1. PICK stop \in Stops :
            /\ kernel'[d] = IF \E i \in InUse : i <= stop /\ fdList[i] = d THEN Free ELSE kernel[d]
            /\ stop \in Nat /\ closesUpTo(stop)
      BY <2>5, ResetEffect
    <3>2. ~misclosed /\ \A i \in InUse \ Stale : i <= stop => i \notin outlived
      BY <3>1 DEF closesUpTo
    <3>3. ASSUME NEW i \in InUse, i <= stop, fdList[i] = d
          PROVE  FALSE
      <4>1. i \in outlived
        BY <3>2, <3>3, DescriptorTypes DEF FileInv, NoStale
      <4>2. i \in Stale /\ kernel[fdList[i]] # Free
        BY <3>2, <3>3, <4>1, DescriptorTypes
      <4>3. PICK j \in InUse : j < i /\ fdList[j] = fdList[i]
        BY <4>2 DEF Stale
      <4>4. i \in Nat /\ j \in Nat /\ \A k \in Stale : stop <= k
        BY Constants DEF InUse, Ids, Stops
      <4>5. j <= stop /\ j \notin Stale
        BY <3>1, <3>3, <4>3, <4>4, Constants DEF Stale, InUse, Ids
      <4>6. j \notin outlived /\ fdList[j] = d
        BY <3>2, <3>3, <4>3, <4>5
      <4> QED
        BY <3>2, <4>6, DescriptorTypes DEF FileInv, NoStale
    <3> QED
      BY <3>1, <3>3
  <2>6. ASSUME NEW id \in Ids, NEW fd \in Named(id),
               \/ position(id, fd) \/ lostAnswer(id, fd)
               \/ \E n \in 1..2 : write(id, fd, n) \/ read(id, fd, n)
               \/ \E p \in 0..MaxSize : seek(id, fd, p)
        PROVE  kernel'[d] = Other
    BY <2>3, <2>6 DEF position, lostAnswer, write, read, seek, works
  <2> QED
    BY <2>1, <2>2, <2>4, <2>5, <2>6 DEF Command, UsedIds
<1> QED
  BY <1>1, Invariant, PTL DEF Spec, OthersKept

\* RESET meets a number that is not open only at an entry left behind; one that gets
\* through leaves no entry and, unless one was lost before, no open file.
THEOREM ResetLeavesNothingOpen == Spec => ResetFrees
<1> DEFINE A == reset /\ ~misclosed'
                  => /\ \A i \in InUse' : \E j \in outlived' : j <= i
                     /\ InUse' = {} =>
                           /\ nextId' = 0
                           /\ ~spilled => \A d \in Fds : kernel'[d].owner # "file"
<1>1. FileInv /\ [Next]_vars => [A]_vars
  <2> SUFFICES ASSUME FileInv, reset, ~misclosed'
               PROVE  /\ \A i \in InUse' : \E j \in outlived' : j <= i
                      /\ InUse' = {} =>
                            /\ nextId' = 0
                            /\ ~spilled => \A d \in Fds : kernel'[d].owner # "file"
    OBVIOUS
  <2>1. PICK stop \in Stops :
          /\ stop \in Nat /\ InUse' = {i \in InUse : i >= stop}
          /\ nextId' = IF stop = ListSize THEN 0 ELSE nextId
          /\ closesUpTo(stop)
    BY ResetEffect
  <2>2. \A k \in InUse' \ outlived' : k > stop
    BY <2>1, ResetKeeps
  <2>3. stop \in InUse => stop \in InUse' /\ stop \in outlived'
    BY <2>1, <2>2
  <2>4. stop \in InUse \/ stop = ListSize
    BY DEF Stops
  <2>5. \A i \in InUse' : stop <= i /\ stop \in InUse
    BY <2>1, <2>4, Constants DEF InUse, Ids
  <2>6. InUse' = {} => stop = ListSize
    BY <2>3, <2>4
  <2>7. ASSUME InUse' = {}, ~spilled, NEW d \in Fds
        PROVE  kernel'[d].owner # "file"
    <3>1. NoLeak' /\ spilled' = spilled
      BY <2>1, ResetInv DEF FileInv, closesUpTo
    <3> QED
      BY <2>7, <3>1 DEF NoLeak
  <2> QED
    BY <2>1, <2>3, <2>5, <2>6, <2>7
<1> QED
  BY <1>1, Invariant, PTL DEF Spec, ResetFrees
=============================================================================
