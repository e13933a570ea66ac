---------------------------- MODULE ConsoleProofs ----------------------------
(***************************************************************************)
(* Theorems about Console, for every number of slots and connections and    *)
(* every size of the buffers: no length exceeds its buffer, the assertions  *)
(* on the buffers of open slots hold as long as memory lasts, and no byte of*)
(* a connection is read twice or through another.                           *)
(***************************************************************************)
EXTENDS Console, FiniteSums, TLAPS

Apps == {"running", "aborted", "accept aborted", "overrun"}
Stages == {"accept", "recv", "send", "drop", "serve"}
Places == [at : Stages, id : Ids]

LEMMA Constants ==
    /\ MaxClients \in Nat /\ SendLen \in Nat /\ RecvLen \in Nat /\ RxSize \in Nat
    /\ DataSize \in Nat /\ MaxConns \in Nat /\ MaxSent \in Nat
    /\ MaxClients > 0 /\ RxSize > 0
    /\ 0 \in Ids /\ \A n \in Ids : (n + 1) % MaxClients \in Ids
    /\ IsFiniteSet(Ids) /\ IsFiniteSet(Conns) /\ Ids \subseteq Nat /\ Conns \subseteq Nat
    /\ INVALID \notin Conns /\ NUL \notin Conns
<1>1. /\ MaxClients \in Nat /\ SendLen \in Nat /\ RecvLen \in Nat /\ RxSize \in Nat
      /\ DataSize \in Nat /\ MaxConns \in Nat /\ MaxSent \in Nat /\ MaxClients > 0 /\ RxSize > 0
  BY ClientsAssumption, SizesAssumption, BoundAssumption
<1>2. IsFiniteSet(Ids) /\ IsFiniteSet(Conns)
  BY <1>1, FS_Interval DEF Ids, Conns
<1>3. 0 \in Ids /\ \A n \in Ids : (n + 1) % MaxClients \in Ids
  BY <1>1 DEF Ids
<1>4. Ids \subseteq Nat /\ Conns \subseteq Nat /\ INVALID \notin Conns /\ NUL \notin Conns
  BY <1>1 DEF Ids, Conns, INVALID, NUL
<1> QED
  BY <1>1, <1>2, <1>3, <1>4

-----------------------------------------------------------------------------
\* As long as memory lasts every open slot has both its buffers.
Equipped == ~noMemory => \A i \in Ids : Open(i) => buffers[i] = Parts

\* No two slots have the same connection, and every one was accepted.
Distinct ==
    /\ \A i \in Ids : sockFd[i] <= taken
    /\ \A i, j \in Ids : Open(i) /\ sockFd[i] = sockFd[j] => i = j

\* ReadOnce with the sum over the slots of a connection, of which there is at most
\* one, taken apart.
Held(c) == Count(rxBuffer, rxBuffLen, c)
Filled == \A k \in 0..rxBuffLen - 1 : rxBuffer[k] # NUL
Accounted == \A c \in Conns : delivered[c] + Held(c) <= sent[c]
Waiting == \A i \in Ids : Open(i) /\ "rx" \in buffers[i] =>
              delivered[sockFd[i]] + Held(sockFd[i]) + recvBuffLen[i] <= sent[sockFd[i]]
Once == ~displaced /\ app # "overrun" => Filled /\ Accounted /\ Waiting

\* The inductive invariant.
ConsInv == TypeOK /\ AssertsHold /\ Equipped /\ Distinct /\ Once

LEMMA InitInv == Init => ConsInv
<1> SUFFICES ASSUME Init
             PROVE  ConsInv
  OBVIOUS
<1>1. \A i \in Ids : ~Open(i)
  BY DEF Init, Open
<1>2. TypeOK
  <2>1. /\ app \in Apps /\ pc \in Places /\ broadcast \in BOOLEAN /\ noMemory \in BOOLEAN
        /\ displaced \in BOOLEAN /\ buffers \in [Ids -> SUBSET Parts]
        /\ sockFd \in [Ids -> Conns \cup {INVALID}] /\ rxBuffer \in [0..RxSize - 1 -> Conns \cup {NUL}]
    BY Constants DEF Init, Apps, Places, Stages
  <2>2. /\ 0 \in 0..SendLen /\ 0 \in 0..RecvLen /\ 0 \in 0..RxSize /\ 0 \in 0..MaxConns
        /\ 0 \in 0..DataSize /\ 0 \in 0..MaxSent /\ 0 \in Nat /\ 0 \in Ids
    BY Constants
  <2>3. /\ sendBuffLen \in [Ids -> 0..SendLen] /\ recvBuffLen \in [Ids -> 0..RecvLen]
        /\ nextId \in Ids /\ rxBuffLen \in 0..RxSize /\ taken \in 0..MaxConns
        /\ writing \in 0..DataSize /\ sent \in [Conns -> 0..MaxSent] /\ delivered \in [Conns -> Nat]
    BY <2>2 DEF Init
  <2> QED
    BY <2>1, <2>3 DEF TypeOK, Apps, Places, Stages
<1>3. AssertsHold /\ Equipped
  BY <1>1 DEF Init, AssertsHold, Equipped
<1>4. Distinct
  BY <1>1 DEF Init, Distinct, INVALID
<1>5. Once
  <2>1. \A c \in Conns : Held(c) = 0
    <3>1. 0..rxBuffLen - 1 = {}
      BY DEF Init
    <3> QED
      BY <3>1, FS_EmptySet DEF Held, Count
  <2>2. \A c \in Conns : delivered[c] = 0 /\ sent[c] = 0
    BY DEF Init
  <2>3. \A k \in 0..rxBuffLen - 1 : rxBuffer[k] # NUL
    BY DEF Init
  <2> QED
    BY <1>1, <2>1, <2>2, <2>3 DEF Once, Filled, Accounted, Waiting
<1> QED
  BY <1>2, <1>3, <1>4, <1>5 DEF ConsInv

-----------------------------------------------------------------------------
\* What the invariant says of the types, in the names used here.
LEMMA Types ==
    ASSUME ConsInv
    PROVE  /\ app \in Apps /\ pc \in Places /\ broadcast \in BOOLEAN /\ noMemory \in BOOLEAN
           /\ displaced \in BOOLEAN /\ buffers \in [Ids -> SUBSET Parts]
           /\ sockFd \in [Ids -> Conns \cup {INVALID}]
           /\ rxBuffer \in [0..RxSize - 1 -> Conns \cup {NUL}]
           /\ sendBuffLen \in [Ids -> 0..SendLen] /\ recvBuffLen \in [Ids -> 0..RecvLen]
           /\ nextId \in Ids /\ rxBuffLen \in 0..RxSize /\ taken \in 0..MaxConns
           /\ writing \in 0..DataSize /\ sent \in [Conns -> 0..MaxSent]
           /\ delivered \in [Conns -> Nat]
           /\ \A i \in Ids : Open(i) <=> sockFd[i] \in Conns
BY Constants DEF ConsInv, TypeOK, Apps, Places, Stages, Open

LEMMA HeldType ==
    ASSUME ConsInv
    PROVE  rxBuffLen \in Nat /\ \A c : Held(c) \in Nat
<1>1. rxBuffLen \in Nat
  BY Types, Constants
<1> QED
  BY <1>1, CountType DEF Held

\* The next place is one.
LEMMA PlaceType ==
    ASSUME pc \in Places, NEW s \in Stages, NEW next \in Stages
    PROVE  /\ Goto(s) => pc' \in Places
           /\ Turn(s, next) => pc' \in Places
BY Constants DEF Places, Goto, Turn

\* Appending to the clients of D overruns no buffer when the room is checked for the
\* bytes that are appended, and meets no slot without a buffer while memory lasts.
LEMMA AppendedType ==
    ASSUME ConsInv, NEW D \in SUBSET Ids, NEW m \in Nat, NEW n \in Nat
    PROVE  /\ ~Overruns(D, m, n) => Appended(D, m, n) \in [Ids -> 0..SendLen]
           /\ ~Overruns(D, n, n)
           /\ D \subseteq Readable /\ ~noMemory => ~Aborts(D, m)
<1>1. sendBuffLen \in [Ids -> 0..SendLen]
  BY Types
<1>2. \A i \in Served(D, m) : i \in Ids
  BY DEF Served
<1>3. ASSUME ~Overruns(D, m, n)
      PROVE  Appended(D, m, n) \in [Ids -> 0..SendLen]
  <2>1. ASSUME NEW i \in Served(D, m)
        PROVE  sendBuffLen[i] + n \in 0..SendLen
    <3>1. ~(sendBuffLen[i] + n > SendLen)
      BY <1>3 DEF Overruns
    <3>2. sendBuffLen[i] \in Nat
      BY <1>1, <1>2
    <3> QED
      BY <3>1, <3>2, Constants
  <2> QED
    BY <1>1, <2>1 DEF Appended
<1>4. ~Overruns(D, n, n)
  <2>1. SUFFICES ASSUME NEW i \in Served(D, n), sendBuffLen[i] + n > SendLen
                 PROVE  FALSE
    BY DEF Overruns
  <2>2. i \in Fails(D, n) /\ i \in Nat
    BY <2>1, Constants DEF Served, Fails
  <2> QED
    BY <2>1, <2>2 DEF Served
<1>5. ASSUME D \subseteq Readable, ~noMemory
      PROVE  ~Aborts(D, m)
  BY <1>5 DEF ConsInv, Equipped, Readable, Aborts, Fails, Parts
<1> QED
  BY <1>3, <1>4, <1>5

\* ReadOnce is preserved as long as READ takes nothing and a slot that has bytes
\* gets no more of them than are received from its peer.
LEMMA OnceKept ==
    ASSUME ConsInv, app # "overrun", UNCHANGED <<rxBuffer, rxBuffLen, delivered, displaced>>,
           \A c \in Conns : sent'[c] \in Nat /\ sent[c] <= sent'[c],
           \A i \in Ids : sockFd'[i] # INVALID /\ "rx" \in buffers'[i] =>
              /\ sockFd'[i] \in Conns
              /\ recvBuffLen'[i] \in Nat
              /\ \/ recvBuffLen'[i] = 0
                 \/ /\ sockFd'[i] = sockFd[i] /\ "rx" \in buffers[i]
                    /\ recvBuffLen'[i] + sent[sockFd[i]] <= recvBuffLen[i] + sent'[sockFd[i]]
    PROVE  Once'
<1>1. ASSUME ~displaced
      PROVE  Filled' /\ Accounted' /\ Waiting'
  <2>1. Filled /\ Accounted /\ Waiting
    BY <1>1 DEF ConsInv, Once
  <2>2. \A c : Held(c)' = Held(c)
    BY DEF Held
  <2>3. \A c \in Conns : Held(c) \in Nat /\ delivered[c] \in Nat /\ sent[c] \in Nat
    BY Types, HeldType
  <2>4. Filled'
    BY <2>1 DEF Filled
  <2>5. ASSUME NEW c \in Conns
        PROVE  delivered'[c] + Held(c) <= sent'[c]
    BY <2>1, <2>3 DEF Accounted
  <2>6. ASSUME NEW i \in Ids, sockFd'[i] # INVALID, "rx" \in buffers'[i]
        PROVE  delivered'[sockFd'[i]] + Held(sockFd'[i]) + recvBuffLen'[i] <= sent'[sockFd'[i]]
    <3>1. sockFd'[i] \in Conns /\ recvBuffLen'[i] \in Nat
      BY <2>6
    <3>2. CASE recvBuffLen'[i] = 0
      BY <2>3, <2>5, <3>1, <3>2
    <3>3. CASE /\ sockFd'[i] = sockFd[i] /\ "rx" \in buffers[i]
               /\ recvBuffLen'[i] + sent[sockFd[i]] <= recvBuffLen[i] + sent'[sockFd[i]]
      <4>1. delivered[sockFd[i]] + Held(sockFd[i]) + recvBuffLen[i] <= sent[sockFd[i]]
        BY <2>1, <2>6, <3>3 DEF Waiting, Open
      <4>2. recvBuffLen[i] \in Nat
        BY Types
      <4> QED
        BY <2>3, <3>1, <3>3, <4>1, <4>2
    <3> QED
      BY <2>6, <3>2, <3>3
  <2>7. Accounted'
    BY <2>2, <2>5 DEF Accounted
  <2>8. Waiting'
    <3>1. \A i : Held(sockFd[i])' = Held(sockFd'[i])
      BY DEF Held
    <3> QED
      BY <2>6, <3>1 DEF Waiting, Open
  <2> QED
    BY <2>4, <2>7, <2>8
<1> QED
  BY <1>1 DEF Once

-----------------------------------------------------------------------------
\* Steps that leave the slots, the buffers and what was sent as they are.
LEMMA QuietInv ==
    ASSUME ConsInv, app = "running",
           UNCHANGED <<sockFd, buffers, sendBuffLen, recvBuffLen, nextId, broadcast,
                       rxBuffer, rxBuffLen, delivered, displaced, sent, noMemory, writing>>,
           app' \in Apps, ~noMemory => app' # "aborted",
           pc' \in Places, taken' \in taken..MaxConns
    PROVE  ConsInv'
<1>1. TypeOK'
  <2>1. taken' \in 0..MaxConns
    BY Types
  <2> QED
    BY <2>1 DEF ConsInv, TypeOK, Apps, Places, Stages
<1>2. AssertsHold' /\ Equipped'
  BY DEF ConsInv, AssertsHold, Equipped, Open
<1>3. Distinct'
  <2>1. ASSUME NEW i \in Ids
        PROVE  sockFd'[i] <= taken'
    <3>1. sockFd[i] <= taken /\ sockFd[i] \in Nat
      BY Types, Constants DEF ConsInv, Distinct, INVALID
    <3> QED
      BY <3>1, Types
  <2> QED
    BY <2>1 DEF ConsInv, Distinct, Open
<1>4. Once'
  BY DEF ConsInv, Once, Filled, Accounted, Waiting, Held, Open
<1> QED
  BY <1>1, <1>2, <1>3, <1>4 DEF ConsInv

\* Nothing is accepted, received, sent or served; an assertion may fail.
LEMMA NothingInv ==
    ASSUME ConsInv, \/ noConnection \/ refuses \/ acceptAborts \/ recvNothing \/ selectFails \/ recvAborts
                    \/ sendAborts \/ otherFrame \/ connected
    PROVE  ConsInv'
<1>1. pc \in Places /\ taken \in 0..MaxConns
  BY Types
<1>2. taken \in taken..MaxConns /\ (taken < MaxConns => taken + 1 \in taken..MaxConns)
  BY <1>1, Constants
<1>3. \A s \in Stages : (Goto(s) => pc' \in Places) /\ (Turn("recv", "send") => pc' \in Places)
  BY <1>1, PlaceType DEF Stages
<1>4. app = "running"
  BY DEF noConnection, refuses, acceptAborts, recvNothing, selectFails, recvAborts, sendAborts,
         otherFrame, connected, At
<1>5. CASE noConnection \/ refuses \/ recvNothing \/ selectFails \/ otherFrame
  <2>1. /\ UNCHANGED <<sockFd, buffers, sendBuffLen, recvBuffLen, nextId, broadcast,
                       rxBuffer, rxBuffLen, delivered, displaced, sent, noMemory, writing>>
        /\ app' = "running" /\ taken' \in taken..MaxConns
    BY <1>2, <1>4, <1>5 DEF noConnection, refuses, recvNothing, selectFails, otherFrame, clients, slots, reading, peers
  <2>2. pc' \in Places
    BY <1>3, <1>5 DEF noConnection, refuses, recvNothing, selectFails, otherFrame, Stages
  <2> QED
    BY <1>4, <2>1, <2>2, QuietInv DEF Apps
<1>6. CASE acceptAborts
  <2>1. /\ UNCHANGED <<sockFd, buffers, sendBuffLen, recvBuffLen, nextId, broadcast,
                       rxBuffer, rxBuffLen, delivered, displaced, sent, noMemory, writing>>
        /\ app' = "accept aborted" /\ taken' \in taken..MaxConns /\ pc' \in Places
    BY <1>1, <1>2, <1>6 DEF acceptAborts, clients, slots, reading
  <2> QED
    BY <1>4, <2>1, QuietInv DEF Apps
<1>7. CASE recvAborts \/ sendAborts
  <2>1. /\ UNCHANGED <<sockFd, buffers, sendBuffLen, recvBuffLen, nextId, broadcast,
                       rxBuffer, rxBuffLen, delivered, displaced, sent, noMemory, writing>>
        /\ app' = "aborted" /\ taken' \in taken..MaxConns /\ pc' \in Places
    BY <1>1, <1>2, <1>7 DEF recvAborts, sendAborts, clients, slots, reading, peers
  <2>2. noMemory
    <3>1. pc.id \in Ids /\ Open(pc.id) /\ buffers[pc.id] # Parts
      BY <1>1, <1>7 DEF recvAborts, sendAborts, Places, Parts
    <3> QED
      BY <3>1 DEF ConsInv, Equipped
  <2> QED
    BY <1>4, <2>1, <2>2, QuietInv DEF Apps
<1>8. CASE connected
  <2>1. /\ UNCHANGED <<sockFd, buffers, sendBuffLen, recvBuffLen, nextId, broadcast,
                       rxBuffer, rxBuffLen, delivered, displaced, sent, noMemory, writing>>
        /\ taken' \in taken..MaxConns
    BY <1>2, <1>8 DEF connected, clients, slots, reading, peers
  <2>2. pc' \in Places
    BY <1>3, <1>8 DEF connected, Stages
  <2>3. app' \in Apps /\ (~noMemory => app' # "aborted")
    BY <1>4, <1>8 DEF connected, Apps, Readable, ConsInv, Equipped
  <2> QED
    BY <1>4, <2>1, <2>2, <2>3, QuietInv
<1> QED
  BY <1>5, <1>6, <1>7, <1>8

\* A connection is accepted into the next slot, with the buffers b.
LEMMA TakenInv ==
    ASSUME ConsInv, app = "running", taken < MaxConns, ~Open(nextId),
           NEW b \in SUBSET Parts, b = Parts \/ noMemory',
           noMemory' \in BOOLEAN, noMemory => noMemory',
           taken' = taken + 1, sockFd' = [sockFd EXCEPT ![nextId] = taken + 1],
           buffers' = [buffers EXCEPT ![nextId] = b],
           sendBuffLen' = [sendBuffLen EXCEPT ![nextId] = 0],
           \/ recvBuffLen' = [recvBuffLen EXCEPT ![nextId] = 0]
           \/ recvBuffLen' = recvBuffLen /\ "rx" \notin b,
           nextId' \in Ids, pc' \in Places,
           UNCHANGED <<app, broadcast, rxBuffer, rxBuffLen, delivered, displaced, sent, writing>>
    PROVE  ConsInv'
<1>1. nextId \in Ids /\ taken \in Nat /\ taken + 1 \in Conns /\ taken' \in 0..MaxConns
  <2>1. nextId \in Ids /\ taken \in Nat
    BY Types
  <2> QED
    BY <2>1, Constants DEF Conns
<1>2. TypeOK'
  <2>1. 0 \in 0..SendLen /\ 0 \in 0..RecvLen
    BY Constants
  <2>2. sockFd' \in [Ids -> Conns \cup {INVALID}]
    BY <1>1, Types
  <2>3. buffers' \in [Ids -> SUBSET Parts]
    BY <1>1, Types
  <2>4. sendBuffLen' \in [Ids -> 0..SendLen]
    BY <1>1, <2>1, Types
  <2>5. recvBuffLen' \in [Ids -> 0..RecvLen]
    BY <1>1, <2>1, Types
  <2> QED
    BY <1>1, <2>2, <2>3, <2>4, <2>5 DEF ConsInv, TypeOK, Places, Stages
<1>3. AssertsHold'
  BY DEF AssertsHold
<1>4. Equipped'
  <2>1. SUFFICES ASSUME ~noMemory', NEW i \in Ids, sockFd'[i] # INVALID
                 PROVE  buffers'[i] = Parts
    BY DEF Equipped, Open
  <2>2. CASE i = nextId
    BY <1>1, <2>1, <2>2, Types
  <2>3. CASE i # nextId
    BY <1>1, <2>1, <2>3, Types DEF ConsInv, Equipped, Open
  <2> QED
    BY <2>2, <2>3
<1>5. Distinct'
  <2>1. \A i \in Ids : sockFd[i] \in Nat /\ sockFd[i] <= taken
    BY Types, Constants DEF ConsInv, Distinct, INVALID
  <2>2. \A i \in Ids : sockFd'[i] = IF i = nextId THEN taken + 1 ELSE sockFd[i]
    BY Types
  <2>3. \A i \in Ids : sockFd'[i] <= taken'
    BY <1>1, <2>1, <2>2
  <2>4. ASSUME NEW i \in Ids, NEW j \in Ids, sockFd'[i] # INVALID, sockFd'[i] = sockFd'[j]
        PROVE  i = j
    <3>1. CASE i # nextId /\ j # nextId
      BY <2>2, <2>4, <3>1 DEF ConsInv, Distinct, Open
    <3>2. CASE i = nextId \/ j = nextId
      BY <1>1, <2>1, <2>2, <2>4, <3>2
    <3> QED
      BY <3>1, <3>2
  <2> QED
    BY <2>3, <2>4 DEF Distinct, Open
<1>6. Once'
  <2>1. \A c \in Conns : sent'[c] \in Nat /\ sent[c] <= sent'[c]
    BY Types
  <2>2. ASSUME NEW i \in Ids, sockFd'[i] # INVALID, "rx" \in buffers'[i]
        PROVE  /\ sockFd'[i] \in Conns /\ recvBuffLen'[i] \in Nat
               /\ \/ recvBuffLen'[i] = 0
                  \/ /\ sockFd'[i] = sockFd[i] /\ "rx" \in buffers[i]
                     /\ recvBuffLen'[i] + sent[sockFd[i]] <= recvBuffLen[i] + sent'[sockFd[i]]
    <3>1. CASE i = nextId
      BY <1>1, <2>2, <3>1, Types
    <3>2. CASE i # nextId
      <4>1. /\ sockFd'[i] = sockFd[i] /\ buffers'[i] = buffers[i]
            /\ recvBuffLen'[i] = recvBuffLen[i] /\ recvBuffLen[i] \in Nat
        BY <1>1, <3>2, Types
      <4>2. sockFd[i] \in Conns
        BY <2>2, <4>1, Types DEF Open
      <4> QED
        BY <2>1, <2>2, <4>1, <4>2
    <3> QED
      BY <3>1, <3>2
  <2> QED
    BY <2>1, <2>2, OnceKept
<1> QED
  BY <1>2, <1>3, <1>4, <1>5, <1>6 DEF ConsInv

LEMMA AcceptsInv ==
    ASSUME ConsInv, accepts \/ acceptsNoMemory
    PROVE  ConsInv'
<1>1. /\ app = "running" /\ taken < MaxConns /\ nextId \in Ids
      /\ ~Open(nextId) /\ buffers[nextId] = {}
      /\ taken' = taken + 1 /\ sockFd' = [sockFd EXCEPT ![nextId] = taken + 1]
      /\ sendBuffLen' = [sendBuffLen EXCEPT ![nextId] = 0]
      /\ UNCHANGED <<app, broadcast, rxBuffer, rxBuffLen, delivered, displaced, sent, writing>>
  BY Types DEF accepts, acceptsNoMemory, At, reading, emptied
<1>2. pc' \in Places
  BY Types, PlaceType DEF accepts, acceptsNoMemory, Stages
<1>3. nextId' \in Ids
  BY <1>1, Constants DEF accepts, acceptsNoMemory, nextIdAfter
<1>4. CASE accepts
  <2>1. /\ buffers' = [buffers EXCEPT ![nextId] = Parts] /\ noMemory' = noMemory
        /\ recvBuffLen' = [recvBuffLen EXCEPT ![nextId] = 0]
    BY <1>4 DEF accepts, emptied
  <2>2. Parts \in SUBSET Parts /\ noMemory' \in BOOLEAN
    BY <2>1, Types
  <2> QED
    BY <1>1, <1>2, <1>3, <2>1, <2>2, TakenInv
<1>5. CASE acceptsNoMemory
  <2>1. noMemory' = TRUE
    BY <1>5 DEF acceptsNoMemory
  <2>2. CASE UNCHANGED <<buffers, recvBuffLen>>
    <3>1. buffers' = [buffers EXCEPT ![nextId] = {}] /\ "rx" \notin {} /\ {} \in SUBSET Parts
      BY <1>1, <2>2, Types
    <3> QED
      BY <1>1, <1>2, <1>3, <2>1, <2>2, <3>1, TakenInv
  <2>3. CASE /\ buffers' = [buffers EXCEPT ![nextId] = {"send"}]
             /\ recvBuffLen' = [recvBuffLen EXCEPT ![nextId] = 0]
    <3>1. {"send"} \in SUBSET Parts
      BY DEF Parts
    <3> QED
      BY <1>1, <1>2, <1>3, <2>1, <2>3, <3>1, TakenInv
  <2> QED
    BY <1>5, <2>2, <2>3 DEF acceptsNoMemory
<1> QED
  BY <1>4, <1>5

-----------------------------------------------------------------------------
\* Bytes come in, and are appended to what the others are to be sent.
LEMMA RecvBytesInv ==
    ASSUME ConsInv, NEW n \in 0..RecvLen, recvBytes(n)
    PROVE  ConsInv'
<1> DEFINE i == pc.id
           c == sockFd[i]
           m == sendBuffLen[i]
           D == IF broadcast THEN BroadcastTo(i) ELSE {}
           all == recvBuffLen[i] + n
<1>1. /\ i \in Ids /\ c \in Conns /\ m \in Nat /\ recvBuffLen[i] \in 0..RecvLen /\ n \in Nat
      /\ "rx" \in buffers[i] /\ all \in 0..RecvLen /\ app = "running"
  <2>1. i \in Ids
    BY Types DEF Places
  <2>2. Open(i) /\ "rx" \in buffers[i] /\ n <= Space(i) /\ app = "running"
    BY DEF recvBytes, At
  <2>3. c \in Conns /\ m \in Nat /\ recvBuffLen[i] \in 0..RecvLen
    BY <2>1, <2>2, Types
  <2> QED
    BY <2>1, <2>2, <2>3, Constants DEF Space
<1>2. /\ sent' = [sent EXCEPT ![c] = sent[c] + n]
      /\ recvBuffLen' = [recvBuffLen EXCEPT ![i] = all]
      /\ app' = IF Overruns(D, m, all) THEN "overrun"
                ELSE IF Aborts(D, m) THEN "aborted" ELSE app
      /\ sendBuffLen' = IF Overruns(D, m, all) THEN sendBuffLen ELSE Appended(D, m, all)
      /\ Total(sent, Conns) + n <= MaxSent
      /\ UNCHANGED <<sockFd, buffers, nextId, broadcast, rxBuffer, rxBuffLen, delivered,
                     displaced, taken, noMemory, writing>>
  BY DEF recvBytes, reading
<1>3. sent[c] + n \in 0..MaxSent
  <2>1. \A d \in Conns : sent[d] \in Nat
    BY Types
  <2>2. Total(sent, Conns) \in Nat /\ sent[c] <= Total(sent, Conns)
    BY <1>1, <2>1, Constants, SumType, SumAtLeast DEF Total
  <2> HIDE DEF c
  <2> QED
    BY <1>1, <1>2, <2>1, <2>2, Constants
<1>4. D \in SUBSET Ids /\ D \subseteq Readable /\ all \in Nat
  BY <1>1 DEF BroadcastTo, Readable
<1> HIDE DEF i, c, m, D, all
<1>5. TypeOK'
  <2>1. app' \in Apps
    BY <1>1, <1>2 DEF Apps
  <2>2. sendBuffLen' \in [Ids -> 0..SendLen]
    BY <1>1, <1>2, <1>4, Types, AppendedType
  <2>3. recvBuffLen' \in [Ids -> 0..RecvLen]
    BY <1>1, <1>2, Types
  <2>4. sent' \in [Conns -> 0..MaxSent]
    BY <1>1, <1>2, <1>3, Types
  <2>5. pc' \in Places
    BY Types, PlaceType DEF recvBytes, Stages
  <2> QED
    BY <1>2, <2>1, <2>2, <2>3, <2>4, <2>5 DEF ConsInv, TypeOK, Apps, Places, Stages
<1>6. AssertsHold' /\ Equipped' /\ Distinct'
  <2>1. ~noMemory => app' # "aborted"
    BY <1>1, <1>2, <1>4, AppendedType
  <2> QED
    BY <1>2, <2>1 DEF ConsInv, AssertsHold, Equipped, Distinct, Open
<1>7. Once'
  <2>1. /\ \A d \in Conns : sent[d] \in Nat /\ sent'[d] = IF d = c THEN sent[d] + n ELSE sent[d]
        /\ \A j \in Ids : /\ recvBuffLen[j] \in Nat
                          /\ recvBuffLen'[j] = IF j = i THEN recvBuffLen[j] + n ELSE recvBuffLen[j]
    BY <1>1, <1>2, Types DEF all
  <2>2. \A d \in Conns : sent'[d] \in Nat /\ sent[d] <= sent'[d]
    BY <1>1, <2>1
  <2>3. ASSUME NEW j \in Ids, sockFd'[j] # INVALID, "rx" \in buffers'[j]
        PROVE  /\ sockFd'[j] \in Conns /\ recvBuffLen'[j] \in Nat
               /\ sockFd'[j] = sockFd[j] /\ "rx" \in buffers[j]
               /\ recvBuffLen'[j] + sent[sockFd[j]] <= recvBuffLen[j] + sent'[sockFd[j]]
    <3>1. sockFd[j] \in Conns /\ sockFd'[j] = sockFd[j] /\ "rx" \in buffers[j]
      BY <1>2, <2>3, Types DEF Open
    <3>2. CASE j = i
      BY <1>1, <2>1, <3>1, <3>2 DEF c
    <3>3. CASE j # i
      BY <1>1, <2>1, <2>2, <3>1, <3>3
    <3> QED
      BY <3>1, <3>2, <3>3
  <2> QED
    BY <1>1, <1>2, <2>2, <2>3, OnceKept
<1> QED
  BY <1>5, <1>6, <1>7 DEF ConsInv

-----------------------------------------------------------------------------
\* Steps after which a slot has the connection it had, and no more bytes from it, or
\* none.
LEMMA FewerInv ==
    ASSUME ConsInv, app = "running", app' \in Apps, ~noMemory => app' # "aborted",
           \A i \in Ids : sockFd'[i] \in {sockFd[i], INVALID},
           \A i \in Ids : sockFd'[i] # INVALID =>
              buffers'[i] = buffers[i] /\ recvBuffLen'[i] <= recvBuffLen[i],
           sockFd' \in [Ids -> Conns \cup {INVALID}], buffers' \in [Ids -> SUBSET Parts],
           sendBuffLen' \in [Ids -> 0..SendLen], recvBuffLen' \in [Ids -> 0..RecvLen],
           nextId' \in Ids, broadcast' \in BOOLEAN, writing' \in 0..DataSize, pc' \in Places,
           UNCHANGED <<rxBuffer, rxBuffLen, delivered, displaced, sent, noMemory, taken>>
    PROVE  ConsInv'
<1>1. TypeOK'
  BY DEF ConsInv, TypeOK, Apps, Places, Stages
<1>2. AssertsHold' /\ Equipped'
  <2>1. \A i \in Ids : sockFd'[i] # INVALID => sockFd[i] # INVALID
    OBVIOUS
  <2> QED
    BY <2>1 DEF ConsInv, AssertsHold, Equipped, Open
<1>3. Distinct'
  <2>1. \A i \in Ids : sockFd[i] \in Nat /\ sockFd[i] <= taken
    BY Types, Constants DEF ConsInv, Distinct, INVALID
  <2>2. taken \in Nat
    BY Types
  <2>3. \A i \in Ids : sockFd'[i] <= taken'
    BY <2>1, <2>2 DEF INVALID
  <2>4. ASSUME NEW i \in Ids, NEW j \in Ids, sockFd'[i] # INVALID, sockFd'[i] = sockFd'[j]
        PROVE  i = j
    BY <2>4 DEF ConsInv, Distinct, Open
  <2> QED
    BY <2>3, <2>4 DEF Distinct, Open
<1>4. Once'
  <2>1. \A c \in Conns : sent[c] \in Nat /\ sent'[c] = sent[c]
    BY Types
  <2>2. ASSUME NEW i \in Ids, sockFd'[i] # INVALID, "rx" \in buffers'[i]
        PROVE  /\ sockFd'[i] \in Conns /\ recvBuffLen'[i] \in Nat
               /\ sockFd'[i] = sockFd[i] /\ "rx" \in buffers[i]
               /\ recvBuffLen'[i] + sent[sockFd[i]] <= recvBuffLen[i] + sent'[sockFd[i]]
    <3>1. sockFd'[i] = sockFd[i] /\ "rx" \in buffers[i] /\ recvBuffLen'[i] <= recvBuffLen[i]
      BY <2>2
    <3>2. sockFd'[i] \in Conns /\ recvBuffLen'[i] \in Nat /\ recvBuffLen[i] \in Nat
      BY <2>2, Types
    <3> QED
      BY <2>1, <3>1, <3>2
  <2> QED
    BY <2>1, <2>2, OnceKept
<1> QED
  BY <1>1, <1>2, <1>3, <1>4 DEF ConsInv

\* The end of a stream, and what a slot sends.
LEMMA TurnInv ==
    ASSUME ConsInv, recvEnd \/ sends
    PROVE  ConsInv'
<1> DEFINE i == pc.id
<1>1. /\ i \in Ids /\ app = "running"
      /\ UNCHANGED <<app, recvBuffLen, nextId, broadcast, rxBuffer, rxBuffLen, delivered,
                     displaced, sent, noMemory, taken, writing>>
  BY Types DEF recvEnd, sends, At, Places, reading, peers, slots
<1>2. pc' \in Places
  BY Types, PlaceType DEF recvEnd, sends, Stages
<1>3. /\ \/ UNCHANGED <<sockFd, buffers>>
         \/ /\ sockFd' = [sockFd EXCEPT ![i] = INVALID]
            /\ buffers' = [buffers EXCEPT ![i] = {}]
      /\ \/ UNCHANGED sendBuffLen
         \/ \E n \in 0..sendBuffLen[i] : sendBuffLen' = [sendBuffLen EXCEPT ![i] = n]
  <2>1. sendBuffLen[i] \in Nat
    BY <1>1, Types
  <2>2. 0 \in 0..sendBuffLen[i]
    BY <2>1
  <2>3. \A n \in 1..sendBuffLen[i] : sendBuffLen[i] - n \in 0..sendBuffLen[i]
    BY <2>1
  <2> HIDE DEF i
  <2>4. CASE recvEnd
    BY <2>2, <2>4 DEF recvEnd, closes, i
  <2>5. CASE sends
    <3>1. CASE UNCHANGED slots
      BY <3>1 DEF slots
    <3>2. CASE /\ \E n \in 1..sendBuffLen[i] : sendBuffLen' = [sendBuffLen EXCEPT ![i] = sendBuffLen[i] - n]
               /\ UNCHANGED <<sockFd, buffers, recvBuffLen>>
      BY <2>3, <3>2
    <3>3. CASE closes(i)
      BY <2>2, <3>3 DEF closes
    <3> QED
      BY <2>5, <3>1, <3>2, <3>3 DEF sends, i
  <2> QED
    BY <2>4, <2>5
<1> HIDE DEF i
<1>4. sockFd' \in [Ids -> Conns \cup {INVALID}] /\ \A j \in Ids : sockFd'[j] \in {sockFd[j], INVALID}
  BY <1>1, <1>3, Types
<1>5. /\ buffers' \in [Ids -> SUBSET Parts]
      /\ \A j \in Ids : sockFd'[j] # INVALID => buffers'[j] = buffers[j]
  BY <1>1, <1>3, Types
<1>6. sendBuffLen' \in [Ids -> 0..SendLen]
  <2>1. \A n \in 0..sendBuffLen[i] : n \in 0..SendLen
    <3>1. sendBuffLen[i] \in 0..SendLen
      BY <1>1, Types
    <3> QED
      BY <3>1, Constants
  <2>2. sendBuffLen \in [Ids -> 0..SendLen]
    BY Types
  <2>3. CASE UNCHANGED sendBuffLen
    BY <2>2, <2>3
  <2>4. ASSUME NEW n \in 0..sendBuffLen[i], sendBuffLen' = [sendBuffLen EXCEPT ![i] = n]
        PROVE  sendBuffLen' \in [Ids -> 0..SendLen]
    BY <2>1, <2>2, <2>4
  <2> QED
    BY <1>3, <2>3, <2>4
<1>7. \A j \in Ids : recvBuffLen'[j] <= recvBuffLen[j]
  BY <1>1, Types
<1>8. /\ recvBuffLen' \in [Ids -> 0..RecvLen] /\ nextId' \in Ids /\ broadcast' \in BOOLEAN
      /\ writing' \in 0..DataSize /\ app' \in Apps /\ app' # "aborted"
  BY <1>1, Types DEF Apps
<1> QED
  BY <1>1, <1>2, <1>4, <1>5, <1>6, <1>7, <1>8, FewerInv

\* Starving clients are dropped.
LEMMA DropsInv ==
    ASSUME ConsInv, drops
    PROVE  ConsInv'
<1>1. /\ app = "running"
      /\ sockFd' = [i \in Ids |-> IF i \in Starving THEN INVALID ELSE sockFd[i]]
      /\ buffers' = [i \in Ids |-> IF i \in Starving THEN {} ELSE buffers[i]]
      /\ sendBuffLen' = [i \in Ids |-> IF i \in Starving THEN 0 ELSE sendBuffLen[i]]
      /\ UNCHANGED <<app, recvBuffLen, nextId, broadcast, rxBuffer, rxBuffLen, delivered,
                     displaced, sent, noMemory, taken, writing>>
  BY DEF drops, At, reading, peers
<1>2. pc' \in Places
  BY Types, PlaceType DEF drops, Stages
<1>3. sockFd' \in [Ids -> Conns \cup {INVALID}] /\ \A j \in Ids : sockFd'[j] \in {sockFd[j], INVALID}
  BY <1>1, Types
<1>4. /\ buffers' \in [Ids -> SUBSET Parts]
      /\ \A j \in Ids : sockFd'[j] # INVALID => buffers'[j] = buffers[j]
  BY <1>1, Types
<1>5. sendBuffLen' \in [Ids -> 0..SendLen]
  <2>1. 0 \in 0..SendLen
    BY Constants
  <2> QED
    BY <1>1, <2>1, Types
<1>6. \A j \in Ids : recvBuffLen'[j] <= recvBuffLen[j]
  BY <1>1, Types
<1>7. /\ recvBuffLen' \in [Ids -> 0..RecvLen] /\ nextId' \in Ids /\ broadcast' \in BOOLEAN
      /\ writing' \in 0..DataSize /\ app' \in Apps /\ app' # "aborted"
  BY <1>1, Types DEF Apps
<1> QED
  BY <1>1, <1>2, <1>3, <1>4, <1>5, <1>6, <1>7, FewerInv

\* A WRITE, answered or not.
LEMMA WriteInv ==
    ASSUME ConsInv, NEW len \in 1..DataSize, write(len)
    PROVE  ConsInv'
<1>1. /\ app = "running" /\ len \in Nat
      /\ sendBuffLen' = Appended(Readable, len, len)
      /\ app' = IF Aborts(Readable, len) THEN "aborted" ELSE app
      /\ writing' = IF Fails(Readable, len) = {} THEN 0 ELSE len
      /\ UNCHANGED <<sockFd, buffers, recvBuffLen, nextId, broadcast, rxBuffer, rxBuffLen,
                     delivered, displaced, sent, noMemory, taken>>
  BY Constants DEF write, At, reading, peers
<1>2. pc' \in Places
  BY Types, PlaceType DEF write, Stages
<1>3. /\ sendBuffLen' \in [Ids -> 0..SendLen]
      /\ ~noMemory => ~Aborts(Readable, len)
  BY <1>1, AppendedType DEF Readable
<1>4. app' \in Apps /\ (~noMemory => app' # "aborted")
  BY <1>1, <1>3 DEF Apps
<1>5. writing' \in 0..DataSize
  BY <1>1, Constants
<1>6. \A j \in Ids : recvBuffLen'[j] <= recvBuffLen[j]
  BY <1>1, Types
<1>7. /\ recvBuffLen' \in [Ids -> 0..RecvLen] /\ nextId' \in Ids /\ broadcast' \in BOOLEAN
      /\ sockFd' \in [Ids -> Conns \cup {INVALID}] /\ buffers' \in [Ids -> SUBSET Parts]
      /\ \A j \in Ids : sockFd'[j] \in {sockFd[j], INVALID} /\ buffers'[j] = buffers[j]
  BY <1>1, Types
<1> QED
  BY <1>1, <1>2, <1>3, <1>4, <1>5, <1>6, <1>7, FewerInv

\* RESET closes every slot; what READ left over stays.
LEMMA ResetInv ==
    ASSUME ConsInv, reset
    PROVE  ConsInv'
<1>1. /\ app = "running" /\ sockFd' = [i \in Ids |-> INVALID]
      /\ sendBuffLen' = [i \in Ids |-> IF Open(i) THEN 0 ELSE sendBuffLen[i]]
      /\ recvBuffLen' = [i \in Ids |-> IF Open(i) THEN 0 ELSE recvBuffLen[i]]
      /\ nextId' = 0 /\ broadcast' = FALSE /\ writing' = 0
      /\ UNCHANGED <<app, buffers, rxBuffer, rxBuffLen, delivered, displaced, sent, noMemory, taken>>
  BY DEF reset, resetSockets, At, reading, peers
<1>2. pc' \in Places
  BY Types, PlaceType DEF reset, Stages
<1>3. 0 \in 0..SendLen /\ 0 \in 0..RecvLen /\ 0 \in 0..DataSize /\ 0 \in Ids
  BY Constants
<1>4. sendBuffLen' \in [Ids -> 0..SendLen]
  BY <1>1, <1>3, Types
<1>5. recvBuffLen' \in [Ids -> 0..RecvLen]
  BY <1>1, <1>3, Types
<1>6. /\ nextId' \in Ids /\ broadcast' \in BOOLEAN /\ writing' \in 0..DataSize
      /\ sockFd' \in [Ids -> Conns \cup {INVALID}] /\ buffers' \in [Ids -> SUBSET Parts]
      /\ \A j \in Ids : sockFd'[j] = INVALID
      /\ app' \in Apps /\ app' # "aborted"
  BY <1>1, <1>3, Types DEF Apps
<1> QED
  BY <1>1, <1>2, <1>4, <1>5, <1>6, FewerInv

\* A restart forgets every connection and what READ left over.
LEMMA RestartInv ==
    ASSUME ConsInv, restart
    PROVE  ConsInv'
<1>1. /\ app # "overrun" /\ app' = "running" /\ Goto("accept")
      /\ sockFd' = [i \in Ids |-> INVALID] /\ buffers' = [i \in Ids |-> {}]
      /\ sendBuffLen' = [i \in Ids |-> 0] /\ recvBuffLen' = [i \in Ids |-> 0]
      /\ nextId' = 0 /\ broadcast' = TRUE
      /\ rxBuffer' = [k \in 0..RxSize - 1 |-> NUL] /\ rxBuffLen' = 0
      /\ UNCHANGED <<delivered, displaced, taken, sent, noMemory, writing>>
  BY DEF restart, peers
<1>2. pc' \in Places
  BY <1>1, Types, PlaceType DEF Stages
<1>3. /\ 0 \in 0..SendLen /\ 0 \in 0..RecvLen /\ 0 \in 0..RxSize /\ 0 \in Ids
  BY Constants
<1>4. TypeOK'
  <2>1. /\ sockFd' \in [Ids -> Conns \cup {INVALID}] /\ buffers' \in [Ids -> SUBSET Parts]
        /\ rxBuffer' \in [0..RxSize - 1 -> Conns \cup {NUL}]
        /\ sendBuffLen' \in [Ids -> 0..SendLen] /\ recvBuffLen' \in [Ids -> 0..RecvLen]
    BY <1>1, <1>3
  <2> QED
    BY <1>1, <1>2, <1>3, <2>1 DEF ConsInv, TypeOK, Places, Stages
<1>5. AssertsHold' /\ Equipped'
  BY <1>1 DEF AssertsHold, Equipped, Open
<1>6. Distinct'
  <2>1. taken \in Nat
    BY Types
  <2> QED
    BY <1>1, <2>1 DEF Distinct, Open, INVALID
<1>7. Once'
  <2>1. SUFFICES ASSUME ~displaced
                 PROVE  Filled' /\ Accounted' /\ Waiting'
    BY <1>1 DEF Once
  <2>2. Filled' /\ Waiting'
    BY <1>1 DEF Filled, Waiting, Open
  <2>3. Accounted'
    <3>1. \A c \in Conns : delivered[c] + Held(c) <= sent[c]
      BY <1>1, <2>1 DEF ConsInv, Once, Accounted
    <3>2. \A c \in Conns : Held(c) \in Nat /\ delivered[c] \in Nat /\ sent[c] \in Nat
      BY Types, HeldType
    <3>3. \A c : Held(c)' = 0
      <4>1. 0..rxBuffLen' - 1 = {}
        BY <1>1
      <4> QED
        BY <4>1, FS_EmptySet DEF Held, Count
    <3>4. ASSUME NEW c \in Conns
          PROVE  delivered'[c] + Held(c)' <= sent'[c]
      BY <1>1, <3>1, <3>2, <3>3
    <3> QED
      BY <3>4 DEF Accounted
  <2> QED
    BY <2>2, <2>3
<1> QED
  BY <1>4, <1>5, <1>6, <1>7 DEF ConsInv

-----------------------------------------------------------------------------
\* What READ collects: the bytes of the slots lie one after the other.
LEMMA BeforeType ==
    ASSUME ConsInv
    PROVE  /\ \A S \in SUBSET Ids : IsFiniteSet(S) /\ Total(recvBuffLen, S) \in Nat
           /\ \A i \in Ids : Before(i) \in Nat /\ recvBuffLen[i] \in Nat
           /\ MovedLen \in Nat
<1>1. \A i \in Ids : recvBuffLen[i] \in Nat
  BY Types
<1>2. ASSUME NEW S \in SUBSET Ids
      PROVE  IsFiniteSet(S) /\ Total(recvBuffLen, S) \in Nat
  BY <1>1, <1>2, Constants, FS_Subset, SumType DEF Total
<1>3. \A i : Below(Readable, i) \in SUBSET Ids
  BY DEF Below, Readable
<1>4. Moved \in SUBSET Ids
  BY DEF Moved, Readable
<1> QED
  BY <1>1, <1>2, <1>3, <1>4 DEF Before, MovedLen

\* The bytes up to those of slot i, and these.
LEMMA UpTo ==
    ASSUME ConsInv, NEW i \in Ids
    PROVE  Total(recvBuffLen, Below(Readable, i) \cup {i}) = Before(i) + recvBuffLen[i]
<1> DEFINE S == Below(Readable, i) \cup {i}
<1>1. S \in SUBSET Ids /\ S \ {i} = Below(Readable, i) /\ i \in S
  BY Constants DEF Below, Readable
<1>2. \A j \in S : recvBuffLen[j] \in Nat
  BY <1>1, BeforeType
<1>3. IsFiniteSet(S)
  BY <1>1, BeforeType
<1>4. Total(recvBuffLen, S) = recvBuffLen[i] + Total(recvBuffLen, S \ {i})
  <2> HIDE DEF S
  <2> QED
    BY <1>1, <1>2, <1>3, SumRemove DEF Total
<1>5. Total(recvBuffLen, S) = recvBuffLen[i] + Before(i)
  BY <1>1, <1>4 DEF Before
<1> QED
  BY <1>5, BeforeType

LEMMA PartOf ==
    ASSUME ConsInv, NEW S \in SUBSET Ids, NEW T \in SUBSET S
    PROVE  Total(recvBuffLen, T) <= Total(recvBuffLen, S)
<1>1. IsFiniteSet(S) /\ \A j \in S : recvBuffLen[j] \in Nat
  BY BeforeType
<1> QED
  BY <1>1, SumSubset DEF Total

LEMMA BeforeNext ==
    ASSUME ConsInv, NEW i \in Readable, NEW j \in Readable, i < j
    PROVE  Before(i) + recvBuffLen[i] <= Before(j)
<1>1. i \in Ids /\ j \in Ids /\ i \in Nat /\ j \in Nat
  BY Constants DEF Readable
<1>2. Below(Readable, i) \cup {i} \in SUBSET Below(Readable, j)
  <2>1. ASSUME NEW k \in Readable, k < i
        PROVE  k < j
    <3>1. k \in Nat
      BY Constants DEF Readable
    <3> QED
      BY <1>1, <2>1, <3>1
  <2>2. \A k \in Below(Readable, i) : k \in Readable /\ k < j
    BY <2>1 DEF Below
  <2> QED
    BY <2>2 DEF Below
<1>3. Below(Readable, j) \in SUBSET Ids
  BY DEF Below, Readable
<1>4. Total(recvBuffLen, Below(Readable, i) \cup {i}) <= Before(j)
  BY <1>2, <1>3, PartOf DEF Before
<1> QED
  BY <1>1, <1>4, UpTo

\* The slots whose bytes are moved are the first ones.
LEMMA MovedFirst ==
    ASSUME ConsInv, NEW i \in Moved
    PROVE  /\ i \in Readable /\ i \in Ids
           /\ Below(Readable, i) \cup {i} \subseteq Moved
           /\ Before(i) + recvBuffLen[i] <= MovedLen
<1>1. i \in Readable /\ i \in Ids /\ rxBuffLen \in Nat
  BY HeldType DEF Moved, Readable
<1>2. ASSUME NEW j \in Readable, j < i
      PROVE  j \in Moved
  <2>1. Before(j) + recvBuffLen[j] <= Before(i)
    BY <1>1, <1>2, BeforeNext
  <2>2. rxBuffLen + Before(i) + recvBuffLen[i] <= RxSize
    BY DEF Moved
  <2>3. /\ Before(i) \in Nat /\ recvBuffLen[i] \in Nat /\ Before(j) \in Nat
        /\ recvBuffLen[j] \in Nat /\ RxSize \in Nat
    BY <1>1, BeforeType, Constants DEF Readable
  <2>4. rxBuffLen + Before(j) + recvBuffLen[j] <= RxSize
    BY <1>1, <2>1, <2>2, <2>3
  <2> QED
    BY <2>4 DEF Moved
<1>3. Below(Readable, i) \cup {i} \subseteq Moved
  BY <1>2 DEF Below
<1>4. Moved \in SUBSET Ids
  BY DEF Moved, Readable
<1>5. Total(recvBuffLen, Below(Readable, i) \cup {i}) <= MovedLen
  BY <1>3, <1>4, PartOf DEF MovedLen
<1> QED
  BY <1>1, <1>3, <1>5, UpTo

\* Every byte collected is one of a slot.
Bytes(i) == Before(i)..Before(i) + recvBuffLen[i] - 1

LEMMA Covered ==
    ASSUME ConsInv, NEW k \in 0..MovedLen - 1
    PROVE  \E i \in Moved : k \in Bytes(i)
<1>1. MovedLen \in Nat /\ k \in Nat /\ k < MovedLen
  BY BeforeType
<1>2. /\ Moved \subseteq Ids /\ Ids \subseteq Nat /\ MaxClients - 1 \in Nat
      /\ Ids = 0..MaxClients - 1
  BY Constants DEF Moved, Readable, Ids
<1>3. \A i \in Ids : Before(i) \in Nat /\ recvBuffLen[i] \in Nat
  BY BeforeType
<1> DEFINE Ends == {i \in Moved : k < Before(i) + recvBuffLen[i]}
<1>4. Ends # {}
  <2>1. Moved # {}
    <3>1. Moved = {} => MovedLen = 0
      BY FS_EmptySet, SumStep DEF MovedLen, Total
    <3> QED
      BY <1>1, <3>1
  <2>2. PICK m \in Moved : \A y \in Moved : y <= m
    <3>1. Moved \in SUBSET (0..MaxClients - 1)
      BY <1>2
    <3> QED
      BY <1>2, <2>1, <3>1, GreatestOf
  <2>3. Moved = Below(Readable, m) \cup {m}
    <3>1. Below(Readable, m) \cup {m} \subseteq Moved
      BY MovedFirst
    <3>2. \A y \in Moved : y \in Readable /\ (y = m \/ y < m)
      BY <1>2, <2>2 DEF Moved
    <3> QED
      BY <3>1, <3>2 DEF Below
  <2>4. MovedLen = Before(m) + recvBuffLen[m]
    BY <1>2, <2>3, UpTo DEF MovedLen
  <2> QED
    BY <1>1, <2>4
<1>5. PICK i \in Ends : \A j \in Ends : i <= j
  <2>1. Ends \subseteq Nat
    BY <1>2
  <2> HIDE DEF Ends
  <2> QED
    BY <1>4, <2>1, LeastOf
<1>6. i \in Moved /\ i \in Ids /\ k < Before(i) + recvBuffLen[i]
  BY <1>2
<1>7. Before(i) <= k
  <2>1. CASE Below(Readable, i) = {}
    <3>1. Before(i) = 0
      BY <2>1, FS_EmptySet, SumStep DEF Before, Total
    <3> QED
      BY <1>1, <3>1
  <2>2. CASE Below(Readable, i) # {}
    <3>1. Below(Readable, i) \in SUBSET (0..MaxClients - 1)
      BY <1>2 DEF Below, Readable
    <3>2. PICK j \in Below(Readable, i) : \A y \in Below(Readable, i) : y <= j
      BY <1>2, <2>2, <3>1, GreatestOf
    <3>3. j \in Readable /\ j < i /\ j \in Ids /\ j \in Moved
      <4>1. j \in Readable /\ j < i /\ j \in Moved
        BY <1>6, <3>2, MovedFirst DEF Below
      <4> QED
        BY <1>2, <4>1
    <3>4. Below(Readable, i) = Below(Readable, j) \cup {j}
      <4>1. \A y \in Readable : y \in Nat
        BY <1>2 DEF Readable
      <4>2. i \in Nat /\ j \in Nat
        BY <1>2, <1>6, <3>3
      <4>3. \A y \in Below(Readable, i) : y \in Readable /\ (y = j \/ y < j)
        BY <3>2, <4>1, <4>2 DEF Below
      <4>4. \A y \in Readable : y < j => y < i
        BY <3>3, <4>1, <4>2
      <4> QED
        BY <3>3, <4>3, <4>4 DEF Below
    <3>5. Before(i) = Before(j) + recvBuffLen[j]
      BY <3>3, <3>4, UpTo DEF Before
    <3>6. j \notin Ends
      <4>1. i \in Nat /\ j \in Nat
        BY <1>2, <1>6, <3>3
      <4> HIDE DEF Ends
      <4> QED
        BY <1>5, <3>3, <4>1
    <3>7. ~(k < Before(j) + recvBuffLen[j])
      BY <3>3, <3>6
    <3> QED
      BY <1>1, <1>3, <3>3, <3>5, <3>7
  <2> QED
    BY <2>1, <2>2
<1> HIDE DEF Ends
<1> QED
  BY <1>1, <1>3, <1>6, <1>7 DEF Bytes

\* A byte of slot i is its connection's.
LEMMA OwnerOf ==
    ASSUME ConsInv, NEW i \in Moved, NEW k \in Bytes(i)
    PROVE  Owner(k) = sockFd[i]
<1> DEFINE P(j) == j \in Moved /\ k \in Bytes(j)
           x == CHOOSE j \in Moved : k \in Bytes(j)
<1>1. x \in Moved /\ k \in Bytes(x)
  OBVIOUS
<1>2. Owner(k) = sockFd[x]
  BY DEF Owner, Bytes
<1> HIDE DEF x
<1>3. x = i
  <2>1. /\ x \in Readable /\ i \in Readable /\ x \in Nat /\ i \in Nat
        /\ Before(x) \in Nat /\ Before(i) \in Nat /\ recvBuffLen[x] \in Nat /\ recvBuffLen[i] \in Nat
    BY <1>1, MovedFirst, BeforeType, Constants
  <2>2. k \in Int /\ Before(x) <= k /\ k < Before(x) + recvBuffLen[x]
        /\ Before(i) <= k /\ k < Before(i) + recvBuffLen[i]
    BY <1>1, <2>1 DEF Bytes
  <2>3. ~(x < i)
    BY <2>1, <2>2, BeforeNext
  <2>4. ~(i < x)
    BY <2>1, <2>2, BeforeNext
  <2> QED
    BY <2>1, <2>3, <2>4
<1> QED
  BY <1>2, <1>3

\* How many of the collected bytes are a connection's: those of its slot.
LEMMA OwnedCount ==
    ASSUME ConsInv, NEW b, \A k \in 0..MovedLen - 1 : b[k] = Owner(k), NEW c \in Conns
    PROVE  /\ \A i \in Moved : sockFd[i] = c => Count(b, MovedLen, c) = recvBuffLen[i]
           /\ (\A i \in Moved : sockFd[i] # c) => Count(b, MovedLen, c) = 0
<1>1. \A k \in 0..MovedLen - 1 : \E j \in Moved : k \in Bytes(j) /\ b[k] = sockFd[j]
  BY Covered, OwnerOf
<1>2. ASSUME NEW i \in Moved, sockFd[i] = c
      PROVE  Count(b, MovedLen, c) = recvBuffLen[i]
  <2>1. /\ i \in Ids /\ Before(i) \in Nat /\ recvBuffLen[i] \in Nat /\ MovedLen \in Nat
        /\ Before(i) + recvBuffLen[i] <= MovedLen
    BY MovedFirst, BeforeType
  <2>2. \A k \in Bytes(i) : k \in 0..MovedLen - 1 /\ b[k] = c
    BY <1>2, <2>1, OwnerOf DEF Bytes
  <2>3. ASSUME NEW k \in 0..MovedLen - 1, b[k] = c
        PROVE  k \in Bytes(i)
    <3>1. PICK j \in Moved : k \in Bytes(j) /\ b[k] = sockFd[j]
      BY <1>1
    <3>2. i = j
      <4>1. i \in Ids /\ j \in Ids /\ Open(i)
        BY MovedFirst DEF Readable
      <4> QED
        BY <1>2, <2>3, <3>1, <4>1 DEF ConsInv, Distinct
    <3> QED
      BY <3>1, <3>2
  <2>4. {k \in 0..MovedLen - 1 : b[k] = c} = Bytes(i)
    BY <2>2, <2>3
  <2>5. Cardinality(Bytes(i)) = recvBuffLen[i]
    <3> DEFINE lo == Before(i)
               hi == Before(i) + recvBuffLen[i] - 1
    <3>1. lo \in Int /\ hi \in Int
      BY <2>1
    <3>2. Cardinality(lo..hi) = IF lo > hi THEN 0 ELSE hi - lo + 1
      <4> HIDE DEF lo, hi
      <4> QED
        BY <3>1, FS_Interval
    <3>3. (IF lo > hi THEN 0 ELSE hi - lo + 1) = recvBuffLen[i]
      BY <2>1
    <3> QED
      BY <3>2, <3>3 DEF Bytes
  <2> QED
    BY <2>4, <2>5 DEF Count
<1>3. ASSUME \A i \in Moved : sockFd[i] # c
      PROVE  Count(b, MovedLen, c) = 0
  <2>1. {k \in 0..MovedLen - 1 : b[k] = c} = {}
    BY <1>1, <1>3
  <2> QED
    BY <2>1, FS_EmptySet DEF Count
<1> QED
  BY <1>2, <1>3

\* What the buffer holds once READ has collected: bytes of connections, which fit
\* unless there are left-over ones that are more than the room behind them.
LEMMA CollectedType ==
    ASSUME ConsInv
    PROVE  /\ Collected \in [0..RxSize - 1 -> Conns \cup {NUL}]
           /\ MovedLen = 0 => \A k \in 0..rxBuffLen - 1 : Collected[k] = rxBuffer[k]
           /\ rxBuffLen = 0 /\ MovedLen <= RxSize =>
                 \A k \in 0..MovedLen - 1 : Collected[k] = Owner(k) /\ Collected[k] # NUL
           /\ ~(MovedLen > 0 /\ Base + MovedLen > RxSize) => rxBuffLen + MovedLen \in 0..RxSize
<1>1. /\ rxBuffLen \in Nat /\ MovedLen \in Nat /\ RxSize \in Nat /\ rxBuffLen <= RxSize
      /\ Base \in Nat /\ Base = 2 * rxBuffLen
  <2>1. rxBuffLen \in Nat /\ MovedLen \in Nat /\ RxSize \in Nat /\ rxBuffLen \in 0..RxSize
    BY Types, HeldType, BeforeType, Constants
  <2> QED
    BY <2>1 DEF Base
<1>2. ASSUME NEW k \in 0..MovedLen - 1
      PROVE  Owner(k) \in Conns
  <2>1. PICK j \in Moved : k \in Bytes(j)
    BY Covered
  <2>2. sockFd[j] \in Conns
    BY MovedFirst, Types DEF Readable
  <2> QED
    BY <2>1, <2>2, OwnerOf
<1>3. ASSUME NEW k \in 0..RxSize - 1
      PROVE  Collected[k] = IF k \in Base..Base + MovedLen - 1 THEN Owner(k - Base) ELSE rxBuffer[k]
  BY DEF Collected
<1>4. ASSUME NEW k \in 0..RxSize - 1
      PROVE  Collected[k] \in Conns \cup {NUL}
  <2>1. CASE k \in Base..Base + MovedLen - 1
    <3>1. k - Base \in 0..MovedLen - 1
      BY <1>1, <2>1
    <3> QED
      BY <1>2, <1>3, <2>1, <3>1
  <2>2. CASE k \notin Base..Base + MovedLen - 1
    BY <1>3, <2>2, Types
  <2> QED
    BY <2>1, <2>2
<1>5. Collected = [k \in 0..RxSize - 1 |-> Collected[k]]
  BY DEF Collected
<1>6. Collected \in [0..RxSize - 1 -> Conns \cup {NUL}]
  BY <1>4, <1>5
<1>7. ASSUME MovedLen = 0, NEW k \in 0..rxBuffLen - 1
      PROVE  Collected[k] = rxBuffer[k]
  <2>1. k \in 0..RxSize - 1 /\ k \notin Base..Base + MovedLen - 1
    BY <1>1, <1>7
  <2> QED
    BY <1>3, <2>1
<1>8. ASSUME rxBuffLen = 0, MovedLen <= RxSize, NEW k \in 0..MovedLen - 1
      PROVE  Collected[k] = Owner(k) /\ Collected[k] # NUL
  <2>1. k \in 0..RxSize - 1 /\ k \in Base..Base + MovedLen - 1 /\ k - Base = k
    BY <1>1, <1>8
  <2>2. Collected[k] = Owner(k)
    BY <1>3, <2>1
  <2> QED
    BY <1>2, <2>2, Constants
<1>9. ~(MovedLen > 0 /\ Base + MovedLen > RxSize) => rxBuffLen + MovedLen \in 0..RxSize
  BY <1>1
<1> QED
  BY <1>6, <1>7, <1>8, <1>9

\* Of a connection it holds, besides what was there, what its slot held.
LEMMA CollectedOnce ==
    ASSUME ConsInv, app # "overrun", ~displaced, rxBuffLen = 0 \/ MovedLen = 0,
           rxBuffLen + MovedLen \in 0..RxSize,
           \A i \in Moved : recvBuffLen[i] > 0 => "rx" \in buffers[i],
           NEW have, have = rxBuffLen + MovedLen
    PROVE  /\ \A k \in 0..have - 1 : Collected[k] # NUL
           /\ \A c \in Conns : delivered[c] + Count(Collected, have, c) <= sent[c]
           /\ \A i \in Ids : Open(i) /\ "rx" \in buffers[i] =>
                delivered[sockFd[i]] + Count(Collected, have, sockFd[i])
                  + (IF i \in Moved THEN 0 ELSE recvBuffLen[i]) <= sent[sockFd[i]]
<1>1. Filled /\ Accounted /\ Waiting
  BY DEF ConsInv, Once
<1>2. /\ rxBuffLen \in Nat /\ MovedLen \in Nat /\ have \in Nat
      /\ \A c \in Conns : Held(c) \in Nat /\ delivered[c] \in Nat /\ sent[c] \in Nat
      /\ \A i \in Ids : recvBuffLen[i] \in Nat /\ (Open(i) => sockFd[i] \in Conns)
  BY Types, HeldType, BeforeType
<1>3. CASE MovedLen = 0
  <2>1. have = rxBuffLen
    BY <1>2, <1>3
  <2>2. \A k \in 0..have - 1 : Collected[k] = rxBuffer[k]
    BY <1>3, <2>1, CollectedType
  <2>3. \A c \in Conns : Count(Collected, have, c) = Held(c)
    BY <1>2, <2>1, <2>2, CountAgree DEF Held
  <2>4. \A k \in 0..have - 1 : Collected[k] # NUL
    BY <1>1, <2>1, <2>2 DEF Filled
  <2>5. \A c \in Conns : delivered[c] + Count(Collected, have, c) <= sent[c]
    BY <1>1, <2>3 DEF Accounted
  <2>6. ASSUME NEW i \in Ids, Open(i), "rx" \in buffers[i]
        PROVE  delivered[sockFd[i]] + Count(Collected, have, sockFd[i])
                 + (IF i \in Moved THEN 0 ELSE recvBuffLen[i]) <= sent[sockFd[i]]
    <3>1. delivered[sockFd[i]] + Held(sockFd[i]) + recvBuffLen[i] <= sent[sockFd[i]]
      BY <1>1, <2>6 DEF Waiting
    <3> QED
      BY <1>2, <2>3, <2>6, <3>1
  <2> QED
    BY <2>4, <2>5, <2>6
<1>4. CASE rxBuffLen = 0
  <2>1. have = MovedLen /\ MovedLen <= RxSize
    BY <1>2, <1>4, Constants
  <2>2. \A k \in 0..have - 1 : Collected[k] = Owner(k) /\ Collected[k] # NUL
    BY <1>4, <2>1, CollectedType
  <2>3. \A c \in Conns : delivered[c] <= sent[c]
    BY <1>1, <1>2 DEF Accounted
  <2>4. ASSUME NEW i \in Moved
        PROVE  /\ sockFd[i] \in Conns /\ Count(Collected, have, sockFd[i]) = recvBuffLen[i]
               /\ delivered[sockFd[i]] + recvBuffLen[i] <= sent[sockFd[i]]
    <3>1. i \in Ids /\ Open(i) /\ sockFd[i] \in Conns
      BY <1>2, MovedFirst DEF Readable
    <3>2. Count(Collected, have, sockFd[i]) = recvBuffLen[i]
      BY <2>1, <2>2, <3>1, OwnedCount
    <3>3. delivered[sockFd[i]] + recvBuffLen[i] <= sent[sockFd[i]]
      <4>1. CASE recvBuffLen[i] = 0
        BY <1>2, <2>3, <3>1, <4>1
      <4>2. CASE recvBuffLen[i] # 0
        <5>1. "rx" \in buffers[i]
          BY <1>2, <3>1, <4>2
        <5>2. delivered[sockFd[i]] + Held(sockFd[i]) + recvBuffLen[i] <= sent[sockFd[i]]
          BY <1>1, <3>1, <5>1 DEF Waiting
        <5> QED
          BY <1>2, <3>1, <5>2
      <4> QED
        BY <4>1, <4>2
    <3> QED
      BY <3>1, <3>2, <3>3
  <2>5. ASSUME NEW c \in Conns, \A i \in Moved : sockFd[i] # c
        PROVE  Count(Collected, have, c) = 0
    BY <2>1, <2>2, <2>5, OwnedCount
  <2>6. ASSUME NEW c \in Conns
        PROVE  delivered[c] + Count(Collected, have, c) <= sent[c]
    BY <1>2, <2>3, <2>4, <2>5
  <2>7. ASSUME NEW i \in Ids, Open(i), "rx" \in buffers[i]
        PROVE  delivered[sockFd[i]] + Count(Collected, have, sockFd[i])
                 + (IF i \in Moved THEN 0 ELSE recvBuffLen[i]) <= sent[sockFd[i]]
    <3>1. CASE i \in Moved
      BY <1>2, <2>4, <3>1
    <3>2. CASE i \notin Moved
      <4>1. \A j \in Moved : sockFd[j] # sockFd[i]
        BY <2>7, <3>2, MovedFirst DEF ConsInv, Distinct
      <4>2. Count(Collected, have, sockFd[i]) = 0
        BY <1>2, <2>5, <2>7, <4>1
      <4>3. delivered[sockFd[i]] + Held(sockFd[i]) + recvBuffLen[i] <= sent[sockFd[i]]
        BY <1>1, <2>7 DEF Waiting
      <4> QED
        BY <1>2, <2>7, <3>2, <4>2, <4>3
    <3> QED
      BY <3>1, <3>2
  <2> QED
    BY <2>2, <2>6, <2>7
<1> QED
  BY <1>3, <1>4

\* A READ of at most len bytes.
LEMMA ReadInv ==
    ASSUME ConsInv, NEW len \in 1..DataSize, read(len)
    PROVE  ConsInv'
<1>1. /\ app = "running"
      /\ recvBuffLen' = [i \in Ids |-> IF i \in Moved THEN 0 ELSE recvBuffLen[i]]
      /\ UNCHANGED <<sockFd, buffers, sendBuffLen, nextId, broadcast, taken, sent, noMemory, writing>>
  BY DEF read, At, recvCleared, peers
<1>2. pc' \in Places
  BY Types, PlaceType DEF read, Stages
<1>3. /\ recvBuffLen' \in [Ids -> 0..RecvLen]
      /\ \A j \in Ids : recvBuffLen'[j] <= recvBuffLen[j]
  <2>1. 0 \in 0..RecvLen
    BY Constants
  <2>2. \A j \in Ids : recvBuffLen[j] \in 0..RecvLen /\ recvBuffLen[j] \in Nat
    BY Types
  <2> QED
    BY <1>1, <2>1, <2>2
<1>4. ASSUME UNCHANGED reading, app' \in Apps, ~noMemory => app' # "aborted"
      PROVE  ConsInv'
  <2>1. /\ sockFd' \in [Ids -> Conns \cup {INVALID}] /\ buffers' \in [Ids -> SUBSET Parts]
        /\ sendBuffLen' \in [Ids -> 0..SendLen] /\ nextId' \in Ids /\ broadcast' \in BOOLEAN
        /\ writing' \in 0..DataSize
    BY <1>1, Types
  <2>2. \A j \in Ids : sockFd'[j] \in {sockFd[j], INVALID} /\ buffers'[j] = buffers[j]
    BY <1>1
  <2>3. UNCHANGED <<rxBuffer, rxBuffLen, delivered, displaced, sent, noMemory, taken>>
    BY <1>1, <1>4 DEF reading
  <2> QED
    BY <1>1, <1>2, <1>3, <1>4, <2>1, <2>2, <2>3, FewerInv
<1>5. CASE \E i \in Moved : recvBuffLen[i] > 0 /\ "rx" \notin buffers[i]
  <2>1. app' = "aborted" /\ UNCHANGED reading
    BY <1>5 DEF read
  <2>2. noMemory
    BY <1>5, MovedFirst DEF ConsInv, Equipped, Readable, Parts
  <2> QED
    BY <1>4, <2>1, <2>2 DEF Apps
<1>6. CASE /\ ~\E i \in Moved : recvBuffLen[i] > 0 /\ "rx" \notin buffers[i]
           /\ MovedLen > 0 /\ Base + MovedLen > RxSize
  <2>1. app' = "overrun" /\ UNCHANGED reading
    BY <1>6 DEF read
  <2> QED
    BY <1>4, <2>1 DEF Apps
<1>7. CASE /\ ~\E i \in Moved : recvBuffLen[i] > 0 /\ "rx" \notin buffers[i]
           /\ ~(MovedLen > 0 /\ Base + MovedLen > RxSize)
  <2> DEFINE have == rxBuffLen + MovedLen
             n == Least(len, have)
  <2>1. /\ rxBuffLen' = have - n
        /\ rxBuffer' = [k \in 0..RxSize - 1 |-> IF k < have - n THEN Collected[k + n]
                                               ELSE IF k < have THEN NUL ELSE Collected[k]]
        /\ delivered' = [c \in Conns |-> delivered[c] + Count(Collected, n, c)]
        /\ displaced' = (displaced \/ (rxBuffLen > 0 /\ MovedLen > 0))
        /\ app' = app
    BY <1>7 DEF read, Count
  <2>2. have \in 0..RxSize /\ have \in Nat /\ rxBuffLen \in Nat /\ MovedLen \in Nat
    BY <1>7, CollectedType, HeldType, BeforeType, Constants
  <2>3. n \in 0..have /\ n \in Nat
    BY <2>2, Constants DEF Least
  <2> HIDE DEF n
  <2>4. TypeOK'
    <3>1. rxBuffLen' \in 0..RxSize
      BY <2>1, <2>2, <2>3, Constants
    <3>2. rxBuffer' \in [0..RxSize - 1 -> Conns \cup {NUL}]
      <4> HIDE DEF have
      <4>1. \A k \in 0..RxSize - 1 : Collected[k] \in Conns \cup {NUL}
        BY CollectedType
      <4>2. \A k \in 0..RxSize - 1 : k < have - n => k + n \in 0..RxSize - 1
        BY <2>2, <2>3, Constants
      <4> QED
        BY <2>1, <4>1, <4>2
    <3>3. delivered' \in [Conns -> Nat]
      <4>1. \A c \in Conns : delivered[c] \in Nat /\ Count(Collected, n, c) \in Nat
        BY <2>3, Types, CountType
      <4> QED
        BY <2>1, <4>1
    <3>4. displaced' \in BOOLEAN
      BY <2>1
    <3> HIDE DEF have
    <3> QED
      BY <1>1, <1>2, <1>3, <2>1, <3>1, <3>2, <3>3, <3>4 DEF ConsInv, TypeOK, Places, Stages
  <2>5. AssertsHold' /\ Equipped' /\ Distinct'
    BY <1>1, <2>1 DEF ConsInv, AssertsHold, Equipped, Distinct, Open
  <2>6. Once'
    <3>1. SUFFICES ASSUME ~displaced'
                   PROVE  Filled' /\ Accounted' /\ Waiting'
      BY DEF Once
    <3>2. ~displaced /\ (rxBuffLen = 0 \/ MovedLen = 0)
      <4>1. ~displaced /\ ~(rxBuffLen > 0 /\ MovedLen > 0)
        BY <2>1, <3>1, Zenon
      <4> QED
        BY <2>2, <4>1
    <3>3. \A i \in Moved : recvBuffLen[i] > 0 => "rx" \in buffers[i]
      BY <1>7
    <3>4. /\ \A k \in 0..have - 1 : Collected[k] # NUL
          /\ \A c \in Conns : delivered[c] + Count(Collected, have, c) <= sent[c]
          /\ \A i \in Ids : Open(i) /\ "rx" \in buffers[i] =>
                delivered[sockFd[i]] + Count(Collected, have, sockFd[i])
                  + (IF i \in Moved THEN 0 ELSE recvBuffLen[i]) <= sent[sockFd[i]]
      BY <1>1, <2>2, <3>2, <3>3, CollectedOnce
    <3> HIDE DEF have
    <3>5. \A k \in 0..have - n - 1 : rxBuffer'[k] = Collected[k + n] /\ k + n \in 0..have - 1
      BY <2>1, <2>2, <2>3, Constants
    <3>6. ASSUME NEW c \in Conns
          PROVE  delivered'[c] + Held(c)' = delivered[c] + Count(Collected, have, c)
      <4>1. Count(Collected, have, c) = Count(Collected, n, c) + Count(rxBuffer', have - n, c)
        BY <2>2, <2>3, <3>5, CountSplit
      <4>2. Held(c)' = Count(rxBuffer', have - n, c)
        BY <2>1 DEF Held
      <4>3. /\ delivered[c] \in Nat /\ Count(Collected, n, c) \in Nat
            /\ Count(rxBuffer', have - n, c) \in Nat
        BY <2>2, <2>3, Types, CountType
      <4>4. delivered'[c] = delivered[c] + Count(Collected, n, c)
        BY <2>1
      <4> QED
        BY <4>1, <4>2, <4>3, <4>4
    <3>7. Filled'
      BY <2>1, <3>4, <3>5 DEF Filled
    <3>8. Accounted'
      BY <1>1, <3>4, <3>6 DEF Accounted
    <3>9. Waiting'
      <4>1. SUFFICES ASSUME NEW i \in Ids, Open(i), "rx" \in buffers[i]
                     PROVE  delivered'[sockFd[i]] + Count(rxBuffer', rxBuffLen', sockFd[i])
                              + recvBuffLen'[i] <= sent[sockFd[i]]
        BY <1>1 DEF Waiting, Held, Open
      <4>2. sockFd[i] \in Conns
        BY <4>1, Types
      <4>3. delivered'[sockFd[i]] + Count(rxBuffer', rxBuffLen', sockFd[i])
              = delivered[sockFd[i]] + Count(Collected, have, sockFd[i])
        BY <3>6, <4>2 DEF Held
      <4>4. recvBuffLen'[i] = IF i \in Moved THEN 0 ELSE recvBuffLen[i]
        BY <1>1
      <4> QED
        BY <3>4, <4>1, <4>3, <4>4
    <3> QED
      BY <3>7, <3>8, <3>9
  <2> QED
    BY <2>4, <2>5, <2>6 DEF ConsInv
<1> QED
  BY <1>5, <1>6, <1>7

-----------------------------------------------------------------------------
LEMMA NextInv == ConsInv /\ [Next]_vars => ConsInv'
<1>1. ASSUME ConsInv, Runner
      PROVE  ConsInv'
  BY <1>1, NothingInv, AcceptsInv, RecvBytesInv, TurnInv, DropsInv DEF Runner
<1>2. ASSUME ConsInv, Frame
      PROVE  ConsInv'
  BY <1>2, NothingInv, WriteInv, ReadInv, ResetInv DEF Frame, WriteFrame, ReadFrame
<1>3. ASSUME ConsInv, UNCHANGED vars
      PROVE  ConsInv'
  <2>1. UNCHANGED <<app, pc, sockFd, buffers, sendBuffLen, recvBuffLen, nextId, broadcast, rxBuffer,
                    rxBuffLen, delivered, displaced, taken, sent, noMemory, writing>>
    BY <1>3 DEF vars, clients, slots, reading, peers
  <2>2. TypeOK'
    BY <1>3, <2>1 DEF ConsInv, TypeOK
  <2> QED
    BY <1>3, <2>1, <2>2 DEF ConsInv, AssertsHold, Equipped, Distinct, Once, Filled, Accounted,
                            Waiting, Held, Open
<1> QED
  BY <1>1, <1>2, <1>3, RestartInv DEF Next

LEMMA Invariant == Spec => []ConsInv
BY InitInv, NextInv, PTL DEF Spec

\* No length exceeds its buffer through broadcasts, partial sends, failed accepts and
\* READs, short of the overrun of console.c that the model stops at.
THEOREM TypeCorrect == Spec => []TypeOK
<1>1. ConsInv => TypeOK
  BY DEF ConsInv
<1> QED
  BY <1>1, Invariant, PTL

\* As long as memory lasts no assertion of tcpClient.c on an open slot's buffers fails.
THEOREM BuffersAreThere == Spec => []AssertsHold
<1>1. ConsInv => AssertsHold
  BY DEF ConsInv
<1> QED
  BY <1>1, Invariant, PTL

\* A connection's byte reaches READ at most once and through no other connection,
\* until a READ collects bytes on top of left-over ones.
THEOREM BytesReadOnce == Spec => []ReadOnce
<1>1. ConsInv => ReadOnce
  <2> SUFFICES ASSUME ConsInv, ~displaced, app # "overrun"
               PROVE  /\ \A k \in 0..rxBuffLen - 1 : rxBuffer[k] # NUL
                      /\ \A c \in Conns : delivered[c] + Held(c)
                            + Total(recvBuffLen, {i \in Ids : sockFd[i] = c /\ "rx" \in buffers[i]})
                              <= sent[c]
    BY DEF ReadOnce, Held, Count
  <2>1. Filled /\ Accounted /\ Waiting
    BY DEF ConsInv, Once
  <2>2. ASSUME NEW c \in Conns
        PROVE  delivered[c] + Held(c)
                 + Total(recvBuffLen, {i \in Ids : sockFd[i] = c /\ "rx" \in buffers[i]}) <= sent[c]
    <3> DEFINE S == {i \in Ids : sockFd[i] = c /\ "rx" \in buffers[i]}
    <3>1. delivered[c] \in Nat /\ Held(c) \in Nat /\ sent[c] \in Nat
      BY Types, HeldType
    <3>2. CASE S = {}
      <4>1. Total(recvBuffLen, S) = 0
        BY <3>2, FS_EmptySet, SumStep DEF Total
      <4>2. delivered[c] + Held(c) <= sent[c]
        BY <2>1 DEF Accounted
      <4> HIDE DEF S
      <4>3. delivered[c] + Held(c) + Total(recvBuffLen, S) <= sent[c]
        BY <3>1, <4>1, <4>2
      <4> QED
        BY <4>3 DEF S
    <3>3. CASE S # {}
      <4>1. PICK i \in S : TRUE
        BY <3>3
      <4>2. i \in Ids /\ sockFd[i] = c /\ Open(i) /\ "rx" \in buffers[i] /\ recvBuffLen[i] \in Nat
        BY <2>2, Types
      <4>3. S = {i}
        BY <4>2 DEF ConsInv, Distinct
      <4>4. Total(recvBuffLen, S) = recvBuffLen[i]
        BY <4>2, <4>3, SumSingleton DEF Total
      <4>5. delivered[c] + Held(c) + recvBuffLen[i] <= sent[c]
        BY <2>1, <4>2 DEF Waiting
      <4> HIDE DEF S
      <4>6. delivered[c] + Held(c) + Total(recvBuffLen, S) <= sent[c]
        BY <4>4, <4>5
      <4> QED
        BY <4>6 DEF S
    <3> QED
      BY <3>2, <3>3
  <2> QED
    BY <2>1, <2>2 DEF Filled
<1> QED
  BY <1>1, Invariant, PTL

=============================================================================
