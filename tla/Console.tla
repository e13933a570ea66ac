------------------------------ MODULE Console ------------------------------
(***************************************************************************)
(* The console of the bridge (console.c) with the TCP server and clients it *)
(* is built from (tcpServer.c, tcpClient.c).  On every event of the serial  *)
(* port the bridge runs the console's runner - accept one connection,       *)
(* receive from the clients, send to them, drop the ones that starve - and  *)
(* then serves one frame.  The runner goes slot by slot.  What the peers    *)
(* did in the meantime - connect, send, hang up, stop receiving - shows when*)
(* the accept, recv or send of the code meets it, so each of these calls    *)
(* chooses its outcome.  Bytes are counted; in the console's own buffer each*)
(* carries the connection it came from.                                     *)
(***************************************************************************)
EXTENDS Integers, FiniteSets, Functions

CONSTANTS
    MaxClients, \* MANGOH_BRIDGE_TCP_CLIENT_MAX_CLIENTS, 10
    SendLen,    \* MANGOH_BRIDGE_TCP_CLIENT_SEND_BUFFER_LEN, 0x4000
    RecvLen,    \* MANGOH_BRIDGE_TCP_CLIENT_RECV_BUFFER_LEN, 0x4000
    RxSize,     \* MANGOH_BRIDGE_CONSOLE_RX_BUFF_SIZE, 1024
    DataSize,   \* the most bytes of a request, 128
    MaxConns,   \* bound: connections made in a behaviour
    MaxSent     \* bound: bytes all peers send

ASSUME ClientsAssumption == MaxClients \in Nat /\ MaxClients > 0
ASSUME SizesAssumption == \A n \in {SendLen, RecvLen, RxSize, DataSize} : n \in Nat /\ n > 0
ASSUME BoundAssumption == MaxConns \in Nat /\ MaxSent \in Nat

Ids == 0..MaxClients - 1
Conns == 1..MaxConns
INVALID == 0               \* the sockFd of a free slot
NUL == 0               \* a byte no peer sent
Parts == {"send", "rx"}   \* the two buffers of a slot

VARIABLES
    app,         \* running; aborted: failed or crashed; overrun: wrote past a buffer
    pc,          \* [at, id]: the stage of the event, the slot whose turn it is
    sockFd,      \* the connection of each slot, or INVALID
    buffers,     \* the buffers each slot has allocated
    sendBuffLen, \* bytes to send, of each slot
    recvBuffLen, \* bytes received, of each slot
    nextId,      \* the slot of the next connection
    broadcast,   \* what a client sends goes to the others too
    rxBuffer,    \* the bytes READ takes from, each its connection or NUL
    rxBuffLen,   \* how many of them are in use
    taken,       \* connections accepted so far
    \* the microcontroller
    writing,     \* the size of the WRITE it repeats until it is answered, or 0
    \* history
    sent,        \* bytes received from each connection
    delivered,   \* bytes of each connection that READ returned
    noMemory,    \* a calloc failed
    displaced    \* READ took bytes from clients while some were left over

slots == <<sockFd, buffers, sendBuffLen, recvBuffLen>>
clients == <<slots, nextId, broadcast>>
reading == <<rxBuffer, rxBuffLen, delivered, displaced>>
peers == <<taken, sent, noMemory>>
vars == <<app, pc, clients, reading, peers, writing>>

Open(i) == sockFd[i] # INVALID
At(s) == app = "running" /\ pc.at = s
Goto(s) == pc' = [at |-> s, id |-> 0]
\* The next slot's turn in a stage, or the next stage after the last slot.
Turn(s, next) == IF pc.id + 1 \in Ids THEN pc' = [at |-> s, id |-> pc.id + 1] ELSE Goto(next)
Total(f, S) == SumFunctionOnSet(f, S)
Below(S, i) == {j \in S : j < i}
Least(m, n) == IF m <= n THEN m ELSE n

Init ==
    /\ app = "running"
    /\ pc = [at |-> "accept", id |-> 0]
    /\ sockFd = [i \in Ids |-> INVALID]
    /\ buffers = [i \in Ids |-> {}]
    /\ sendBuffLen = [i \in Ids |-> 0]
    /\ recvBuffLen = [i \in Ids |-> 0]
    /\ nextId = 0
    /\ broadcast = TRUE
    /\ rxBuffer = [k \in 0..RxSize - 1 |-> NUL]
    /\ rxBuffLen = 0
    /\ taken = 0
    /\ writing = 0
    /\ sent = [c \in Conns |-> 0]
    /\ delivered = [c \in Conns |-> 0]
    /\ noMemory = FALSE
    /\ displaced = FALSE

-----------------------------------------------------------------------------
\* mangoh_bridge_tcp_server_acceptNewConnections: nobody connects, or the call that
\* would tell fails and the runner with it.
noConnection ==
    /\ At("accept")
    /\ Goto("recv") \/ Goto("serve")
    /\ UNCHANGED <<app, clients, reading, peers, writing>>

\* Mutant of emptied: the bytes received for the slot's last connection stay.
emptiedSend == sendBuffLen' = [sendBuffLen EXCEPT ![nextId] = 0] /\ UNCHANGED recvBuffLen

\* The slot is free: its lengths are cleared, the received one only here.
emptied ==
    /\ sendBuffLen' = [sendBuffLen EXCEPT ![nextId] = 0]
    /\ recvBuffLen' = [recvBuffLen EXCEPT ![nextId] = 0]

\* Mutant of nextIdAfter: the slots do not start again at the first.
nextIdUnwrapped == nextId + 1
nextIdAfter == (nextId + 1) % MaxClients

accepts ==
    /\ At("accept") /\ taken < MaxConns
    /\ ~Open(nextId) /\ buffers[nextId] = {}
    /\ taken' = taken + 1
    /\ sockFd' = [sockFd EXCEPT ![nextId] = taken + 1]
    /\ buffers' = [buffers EXCEPT ![nextId] = Parts]
    /\ emptied
    /\ nextId' = nextIdAfter
    /\ Goto("recv")
    /\ UNCHANGED <<app, broadcast, reading, sent, noMemory, writing>>

\* calloc fails: the slot is taken without its buffers, and taken again by the next.
acceptsNoMemory ==
    /\ At("accept") /\ taken < MaxConns
    /\ ~Open(nextId) /\ buffers[nextId] = {}
    /\ taken' = taken + 1
    /\ sockFd' = [sockFd EXCEPT ![nextId] = taken + 1]
    /\ sendBuffLen' = [sendBuffLen EXCEPT ![nextId] = 0]
    /\ \/ UNCHANGED <<buffers, recvBuffLen>>
       \/ /\ buffers' = [buffers EXCEPT ![nextId] = {"send"}]
          /\ recvBuffLen' = [recvBuffLen EXCEPT ![nextId] = 0]
    /\ noMemory' = TRUE
    /\ Goto("serve")
    /\ UNCHANGED <<app, nextId, broadcast, reading, sent, writing>>

\* The slot is free but still has buffers: LE_ASSERT aborts the application.
acceptAborts ==
    /\ At("accept") /\ taken < MaxConns
    /\ ~Open(nextId) /\ buffers[nextId] # {}
    /\ app' = "accept aborted"
    /\ taken' = taken + 1
    /\ UNCHANGED <<pc, clients, reading, sent, noMemory, writing>>

\* The next slot is taken: the connection is closed, whatever slots are free, and
\* the runner fails.
refuses ==
    /\ At("accept") /\ taken < MaxConns
    /\ Open(nextId)
    /\ taken' = taken + 1
    /\ Goto("serve")
    /\ UNCHANGED <<app, clients, reading, sent, noMemory, writing>>

-----------------------------------------------------------------------------
\* Mutant of closes: the slot stays open.
closesKeepsFd(i) ==
    /\ buffers' = [buffers EXCEPT ![i] = {}]
    /\ sendBuffLen' = [sendBuffLen EXCEPT ![i] = 0]
    /\ UNCHANGED sockFd

\* mangoh_bridge_tcp_client_close of slot i; recvBuffLen is left as it is.
closes(i) ==
    /\ sockFd' = [sockFd EXCEPT ![i] = INVALID]
    /\ buffers' = [buffers EXCEPT ![i] = {}]
    /\ sendBuffLen' = [sendBuffLen EXCEPT ![i] = 0]

\* The loop that appends n bytes to the clients of D, in the order of their slots:
\* it stops at one without a buffer (an assertion) or where the check for n bytes,
\* made with m, fails.
Fails(D, m) == {i \in D : "send" \notin buffers[i] \/ sendBuffLen[i] + m > SendLen}
Served(D, m) == {i \in D : \A j \in Fails(D, m) : i < j}
Appended(D, m, n) == [i \in Ids |-> IF i \in Served(D, m) THEN sendBuffLen[i] + n ELSE sendBuffLen[i]]
Overruns(D, m, n) == \E i \in Served(D, m) : sendBuffLen[i] + n > SendLen
Aborts(D, m) == \E i \in Fails(D, m) : "send" \notin buffers[i] /\ \A j \in Fails(D, m) : i <= j

\* mangoh_bridge_tcp_client_broadcast: to whom; all that is received and not yet
\* read is sent (again), and the room is checked with the length of the sender's
\* send buffer.
BroadcastTo(from) == {i \in Ids : i # from /\ Open(i)}

\* mangoh_bridge_tcp_client_readFromSockets, the turn of a slot.
Space(i) == RecvLen - recvBuffLen[i]

\* The slot is free or there is nothing to receive.
recvNothing ==
    /\ At("recv")
    /\ Turn("recv", "send")
    /\ UNCHANGED <<app, clients, reading, peers, writing>>

\* select() in readFromSockets or writeToSockets fails, and the runner with it.
selectFails ==
    /\ At("recv") \/ At("send")
    /\ pc.id = 0 /\ \E i \in Ids : Open(i)
    /\ Goto("serve")
    /\ UNCHANGED <<app, clients, reading, peers, writing>>

\* n bytes, or none when the buffer is full: they are broadcast if the flag is set,
\* and a failure there ends the runner.
recvBytes(n) ==
    /\ At("recv")
    /\ Open(pc.id) /\ "rx" \in buffers[pc.id]
    /\ n > 0 \/ Space(pc.id) = 0
    /\ LET i == pc.id
           m == sendBuffLen[i]
           D == IF broadcast THEN BroadcastTo(i) ELSE {}
           all == recvBuffLen[i] + n
       IN  /\ n <= Space(i) /\ Total(sent, Conns) + n <= MaxSent
           /\ sent' = [sent EXCEPT ![sockFd[i]] = @ + n]
           /\ recvBuffLen' = [recvBuffLen EXCEPT ![i] = all]
           /\ app' = IF Overruns(D, m, all) THEN "overrun"
                     ELSE IF Aborts(D, m) THEN "aborted" ELSE app
           /\ sendBuffLen' = IF Overruns(D, m, all) THEN sendBuffLen ELSE Appended(D, m, all)
           /\ IF Fails(D, m) = {} THEN Turn("recv", "send") ELSE Goto("serve")
    /\ UNCHANGED <<sockFd, buffers, nextId, broadcast, reading, taken, noMemory, writing>>

\* The end of the stream closes the slot; an error does too and ends the runner.
recvEnd ==
    /\ At("recv")
    /\ Open(pc.id) /\ "rx" \in buffers[pc.id]
    /\ closes(pc.id)
    /\ \/ Space(pc.id) > 0 /\ Turn("recv", "send")
       \/ Goto("serve")
    /\ UNCHANGED <<app, recvBuffLen, nextId, broadcast, reading, peers, writing>>

recvAborts ==
    /\ At("recv")
    /\ Open(pc.id) /\ "rx" \notin buffers[pc.id]
    /\ app' = "aborted"
    /\ UNCHANGED <<pc, clients, reading, peers, writing>>

\* mangoh_bridge_tcp_client_writeToSockets, the turn of a slot: its socket is not
\* writable or there is nothing to send, or some bytes go, or the peer is gone.
sends ==
    /\ At("send")
    /\ \/ UNCHANGED slots
       \/ /\ Open(pc.id) /\ "send" \in buffers[pc.id]
          /\ \E n \in 1..sendBuffLen[pc.id] : sendBuffLen' = [sendBuffLen EXCEPT ![pc.id] = @ - n]
          /\ UNCHANGED <<sockFd, buffers, recvBuffLen>>
       \/ /\ Open(pc.id) /\ "send" \in buffers[pc.id] /\ sendBuffLen[pc.id] > 0
          /\ closes(pc.id)
          /\ UNCHANGED recvBuffLen
    /\ Turn("send", "drop")
    /\ UNCHANGED <<app, nextId, broadcast, reading, peers, writing>>

sendAborts ==
    /\ At("send")
    /\ Open(pc.id) /\ "send" \notin buffers[pc.id]
    /\ app' = "aborted"
    /\ UNCHANGED <<pc, clients, reading, peers, writing>>

\* Mutant of Starving: no client is dropped.
StarvingNone == {}

\* mangoh_bridge_tcp_client_dropStarvingClients
Starving == {i \in Ids : Open(i) /\ sendBuffLen[i] = SendLen}

drops ==
    /\ At("drop")
    /\ sockFd' = [i \in Ids |-> IF i \in Starving THEN INVALID ELSE sockFd[i]]
    /\ buffers' = [i \in Ids |-> IF i \in Starving THEN {} ELSE buffers[i]]
    /\ sendBuffLen' = [i \in Ids |-> IF i \in Starving THEN 0 ELSE sendBuffLen[i]]
    /\ Goto("serve")
    /\ UNCHANGED <<app, recvBuffLen, nextId, broadcast, reading, peers, writing>>

-----------------------------------------------------------------------------
\* mangoh_bridge_tcp_client_getReceivedData, called with the end of the buffer and
\* the length so far: the slots whose bytes fit are taken in order, up to the first
\* that does not fit.
Readable == {i \in Ids : Open(i)}
Before(i) == Total(recvBuffLen, Below(Readable, i))

\* Mutant of Moved: bytes that fill the buffer do not fit.
MovedLess == {i \in Readable : rxBuffLen + Before(i) + recvBuffLen[i] < RxSize}

Moved == {i \in Readable : rxBuffLen + Before(i) + recvBuffLen[i] <= RxSize}
MovedLen == Total(recvBuffLen, Moved)

\* The length counts from the start of the buffer, the bytes from its end.
Base == 2 * rxBuffLen
Owner(k) == sockFd[CHOOSE i \in Moved : k \in Before(i)..Before(i) + recvBuffLen[i] - 1]
Collected == [k \in 0..RxSize - 1 |->
    IF k \in Base..Base + MovedLen - 1 THEN Owner(k - Base) ELSE rxBuffer[k]]

\* Mutant of recvCleared: a transferred slot keeps its bytes.
recvClearedNot == UNCHANGED recvBuffLen
recvCleared == recvBuffLen' = [i \in Ids |-> IF i \in Moved THEN 0 ELSE recvBuffLen[i]]

\* mangoh_bridge_console_read: at most len bytes leave the front of the buffer,
\* the freed end of what was in use becomes zero.  A slot that has a length from an
\* earlier connection but no buffer (acceptsNoMemory) crashes the application.
read(len) ==
    /\ At("serve")
    /\ Goto("accept")
    /\ recvCleared
    /\ IF \E i \in Moved : recvBuffLen[i] > 0 /\ "rx" \notin buffers[i]
       THEN app' = "aborted" /\ UNCHANGED reading
       ELSE IF MovedLen > 0 /\ Base + MovedLen > RxSize
       THEN app' = "overrun" /\ UNCHANGED reading
       ELSE LET have == rxBuffLen + MovedLen
                n == Least(len, have)
            IN  /\ rxBuffLen' = have - n
                /\ rxBuffer' = [k \in 0..RxSize - 1 |->
                      IF k < have - n THEN Collected[k + n]
                      ELSE IF k < have THEN NUL ELSE Collected[k]]
                /\ delivered' = [c \in Conns |->
                      delivered[c] + Cardinality({k \in 0..n - 1 : Collected[k] = c})]
                /\ displaced' = (displaced \/ (rxBuffLen > 0 /\ MovedLen > 0))
                /\ UNCHANGED app
    /\ UNCHANGED <<sockFd, buffers, sendBuffLen, nextId, broadcast, peers, writing>>

\* mangoh_bridge_console_write of len bytes: there is an answer when they fit in the
\* buffer of every client; the clients before the first that fails get them anyhow.
write(len) ==
    /\ At("serve")
    /\ Goto("accept")
    /\ sendBuffLen' = Appended(Readable, len, len)
    /\ app' = IF Aborts(Readable, len) THEN "aborted" ELSE app
    /\ writing' = IF Fails(Readable, len) = {} THEN 0 ELSE len
    /\ UNCHANGED <<sockFd, buffers, recvBuffLen, nextId, broadcast, reading, peers, taken>>

\* mangoh_bridge_console_connected: the first client must have its buffers.
connected ==
    /\ At("serve")
    /\ Goto("accept")
    /\ app' = IF \E i \in Readable : Below(Readable, i) = {} /\ buffers[i] # Parts
              THEN "aborted" ELSE app
    /\ UNCHANGED <<clients, reading, peers, writing>>

resetSockets ==
    /\ sockFd' = [i \in Ids |-> INVALID]
    /\ sendBuffLen' = [i \in Ids |-> IF Open(i) THEN 0 ELSE sendBuffLen[i]]
    /\ recvBuffLen' = [i \in Ids |-> IF Open(i) THEN 0 ELSE recvBuffLen[i]]

\* mangoh_bridge_console_reset: the buffers of the slots are not freed, what READ
\* left over stays, and broadcasting is over.
reset ==
    /\ At("serve")
    /\ Goto("accept")
    /\ resetSockets
    /\ nextId' = 0
    /\ broadcast' = FALSE
    /\ writing' = 0
    /\ UNCHANGED <<app, buffers, reading, peers, taken>>

\* A byte that starts no frame, or a frame for another module.
otherFrame ==
    /\ At("serve")
    /\ Goto("accept")
    /\ UNCHANGED <<app, clients, reading, peers, writing>>

-----------------------------------------------------------------------------
\* The supervisor restarts an aborted application: every connection is lost.
restart ==
    /\ app \in {"aborted", "accept aborted"}
    /\ app' = "running"
    /\ Goto("accept")
    /\ sockFd' = [i \in Ids |-> INVALID]
    /\ buffers' = [i \in Ids |-> {}]
    /\ sendBuffLen' = [i \in Ids |-> 0]
    /\ recvBuffLen' = [i \in Ids |-> 0]
    /\ nextId' = 0
    /\ broadcast' = TRUE
    /\ rxBuffer' = [k \in 0..RxSize - 1 |-> NUL]
    /\ rxBuffLen' = 0
    /\ UNCHANGED <<delivered, displaced, peers, writing>>

Runner ==
    \/ noConnection \/ accepts \/ acceptsNoMemory \/ acceptAborts \/ refuses
    \/ recvNothing \/ selectFails \/ (\E n \in 0..RecvLen : recvBytes(n)) \/ recvEnd \/ recvAborts
    \/ sends \/ sendAborts \/ drops

\* The microcontroller starts a WRITE, or repeats one that was not answered.
WriteFrame == \E len \in 1..DataSize : (writing = 0 \/ writing = len) /\ write(len)
ReadFrame == \E len \in 1..DataSize : read(len)
Frame == WriteFrame \/ ReadFrame \/ connected \/ reset \/ otherFrame

Next == Runner \/ Frame \/ restart

Spec == Init /\ [][Next]_vars

\* A sketch that goes on polling: events keep coming, and among the frames it sends
\* there is always a READ again, and the WRITE that was not answered.
FairSpec ==
    /\ Spec
    /\ WF_vars(Runner) /\ WF_vars(Frame)
    /\ SF_vars(ReadFrame) /\ SF_vars(writing > 0 /\ WriteFrame)

-----------------------------------------------------------------------------
\* The types; no length exceeds its buffer (tcpClient.h, console.h), short of an
\* overrun, after which nothing is claimed.
TypeOK ==
    /\ app \in {"running", "aborted", "accept aborted", "overrun"}
    /\ pc \in [at : {"accept", "recv", "send", "drop", "serve"}, id : Ids]
    /\ sockFd \in [Ids -> Conns \cup {INVALID}]
    /\ buffers \in [Ids -> SUBSET Parts]
    /\ sendBuffLen \in [Ids -> 0..SendLen]
    /\ recvBuffLen \in [Ids -> 0..RecvLen]
    /\ nextId \in Ids
    /\ broadcast \in BOOLEAN
    /\ rxBuffer \in [0..RxSize - 1 -> Conns \cup {NUL}]
    /\ rxBuffLen \in 0..RxSize
    /\ taken \in 0..MaxConns
    /\ writing \in 0..DataSize
    /\ sent \in [Conns -> 0..MaxSent]
    /\ delivered \in [Conns -> Nat]
    /\ noMemory \in BOOLEAN
    /\ displaced \in BOOLEAN

\* A byte of a connection reaches READ at most once and through no other: what READ
\* returned and what the console and the connection's slot hold never exceed what
\* was received from its peer, through the reuse of slots, failed callocs, closes
\* and resets - as long as no READ collected bytes on top of left-over ones.
ReadOnce ==
    ~displaced /\ app # "overrun" =>
        /\ \A k \in 0..rxBuffLen - 1 : rxBuffer[k] # NUL
        /\ \A c \in Conns :
              delivered[c] + Cardinality({k \in 0..rxBuffLen - 1 : rxBuffer[k] = c})
                + Total(recvBuffLen, {i \in Ids : sockFd[i] = c /\ "rx" \in buffers[i]}) <= sent[c]

\* As long as memory lasts, no assertion of tcpClient.c on the buffers of an open
\* slot fails, and READ finds the buffer of every slot it takes bytes from: closing,
\* dropping and RESET leave no open slot without its buffers.
AssertsHold == ~noMemory => app # "aborted"

\* What a client sent is read in the end, or its connection ends, when no slot ever
\* holds more than the console's buffer: one that does stops all transfers
\* (getReceivedData, "buffer overflow").
Drains ==
    [](\A i \in Ids : recvBuffLen[i] <= RxSize) =>
        \A i \in Ids : (recvBuffLen[i] > 0 /\ Open(i)) ~> (recvBuffLen[i] = 0 \/ ~Open(i) \/ app # "running")

\* A client that does not receive delays a WRITE but does not stop it, the bridge
\* drops it (dropStarvingClients) - unless its buffer has room for some of the bytes,
\* or the runner never gets as far as dropping clients any more, because receiving
\* fails every time (a broadcast to that very client is such a failure).
WriteAnswered ==
    []<>(pc.at = "drop") =>
        (writing > 0 ~>
            \/ writing = 0 \/ app # "running"
            \/ \E i \in Ids : Open(i) /\ sendBuffLen[i] < SendLen /\ sendBuffLen[i] + writing > SendLen)

\* A free slot has no buffers when a connection is accepted into it (the assertion
\* tcpServer.c:60).
AcceptAssertHolds == app # "accept aborted"
=============================================================================
