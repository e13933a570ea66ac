------------------------------ MODULE Sockets ------------------------------
(***************************************************************************)
(* The sockets of the microcontroller (sockets.c): one listening socket and *)
(* a table of client slots, filled in turn by ACCEPT and CONNECT.  On every *)
(* event of the serial port the runner settles the connects under way, then *)
(* receives and sends slot by slot until one fails, and then one frame is   *)
(* served.  Peers connect, send, stop and fail at any time.  A byte in a    *)
(* buffer carries the connection it came from or was meant for; connections *)
(* are numbered as they are made.  Closing a socket never fails.            *)
(***************************************************************************)
EXTENDS Integers, Sequences

CONSTANTS
    MaxClients, \* MANGOH_BRIDGE_SOCKETS_MAX_CLIENTS, 10
    BuffLen,    \* MANGOH_BRIDGE_SOCKETS_BUFF_LEN, 8192
    DataLen,    \* MANGOH_BRIDGE_SOCKETS_DATA_LEN: the most bytes of a WRITE or READ
    MaxConns    \* bound: connections made in a behaviour

ASSUME ClientsAssumption == MaxClients \in Nat /\ MaxClients > 0
ASSUME BuffAssumption == BuffLen \in Nat /\ BuffLen > 0
ASSUME DataAssumption == DataLen \in Nat /\ DataLen > 0
ASSUME ConnsAssumption == MaxConns \in Nat

Ids == 0..MaxClients - 1
Conns == 1..MaxConns
INVALID == 0            \* the sockFd of a free slot

VARIABLES
    pc,         \* [at, id]: the stage of the event, the slot whose turn it is
    server,     \* the listening socket is open
    sockFd,     \* the connection of each slot, or INVALID
    connecting, \* whether each slot waits for its connect
    connected,  \* whether each slot has its connection
    rxBuff,     \* the bytes received for each slot, each its connection
    txBuff,     \* the bytes to send, each the connection it was written for
    nextId,     \* the slot of the next connection
    \* the peers and the microcontroller
    broken,     \* the peer of the slot's connection has ended it
    urgent,     \* the peer has sent urgent data, which select() takes for an exception
    made,       \* connections made so far
    meant,      \* the connection the microcontroller knows under each id
    lost        \* the response that told of a connection was lost

info == <<sockFd, connecting, connected, rxBuff, txBuff, broken, urgent>>
vars == <<pc, server, info, nextId, made, meant, lost>>

Open(i) == sockFd[i] # INVALID
At(s) == pc.at = s
Goto(s) == pc' = [at |-> s, id |-> 0]
Least(m, n) == IF m <= n THEN m ELSE n
Repeat(c, n) == [k \in 1..n |-> c]

Init ==
    /\ pc = [at |-> "connecting", id |-> 0]
    /\ server = FALSE
    /\ sockFd = [i \in Ids |-> INVALID]
    /\ connecting = [i \in Ids |-> FALSE]
    /\ connected = [i \in Ids |-> FALSE]
    /\ rxBuff = [i \in Ids |-> <<>>]
    /\ txBuff = [i \in Ids |-> <<>>]
    /\ nextId = 0
    /\ broken = [i \in Ids |-> FALSE]
    /\ urgent = [i \in Ids |-> FALSE]
    /\ made = 0
    /\ meant = [i \in Ids |-> INVALID]
    /\ lost = FALSE

\* Mutant of closes: the slot is freed with what it still had to send.
closesKeepsTx(i) ==
    /\ sockFd' = [sockFd EXCEPT ![i] = INVALID]
    /\ connecting' = [connecting EXCEPT ![i] = FALSE]
    /\ connected' = [connected EXCEPT ![i] = FALSE]
    /\ rxBuff' = [rxBuff EXCEPT ![i] = <<>>]
    /\ broken' = [broken EXCEPT ![i] = FALSE]
    /\ urgent' = [urgent EXCEPT ![i] = FALSE]
    /\ UNCHANGED txBuff

\* mangoh_bridge_sockets_closeClient; of a free slot it changes nothing.
closes(i) ==
    /\ sockFd' = [sockFd EXCEPT ![i] = INVALID]
    /\ connecting' = [connecting EXCEPT ![i] = FALSE]
    /\ connected' = [connected EXCEPT ![i] = FALSE]
    /\ rxBuff' = [rxBuff EXCEPT ![i] = <<>>]
    /\ txBuff' = [txBuff EXCEPT ![i] = <<>>]
    /\ broken' = [broken EXCEPT ![i] = FALSE]
    /\ urgent' = [urgent EXCEPT ![i] = FALSE]

-----------------------------------------------------------------------------
\* The runner: what it does to slots, and where it goes on.
Running == UNCHANGED <<server, nextId, made, meant, lost>>

NextConnecting ==
    IF pc.id + 1 \in Ids THEN pc' = [at |-> "connecting", id |-> pc.id + 1] ELSE Goto("recv")
NextClient ==
    IF pc.id + 1 \in Ids THEN pc' = [at |-> "recv", id |-> pc.id + 1] ELSE Goto("serve")

\* One of the two select() calls, made if a slot is there for it, fails, and the runner
\* with it.
selectFails ==
    /\ \/ At("connecting") /\ \E i \in Ids : connecting[i]
       \/ At("recv") /\ \E i \in Ids : connected[i]
    /\ pc.id = 0
    /\ Goto("serve")
    /\ Running /\ UNCHANGED info

\* The turn of a slot that is not connecting, or not yet through.
connectPending ==
    /\ At("connecting")
    /\ NextConnecting
    /\ Running /\ UNCHANGED info

\* Mutant of connectDone: the slot is not waiting any more, but not connected.
connectDoneSilently ==
    /\ At("connecting")
    /\ connecting[pc.id]
    /\ connecting' = [connecting EXCEPT ![pc.id] = FALSE]
    /\ NextConnecting
    /\ Running /\ UNCHANGED <<sockFd, connected, rxBuff, txBuff, broken, urgent>>

\* mangoh_bridge_sockets_checkConnections of a writable socket: through, or failed,
\* which closes the slot and is no error of the runner.
connectDone ==
    /\ At("connecting")
    /\ connecting[pc.id]
    /\ connecting' = [connecting EXCEPT ![pc.id] = FALSE]
    /\ connected' = [connected EXCEPT ![pc.id] = TRUE]
    /\ NextConnecting
    /\ Running /\ UNCHANGED <<sockFd, rxBuff, txBuff, broken, urgent>>

connectFailed ==
    /\ At("connecting")
    /\ connecting[pc.id] /\ broken[pc.id]
    /\ closes(pc.id)
    /\ NextConnecting
    /\ Running

\* mangoh_bridge_sockets_checkClients, up to the recv: the slot is not connected; or
\* it is in the exception set, as it is when urgent data is there, and is closed.
notConnected ==
    /\ At("recv")
    /\ ~connected[pc.id]
    /\ NextClient
    /\ Running /\ UNCHANGED info

excepted ==
    /\ At("recv")
    /\ connected[pc.id] /\ urgent[pc.id]
    /\ closes(pc.id)
    /\ NextClient
    /\ Running

\* Nothing to receive, which the end of the stream counts as, or n bytes that fit.
receives(n) ==
    /\ At("recv")
    /\ connected[pc.id]
    /\ Len(rxBuff[pc.id]) + n <= BuffLen
    /\ rxBuff' = [rxBuff EXCEPT ![pc.id] = @ \o Repeat(sockFd[pc.id], n)]
    /\ pc' = [pc EXCEPT !.at = "send"]
    /\ Running /\ UNCHANGED <<sockFd, connecting, connected, txBuff, broken, urgent>>

\* Mutant of overflows: the slot is closed, as console clients are.
overflowsCloses ==
    /\ At("recv")
    /\ connected[pc.id]
    /\ rxBuff[pc.id] # <<>>
    /\ closes(pc.id)
    /\ Goto("serve")
    /\ Running

\* Bytes that do not fit are dropped, and the slots behind are not served.
overflows ==
    /\ At("recv")
    /\ connected[pc.id]
    /\ rxBuff[pc.id] # <<>>
    /\ Goto("serve")
    /\ Running /\ UNCHANGED info

recvFails ==
    /\ At("recv")
    /\ connected[pc.id] /\ broken[pc.id]
    /\ closes(pc.id)
    /\ Goto("serve")
    /\ Running

\* checkClients, the send: no bytes go, or the first n do, or the peer is gone.
sends(n) ==
    /\ At("send")
    /\ n <= Len(txBuff[pc.id])
    /\ txBuff' = [txBuff EXCEPT ![pc.id] = SubSeq(@, n + 1, Len(@))]
    /\ NextClient
    /\ Running /\ UNCHANGED <<sockFd, connecting, connected, rxBuff, broken, urgent>>

sendFails ==
    /\ At("send")
    /\ broken[pc.id] /\ txBuff[pc.id] # <<>>
    /\ closes(pc.id)
    /\ Goto("serve")
    /\ Running

-----------------------------------------------------------------------------
\* A frame is served, and the next event starts.
Serve == At("serve") /\ Goto("connecting")

\* mangoh_bridge_sockets_listen: the old listening socket is closed; the new one is
\* there if every call succeeds and the response is written.
listen ==
    /\ Serve
    /\ server' \in BOOLEAN
    /\ UNCHANGED <<info, nextId, made, meant, lost>>

nextIdAfter == (nextId + 1) % MaxClients

\* The next slot gets the next connection; what the slot's buffers hold stays.
fills ==
    /\ made < MaxConns
    /\ made' = made + 1
    /\ sockFd' = [sockFd EXCEPT ![nextId] = made + 1]
    /\ nextId' = nextIdAfter

\* The response with the id is written, or lost.
told ==
    \/ meant' = [meant EXCEPT ![nextId] = made + 1] /\ UNCHANGED lost
    \/ lost' = TRUE /\ UNCHANGED meant

\* mangoh_bridge_sockets_accept
accept ==
    /\ Serve
    /\ server /\ ~Open(nextId)
    /\ fills
    /\ connected' = [connected EXCEPT ![nextId] = TRUE]
    /\ told
    /\ UNCHANGED <<server, connecting, rxBuff, txBuff, broken, urgent>>

\* mangoh_bridge_sockets_connect: connect() is under way.
connect ==
    /\ Serve
    /\ ~Open(nextId)
    /\ fills
    /\ connecting' = [connecting EXCEPT ![nextId] = TRUE]
    /\ meant' = [meant EXCEPT ![nextId] = made + 1]
    /\ UNCHANGED <<server, connected, rxBuff, txBuff, broken, urgent, lost>>

\* Its response cannot be written: the error path closes the slot after it.
connectUntold ==
    /\ Serve
    /\ ~Open(nextId)
    /\ made < MaxConns
    /\ made' = made + 1
    /\ nextId' = nextIdAfter
    /\ LET with(f, v, w) == [i \in Ids |-> IF i = nextIdAfter THEN w ELSE IF i = nextId THEN v ELSE f[i]]
       IN  /\ sockFd' = with(sockFd, made + 1, INVALID)
           /\ connecting' = with(connecting, TRUE, FALSE)
           /\ connected' = with(connected, connected[nextId], FALSE)
           /\ rxBuff' = with(rxBuff, rxBuff[nextId], <<>>)
           /\ txBuff' = with(txBuff, txBuff[nextId], <<>>)
           /\ broken' = with(broken, broken[nextId], FALSE)
           /\ urgent' = with(urgent, urgent[nextId], FALSE)
    /\ lost' = TRUE
    /\ UNCHANGED <<server, meant>>

\* CONNECT fails: no address answers, or the next slot is taken.  Either way the error
\* path closes the next slot.
connectRefused ==
    /\ Serve
    /\ closes(nextId)
    /\ UNCHANGED <<server, nextId, made, meant, lost>>

\* mangoh_bridge_sockets_read of at most len bytes.
read(i, len) ==
    /\ Serve
    /\ meant[i] # INVALID
    /\ rxBuff' = [rxBuff EXCEPT ![i] = SubSeq(@, Least(len, Len(@)) + 1, Len(@))]
    /\ UNCHANGED <<server, sockFd, connecting, connected, txBuff, broken, urgent, nextId, made, meant, lost>>

\* Mutant of Fits: a full buffer is as good as one with room.
FitsExactly(i, len) == Len(txBuff[i]) + len <= BuffLen

Fits(i, len) == Len(txBuff[i]) + len < BuffLen
Written(i, len) == txBuff[i] \o Repeat(meant[i], len)

\* mangoh_bridge_sockets_write of len bytes, which must fit with a byte to spare.
write(i, len) ==
    /\ Serve
    /\ meant[i] # INVALID
    /\ Open(i) /\ Fits(i, len)
    /\ txBuff' = [txBuff EXCEPT ![i] = Written(i, len)]
    /\ UNCHANGED <<server, sockFd, connecting, connected, rxBuff, broken, urgent, nextId, made, meant, lost>>

\* mangoh_bridge_sockets_writeToAll: slot by slot, up to the first without room.
writeToAll(len) ==
    /\ Serve
    /\ LET full == {i \in Ids : connected[i] /\ ~Fits(i, len)}
       IN  txBuff' = [i \in Ids |->
               IF connected[i] /\ \A j \in full : i < j THEN Written(i, len) ELSE txBuff[i]]
    /\ UNCHANGED <<server, sockFd, connecting, connected, rxBuff, broken, urgent, nextId, made, meant, lost>>

\* mangoh_bridge_sockets_close; the microcontroller forgets the connection.
close(i) ==
    /\ Serve
    /\ closes(i)
    /\ meant' = [meant EXCEPT ![i] = INVALID]
    /\ UNCHANGED <<server, nextId, made, lost>>

\* mangoh_bridge_sockets_reset: every slot and the server; nextId stays.
reset ==
    /\ Serve
    /\ server' = FALSE
    /\ sockFd' = [i \in Ids |-> INVALID]
    /\ connecting' = [i \in Ids |-> FALSE]
    /\ connected' = [i \in Ids |-> FALSE]
    /\ rxBuff' = [i \in Ids |-> IF Open(i) THEN <<>> ELSE rxBuff[i]]
    /\ txBuff' = [i \in Ids |-> IF Open(i) THEN <<>> ELSE txBuff[i]]
    /\ broken' = [i \in Ids |-> FALSE]
    /\ urgent' = [i \in Ids |-> FALSE]
    /\ meant' = [i \in Ids |-> INVALID]
    /\ lost' = FALSE
    /\ UNCHANGED <<nextId, made>>

\* A request that changes nothing: CONNECTED, CONNECTING, an ACCEPT that finds no
\* connection or no free slot, a WRITE without room; or a frame for another module.
otherFrame ==
    /\ Serve
    /\ UNCHANGED <<server, info, nextId, made, meant, lost>>

\* The peer ends a connection, or a connect cannot be completed; or it sends urgent
\* data on a connection that goes on.
peerEnds(i) ==
    /\ Open(i) /\ ~broken[i]
    /\ broken' = [broken EXCEPT ![i] = TRUE]
    /\ UNCHANGED <<pc, server, sockFd, connecting, connected, rxBuff, txBuff, urgent,
                   nextId, made, meant, lost>>

peerUrges(i) ==
    /\ Open(i) /\ ~broken[i] /\ ~urgent[i]
    /\ urgent' = [urgent EXCEPT ![i] = TRUE]
    /\ UNCHANGED <<pc, server, sockFd, connecting, connected, rxBuff, txBuff, broken,
                   nextId, made, meant, lost>>

runner ==
    \/ selectFails \/ connectPending \/ connectDone \/ connectFailed
    \/ notConnected \/ excepted \/ (\E n \in 0..BuffLen : receives(n)) \/ overflows \/ recvFails
    \/ (\E n \in 0..BuffLen : sends(n)) \/ sendFails

Frame ==
    \/ listen \/ accept \/ connect \/ connectUntold \/ connectRefused
    \/ \E i \in Ids, len \in 1..DataLen : read(i, len) \/ write(i, len)
    \/ \E len \in 1..DataLen : writeToAll(len)
    \/ \E i \in Ids : close(i)
    \/ reset \/ otherFrame

Next == runner \/ Frame \/ \E i \in Ids : peerEnds(i) \/ peerUrges(i)

Spec == Init /\ [][Next]_vars

-----------------------------------------------------------------------------
\* The types; the buffers keep their sizes (sockets.h:32), the send buffer one less.
TypeOK ==
    /\ pc \in [at : {"connecting", "recv", "send", "serve"}, id : Ids]
    /\ server \in BOOLEAN
    /\ sockFd \in [Ids -> Conns \cup {INVALID}]
    /\ connecting \in [Ids -> BOOLEAN]
    /\ connected \in [Ids -> BOOLEAN]
    /\ rxBuff \in [Ids -> Seq(Conns \cup {INVALID})]
    /\ txBuff \in [Ids -> Seq(Conns \cup {INVALID})]
    /\ \A i \in Ids : Len(rxBuff[i]) <= BuffLen /\ Len(txBuff[i]) < BuffLen
    /\ nextId \in Ids
    /\ broken \in [Ids -> BOOLEAN]
    /\ urgent \in [Ids -> BOOLEAN]
    /\ made \in 0..MaxConns
    /\ meant \in [Ids -> Conns \cup {INVALID}]
    /\ lost \in BOOLEAN

\* An open slot is either connecting or connected, which is all the runner looks at:
\* a slot in neither state would never be served nor freed by its peer's end.
Watched == \A i \in Ids : (Open(i) <=> connecting[i] \/ connected[i]) /\ ~(connecting[i] /\ connected[i])

\* Bytes reach only the connection they were written for and are read only as the
\* connection they came from, though slots are reused without clearing their buffers
\* and connections end behind the microcontroller's back - as long as it got every
\* response that told it of a connection.
NoCrossTalk ==
    ~lost => \A i \in Ids :
        /\ \A k \in 1..Len(txBuff[i]) : txBuff[i][k] = sockFd[i]
        /\ \A k \in 1..Len(rxBuff[i]) : rxBuff[i][k] = meant[i]

\* A connection whose peer has not ended it is closed only by CLOSE or RESET, for urgent
\* data of that peer, or, when a CONNECT fails and its error path closes the next slot,
\* as the oldest of all.
Evicts(i) ==
    Open(i) /\ ~broken[i] /\ ~urgent[i] /\ sockFd'[i] # sockFd[i] /\ ~close(i) /\ ~reset
EvictsOldest == \A i \in Ids : Evicts(i) => \A j \in Ids : Open(j) => sockFd[i] <= sockFd[j]
OnlyOldestEvicted == [][EvictsOldest]_vars
=============================================================================
