------------------------------ MODULE Mailbox ------------------------------
(***************************************************************************)
(* The mailbox (mailbox.c): JSON messages of TCP clients, a datastore, and  *)
(* the text the microcontroller receives.  On every event of the serial     *)
(* port the runner accepts a connection, receives from and sends to the     *)
(* clients, and then reads the messages that have arrived, slot by slot;    *)
(* after it one frame is served.                                            *)
(*                                                                          *)
(* A message is two units of text, and TCP may deliver one without the      *)
(* other.  That the reader takes a whole message and waits for the rest of  *)
(* one is checked on json.c itself (Json).  Left out: what is sent to the   *)
(* clients (Console has the send buffers), so that sending may fail at any  *)
(* time, and memory that runs out.  Hashes of keys are taken to differ.     *)
(***************************************************************************)
EXTENDS Integers, Sequences, SequencesExt, FiniteSetsExt, Functions

CONSTANTS
    MaxClients, \* MANGOH_BRIDGE_TCP_CLIENT_MAX_CLIENTS, 10
    RecvLen,    \* MANGOH_BRIDGE_TCP_CLIENT_RECV_BUFFER_LEN, 0x4000
    RxSize,     \* MANGOH_BRIDGE_MAILBOX_RX_BUFF_SIZE, 0x4000
    DataSize,   \* the most text of a response, 128
    Keys,       \* keys of the datastore
    MaxConns,   \* bound: connections made in a behaviour
    MaxMsgs     \* bound: messages the peers begin to send

ASSUME SizesAssumption == \A n \in {MaxClients, RecvLen, RxSize, DataSize} : n \in Nat /\ n > 0
ASSUME BoundAssumption == MaxConns \in Nat /\ MaxMsgs \in Nat

Ids == 0..MaxClients - 1
Conns == 1..MaxConns
INVALID == 0

\* Message num of connection conn begins, ends, or ends in a way that the reader
\* rejects it.  What it asks for shows when it is read.
Unit(c, n, p) == [conn |-> c, num |-> n, part |-> p]
\* Text from beyond what was received.
JUNK == Unit(0, 0, "bad")
Units == [conn : Conns, num : 1..MaxMsgs, part : {"begin", "end", "bad"}] \cup {JUNK}

VARIABLES
    app,        \* running or aborted
    pc,         \* [at, id]: the stage of the event, the slot whose turn it is
    sockFd,     \* the connection of each slot, or INVALID
    buffers,    \* the slot has its buffers
    received,   \* the first recvBuffLen units of each slot's rxBuffer
    nextId,     \* the slot of the next connection
    database,   \* the keys that have a value
    jsonMsg,    \* a text was written and not freed
    jsonMsgLen, \* the length of the texts written to jsonMsg since it was zero
    rxBuffer,   \* the text of RAW messages that RECV takes from
    \* the peers
    taken,      \* connections made so far
    sent,       \* units each of them has sent
    \* history
    read,       \* what RECV returned since the application started
    astray      \* a message was read while other text came with it, or a response of
                \* RECV was lost: what is read is not followed further

slots == <<sockFd, buffers, received>>
message == <<jsonMsg, jsonMsgLen>>
peers == <<taken, sent>>
history == <<read, astray>>
vars == <<app, pc, slots, nextId, database, message, rxBuffer, peers, history>>

Open(i) == sockFd[i] # INVALID
At(s) == app = "running" /\ pc.at = s
Goto(s) == pc' = [at |-> s, id |-> 0]
Turn(s, next) == IF pc.id + 1 \in Ids THEN pc' = [at |-> s, id |-> pc.id + 1] ELSE Goto(next)

Init ==
    /\ app = "running"
    /\ pc = [at |-> "accept", id |-> 0]
    /\ sockFd = [i \in Ids |-> INVALID]
    /\ buffers = [i \in Ids |-> FALSE]
    /\ received = [i \in Ids |-> <<>>]
    /\ nextId = 0
    /\ database = {}
    /\ jsonMsg = FALSE
    /\ jsonMsgLen = 0
    /\ rxBuffer = <<>>
    /\ taken = 0
    /\ sent = [c \in Conns |-> 0]
    /\ read = <<>>
    /\ astray = FALSE

-----------------------------------------------------------------------------
\* mangoh_bridge_tcp_server_acceptNewConnections: nobody connects, or it fails and
\* the runner with it.
noConnection ==
    /\ At("accept")
    /\ Goto("recv") \/ Goto("serve")
    /\ UNCHANGED <<app, slots, nextId, database, message, rxBuffer, peers, history>>

accepts ==
    /\ At("accept") /\ taken < MaxConns
    /\ ~Open(nextId) /\ ~buffers[nextId]
    /\ taken' = taken + 1
    /\ sockFd' = [sockFd EXCEPT ![nextId] = taken + 1]
    /\ buffers' = [buffers EXCEPT ![nextId] = TRUE]
    /\ received' = [received EXCEPT ![nextId] = <<>>]
    /\ nextId' = (nextId + 1) % MaxClients
    /\ Goto("recv")
    /\ UNCHANGED <<app, database, message, rxBuffer, sent, history>>

\* The next slot is in use and the connection is closed, or it is free but RESET
\* left it its buffers, which an assertion forbids.
refuses ==
    /\ At("accept") /\ taken < MaxConns
    /\ Open(nextId) \/ buffers[nextId]
    /\ taken' = taken + 1
    /\ IF Open(nextId) THEN Goto("serve") /\ UNCHANGED app ELSE app' = "aborted" /\ UNCHANGED pc
    /\ UNCHANGED <<slots, nextId, database, message, rxBuffer, sent, history>>

\* mangoh_bridge_tcp_client_close; what was received keeps its length.
closes(S) ==
    /\ sockFd' = [i \in Ids |-> IF i \in S THEN INVALID ELSE sockFd[i]]
    /\ buffers' = [i \in Ids |-> IF i \in S THEN FALSE ELSE buffers[i]]

\* What a peer that has sent n units sends next.
Next1(c, n) == IF n % 2 = 0 THEN {Unit(c, n \div 2 + 1, "begin")}
               ELSE {Unit(c, n \div 2 + 1, p) : p \in {"end", "bad"}}
Arrivals(c, n) == {<<u>> : u \in Next1(c, n)} \cup {<<u, v>> : u \in Next1(c, n), v \in Next1(c, n + 1)}
Begun(f) == SumFunction([c \in Conns |-> (f[c] + 1) \div 2])

\* mangoh_bridge_tcp_client_readFromSockets, the turn of a slot.
recvNothing ==
    /\ At("recv")
    /\ Turn("recv", "send")
    /\ UNCHANGED <<app, slots, nextId, database, message, rxBuffer, peers, history>>

\* select() in readFromSockets or writeToSockets fails, and the runner with it.
selectFails ==
    /\ At("recv") \/ At("send")
    /\ pc.id = 0 /\ \E i \in Ids : Open(i)
    /\ Goto("serve")
    /\ UNCHANGED <<app, slots, nextId, database, message, rxBuffer, peers, history>>

recvText ==
    /\ At("recv") /\ Open(pc.id)
    /\ LET c == sockFd[pc.id] IN
       \E s \in Arrivals(c, sent[c]) :
          /\ Len(received[pc.id]) + Len(s) <= RecvLen
          /\ received' = [received EXCEPT ![pc.id] = @ \o s]
          /\ sent' = [sent EXCEPT ![c] = @ + Len(s)]
          /\ Begun(sent') <= MaxMsgs
    /\ Turn("recv", "send")
    /\ UNCHANGED <<app, sockFd, buffers, nextId, database, message, rxBuffer, taken, history>>

\* The peer hangs up, or recv fails, which ends the runner.
recvEnd ==
    /\ At("recv") /\ Open(pc.id)
    /\ closes({pc.id})
    /\ \/ Len(received[pc.id]) < RecvLen /\ Turn("recv", "send")
       \/ Goto("serve")
    /\ UNCHANGED <<app, received, nextId, database, message, rxBuffer, peers, history>>

\* writeToSockets and dropStarvingClients close the clients that cannot be sent to.
sends ==
    /\ At("send")
    /\ \E S \in SUBSET {i \in Ids : Open(i)} : closes(S)
    /\ Goto("process")
    /\ UNCHANGED <<app, received, nextId, database, message, rxBuffer, peers, history>>

-----------------------------------------------------------------------------
\* What mangoh_bridge_json_read makes of a text: the message at its front, or nothing
\* (an error or LE_UNDERFLOW).  The text must end in a brace, and the beginning of
\* a message may or may not do so.
Whole(u, v) == u.part = "begin" /\ v = [u EXCEPT !.part = "end"]
readable(s) == Len(s) > 1 /\ Whole(s[1], s[2])
unreadable(s) == s # <<>> /\ (~readable(s) \/ Last(s).part = "begin")
left == Len(received[pc.id]) - 2

\* Mutant of consumed: the length of the text stays.
consumedNot == UNCHANGED <<received, history>>

\* What is left is moved from beyond the text that was received, so that it is lost
\* and what stands there - zeros, or text from before, which is not told apart - is
\* taken for it.
consumed ==
    /\ received' = [received EXCEPT ![pc.id] = [k \in 1..left |-> JUNK]]
    /\ astray' = (astray \/ left > 0)
    /\ read' = IF left > 0 THEN <<>> ELSE read

\* Mutant of cleared: the text stays.
clearedNot == UNCHANGED received
cleared == received' = [received EXCEPT ![pc.id] = <<>>]

\* The pass over the slots goes on, or ends with an error.
GoesOn == Turn("process", "serve")
Ends == Goto("serve")

aborts ==
    /\ app' = "aborted"
    /\ UNCHANGED <<pc, slots, nextId, database, message, rxBuffer, peers, history>>

\* Mutant of freed: the length is not cleared.
freedText == jsonMsg' = FALSE /\ UNCHANGED jsonMsgLen
freed == jsonMsg' = FALSE /\ jsonMsgLen' = 0

pending == jsonMsg \/ jsonMsgLen > 0

\* Mutant of RxFits: the room is not checked for the whole text.
RxFitsPart(s) == Len(rxBuffer) < RxSize
RxFits(s) == Len(rxBuffer) + Len(s) <= RxSize

\* mangoh_bridge_mailbox_processRawCommand: a message that does not fit is lost.
processRaw ==
    IF pending THEN aborts
    ELSE LET s == SubSeq(received[pc.id], 1, 2) IN
         /\ consumed
         /\ IF RxFits(s) THEN rxBuffer' = rxBuffer \o s /\ GoesOn
            ELSE Ends /\ UNCHANGED rxBuffer
         /\ UNCHANGED <<app, sockFd, buffers, nextId, database, message, peers>>

processBare ==
    /\ consumed
    /\ IF jsonMsg THEN freed ELSE UNCHANGED message
    /\ Ends
    /\ UNCHANGED <<app, sockFd, buffers, nextId, database, rxBuffer, peers>>

\* mangoh_bridge_mailbox_processGetCommand: copying a value that is found fails an
\* assertion (copyObject), also for the request for all of them.  The stored keys
\* are pointers to the packet register, so that a key may not be found.
processGet ==
    \/ database # {} /\ aborts
    \/ pending /\ aborts
    \/ /\ ~pending
       /\ consumed
       /\ GoesOn \/ Ends
       /\ UNCHANGED <<app, sockFd, buffers, nextId, database, message, rxBuffer, peers>>

\* mangoh_bridge_mailbox_processDeleteCommand: the response is never freed.
processDelete ==
    /\ consumed
    /\ database' \in {database} \cup {database \ {k} : k \in database}
    /\ jsonMsg' = TRUE
    /\ jsonMsgLen' = jsonMsgLen + 1
    /\ GoesOn \/ Ends
    /\ UNCHANGED <<app, sockFd, buffers, nextId, rxBuffer, peers>>

processUnknown ==
    /\ cleared
    /\ Ends
    /\ UNCHANGED <<app, sockFd, buffers, nextId, database, message, rxBuffer, peers, history>>

\* mangoh_bridge_mailbox_processCommands, the turn of a slot.  PUT always aborts:
\* its value is copied too.
processCommand ==
    /\ At("process") /\ buffers[pc.id]
    /\ readable(received[pc.id])
    /\ processRaw \/ processBare \/ processGet \/ aborts \/ processDelete \/ processUnknown

\* There is text in a slot, but no message yet.
waits(i) == buffers[i] /\ unreadable(received[i])

processNone ==
    /\ At("process")
    /\ received[pc.id] = <<>> \/ (waits(pc.id) /\ Len(received[pc.id]) < RecvLen)
    /\ GoesOn
    /\ UNCHANGED <<app, slots, nextId, database, message, rxBuffer, peers, history>>

\* The buffer is full and holds no message: it is cleared.
processFull ==
    /\ At("process")
    /\ waits(pc.id) /\ Len(received[pc.id]) = RecvLen
    /\ cleared
    /\ Ends
    /\ UNCHANGED <<app, sockFd, buffers, nextId, database, message, rxBuffer, peers, history>>

\* The slot was closed with text in it: the reader asserts that there is a buffer.
processClosed == At("process") /\ received[pc.id] # <<>> /\ ~buffers[pc.id] /\ aborts

-----------------------------------------------------------------------------
\* mangoh_bridge_mailbox_send and send_json: whether the clients get the text or
\* not, it is freed.  Some texts make the reader or the writer fail an assertion.
send == At("serve") /\ freed /\ Goto("accept")
        /\ UNCHANGED <<app, slots, nextId, database, rxBuffer, peers, history>>
sendFails == At("serve") /\ aborts

\* mangoh_bridge_mailbox_recv: the text leaves the buffer before the response is
\* written, which may fail.
Taken == Min({DataSize, Len(rxBuffer)})
takes ==
    /\ At("serve")
    /\ rxBuffer' = SubSeq(rxBuffer, Taken + 1, Len(rxBuffer))
    /\ Goto("accept")
    /\ UNCHANGED <<app, slots, nextId, database, message, peers>>

recv ==
    /\ takes
    /\ read' = IF astray THEN read ELSE read \o SubSeq(rxBuffer, 1, Taken)
    /\ UNCHANGED astray

recvUnanswered ==
    /\ Taken > 0
    /\ takes
    /\ read' = <<>>
    /\ astray' = TRUE

\* mangoh_bridge_mailbox_datastorePut of a value that the reader accepts.
datastorePut(k) ==
    /\ At("serve")
    /\ database' = database \cup {k}
    /\ Goto("accept")
    /\ UNCHANGED <<app, slots, nextId, message, rxBuffer, peers, history>>

\* mangoh_bridge_mailbox_datastoreGet: the answer is as long as jsonMsgLen says, and
\* stays pending.
datastoreGet(k) ==
    /\ At("serve")
    /\ IF k \in database /\ jsonMsg THEN aborts
       ELSE /\ IF k \in database
               THEN jsonMsg' = TRUE /\ jsonMsgLen' = jsonMsgLen + 1
               ELSE UNCHANGED message
            /\ Goto("accept")
            /\ UNCHANGED <<app, slots, nextId, database, rxBuffer, peers, read, astray>>

\* mangoh_bridge_mailbox_reset: the slots keep their buffers, and the datastore,
\* the pending text and the text to receive stay.
reset ==
    /\ At("serve")
    /\ sockFd' = [i \in Ids |-> INVALID]
    /\ received' = [i \in Ids |-> IF Open(i) THEN <<>> ELSE received[i]]
    /\ nextId' = 0
    /\ Goto("accept")
    /\ UNCHANGED <<app, buffers, database, message, rxBuffer, peers, history>>

\* AVAILABLE, a DATASTORE PUT that is not valid, a frame for another module, or no
\* frame at all.
otherFrame ==
    /\ At("serve")
    /\ Goto("accept")
    /\ UNCHANGED <<app, slots, nextId, database, message, rxBuffer, peers, history>>

\* The supervisor restarts the application.
restart ==
    /\ app = "aborted"
    /\ app' = "running"
    /\ Goto("accept")
    /\ sockFd' = [i \in Ids |-> INVALID]
    /\ buffers' = [i \in Ids |-> FALSE]
    /\ received' = [i \in Ids |-> <<>>]
    /\ nextId' = 0
    /\ database' = {}
    /\ jsonMsg' = FALSE
    /\ jsonMsgLen' = 0
    /\ rxBuffer' = <<>>
    /\ read' = <<>>
    /\ astray' = FALSE
    /\ UNCHANGED peers

Runner ==
    \/ noConnection \/ accepts \/ refuses \/ recvNothing \/ selectFails \/ recvText \/ recvEnd \/ sends
    \/ processCommand \/ processNone \/ processFull \/ processClosed
Frame ==
    \/ send \/ sendFails \/ recv \/ recvUnanswered \/ reset \/ otherFrame
    \/ \E k \in Keys : datastorePut(k) \/ datastoreGet(k)

Next == Runner \/ Frame \/ restart

Spec == Init /\ [][Next]_vars

\* The microcontroller goes on sending, so the runner goes on running.
FairSpec == Spec /\ WF_vars(Runner) /\ WF_vars(Frame)

-----------------------------------------------------------------------------
\* The types; no text exceeds its buffer (tcpClient.h, mailbox.h).
TypeOK ==
    /\ app \in {"running", "aborted"}
    /\ pc \in [at : {"accept", "recv", "send", "process", "serve"}, id : Ids]
    /\ sockFd \in [Ids -> Conns \cup {INVALID}]
    /\ buffers \in [Ids -> BOOLEAN]
    /\ received \in [Ids -> Seq(Units)]
    /\ \A i \in Ids : Len(received[i]) <= RecvLen
    /\ nextId \in Ids
    /\ database \subseteq Keys
    /\ jsonMsg \in BOOLEAN
    /\ jsonMsgLen \in 0..MaxMsgs + 1
    /\ rxBuffer \in Seq(Units) /\ Len(rxBuffer) <= RxSize
    /\ taken \in 0..MaxConns
    /\ sent \in [Conns -> 0..2 * MaxMsgs]
    /\ read \in Seq(Units)
    /\ astray \in BOOLEAN

\* What the microcontroller receives is whole RAW messages one after the other, each
\* at most once and those of a client in the order it sent them, however they were
\* cut by TCP and by RECV and whatever was lost to a full buffer - as long as no
\* message came together with the beginning of the next and no response was lost.
RawOnce ==
    LET s == read \o rxBuffer
        First == {k \in DOMAIN s : k % 2 = 1}
    IN  ~astray =>
            /\ Len(s) % 2 = 0
            /\ \A k \in First : Whole(s[k], s[k + 1])
            /\ \A j, k \in First : j < k /\ s[j].conn = s[k].conn => s[j].num < s[k].num

\* The answer of DATASTORE GET is the text of one value: the length it is sent with
\* was zero before, because the texts of SEND and of the clients' requests, which
\* share jsonMsg and jsonMsgLen with it, leave both set or both clear.
AnswerWhole == [][At("serve") /\ jsonMsg' /\ ~jsonMsg => jsonMsgLen' = 1]_vars

\* A whole message of a client, with nothing but whole messages after it, is acted
\* upon, or given up with its connection or the application, whatever the other
\* clients send: when a text in another slot is no message, the pass over the slots
\* goes on, and one that ends it is cleared.  Only peers that send without end can
\* hold up the others, and the bound on messages excludes that; the runner must get
\* as far as reading messages.
Ready(s) == readable(s) /\ ~unreadable(s)
Served ==
    []<>(pc.at = "process") =>
        \A i \in Ids : Ready(received[i]) ~> (~Ready(received[i]) \/ app # "running")
=============================================================================
