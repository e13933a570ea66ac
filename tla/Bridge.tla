------------------------------- MODULE Bridge -------------------------------
(***************************************************************************)
(* The core of the Arduino bridge (bridge.c, packet.c): the serial line, the*)
(* packet registers, the event handler that reads one frame field by field, *)
(* the dispatch of commands, CLOSE and RESET, the reconnection of the serial*)
(* port and the restart of the application by its supervisor.               *)
(*                                                                          *)
(* The program has one thread; it yields to the outside world wherever it   *)
(* reads the line or calls a module, so these are the steps.  The modules   *)
(* (console, file I/O, ...) are abstract here: a command handler answers or *)
(* fails, a reset succeeds or fails, and `touched` says which modules ran   *)
(* since they were last reset.                                              *)
(***************************************************************************)
EXTENDS Integers, Sequences

CONSTANTS
    DataSize,   \* MANGOH_BRIDGE_PACKET_DATA_SIZE
    Reset,      \* the bytes of the reset packet, "XX"
    Close,      \* the bytes of the close packet, "XXXXX"
    Version,    \* the bytes of the protocol version, "100"
    Crc(_),     \* the CRC of a sequence of bytes, starting at CRC_RESET
    Modules,    \* the bridge's sub-modules
    cmdHdlrs,   \* the registered commands, each with its module
    runners,    \* the modules of runnerList, in order of registration
    resets,     \* the modules of resetList, in order of registration
    Requests,   \* the requests the microcontroller sends: [idx, body]
    Results,    \* the results command handlers send
    MaxFrames,  \* bound: requests sent in a behaviour
    MaxFaults,  \* bound: faults in a behaviour
    FaultKinds  \* which faults may happen

START == 255
ACK == 0
NACK == 255
CRC_RESET == 65535
UINT16_MAX == 65535
Byte == 0..255
Word == 0..UINT16_MAX

ASSUME SizeAssumption == DataSize \in 1..UINT16_MAX
ASSUME CommandAssumption ==
    /\ Reset \in Seq(Byte) /\ Close \in Seq(Byte) /\ Version \in Seq(Byte)
    /\ Len(Reset) + Len(Version) <= DataSize
    /\ Len(Close) <= DataSize
    /\ Len(Version) < DataSize
ASSUME RegistryAssumption ==
    /\ \A c \in DOMAIN cmdHdlrs : cmdHdlrs[c] \in Modules
    /\ runners \in Seq(Modules)
    /\ resets \in Seq(Modules)
ASSUME TrafficAssumption ==
    /\ \A r \in Results : r \in Seq(Byte) /\ Len(r) <= DataSize
    /\ \A f \in Requests : f.idx \in Byte /\ f.body \in Seq(Byte) /\ Len(f.body) <= DataSize
    /\ MaxFrames \in Nat /\ MaxFaults \in Nat

VARIABLES
    \* the bridge (mangoh_bridge_t)
    pc,        \* where the single thread is
    msg,       \* packet.msg: the registers start, idx, len, data, crc
    closed,    \* the bridge was closed and waits for a reset
    serialFd,  \* "none" (-1), "open", "hung" (its device is gone), "broken" (close failed)
    monitor,   \* the fd monitor on the serial port exists
    rst,       \* how many resets of resetList the running RESET has called
    touched,   \* the modules whose handler or runner ran since their last reset
    \* the outside
    line,      \* the bytes sent to the bridge and not yet read
    device,    \* the serial device is there
    held,      \* the microcontroller is held in reset (mangoh_muxCtrl)
    faults,    \* the faults so far
    \* history
    sent,      \* the requests sent whole, in order
    got,       \* the fields of the current frame that really came from the line
    handled,   \* the frames that passed the CRC check, in order
    ran,       \* the commands given to a handler: [at, cmd, len]
    replies    \* the responses built: [to, idx, body, written]

link == <<serialFd, monitor, line, device, held>>
hist == <<sent, got, handled, ran, replies>>
vars == <<pc, msg, closed, rst, touched, faults, link, hist>>

-----------------------------------------------------------------------------
\* Mutant of Swap: the shifted byte is not cut off.
SwapWide(n) == n * 256 + n \div 256

\* ntohs and htons: the two bytes of a word exchanged.
Swap(n) == (n % 256) * 256 + n \div 256

\* The bytes of a frame that the CRC covers: start, idx, length, data.
Covered(idx, body) == <<START, idx, Len(body) \div 256, Len(body) % 256>> \o body

\* What the program sends back.
Outputs == Results \cup {<<ACK>>, <<NACK>>, <<0>> \o Version}

ASSUME CrcAssumption ==
    \A body \in Outputs \cup {f.body : f \in Requests} :
        \A idx \in Byte : Crc(Covered(idx, body)) \in Word

\* A frame on the wire.
Encode(f) ==
    LET c == Crc(Covered(f.idx, f.body))
    IN  Covered(f.idx, f.body) \o <<c \div 256, c % 256>>

\* msg.data after memset(0) and after a result was stored at its start.
Zeros == [i \in 1..DataSize |-> 0]
Overlay(bytes, data) == [i \in 1..DataSize |-> IF i <= Len(bytes) THEN bytes[i] ELSE data[i]]

\* The first msg.len bytes of msg.data.
Body(m) == SubSeq(m.data, 1, m.len)

\* memcmp(msg.data, bytes, sizeof(bytes)) == 0
HasPrefix(m, bytes) == \A i \in 1..Len(bytes) : m.data[i] = bytes[i]

HasVersion(m) == \A i \in 1..Len(Version) : m.data[Len(Reset) + i] = Version[i]

InitMsg == [start |-> 0, idx |-> 0, len |-> 0, data |-> Zeros, crc |-> CRC_RESET]

\* A fault of the environment, within the bound.
Fault(kind) ==
    /\ kind \in FaultKinds
    /\ faults < MaxFaults
    /\ faults' = faults + 1

-----------------------------------------------------------------------------
Init ==
    /\ pc = "reopen"
    /\ msg = InitMsg
    /\ closed = FALSE
    /\ serialFd = "none"
    /\ monitor = FALSE
    /\ rst = 0
    /\ touched = {}
    /\ line = <<>>
    /\ device = TRUE
    /\ held = TRUE
    /\ faults = 0
    /\ sent = <<>>
    /\ got = {}
    /\ handled = <<>>
    /\ ran = {}
    /\ replies = <<>>

\* mangoh_bridge_read: n bytes come from the line.  Once the first of them is
\* there the read blocks until all are.
Got(n) ==
    /\ serialFd = "open"
    /\ Len(line) >= n
    /\ line' = SubSeq(line, n + 1, Len(line))
    /\ UNCHANGED <<serialFd, faults>>

\* mangoh_bridge_stop inside the read fails: the callers take the positive errno
\* it returns for a number of bytes.
StopFails ==
    /\ serialFd = "hung"
    /\ Fault("close")
    /\ serialFd' = "broken"
    /\ UNCHANGED line

\* mangoh_bridge_read returns 0 after 50 ms without data, because nothing was
\* sent or because it is late; its callers only look for negative results.
NotRead ==
    \/ /\ serialFd = "open"
       /\ \/ line = <<>> /\ UNCHANGED faults
          \/ line # <<>> /\ Fault("late")
       /\ UNCHANGED <<serialFd, line>>
    \/ StopFails

\* mangoh_bridge_read fails: read() reports a hangup and the port is stopped and
\* opened again, or select() fails on a descriptor that is closed.
ReadFails ==
    /\ pc \in {"start", "idx", "len", "data", "crc"}
    /\ \/ /\ serialFd = "hung"
          /\ serialFd' = "none"
          /\ closed' = FALSE
          /\ monitor' = FALSE
          /\ pc' = "reopen"
       \/ /\ serialFd = "broken"
          /\ pc' = "idle"
          /\ UNCHANGED <<serialFd, closed, monitor>>
    /\ UNCHANGED <<msg, rst, touched, line, device, held, faults, hist>>

\* Mutant of Reopen: open() is not tried again when it fails.
ReopenOnce ==
    /\ pc = "reopen"
    /\ IF device
       THEN serialFd' = "open" /\ line' = <<>> /\ monitor' = TRUE /\ held' = FALSE
       ELSE UNCHANGED <<serialFd, line, monitor, held>>
    /\ pc' = "idle"
    /\ UNCHANGED <<msg, closed, rst, touched, device, faults, hist>>

\* The loop of mangoh_bridge_start: open() succeeds once the device is there, the
\* input is flushed, the monitor created and the microcontroller released from
\* reset; if configuring the port fails the descriptor stays without a monitor.
Reopen ==
    /\ pc = "reopen"
    /\ device
    /\ serialFd' = "open"
    /\ line' = <<>>
    /\ \/ monitor' = TRUE /\ held' = FALSE /\ UNCHANGED faults
       \/ UNCHANGED <<monitor, held>> /\ Fault("config")
    /\ pc' = "idle"
    /\ UNCHANGED <<msg, closed, rst, touched, device, hist>>

\* mangoh_bridge_eventHandler up to its read: the monitor reports input or a
\* hangup and the runners are called until one fails.
EventHandler ==
    /\ pc = "idle"
    /\ monitor
    /\ \/ serialFd = "open" /\ line # <<>>
       \/ serialFd = "hung"
    /\ \E k \in 0..Len(runners) :
          /\ k >= 1 \/ runners = <<>>
          /\ touched' = touched \cup {runners[i] : i \in 1..k}
    /\ pc' = "start"
    /\ UNCHANGED <<msg, closed, rst, faults, link, hist>>

\* The rest of the event handler: one byte, which starts a frame or is skipped.
ReadStart ==
    /\ pc = "start"
    /\ \/ Got(1) /\ msg' = [msg EXCEPT !.start = line[1]]
       \/ StopFails /\ UNCHANGED msg
    /\ pc' = IF msg'.start = START THEN "idx" ELSE "idle"
    /\ got' = {}
    /\ UNCHANGED <<closed, monitor, rst, touched, device, held, sent, handled, ran, replies>>

\* Mutant of process_msg_idx: an index that looks like a start byte ends the frame.
process_msg_idx_resync ==
    /\ pc = "idx"
    /\ \/ Got(1) /\ msg' = [msg EXCEPT !.idx = line[1]] /\ got' = got \cup {"idx"}
       \/ NotRead /\ UNCHANGED <<msg, got>>
    /\ pc' = IF msg'.idx = START THEN "idle" ELSE "len"
    /\ UNCHANGED <<closed, monitor, rst, touched, device, held, sent, handled, ran, replies>>

process_msg_idx ==
    /\ pc = "idx"
    /\ \/ Got(1) /\ msg' = [msg EXCEPT !.idx = line[1]] /\ got' = got \cup {"idx"}
       \/ NotRead /\ UNCHANGED <<msg, got>>
    /\ pc' = "len"
    /\ UNCHANGED <<closed, monitor, rst, touched, device, held, sent, handled, ran, replies>>

\* What process_payload_len does once the length is known: the data is cleared
\* unless the length is zero or out of range.
AfterLen(m) ==
    IF m.len = 0 \/ m.len > DataSize THEN m ELSE [m EXCEPT !.data = Zeros]

\* process_payload_len up to the read of the data.  ntohs is applied to whatever
\* the register holds, read or not.
process_payload_len ==
    /\ pc = "len"
    /\ \/ /\ Got(2)
          /\ msg' = AfterLen([msg EXCEPT !.len = line[1] * 256 + line[2]])
          /\ got' = got \cup {"len"}
       \/ /\ NotRead
          /\ msg' = AfterLen([msg EXCEPT !.len = Swap(msg.len)])
          /\ UNCHANGED got
    /\ pc' = IF msg'.len > DataSize THEN "idle" ELSE IF msg'.len = 0 THEN "crc" ELSE "data"
    /\ UNCHANGED <<closed, monitor, rst, touched, device, held, sent, handled, ran, replies>>

\* process_payload_len, the read of the data.
process_payload_data ==
    /\ pc = "data"
    /\ \/ /\ Got(msg.len)
          /\ msg' = [msg EXCEPT !.data = Overlay(SubSeq(line, 1, msg.len), Zeros)]
          /\ got' = got \cup {"data"}
       \/ NotRead /\ UNCHANGED <<msg, got>>
    /\ pc' = "crc"
    /\ UNCHANGED <<closed, monitor, rst, touched, device, held, sent, handled, ran, replies>>

\* Mutant of CrcMatches: the result of the comparison is ignored.
CrcIgnored(m) == TRUE

CrcMatches(m) == m.crc = Crc(Covered(m.idx, Body(m)))

\* process_crc: the received CRC, or the register swapped once more.
process_crc ==
    /\ pc = "crc"
    /\ \/ /\ Got(2)
          /\ msg' = [msg EXCEPT !.crc = line[1] * 256 + line[2]]
          /\ got' = got \cup {"crc"}
       \/ /\ NotRead
          /\ msg' = [msg EXCEPT !.crc = Swap(msg.crc)]
          /\ UNCHANGED got
    /\ IF CrcMatches(msg')
       THEN /\ pc' = "payload"
            /\ handled' = Append(handled, [idx |-> msg.idx, body |-> Body(msg), got |-> got'])
       ELSE /\ pc' = "idle"
            /\ UNCHANGED handled
    /\ UNCHANGED <<closed, monitor, rst, touched, device, held, sent, ran, replies>>

-----------------------------------------------------------------------------
\* mangoh_bridge_sendResult: the response is built in the packet registers, which
\* keep it, and written unless the port has gone.
sendResult(bytes) ==
    /\ msg' = [start |-> START, idx |-> msg.idx, len |-> Swap(Len(bytes)),
               data |-> Overlay(bytes, msg.data),
               crc |-> Swap(Crc(Covered(msg.idx, bytes)))]
    /\ replies' = Append(replies, [to |-> Len(handled), idx |-> msg.idx, body |-> bytes,
                                   written |-> serialFd = "open"])

\* A frame whose payload process_payload is about to look at.
Payload == pc = "payload" /\ UNCHANGED <<link, faults, sent, got, handled>>

\* Closed and not a reset: an error, without a reply.
RejectWhenClosed ==
    /\ Payload
    /\ closed
    /\ ~HasPrefix(msg, Reset)
    /\ pc' = "idle"
    /\ UNCHANGED <<msg, closed, rst, touched, ran, replies>>

\* mangoh_bridge_close: acknowledged, then closed; a wrong length gets no reply.
close ==
    /\ Payload
    /\ ~closed
    /\ HasPrefix(msg, Close)
    /\ pc' = "idle"
    /\ IF msg.len = Len(Close)
       THEN sendResult(<<ACK>>) /\ closed' = (serialFd = "open")
       ELSE UNCHANGED <<msg, closed, replies>>
    /\ UNCHANGED <<rst, touched, ran>>

IsReset == HasPrefix(msg, Reset) /\ (closed \/ ~HasPrefix(msg, Close))

\* mangoh_bridge_reset with a wrong length or version: NACK.
ResetRefused ==
    /\ Payload
    /\ IsReset
    /\ msg.len # Len(Reset) + Len(Version) \/ ~HasVersion(msg)
    /\ sendResult(<<NACK>>)
    /\ pc' = "idle"
    /\ UNCHANGED <<closed, rst, touched, ran>>

\* mangoh_bridge_reset accepted: excute_resets starts.
ResetAccepted ==
    /\ Payload
    /\ IsReset
    /\ msg.len = Len(Reset) + Len(Version)
    /\ HasVersion(msg)
    /\ rst' = 0
    /\ pc' = "reset"
    /\ UNCHANGED <<msg, closed, touched, ran, replies>>

\* Mutant of ResetModule: a failing reset is logged and the loop goes on.
ResetModuleGoesOn ==
    /\ pc = "reset"
    /\ rst < Len(resets)
    /\ rst' = rst + 1
    /\ touched' \in {touched, touched \ {resets[rst + 1]}}
    /\ UNCHANGED <<pc, msg, closed, faults, link, hist>>

\* Mutant of ResetModule: a failing reset is answered with NACK before the loop goes on.
ResetModuleNacks ==
    /\ pc = "reset"
    /\ rst < Len(resets)
    /\ rst' = rst + 1
    /\ \/ touched' = touched \ {resets[rst + 1]} /\ UNCHANGED <<msg, replies>>
       \/ sendResult(<<NACK>>) /\ UNCHANGED touched
    /\ UNCHANGED <<pc, closed, faults, link, sent, got, handled, ran>>

\* One call of excute_resets: the module is reset, or the call fails and the
\* whole RESET is given up without a reply.
ResetModule ==
    /\ pc = "reset"
    /\ rst < Len(resets)
    /\ \/ touched' = touched \ {resets[rst + 1]} /\ rst' = rst + 1 /\ UNCHANGED pc
       \/ pc' = "idle" /\ UNCHANGED <<touched, rst>>
    /\ UNCHANGED <<msg, closed, faults, link, hist>>

\* The end of mangoh_bridge_reset: result and version, then open again.
ResetDone ==
    /\ pc = "reset"
    /\ rst = Len(resets)
    /\ sendResult(<<0>> \o Version)
    /\ closed' = (closed /\ serialFd # "open")
    /\ pc' = "idle"
    /\ UNCHANGED <<rst, touched, faults, link, sent, got, handled, ran>>

\* Mutant of IsCommand: the closed flag is not looked at.
IsCommandOpenOrNot == ~HasPrefix(msg, Reset)

IsCommand == ~closed /\ ~HasPrefix(msg, Close) /\ ~HasPrefix(msg, Reset)

\* mangoh_bridge_process_cmd without a registered handler: NACK.
UnknownCommand ==
    /\ Payload
    /\ IsCommand
    /\ msg.data[1] \notin DOMAIN cmdHdlrs
    /\ sendResult(<<NACK>>)
    /\ pc' = "idle"
    /\ UNCHANGED <<closed, rst, touched, ran>>

\* mangoh_bridge_process_cmd: the module's handler answers, or fails silently.
process_cmd ==
    /\ Payload
    /\ IsCommand
    /\ msg.data[1] \in DOMAIN cmdHdlrs
    /\ touched' = touched \cup {cmdHdlrs[msg.data[1]]}
    /\ ran' = ran \cup {[at |-> Len(handled), cmd |-> msg.data[1], len |-> msg.len]}
    /\ \/ \E r \in Results : sendResult(r)
       \/ UNCHANGED <<msg, replies>>
    /\ pc' = "idle"
    /\ UNCHANGED <<closed, rst>>

-----------------------------------------------------------------------------
\* SIGTERM: mangoh_bridge_destroy stops the serial port; the process stays.
SigTermEventHandler ==
    /\ pc = "idle"
    /\ Fault("sigterm")
    /\ \/ /\ serialFd \in {"open", "hung"}
          /\ serialFd' = "none"
          /\ closed' = FALSE
          /\ monitor' = FALSE
       \/ /\ serialFd = "broken"
          /\ UNCHANGED <<serialFd, closed, monitor>>
    /\ pc' = "terminated"
    /\ UNCHANGED <<msg, rst, touched, line, device, held, hist>>

\* An LE_ASSERT or LE_FATAL of a module, a runner or mangoh_bridge_start fires.
Abort ==
    /\ pc \in {"reopen", "start", "payload", "reset"}
    /\ Fault("abort")
    /\ pc' = "dead"
    /\ UNCHANGED <<msg, closed, rst, touched, link, hist>>

\* The supervisor starts the program again (faultAction: restart); its
\* initialisation resets the microcontroller and clears all state.
Restart ==
    /\ pc = "dead"
    /\ pc' = "reopen"
    /\ msg' = InitMsg
    /\ closed' = FALSE
    /\ serialFd' = "none"
    /\ monitor' = FALSE
    /\ rst' = 0
    /\ touched' = {}
    /\ line' = <<>>
    /\ held' = TRUE
    /\ UNCHANGED <<device, faults, hist>>

bridge == <<pc, msg, closed, serialFd, monitor, rst, touched, got, handled, ran, replies>>

\* The microcontroller sends a request, or its frame is cut short.
Send(f) ==
    /\ device /\ ~held
    /\ \/ /\ Len(sent) < MaxFrames
          /\ line' = line \o Encode(f)
          /\ sent' = Append(sent, f)
          /\ UNCHANGED faults
       \/ /\ Fault("cut")
          /\ \E k \in 1..Len(Encode(f)) - 1 : line' = line \o SubSeq(Encode(f), 1, k)
          /\ UNCHANGED sent
    /\ UNCHANGED <<device, held, bridge>>

\* A byte is lost on the line.
Lose ==
    /\ Fault("lose")
    /\ \E i \in 1..Len(line) :
          line' = [j \in 1..Len(line) - 1 |-> IF j < i THEN line[j] ELSE line[j + 1]]
    /\ UNCHANGED <<device, held, sent, bridge>>

\* A read that waits for the rest of its bytes when the device goes away: those that
\* have come are already in the register.
Interrupted ==
    /\ serialFd = "open"
    /\ line # <<>>
    /\ \/ pc = "len" /\ msg' = [msg EXCEPT !.len = (msg.len \div 256) * 256 + line[1]]
       \/ pc = "crc" /\ msg' = [msg EXCEPT !.crc = (msg.crc \div 256) * 256 + line[1]]
       \/ \E k \in 1..Len(line) :
             /\ pc = "data" /\ k < msg.len
             /\ msg' = [msg EXCEPT !.data = Overlay(SubSeq(line, 1, k), Zeros)]

\* The serial device goes away, with what it has not delivered, and comes back.
Unplug ==
    /\ device
    /\ Fault("unplug")
    /\ Interrupted \/ UNCHANGED msg
    /\ device' = FALSE
    /\ line' = <<>>
    /\ serialFd' = IF serialFd = "open" THEN "hung" ELSE serialFd
    /\ UNCHANGED <<pc, closed, monitor, rst, touched, held, hist>>

Plug ==
    /\ ~device
    /\ device' = TRUE
    /\ UNCHANGED <<line, held, faults, sent, bridge>>

\* The steps of the program, and those of the world around it.
Program ==
    \/ ReadFails \/ Reopen \/ EventHandler \/ ReadStart
    \/ process_msg_idx \/ process_payload_len \/ process_payload_data \/ process_crc
    \/ RejectWhenClosed \/ close \/ ResetRefused \/ ResetAccepted
    \/ ResetModule \/ ResetDone \/ UnknownCommand \/ process_cmd

World ==
    \/ \E f \in Requests : Send(f)
    \/ SigTermEventHandler \/ Abort \/ Restart \/ Lose \/ Unplug \/ Plug

Next == Program \/ World

Spec == Init /\ [][Next]_vars

-----------------------------------------------------------------------------
\* The types of the registers and of the program's state.
TypeOK ==
    /\ pc \in {"reopen", "idle", "start", "idx", "len", "data", "crc", "payload", "reset",
              "terminated", "dead"}
    /\ msg \in [start : Byte, idx : Byte, len : Word, data : [1..DataSize -> Byte], crc : Word]
    /\ closed \in BOOLEAN
    /\ serialFd \in {"none", "open", "hung", "broken"}
    /\ monitor \in BOOLEAN
    /\ rst \in 0..Len(resets)
    /\ touched \subseteq Modules
    /\ line \in Seq(Byte)
    /\ device \in BOOLEAN
    /\ held \in BOOLEAN
    /\ faults \in 0..MaxFaults

\* A frame with data that passed the CRC check and was read whole was sent by the
\* microcontroller; one that was not read whole repeats, field for field, a
\* request or one of the bridge's own responses, left in the packet registers
\* (process_crc, initResponse).
NoInvention ==
    \A i \in DOMAIN handled :
        LET h == handled[i]
        IN  \/ h.body = <<>>
            \/ \E j \in DOMAIN sent : sent[j].idx = h.idx /\ sent[j].body = h.body
            \/ /\ h.got # {"idx", "len", "data", "crc"}
               /\ \E j \in DOMAIN replies : replies[j].idx = h.idx /\ replies[j].body = h.body

\* The CRC compared in process_crc came from the line with the frame, as the
\* field's comment says (packet.h, "Rx 16-bit CRC").
CrcWasReceived == \A i \in DOMAIN handled : "crc" \in handled[i].got

\* Every response goes to the frame handled last, carries its index and is the
\* only one to it, whatever is lost, late or cut (initResponse keeps msg.idx).
OneReplyPerFrame ==
    \A i \in DOMAIN replies :
        /\ replies[i].to \in DOMAIN handled
        /\ replies[i].idx = handled[replies[i].to].idx
        /\ i > 1 => replies[i - 1].to < replies[i].to

\* When a RESET is answered with the version, and when a closed bridge is opened
\* by it, every module has been reset since its handler or runner last ran, also
\* after resets that failed half way (excute_resets, mangoh_bridge_reset).
ResetLeavesNothing ==
    [][pc = "reset" /\ (replies' # replies \/ closed' # closed)
         => \A i \in DOMAIN resets : resets[i] \notin touched']_vars

\* The event loop runs whenever it has something to do; nothing is assumed of the
\* microcontroller, of the device or of the supervisor.
FairSpec == Spec /\ WF_vars(Program)

\* While nothing goes wrong on the line or with the port, every request sent is
\* read, checked and dispatched in the end, though the thread runs only when input
\* is reported and reads the fields one by one.
EveryRequestHandled ==
    \A n \in 1..MaxFrames : (Len(sent) = n /\ faults = 0) ~> (Len(handled) >= n \/ faults > 0)

\* Once the serial device is back for good, the port is opened again and stays open,
\* whatever the bridge was reading when the device went and whether it came back before
\* or after the bridge noticed - unless the application was stopped or died, and as long
\* as the port can be closed and configured (the error path of mangoh_bridge_read, the
\* loop of mangoh_bridge_start).
Reconnects == <>[]device => []<>(serialFd = "open" \/ pc \in {"terminated", "dead"})
=============================================================================
