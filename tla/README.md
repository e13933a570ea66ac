# The Arduino bridge in TLA+

`arduinoBridge` is a Legato application. It connects the microcontroller of an
Arduino, over a serial line, to what the Linux side offers: files, processes, a
console and mailbox reached over TCP, sockets, and AirVantage. The microcontroller
sends request frames; the bridge checks each one, hands it to a module and answers.
This directory models that program, model-checks it on small instances and proves
theorems about each of its stateful components, its CRC and the buffer of its JSON writer.

## 1. Inventory

All code is in `bridgeComponent/`. There is one thread: the Legato event loop. It
calls `mangoh_bridge_eventHandler` when the serial port has input or hangs up, the
SIGTERM handler, and the data-router callbacks of AirVantage. Nothing else runs.
What is concurrent is outside: the microcontroller, the serial device, TCP peers,
child processes, the kernel's descriptor table, the supervisor.

| component | state | operations |
|---|---|---|
| bridge core (`bridge.c`) | packet registers, `closed`, `serialFd`, fd monitor, registries of commands, runners and resets | event handler: run the runners, read one frame, check, dispatch, answer; CLOSE, RESET; stop and start of the port; SIGTERM |
| packet (`packet.c`) | the registers `start idx len data crc`, shared by requests and responses | CRC, building of a response |
| file I/O (`fileIO.c`) | `fdList[256]`, `nextId` | OPEN, CLOSE, READ, WRITE, SEEK, POSITION, SIZE, IS DIRECTORY, reset |
| processes (`processes.c`, `popen2`) | 256 entries: pid, status, pipes, output buffer; `nextId` | RUN, RUNNING, WAIT, CLEAN UP, READ OUTPUT, AVAILABLE OUTPUT, WRITE INPUT, reset |
| console (`console.c`) with TCP server and clients (`tcpServer.c`, `tcpClient.c`) | listening socket; 10 slots: socket, two buffers and their lengths; `nextId`, `broadcast`; a buffer for READ | WRITE, READ, CONNECTED, reset; the runner: accept, receive, broadcast, send, drop starving clients |
| mailbox (`mailbox.c`, `json.c`) | a second TCP server and its clients, a receive buffer, the JSON message in the making, a data store | SEND, SEND JSON, RECV, AVAILABLE, PUT, GET, reset; the runner parses what clients send |
| sockets (`sockets.c`) | a listening socket, 10 slots: socket, connecting, connected, two buffers | LISTEN, ACCEPT, READ, WRITE, CONNECTED, CLOSE, CONNECTING, CONNECT, WRITE TO ALL; a runner; reset |
| airVantage (`airVantage.c`) | subscriptions, a receive buffer | SESSION START and END, SUBSCRIBE, PUSH (four types), AVAILABLE, RECV; the update callback; reset |

**Interactions.** Each module registers its commands in `cmdHdlrs`, and some
register a runner (console, mailbox, sockets, in this order) and a reset (file I/O,
console, mailbox, processes, sockets, airVantage). A handler reads its request from
`packet.msg.data` and builds the response in the same registers. RESET calls all
resets and stops at the first that fails. An assertion of any module ends the whole
application; `arduinoBridge.adef` has it restarted, and starting resets the
microcontroller. All modules draw their descriptors from one kernel table, in which
numbers are recycled.

**Hard behaviours.** Reads that give up after 50 ms and are taken for successes;
reads that block in the middle of a field; frames cut short, late or with lost
bytes; a port that disappears and is opened again inside a read; modules that fail
half way through RESET; calls that fail after part of their effect; recycled
descriptors and ids; children that end at any time; peers that connect, hang up and
do not receive. `PROJECT.json` lists them as `hazards`, each at its line.

**What makes each component correct.**

- *bridge*: a request runs at most once per frame sent, and only while the bridge
  is open; nothing that was not sent is run; a response belongs to the frame
  handled last; an answered RESET has reset everything; the port comes back.
- *packet*: the CRC is the one both sides mean, and it detects errors.
- *JSON*: a message is read back as it was written, and not before it is there; what is
  written fits the buffer.
- *file I/O*: an id means the file that was opened under it; nothing is leaked or
  closed twice; the descriptors of others are left alone.
- *processes*: output is delivered once, to whoever asks under the child's id;
  RUNNING and WAIT say what is true; no child is lost; blocking ends.
- *console*: bytes reach READ once and from the right peer; assertions on the
  slots hold; no peer stops the others for ever.
- *mailbox, sockets, airVantage*: messages are delivered once, whole and in order;
  the slots are used by one connection at a time; RESET forgets the old session.

## 2. Modules

| module | what it is | models |
|---|---|---|
| `Packet` | operators: `crcStep`, `crcUpdate` | `packet.c` |
| `CrcStream` | a stream of bytes with its CRC, the bit-serial reference and the CRCs of damaged streams | the loop of `crcUpdate` |
| `Json` | operators: `json_read`, `json_write` | reader and writer of `json.c` |
| `JsonBuffer` | a text written piece by piece to a buffer that grows | `checkOutputBufferSize` and `writeNext` in `json.c` |
| `MCCodecs` | `CrcStream`, or messages written through `JsonBuffer`, delivered in pieces and read | |
| `Bridge` | the core | `bridge.c`, `initResponse` |
| `BridgeService` | abstract: what the bridge promises the microcontroller | |
| `BridgeRefinement` | the mapping from `Bridge` to `BridgeService` | |
| `MCBridge` | values for `Bridge`: the protocol's bytes, the CRC of `Packet` | |
| `BridgeProofs` | theorems about `Bridge` and `CrcStream` | |
| `FileIO` | table of files over the kernel's descriptors | `fileIO.c` |
| `FileIOProofs` | theorems about `FileIO` | |
| `Processes` | table of children, pipes, the kernel's view | `processes.c`, `popen2` |
| `ProcessesProofs` | theorems about `Processes` | |
| `Console` | server, client slots, console, one frame at a time | `console.c`, `tcpServer.c`, `tcpClient.c` |
| `ConsoleProofs` | theorems about `Console` | |
| `Sockets` | slots that connect, accept, send and receive, one frame at a time | `sockets.c` |
| `SocketsProofs` | theorems about `Sockets` | |
| `Mailbox` | JSON messages of TCP clients, RAW text, datastore, one frame at a time | `mailbox.c`, on `tcpServer.c` and `tcpClient.c` |
| `MailboxProofs` | theorems about `Mailbox` and `JsonBuffer` | |
| `AirVantage` | fields, handlers, notifications, text for RECV | `airVantage.c` |
| `AirVantageProofs` | theorems about `AirVantage` | |
| `FiniteSums` | lemmas: least elements, sums over finite sets, counting in an array | |

`Bridge` sees the other modules as names: a handler answers or fails silently, a
reset succeeds or fails, and `touched` remembers which modules have run since their
last reset. `FileIO`, `Processes`, `Console`, `Sockets`, `Mailbox` and
`AirVantage` are what is behind those names. Each of them takes one frame of its own at
a time, as the event handler does, so they need not be multiplied with the core to see
their interleavings.

### Bridge

The thread gives way to the outside only where it waits for the line or calls a
module, so a step is one such piece: `pc` is `start`, `idx`, `len`, `data`, `crc`
(the field read next), `payload` (the frame passed its CRC check), `reset`
(`excute_resets` is running, `rst` calls done), `idle`, `reopen` (the loop of
`mangoh_bridge_start`), `terminated` or `dead`.

`msg` is the packet's registers. They are never cleared between frames, and a read
that returns 0 leaves them as they are (`NotRead`), after which `len` and `crc` go
through `ntohs` all the same (`Swap`). `Got(n)` is a read that gets its bytes: once
the first byte is there the code blocks until all are, so the step waits for all. A
device that goes away while it waits leaves the register half written
(`Interrupted`). `serialFd` tells apart an open port, one that hung up, one whose
`close()` failed, and none. Frames on `line` are bytes, with the program's CRC.

Abstracted: log output; the contents of results beyond a small set `Results`;
`tcsetattr` and `tcflush` (one success or failure, and the flush);
`mangoh_bridge_destroy` after the port is stopped, since the process has no work
left then. A response is written whole or, when the port is gone, not at all
(`written`).

### FileIO

`fdList` is indexed from `-Half`: ids are `int8_t` in the requests, so the upper half
of the ids names the memory before the table. In `mangoh_bridge_t` the packet comes
there (`bridge.h:118-123`): with 4-byte ints the ids 219 to 255 name its registers
(`PacketLen` ints), that is, bytes of the request, which may make any number (`Named`);
the ids below name the end of `cmdHdlrs`, which nobody registers and which is zero, hence
descriptor 0. `kernel` is the process's descriptor table, lowest number first;
`otherOpens` and `otherCloses` are the rest of the program using it. `given` and
`believed` are what the microcontroller knows from the responses: the file under each
id, and the position in it.

`close()` may report an error (EIO, EINTR) in CLOSE, which then answers NACK and keeps the
entry, and in RESET, which stops there (`Stops`). The descriptor is free all the same, as
Linux has it, so the entry is left behind (`outlived`) and its number may be given to
somebody else; a CLOSE whose response is not sent leaves it behind too. Four histories say
when the code has gone wrong: `misclosed` (an open descriptor was closed through an entry
left behind or an id beyond `int8_t`), `astray` (another request worked on a file that
way), `spilled` (an entry in use was overwritten, or a file was opened whose response was
lost), and `outlived` itself.

Left out: IS DIRECTORY and SIZE, which change nothing, and what becomes of a command no
module registers when a CLOSE has written -1 into its entry of `cmdHdlrs`. (What a CLOSE
writes into the packet is gone with the next frame.)

### Processes

`list` is the table, `child` the kernel's view of each pid. Reads and writes of
pipes block the bridge, and so does the `waitpid` of WAIT and CLEAN UP; such a request is
two steps (`startIO`, `wait` or `cleanupKills`, and the action that ends the call) and the
children act between. WAIT and CLEAN UP only get as far as `waitpid` with a signal in the
entry, which is there of a child already reaped, and then they fail; or it is the status
of a child whose entry was overwritten, and then they block until the new one ends.

A read of a pipe ends, and a write to it fails, when nobody holds the other end any more.
`ends` records who does: the child, from the `fork()`; the bridge, from the `pipe()` until
`popen2` closes them (`utils.c:183-197`); a child started later, which inherits what the
bridge holds at that moment (`forked`); and a descendant to which a child leaves them
(`Inherited`). Nothing in the application ignores SIGPIPE and nothing tells what the
framework does with it, so a write that nobody reads fails or ends the application
(`writeFails`). Children write, exit and are killed at any time; what SIGTERM does to one
is up to it, so `parted` records only who was sent it, or was let go of by CLEAN UP
without. The exit codes are not told apart.

Left out: pids that are given out again; a `close()` of a pipe that fails; a `popen2` that
fails after its first `pipe()`, which leaks descriptors that no table has; the ends of the
bridge's own, which children inherit too and which only delay the end of a sibling's
input; ids beyond `int8_t`. `ends` stands for both pipes of a child, as a process keeps or
leaves both.

### Console

`pc` walks through one event: `accept`, `recv`, `send` and `drop` slot by slot, then
`serve` for the frame. What the peers did is seen when `accept`, `recv` or `send`
meets it, so these choose their outcome. `rxBuffer` holds, for each byte, the
connection it came from, so that `ReadOnce` can say that no byte is read twice or
under another connection. `Collected` writes bytes where the code does, at twice the
length (`console_read` passes the end of the buffer *and* the length). `select()` is
called once for all slots, before the first; when it fails, the runner ends (`selectFails`).

Not modelled: `FD_CLR` with the descriptor -1 after a close, which writes outside the
set in principle (in practice into the set's neighbour word; nothing the model has
depends on it); `close()` that fails; a READ of more than fits a response, which the
Arduino library does not ask for. Sockets' descriptors are connections, never reused.

### Sockets

`pc` is the stage of one event, as in `Console`: `connecting` slot by slot
(`checkConnections`), `recv` and `send` slot by slot (`checkClients`), and `serve`
for the frame. A slot that fails ends the runner, so the slots behind it are not
served. `sockFd` holds the connection of a slot; connections are numbered as they are
made. Each byte in `txBuff` carries the connection it was written for, which is
`meant`: the connection the microcontroller knows under that id, from the last
response that reached it. Each byte in `rxBuff` carries the connection it came from.
`broken` is a connection that its peer has ended; the code finds out through
`recv`, `send` or `SO_ERROR`, each an action, or not at all:
the end of a stream counts as nothing received, and the slot stays open. `urgent` is a
connection whose peer has sent urgent data (`peerUrges`): this, and nothing else, puts a
socket into the exception set of `select()`, which the code takes for a broken connection,
so it closes the slot of a peer that is alive (`excepted`). `lost` says
that a response with a new id could not be written. CONNECT has one error path for
everything, and it closes the slot `nextId` points to by then: the one it was working
on, one that is in use (`connectRefused`), or, when only the response failed, the one
after it (`connectUntold`).

Abstracted: `close()` never fails; a failing `getsockopt()` is a failed connect; the
bytes of data, but for their connection; an ACCEPT whose `fcntl()` fails, which leaks
a descriptor that the table never sees; frames with ids the microcontroller was not
given, which for READ and WRITE change nothing as long as no response was lost.

### CrcStream

One step is one iteration of the loop of `crcUpdate`; `ref` is the register of a CRC that
takes one bit at a time, and `crcUpdate` itself, over all bytes so far, is compared with
both. An error is a word of bits to invert, the low ones in one byte of the stream and the
high ones in the next. `damaged` holds, for each stream that came out of one error, its CRC
and the bits that are still to be inverted; errors may start at every byte.

### Json

Text is a sequence of characters; a character stands for itself, and a number, `true`,
`false` or `null` for one. The reader is translated with its pointer and its count of
characters left (`ptr`, `len` of a result), because on its early exits the two part:
an array that ends with a wrong separator is a success whose pointer is still at the
start of the array. The outcome `aborted` is a failed assertion. The writer is the
list of its `memcpy` calls (`Piece`), each with the room the code makes for it before
the call. `JsonBuffer` copies such pieces one at a time: `checkRoom` asks for room and
`writeNext` settles the account the code keeps of the buffer (`allocLen`), apart from the
size (`cap`) that `realloc` was given. The step ends the application when the assertion
of `writeNext` fails (`WriteAborts`), and the writing when `realloc` fails (`NoMemory`).
Comments, numbers digit by digit, `\u` escapes and the helpers that
build and take apart the mailbox's objects are left out.

### Mailbox

The stages of an event are `accept`, `recv` and `send` as in `Console`, then `process`
slot by slot (`processCommands`), then `serve`. A message is two units of text, which
may arrive together, apart, or with the beginning of the next; that the reader of
`json.c` waits for the rest of a message and takes no more than it is checked in
`MCCodecs`, and `readable` is what `Mailbox` takes from it. What a message asks for is
chosen when it is read. `jsonMsg` and `jsonMsgLen` are the text that SEND, the
clients' requests and DATASTORE GET share: each handler frees it, or leaves it, as
the code does, and the assertions that it is free are actions that abort. `JUNK` is
text from beyond what was received, which `processCommands` takes for what follows a
message (`mailbox.c:826`). The model takes it for text that is no message. It may be an old
message that is whole, and then it is carried out again; by then `astray` is set, and nothing is
claimed of RECV any more.

A PUT of a client, and a GET that finds a value, always abort: they copy the value
and `copyObject` asserts on it. Keys of the datastore are pointers to the packet
register, so that a GET of a client may miss a value that is there. Abstracted: the
send buffers, so that sending may fail at any time; memory that runs out; hashes of
keys that collide; a `getCommand` that fails (`mailbox.c:830-837`), which clears the slot
and goes on: text whose type passed the assertion before it has a command or is treated as
one that asks for nothing.

### AirVantage

The data router is another process and is modelled as the environment: it holds the
`value` of each field, the handlers `registered` for it and the notifications
`pending`. A notification is served by the event loop between two frames, and the
handler reads the value only then, so that it may be newer than the one it was
notified of. Values are versions, the text of an update is two units. The keys of
`dataUpdateHandlers` are pointers to a stack frame that is gone, so the lookup before
a subscription may miss a field that is there; then a second handler is added
(`mapped`). The order of notifications is left open. Taken from the router: the
notifications of a removed handler are dropped. Left out: a lookup that misses a key which
the `le_hashmap_Put` of the same request then finds, whose old handler would be replaced and
the request fail (`airVantage.c:153-158`): both compare with what the same pointers show.
And a field whose type changes between notification and read: the code ignores the
result of the read (`airVantage.c:496-531`) and reports a zero or an empty string, where the
model has the field's value.

## 3. Runs

| run | instance | question | states |
|---|---|---|---|
| `Codecs` | streams of up to 4 bytes over 7 values, 15 errors; messages of up to 2 members nested twice, a first buffer of 8 characters | is the C code the CRC it stands for, and does it see errors within two adjacent bytes; is a written message read back, whole, and is the account of the buffer right | 1.1e4 |
| `BridgeFaults` | 2 requests, 2 faults of any of 8 kinds | types, no invented request, responses, completeness of RESET | 7.7e5 |
| `BridgeSession` | 3 requests of 5 kinds, 1 fault of 3 kinds | refinement of `BridgeService`, progress | 2.5e5 |
| `BridgeCrc` (violated) | as `BridgeFaults` | was the CRC that is compared received | |
| `FileIO` | 4 ids, 3 descriptors, 1 file, 1 int of the packet | tables, leaks, positions, foreign descriptors, RESET | 2.7e5 |
| `Processes` | 2 ids, 3 children, of which 2 write and leave descendants, buffers of 2 | output, RUNNING, lost children, blocking | 9.5e5 |
| `ProcessesWait` (violated) | as `Processes`, 1 child that writes | does WAIT wait | |
| `Console` | 2 slots, 2 connections, 4 bytes | bytes, assertions, are bytes read, WRITEs answered | 2.0e5 |
| `Sockets` | 2 slots, 4 connections, buffers of 3, frames of 2 bytes | slots, bytes, which connection a failing CONNECT ends | 8.9e5 |
| `Mailbox` | 2 slots, 3 connections, 3 messages, RECV buffer of one and a half | what RECV returns, DATASTORE GET, are messages dealt with | 1.6e6 |
| `AirVantage` | 2 fields, 2 writes and 2 handlers of each, buffer of two and a half updates | order, wholeness and origin of updates, do they arrive | 1.5e5 |
| `ConsoleAssert` (violated) | 2 slots, 2 connections | does `tcpServer.c:60` hold | |

**Bounds and why they are enough.** `Bridge`: `DataSize` 6 holds the longest protocol
string (RESET with the version is 5 bytes, CLOSE 5); two frames and two faults let one
frame's leftovers meet the next frame, and one fault follow another; three frames in the
session run let CLOSE, a command and RESET follow each other in any order and be on the
line together, and the device may go at any byte of them, and come back before or after
the bridge has noticed. One request has the index 255, which looks like a start byte.
`FileIO`: four ids give two below and two above the `int8_t` limit, and ids wrap within a
behaviour; one of the two above names the packet and one a zero; beside descriptor 0,
which is another's, two let two files be open, or one number be recycled by either side.
With `FollowOn = FALSE` behaviours end where a request has closed or worked on a
descriptor that is not its id's own (`misclosed`, `astray`): after that most properties
exempt themselves. Entries left behind by a failing `close()` or a lost response do not
end them. `Processes`: with two ids a third child takes over an entry, in use or not, and
is what a blocked `waitpid` waits for; a RESET stops at the first entry with the second
child alive; two children that write keep their outputs apart, and one inherits what the
other's `popen2` left open; the buffer is as large as all that is written, so that it is
full or not when read. `Console`: two slots give a sender and a receiver, a reused slot
(two connections with a RESET between them), and a slot with more bytes (4) than READ's
buffer (3); send buffers of 2 with WRITEs of up to 2 bytes reach full, nearly full and
overrun. `Sockets`: with two slots every slot is next to the next one, four connections
let each slot be used twice, and a buffer of 3 takes one and a half of the largest frames.
`Codecs`: the bytes exercise every shift and truncation, the errors are the one-bit ones
and longer ones within a byte and across its end, and four bytes leave two after an error
has ended; with a buffer of 8 characters every kind of piece meets the end of the buffer,
also the comma that has no room made for it, and strings of 12 are longer than the first
buffer; no text needs more than `MaxAlloc`. `Mailbox`: three connections reuse a slot; a
client's buffer takes two messages, so one can be followed by another or by half of one,
and be full without a message; a RECV buffer of one and a half messages makes one fit, one
not fit, and RECV (one unit) cut both. `AirVantage`: two writes of a field tell an older
value from a newer one, two handlers are a field subscribed to twice, and a third update
meets a buffer with half its room. `MaxSent`, `MaxConns`, `MaxMsgs`, `MaxVersion` and
`MaxHandlers` bound histories, not buffers.

All cfgs have `CHECK_DEADLOCK FALSE`: the program stops where the outside does
(bounded traffic), after SIGTERM, blocked in a pipe, and with a port that could not
be configured.

**Fairness.** `Bridge!FairSpec`: weak fairness of the program's own steps, which is
what one thread that is runnable gets; nothing of the microcontroller, the device,
the faults or the supervisor. `Processes!FairSpec`: weak fairness of the return of a
system call that can return (`Unblock`: a read with bytes or without a writer, a write
without a reader, a `waitpid` of a child that ended); children owe nothing, and no fairness
is asked of a write that waits for its reader (`writeInput`). `Console!FairSpec`: weak fairness
of the runner and of the frames, and strong fairness of READ and of the repetition of
an unanswered WRITE. Runners run only when frames arrive, so without a sketch that
polls nothing is promised by the code either; READ and WRITE are enabled only between
two runs of the runner, hence strong. `Mailbox!FairSpec`: weak fairness of the runner
and of the frames, nothing of the peers; `Served` is stated under the condition that
the runner gets as far as reading messages again and again, since a failing `accept`
or `recv` of another client ends it before. `AirVantage!FairSpec`: weak fairness of the
callback of each field, which the event loop calls when it is due, and of RECV, a
sketch that goes on reading.

### What the properties say

*Packet.* `CrcIsReference`: shifts and truncations give the bit-serial CRC with
polynomial x^16+x^12+x^5+1, reflected, byte by byte and for the message as a whole.
`ErrorsDetected`: no stream in which bits of one byte or of two bytes in a row were
inverted has the CRC of the stream that was sent.

*Json.* `PrefixesWait`: wherever TCP cuts a message, also after the brace of an inner
object or one in a string, its beginning is not taken for a message and aborts nothing.
`ReadsBack`: a written message is read back as it was, and the count of what is left is
right. Strings with quotes or backslashes are exempt from both: `writeString` escapes
quotes and not backslashes, and `readString` undoes neither. `RoomIsExact`: the writer's
account of its buffer is the real one, so the assertion of `writeNext` stands for the
end of the buffer, as long as no piece is longer than the first allocation. For such texts
the assertion fails only at a comma of `writeObject`, which asks for no room
(`json.c:1276`): TLC reaches that in `Codecs`, when the text up to the comma fills the buffer
exactly, and by then the comma is behind the end of the allocation. After a longer piece
both are lost: `checkOutputBufferSize` counts half of the new size as new room, which is
right only when the size doubles.

*Bridge.* `NoInvention`: a frame that was accepted was sent, or was not read whole and
repeats a request or a response of the bridge itself; frames without data are
exempt, since they run nothing that a stale register does not decide anyhow.
`OneReplyPerFrame`: a response answers the frame handled last, with its index, once.
`ResetLeavesNothing`: see the theorem. `ImplementsService`: with no frame cut and no
byte late, the byte-wise reader is a service that accepts requests in the order sent,
drops some, repeats none, runs commands only when open. `EveryRequestHandled`:
without faults all requests are handled. `Reconnects`: once the device is
back for good the port is open again and again, whatever was being read when it went and
whether it came back before or after the bridge noticed: `mangoh_bridge_start` tries until
`open()` succeeds. (Exempt: an application that was stopped or died. The run has no failing
`close()` and no failing configuration of the port, after which the code gives up.)

*FileIO.* `NoStale`, `NoLeak`: but for the entries left behind, the table is a one-to-one
picture of the open files. `KnowsPosition`: adding up responses gives the true position.
`OthersKept`: no command closes a descriptor of the rest of the program, but through an entry
left behind or an id beyond `int8_t`. `ResetFrees`: RESET stops only because of an error of
`close()`, its own or an earlier one, and leaves the entry it stopped at to the next; when it
gets through, no file is open.

*Processes.* `OutputOnce`: what was delivered, buffered and in the pipe is never more
than was written. `RunningHonest`: "running" if and only if it runs. `NoneLost`: every
child is in the table or was sent SIGTERM and its pipes closed, also when RESETs stop at a
child that RUNNING has reaped; CLEAN UP, which lets go of a running child without a signal, is
exempt. `ResumesOnExit`: a blocked bridge goes on when the child has ended and no descendant
of its has its pipes. What it takes is that the bridge keeps none of the child's ends itself
and passes none to the next child, which is what `popen2` must see to, and which the
mutant of this property leaves out.

*Console.* `ReadOnce`: no byte twice or under another connection, while no READ
collected bytes on top of left-over ones. `AssertsHold`: with memory, no assertion of
`tcpClient.c` on an open slot fails. `Drains`: bytes are read or their connection
ends, if no slot ever holds more than 1024. `WriteAnswered`: a repeated WRITE is
answered in the end, since starving clients are dropped, unless a client's buffer has
a little room, or the runner fails each time before it drops anybody.

*Sockets.* `Watched`: an open slot is connecting or connected, and not both; the runner
and the frames look only at these flags, so a slot in neither state would be stuck.
`NoCrossTalk`: no byte goes to or comes from another connection than the one the
microcontroller means, unless it missed the response that told it of one.
`OnlyOldestEvicted`: a connection with a living peer that sends no urgent data ends by CLOSE
or RESET only, or as the oldest of all, in the error path of a CONNECT.

*Mailbox.* `RawOnce`: RECV returns whole RAW messages, each at most once, those of a
client in the order it sent them, however TCP and RECV cut them and whatever did not
fit - as long as no message came together with the beginning of the next and no response
of RECV was lost (`astray`): RECV takes text out of the buffer before it answers.
`AnswerWhole`: the text that DATASTORE GET answers with is one value, since SEND, RAW,
GET and DELETE leave `jsonMsg` and its length both set or both clear. `Served`: a whole
message is acted upon or given up with its connection or the application; no text of
another client holds it up.

*AirVantage.* `WholeUpdates`: what RECV returns is whole updates, and no field goes back
to an older value, across overflows, sessions and double subscriptions, until a response
of RECV is lost and its text with it (`unheard`). `OnlyAsked`:
no handler in the data router and no update received since outlives the session it
was asked for in. `UpdateArrives`: a value that is notified arrives, or a newer one,
unless it does not fit, the session ends or a response is lost.

The exemptions are where the code goes wrong on its own terms; each is a hazard in
`PROJECT.json`.

### Findings

1. `BridgeCrc`: a frame is accepted although its CRC never came (`bridge.c:211`;
   `packet.h:55` calls the field the received CRC). A request that is cut short
   before its CRC leaves the register with the CRC of the last response.
2. `ProcessesWait`: WAIT answers at once, with exit status 0, for a child that runs
   (`processes.c:195`; `processes.h:107`).
3. `ConsoleAssert`: RESET with a console client, then a new connection, aborts the
   application (`tcpServer.c:60`; `console.c:163-180` frees no buffers).

## 4. Proofs

`BridgeProofs` proves, for every registry of commands, runners and resets, every set
of requests and every bound on frames and faults:

- `TypeCorrect`: `Spec => []TypeOK`. `TypeOK` is inductive. Its content is that two bytes
  make a word, that swapping a register that was not read keeps it a word, and that what
  is laid over `msg.data` stays within it. Lemmas per group of actions (`ReadingType`,
  `DispatchType`, `PortType`, `WorldType`), over lemmas on bytes and words (`WordBytes`,
  `TwoBytes`, `OverlayType`, `SendResultType`).
- `ResetIsComplete`: `Spec => ResetLeavesNothing`. When RESET is answered, or opens the
  bridge, all modules in `resets` are untouched. The inductive invariant is
  `ResetProgress`: while `excute_resets` runs, the first `rst` modules are untouched. It
  is needed because the property only speaks of the last step, and it holds because no
  handler or runner runs in between.
- `RepliesMatch`: `Spec => []OneReplyPerFrame`. The inductive invariant `ReplyInv` adds
  the types of the history, that the length was checked before data are read
  (`LengthChecked`: otherwise the body of a handled frame would not be a sequence of
  bytes), and `Unanswered`: while a frame is dispatched it is the last one handled, the
  registers still hold its index, and no response is addressed to it.
- `ServiceImplemented`: `Spec => ImplementsService` when `WholeFrames` holds, that is,
  when the only faults are that the device goes away and comes back, that the program
  aborts or gets SIGTERM, and that configuring the port fails: no byte is lost, late or
  cut off while the port is there, and `close()` succeeds on a port that hung up. The
  inductive invariant is `ServiceInv`. Its heart is `InStep`: while the port is open the
  line holds the frames of the requests sent from some `k`-th on, whole, but for the first
  bytes of the `k`-th, as many as the thread has taken (`Consumed`), and the registers
  hold what those bytes say (`Registers`). So a read in the middle of a frame always finds
  its bytes (`NeverGivesUp`), the start byte is one, the length is in range, the body and
  the CRC are those of the request (`StartInStep` to `CrcInStep`, over `LineShift`,
  `LineGrows` and `EncodeBytes`), whatever bytes the body has and whatever function the
  CRC is. `Taken` places the frames handled among the requests before the `k`-th, in
  order; it is stated apart for a port that is not open, where there is no `k`.
  `Dispatched` says that the frame handled last is in the registers with zeros behind it,
  that no command ran for it yet, and that a RESET under way is one (`KindOfPayload`,
  `ResetIsNoClose`: `memcmp` on `msg.data` finds the prefix of the payload because the
  protocol's strings have no zero in them). The refinement then goes action by action
  (`InitServes`, `StepServes`): `process_crc` is Accept, `close`, `ResetRefused`,
  `ResetDone`, `UnknownCommand` and `process_cmd` are CloseSession, Refuse, OpenSession,
  Refuse and Run while the response is written and nothing while it is not, `ReadFails`,
  SIGTERM and `Restart` are Reconnect, and all other steps are stutters.
- `NothingInvented`: `Spec => []NoInvention` under `WholeFrames`, from `Taken`.
- `CrcIsReferenceAlways`, `ErrorsDetectedAlways`, about `CrcStream`, for any first CRC,
  streams of any bytes and length and any errors within two bytes in a row. A word is
  taken apart into bits by way of its four nibbles (`WordBits`, `ValueOnce`); there
  exclusive or works pair by pair (`XorBits`), shifts and casts move bits (`OctetShifts`,
  `HighLow`, `JoinValue`), and each bit that the loop's body computes is the same
  difference of bits of the register and the byte as eight bits of the reference give
  (`EightBits`, `StepIsReference`). For errors, the reference distributes over differences
  and maps no two registers to one (`FourOnLaws`), and a difference of one byte is not
  gone after the eight bits that follow (`ByteShows`). The inductive invariant `CrcInv`
  says of every damaged stream that its CRC, combined with the bits still to be inverted
  in the next byte, differs from the CRC of the stream (`ErrorStarts`, `ErrorStays`). The
  recursive function in `crcUpdate` is shown to exist, and to extend by one step per byte,
  with a smallest counterexample in place of induction (`FollowsExists`, `FollowsSame`,
  `UpdateSteps`).
- `ProgramCrcFits`: the program's CRC is a word for every frame. It is what the theorems
  about `Bridge`, which hold for any CRC, assume of it.

`SocketsProofs` proves, for every number of slots, size of the buffers, length of
frames and number of connections:

- `TypeCorrect`: `Spec => []TypeOK`, where the content is that the buffers keep their
  sizes. Lemmas on sequences of one connection (`RepeatType`, `AppendedType`,
  `RemovedType`) say what appending and removing bytes does.
- `EverySlotServed` and `NoByteAstray`: `Spec => []Watched`, `Spec => []NoCrossTalk`. The
  inductive invariant `SlotInv` adds that the buffers of a free slot are empty
  (`FreeIsEmpty`: a new connection clears nothing itself) and that the microcontroller
  knows every open slot (`Known`), unless a response was `lost`.
- `EvictionOfOldest`: `Spec => OnlyOldestEvicted`. The inductive invariant is `Rotation`:
  going round the slots from `nextId`, the open ones appear in the order in which they
  were opened; a slot that is closed, by whatever cause, only leaves a gap. So the slot of
  `nextId`, if it is open, is the oldest; and when the slot before it was just filled, the
  next one is.

`AirVantageProofs` proves, for every set of fields, size of the buffer and number of
writes and handlers:

- `TypeCorrect`: `Spec => []TypeOK`. The type of `registered` is not inductive by itself:
  SESSION END subtracts the handlers in the map from it. The invariant `Handlers` adds
  that the two agree, that a handler belongs to a field asked for and a notification to a
  handler.
- `NoHandlerOutlives`: `Spec => []OnlyAsked`, from `Handlers` and `Fresh`: text beyond
  what was there when the last session ended (`left`) is of fields asked for since.
- `UpdatesStayWhole`: `Spec => []WholeUpdates`. The inductive invariant `Reading` is about
  the stream RECV still has to complete, the half of an update it returned last and the
  buffer: it is whole updates (`Whole`), in the order of their versions, none older than
  what was returned or newer than the value in the router (`Ordered`). The lemmas are
  about sequences: what is left after taking a part is whole and ordered (`WholeSuffix`,
  `OrderedSuffix`), and so is what an update extends (`Extended`). After a lost response
  only `seen <= value` is kept (`Following`), from which a restart begins anew.

`FiniteSums` holds the lemmas that `Processes`, `Console` and `Mailbox` need because they
count: what a sum over a finite set (`SumFunctionOnSet`) becomes when an element is
removed (`SumRemove`) or one summand changes (`SumChange`), how it compares with another
(`SumBelow`, `SumAtLeast`), and how a count splits over the parts of an array
(`CountSplit`). Induction over finite sets is done there by hand: a set for which a
statement fails has a smallest subset for which it fails (`MinimalSet`, from strict
inclusion being well-founded on finite sets), and that one leads to a contradiction. That
the fold behind the sum is well defined is proved the same way (`AddsExists`,
`AddsUnique`).

`FileIOProofs` proves, for every size of the table, number of descriptors, set of files and
bound on their size:

- `TypeCorrect`, `EntriesAreOpenFiles`, `OpenFilesAreEntries`, `PositionIsKnown`: `Spec =>
  []TypeOK`, `[]NoStale`, `[]NoLeak`, `[]KnowsPosition`. They need each other, so the
  inductive invariant `FileInv` is their conjunction with `Shape` (a descriptor of an open
  file has a file, a mode and a size) and `LeftBehind` (an entry left behind still has a
  number, so that RESET meets it). Nothing is assumed of what ids beyond `int8_t` name.
  The work is in `close` and `reset`: a descriptor that is freed there was the entry's
  own, hence no other entry's (`NoStale`), or `misclosed` is set; and where RESET stops,
  the entries before are cleared, the one it stops at is left behind and those after it
  are as they were.
- `ForeignKept`: `Spec => OthersKept`; from `NoStale`, what a CLOSE or RESET closes
  through an entry of its own is a file.
- `ResetLeavesNothingOpen`: `Spec => ResetFrees`; from `NoStale` a number that is not open
  is in an entry left behind only, from `NoLeak` nothing else is open.

`ProcessesProofs` proves, for every number of ids and children and every size of the
buffers:

- `TypeCorrect`, `OutputDeliveredOnce`: `Spec => []TypeOK`, `[]OutputOnce`. The inductive
  invariant `ProcInv` adds `Blocked` (a blocked bridge is about an entry in use, and CLEAN UP
  waits for a child it sent SIGTERM) and `Table`: unless an entry in use was overwritten, the
  entries are what the microcontroller was told, no child has two, and a free entry has no
  output. `Table` is what makes an id and a child the same thing when output changes hands.
- `RunningIsTrue`: `Spec => RunningHonest`.
- `NoChildLost`: `Spec => []NoneLost`; part of `ProcInv`. `Table` is needed for it too: an entry
  that is cleared is the only one of its child, so its pipes may be closed.

`ConsoleProofs` proves, for every number of slots and connections and every size of the
buffers:

- `TypeCorrect`, `BuffersAreThere`, `BytesReadOnce`: `Spec => []TypeOK`, `[]AssertsHold`,
  `[]ReadOnce`. The inductive invariant `ConsInv` adds `Equipped` (an open slot has both
  buffers while memory lasts), `Distinct` (no connection in two slots) and `Once`, which
  is `ReadOnce` taken apart: the bytes of `rxBuffer` are somebody's (`Filled`), what was
  delivered and what waits there does not exceed what was sent (`Accounted`), nor does it
  with the bytes of the connection's slot (`Waiting`). `ReadOnce` itself sums over the
  slots of a connection; `Distinct` leaves one of them. The steps that work are READ,
  where bytes move from slot to slot into one buffer, and RESET followed by ACCEPT, where
  a slot is used again.

`MailboxProofs` proves, for every number of slots, connections and messages and every size of
the buffers:

- `TypeCorrect`, `RawMessagesOnce`: `Spec => []TypeOK`, `[]RawOnce`. The inductive invariant
  is `MailInv`. `Shape` and `Distinct` are about the slots, a slot that kept its buffers
  over a RESET being empty. `Stream`: what a slot holds is what its peer sent last, in
  order. `Passed`: what RECV returned or will return comes before what the slots hold.
  So a message that a slot hands over is new and follows the earlier ones. `Counted` is
  there for the type of `jsonMsgLen`, which requests lengthen without clearing it:
  twice the length and the text in the slots is at most what was ever sent, and two. A
  message takes two units from a slot and adds one to the length at most, and GET adds one
  only to a text that was cleared; so the length is at most the messages begun, and one.
- `AnswerIsWhole`: `Spec => AnswerWhole`, from `Clear`: text that is gone has no length.
- `BufferTypeCorrect`, `RoomIsExactAlways`, about `JsonBuffer`, for all texts and any power
  of two as the first size: `Writer => []BufferTypeOK`, `[]RoomIsExact`; no count of the
  writer goes below zero. The inductive invariant `BufferInv` adds that the
  buffer's size is a power of two and never less than the first. So a piece that is no
  longer than that, and does not fit, makes the buffer double (`NextPower`), and half of the
  new size is what was added (`RoomGiven`).

The assumptions are that slots, buffers, tables, files and frames have positive sizes, and
those named in `Bridge` and `BridgeRefinement`: sizes (`DataSize` fits a word and holds
the protocol's strings), registries of the right shape, requests and results that fit, a
CRC that is a word, requests that are not empty (the first byte is the command), and
protocol strings of text without a zero, where RESET with its version does not begin with
CLOSE ("XX", "100", "XXXXX"). `CrcStream` assumes that the first CRC, bytes and errors are
in range and errors are not zero, `JsonBuffer` that the first and the largest size of the
buffer are powers of two (64 is).

Only model-checked: `NoInvention` and the refinement of `BridgeService` with the faults
that `WholeFrames` leaves out. A frame from which bytes were lost is told from a whole one
by the values of the CRC, and a frame cut short may be accepted (finding 1), so the
theorems would not hold for every CRC function. Also `PrefixesWait` and `ReadsBack`: the
JSON reader and writer are computations over nested data, written with `RECURSIVE`
operators. Out of the prover's reach: liveness and `ENABLED` (`EveryRequestHandled`,
`Reconnects`, `ResumesOnExit`, `Drains`, `WriteAnswered`, `Served`, `UpdateArrives`), and
induction over data, but for finite sets as in `FiniteSums` and numbers as for
`crcUpdate`.

## 5. Plan

What is left:

1. `Json`: comments and `\u` escapes.
2. Proofs: the other safety properties are proved, or stay with TLC for the reasons given
   in section 4.

## 6. Not modelled

Of `json.c`: comments, numbers digit by digit, `\u` escapes, and the functions that
build and take apart the objects of mailbox messages; they work on one call's data and
decide only what a message asks for, which `Mailbox` chooses freely. The Arduino
library and the example sketch: the framing library they call is not in the
repository, and the models' microcontroller may send any request. Build files. For the
rest see `components` in `PROJECT.json`.
