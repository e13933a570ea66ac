----------------------------- MODULE Processes -----------------------------
(***************************************************************************)
(* The process commands of the bridge (processes.c, popen2 of utils.c): a   *)
(* table of children, their pipes, and the kernel's view of them.  The reads*)
(* and writes of the pipes and waitpid() block the whole bridge, so such a  *)
(* request is two steps, between which the children go on.  Output is       *)
(* counted in bytes.                                                        *)
(*                                                                          *)
(* A pipe ends when the last process that holds its other end is gone, so   *)
(* the model records who holds each child's ends: the child, a descendant   *)
(* it leaves behind (-p), and the bridge itself, from pipe() to close().    *)
(*                                                                          *)
(* Ids are int8_t in the requests: larger ones are given out, but the       *)
(* microcontroller of the model does not use them.                          *)
(***************************************************************************)
EXTENDS Integers, Functions

CONSTANTS
    NumIds,    \* MANGOH_BRIDGE_PROCESSES_NUM_IDS, 256
    MaxInt8,   \* the largest int8_t, 127
    BuffSize,  \* the size of outputBuff, 128
    MaxPids,   \* bound: the children started; no pid is given out again
    MaxBusy,   \* bound: the first children, which alone write and leave descendants
    MaxOutput  \* bound: the bytes the children write

ASSUME TableAssumption == NumIds \in Nat /\ NumIds > 0 /\ MaxInt8 \in Nat
ASSUME BuffAssumption == BuffSize \in Nat /\ BuffSize > 0
ASSUME BoundAssumption == MaxPids \in Nat /\ MaxBusy \in Nat /\ MaxOutput \in Nat

INVALID_PID == -1
Ids == 0..NumIds - 1
Pids == 1..MaxPids
\* The ids a request can name.
UsedIds == {id \in Ids : id <= MaxInt8}

VARIABLES
    list,      \* the table: [pid, status, outputBuffLen]
    nextId,
    pc,        \* [op, id]: the request that blocks the bridge, or "idle"
    \* the kernel
    child,     \* of each pid: none, running, exited, signalled (zombies), reaped
    piped,     \* the children whose pipes the bridge holds open
    ends,      \* of each pid: who holds the child's own ends of its pipes
    output,    \* bytes in the pipe from each child
    \* history
    given,     \* the child the microcontroller started under each id, or -1
    produced,  \* bytes each child wrote
    delivered, \* bytes of it that responses carried
    parted,    \* the children sent SIGTERM, or let go of by CLEAN UP without it
    told,      \* what this step told the microcontroller: [op, pid, alive]
    spilled    \* an entry in use was overwritten

kernel == <<child, piped, ends, output>>
notes == <<given, produced, delivered, parted, spilled>>
vars == <<list, nextId, pc, kernel, notes, told>>

\* A status is an exit code (WIFEXITED) or a signal.
EXITED == "exited"
SIGNALLED == "signalled"
Status == {EXITED, SIGNALLED}

\* The table entry of no process; its status is zero, which is an exit code.
Empty == [pid |-> INVALID_PID, status |-> EXITED, outputBuffLen |-> 0]
Nothing == [op |-> "none", pid |-> INVALID_PID, alive |-> FALSE]
Idle == [op |-> "idle", id |-> 0]
Gone == [op |-> "gone", id |-> 0]
BRIDGE == 0
Holders == {BRIDGE} \cup Pids \cup {-p : p \in Pids}

Pid(id) == list[id].pid
Answer(op, p, alive) == [op |-> op, pid |-> p, alive |-> alive]
InUse(id) == Pid(id) # INVALID_PID
Alive(p) == p \in Pids /\ child[p] = "running"
Zombie(p) == child[p] \in {"exited", "signalled"}
Least(m, n) == IF m <= n THEN m ELSE n

Init ==
    /\ list = [id \in Ids |-> Empty]
    /\ nextId = 0
    /\ pc = Idle
    /\ child = [p \in Pids |-> "none"]
    /\ piped = {}
    /\ ends = [p \in Pids |-> {}]
    /\ output = [p \in Pids |-> 0]
    /\ given = [id \in Ids |-> INVALID_PID]
    /\ produced = [p \in Pids |-> 0]
    /\ delivered = [p \in Pids |-> 0]
    /\ parted = {}
    /\ told = Nothing
    /\ spilled = FALSE

-----------------------------------------------------------------------------
\* Mutant of nextIdAfter: the id does not wrap.
nextIdUnwrapped == nextId + 1

\* mangoh_bridge_processes_run: the next id; only the pid and the pipes of an entry
\* are set.
nextIdAfter == (nextId + 1) % NumIds
Started(p) == [list EXCEPT ![nextId].pid = p]

\* The child has the ends its parent has at the fork(): its own and those of other
\* children, if any.
forked(p) ==
    [q \in Pids |-> IF q = p THEN {BRIDGE, p}
                   ELSE IF BRIDGE \in ends[q] THEN ends[q] \cup {p} ELSE ends[q]]

\* Mutant of popen2: the parent keeps the child's ends.
popen2KeepsEnds(p) == forked(p)

\* popen2: the parent closes the child's ends after the fork().
popen2(p) == [forked(p) EXCEPT ![p] = @ \ {BRIDGE}]

\* popen2 succeeds: the child runs under the next id.
run(p) ==
    /\ pc = Idle
    /\ child[p] = "none"
    /\ \A q \in Pids : q < p => child[q] # "none"
    /\ list' = Started(p)
    /\ nextId' = nextIdAfter
    /\ child' = [child EXCEPT ![p] = "running"]
    /\ piped' = piped \cup {p}
    /\ ends' = popen2(p)
    /\ given' = [given EXCEPT ![nextId] = p]
    /\ spilled' = (spilled \/ InUse(nextId))
    /\ told' = Nothing
    /\ UNCHANGED <<pc, output, produced, delivered, parted>>

\* popen2 fails: the entry's pid is overwritten, the id is not used up.
runFails ==
    /\ pc = Idle
    /\ list' = [list EXCEPT ![nextId].pid = INVALID_PID]
    /\ spilled' = (spilled \/ InUse(nextId))
    /\ told' = Nothing
    /\ UNCHANGED <<nextId, pc, kernel, given, produced, delivered, parted>>

\* Mutant of runningAnswer: a child that was reaped counts as running.
runningAnswerReaped(p) == ~Zombie(p)

\* waitpid with WNOHANG: ECHILD and an exit mean that the child does not run.
runningAnswer(p) == child[p] = "running"

\* mangoh_bridge_processes_running: a zombie is reaped and its status kept; one
\* that was killed by a signal is reaped too but gets no answer.
running(id) ==
    /\ pc = Idle
    /\ IF ~InUse(id)
       THEN /\ told' = Answer("running", given[id], FALSE)
            /\ UNCHANGED <<list, child>>
       ELSE /\ list' = IF Zombie(Pid(id)) THEN [list EXCEPT ![id].status = child[Pid(id)]] ELSE list
            /\ child' = IF Zombie(Pid(id)) THEN [child EXCEPT ![Pid(id)] = "reaped"] ELSE child
            /\ told' = IF child[Pid(id)] = "signalled" THEN Nothing
                       ELSE Answer("running", given[id], runningAnswer(Pid(id)))
    /\ UNCHANGED <<nextId, pc, piped, ends, output, notes>>

\* mangoh_bridge_processes_wait: with an exit code in the entry it answers at once;
\* with a signal there, waitpid fails (ECHILD: the child is reaped already), unless
\* the entry was overwritten and the signal is not this child's.
wait(id) ==
    /\ pc = Idle
    /\ InUse(id)
    /\ \/ /\ list[id].status = EXITED
          /\ told' = Answer("wait", Pid(id), FALSE)
          /\ UNCHANGED pc
       \/ /\ list[id].status = SIGNALLED
          /\ child[Pid(id)] # "reaped"
          /\ pc' = [op |-> "wait", id |-> id]
          /\ told' = Nothing
    /\ UNCHANGED <<list, nextId, kernel, notes>>

\* mangoh_bridge_processes_close, and what it leaves of the child's entry.
Closed(id) == [list EXCEPT ![id] = Empty]
closes(id) ==
    /\ list' = Closed(id)
    /\ piped' = piped \ {Pid(id)}
    /\ output' = [output EXCEPT ![Pid(id)] = 0]
    /\ given' = [given EXCEPT ![id] = INVALID_PID]

\* mangoh_bridge_processes_cleanup: a child whose entry has an exit code is not
\* killed but forgotten.
cleanup(id) ==
    /\ pc = Idle
    /\ InUse(id)
    /\ list[id].status = EXITED
    /\ closes(id)
    /\ parted' = parted \cup {Pid(id)}
    /\ told' = Nothing
    /\ UNCHANGED <<nextId, pc, child, ends, produced, delivered, spilled>>

\* Otherwise kill fails, the child being reaped already, unless the entry was
\* overwritten: then SIGTERM is sent and the child waited for.
cleanupKills(id) ==
    /\ pc = Idle
    /\ InUse(id)
    /\ list[id].status = SIGNALLED
    /\ child[Pid(id)] # "reaped"
    /\ parted' = parted \cup {Pid(id)}
    /\ pc' = [op |-> "cleanup", id |-> id]
    /\ told' = Nothing
    /\ UNCHANGED <<list, nextId, kernel, given, produced, delivered, spilled>>

\* waitpid returns to wait or cleanup with the child's end: after an exit they answer,
\* after a signal they call it again, which fails.
waited ==
    /\ pc.op \in {"wait", "cleanup"}
    /\ Zombie(Pid(pc.id))
    /\ child' = [child EXCEPT ![Pid(pc.id)] = "reaped"]
    /\ pc' = Idle
    /\ IF pc.op = "cleanup" /\ child[Pid(pc.id)] = "exited"
       THEN closes(pc.id)
       ELSE /\ list' = [list EXCEPT ![pc.id].status = child[Pid(pc.id)]]
            /\ UNCHANGED <<piped, output, given>>
    /\ told' = IF pc.op = "wait" /\ child[Pid(pc.id)] = "exited"
               THEN Answer("wait", Pid(pc.id), FALSE) ELSE Nothing
    /\ UNCHANGED <<nextId, ends, produced, delivered, parted, spilled>>

\* readOutput, availableOutput and writeInput up to their read or write.
startIO(op, id) ==
    /\ pc = Idle
    /\ InUse(id)
    /\ pc' = [op |-> op, id |-> id]
    /\ told' = Nothing
    /\ UNCHANGED <<list, nextId, kernel, notes>>

\* read() of a pipe returns: there are bytes, no room for any, or no writer left.
ReadReturns(id) ==
    output[Pid(id)] > 0 \/ list[id].outputBuffLen = BuffSize \/ ends[Pid(id)] = {}

\* What is left of the buffer, and the bytes read() puts there.
Room(id) == BuffSize - list[id].outputBuffLen
Fill(id) == Least(output[Pid(id)], Room(id))

\* Mutant of Taken: the bytes sent stay in the buffer.
TakenNone(n) == 0

\* The bytes memmove takes from the buffer after n were copied to the response.
Taken(n) == n

\* mangoh_bridge_processes_readOutput after the read: at most the len bytes of the
\* request leave the buffer; if the response cannot be sent they are lost.
readOutput ==
    /\ pc.op = "read"
    /\ ReadReturns(pc.id)
    /\ \E len \in 1..BuffSize :
         LET p == Pid(pc.id)
             have == list[pc.id].outputBuffLen + Fill(pc.id)
             n == Least(have, len)
         IN  /\ output' = [output EXCEPT ![p] = @ - Fill(pc.id)]
             /\ list' = [list EXCEPT ![pc.id].outputBuffLen = have - Taken(n)]
             /\ \/ delivered' = [delivered EXCEPT ![p] = @ + n]
                \/ UNCHANGED delivered
    /\ pc' = Idle
    /\ told' = Nothing
    /\ UNCHANGED <<nextId, child, piped, ends, given, produced, parted, spilled>>

\* mangoh_bridge_processes_availableOutput after the read.
availableOutput ==
    /\ pc.op = "avail"
    /\ ReadReturns(pc.id)
    /\ output' = [output EXCEPT ![Pid(pc.id)] = @ - Fill(pc.id)]
    /\ list' = [list EXCEPT ![pc.id].outputBuffLen = @ + Fill(pc.id)]
    /\ pc' = Idle
    /\ told' = Nothing
    /\ UNCHANGED <<nextId, child, piped, ends, notes>>

\* mangoh_bridge_processes_writeInput after the write: the pipe had room, now or once
\* whoever holds its other end has read, which need not happen.
writeInput ==
    /\ pc.op = "write"
    /\ ends[Pid(pc.id)] # {}
    /\ pc' = Idle
    /\ told' = Nothing
    /\ UNCHANGED <<list, nextId, kernel, notes>>

\* Or nobody reads it any more and the request fails (EPIPE), or the application does,
\* if it does not ignore SIGPIPE, which no file of it does.
writeFails ==
    /\ pc.op = "write"
    /\ ends[Pid(pc.id)] = {}
    /\ pc' \in {Idle, Gone}
    /\ told' = Nothing
    /\ UNCHANGED <<list, nextId, kernel, notes>>

\* The entries mangoh_bridge_processes_reset gets through: kill fails at the first
\* child that was reaped.
Reaped == {id \in Ids : InUse(id) /\ child[Pid(id)] = "reaped"}
Reached == {id \in Ids : \A j \in Reaped : id < j}
Signals == {Pid(id) : id \in {i \in Reached : InUse(i)}}

\* Mutant of reset: the entries are cleared and their pipes closed, without a kill.
resetSparesChildren ==
    /\ pc = Idle
    /\ list' = [id \in Ids |-> IF id \in Reached THEN Empty ELSE list[id]]
    /\ piped' = piped \ Signals
    /\ output' = [p \in Pids |-> IF p \in Signals THEN 0 ELSE output[p]]
    /\ given' = [id \in Ids |-> IF id \in Reached THEN INVALID_PID ELSE given[id]]
    /\ told' = Nothing
    /\ UNCHANGED <<nextId, pc, child, ends, produced, delivered, parted, spilled>>

\* mangoh_bridge_processes_reset: what SIGTERM does to a child is up to it, and nobody
\* waits for it.  nextId goes on.
reset ==
    /\ pc = Idle
    /\ list' = [id \in Ids |-> IF id \in Reached THEN Empty ELSE list[id]]
    /\ piped' = piped \ Signals
    /\ output' = [p \in Pids |-> IF p \in Signals THEN 0 ELSE output[p]]
    /\ parted' = parted \cup Signals
    /\ given' = [id \in Ids |-> IF id \in Reached THEN INVALID_PID ELSE given[id]]
    /\ told' = Nothing
    /\ UNCHANGED <<nextId, pc, child, ends, produced, delivered, spilled>>

-----------------------------------------------------------------------------
\* A child, or a descendant it left its ends to, writes.
Others(p) == ends[p] \ {BRIDGE}
TotalOutput == FoldFunction(+, 0, produced)

childWrites(p) ==
    /\ Others(p) # {}
    /\ p \in piped
    /\ p <= MaxBusy
    /\ TotalOutput < MaxOutput
    /\ produced' = [produced EXCEPT ![p] = @ + 1]
    /\ output' = [output EXCEPT ![p] = @ + 1]
    /\ told' = Nothing
    /\ UNCHANGED <<list, nextId, pc, child, piped, ends, given, delivered, parted, spilled>>

\* The holder h is gone: nobody has its ends, or a descendant has them.
Without(h) == [q \in Pids |-> ends[q] \ {h}]
Inherited(p) == [q \in Pids |-> IF p \in ends[q] THEN (ends[q] \ {p}) \cup {-p} ELSE ends[q]]

\* A child exits or is killed by a signal, SIGTERM or another.
childEnds(p) ==
    /\ Alive(p)
    /\ child' \in {[child EXCEPT ![p] = "exited"], [child EXCEPT ![p] = "signalled"]}
    /\ ends' \in {Without(p)} \cup {Inherited(q) : q \in {p} \cap 1..MaxBusy}
    /\ told' = Nothing
    /\ UNCHANGED <<list, nextId, pc, piped, output, notes>>

descendantEnds(p) ==
    /\ \E q \in Pids : -p \in ends[q]
    /\ ends' = Without(-p)
    /\ told' = Nothing
    /\ UNCHANGED <<list, nextId, pc, child, piped, output, notes>>

Unblock == readOutput \/ availableOutput \/ writeFails \/ waited

Request ==
    \/ \E p \in Pids : run(p)
    \/ runFails
    \/ \E id \in UsedIds :
          \/ running(id) \/ wait(id) \/ cleanup(id) \/ cleanupKills(id)
          \/ \E op \in {"read", "avail", "write"} : startIO(op, id)
    \/ reset

Children == \E p \in Pids : childWrites(p) \/ childEnds(p) \/ descendantEnds(p)

Next == pc # Gone /\ (Request \/ Unblock \/ writeInput \/ Children)

Spec == Init /\ [][Next]_vars

\* The bridge goes on when the call it is blocked in returns; the children and the
\* microcontroller need not do anything.
FairSpec == Spec /\ WF_vars(Unblock)

-----------------------------------------------------------------------------
\* The types of the table and of the kernel's view; the buffer is never overrun.
TypeOK ==
    /\ list \in [Ids -> [pid : Pids \cup {INVALID_PID}, status : Status, outputBuffLen : 0..BuffSize]]
    /\ nextId \in Ids
    /\ pc \in [op : {"idle", "gone", "read", "avail", "write", "wait", "cleanup"}, id : Ids]
    /\ child \in [Pids -> {"none", "running", "exited", "signalled", "reaped"}]
    /\ piped \subseteq Pids
    /\ ends \in [Pids -> SUBSET Holders]
    /\ parted \subseteq Pids
    /\ output \in [Pids -> Nat]
    /\ given \in [Ids -> Pids \cup {INVALID_PID}]
    /\ produced \in [Pids -> Nat]
    /\ delivered \in [Pids -> Nat]
    /\ told \in [op : {"none", "running", "wait"}, pid : Pids \cup {INVALID_PID}, alive : BOOLEAN]
    /\ spilled \in BOOLEAN

\* The output of a child is delivered at most once and only to whoever asks under
\* its id: what responses carried, what is buffered and what is in the pipe never
\* exceed what it wrote, through partial reads, polls and lost responses
\* (readOutput, availableOutput), unless an entry in use was overwritten.
OutputOnce ==
    ~spilled =>
        /\ \A p \in Pids : delivered[p] + output[p] <= produced[p]
        /\ \A id \in Ids : InUse(id) =>
              delivered[Pid(id)] + list[id].outputBuffLen + output[Pid(id)] <= produced[Pid(id)]

\* RUNNING answers for the child that was started under the id, and says "running"
\* exactly when it runs, also after it was reaped by an earlier answer (running).
RunningHonest ==
    [][told'.op = "running" /\ ~spilled /\ told'.pid # INVALID_PID
         => (told'.alive <=> child[told'.pid] = "running")]_vars

\* No child is lost: each one is in the table, where RUNNING and RESET find it, or
\* was sent SIGTERM, and then its pipes are closed, also after a RESET that stopped
\* at a child RUNNING had found dead - except those CLEAN UP lets go of without a
\* signal, and unless an entry in use was overwritten.
NoneLost ==
    ~spilled =>
        \A p \in Pids : child[p] # "none" =>
            \/ \E id \in Ids : Pid(id) = p
            \/ p \in parted /\ p \notin piped

\* A bridge blocked in a pipe or in waitpid goes on (or ends, by SIGPIPE) once the
\* child is dead and no descendant holds its ends any more: the bridge itself, and
\* the children it starts, do not (popen2).
ResumesOnExit ==
    (pc # Idle /\ pc # Gone /\ ~Alive(Pid(pc.id)) /\ Others(Pid(pc.id)) \subseteq Pids)
        ~> pc \in {Idle, Gone}

\* WAIT answers with an exit status of the process, so not before it has ended
\* (processes.h: "Process exit status").
WaitAnswersAfterExit == told.op = "wait" => ~Alive(told.pid)
=============================================================================
