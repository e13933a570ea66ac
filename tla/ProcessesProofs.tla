--------------------------- MODULE ProcessesProofs ---------------------------
(***************************************************************************)
(* Theorems about Processes, for every size of the table and of the buffers *)
(* and every number of children: the buffer is never overrun, output is     *)
(* delivered once and under its id, what RUNNING tells is true, and no child*)
(* is lost that was not sent a signal.                                      *)
(***************************************************************************)
EXTENDS Processes, TLAPS

Entries == [pid : Pids \cup {INVALID_PID}, status : Status, outputBuffLen : 0..BuffSize]
States == {"none", "running", "exited", "signalled", "reaped"}

LEMMA Constants ==
    /\ NumIds \in Nat /\ NumIds > 0 /\ BuffSize \in Nat /\ BuffSize > 0
    /\ MaxPids \in Nat
    /\ 0 \in Ids /\ 0 \in 0..BuffSize /\ INVALID_PID \notin Pids
    /\ Empty \in Entries /\ Empty.pid = INVALID_PID /\ Empty.outputBuffLen = 0
    /\ \A n \in Ids : (n + 1) % NumIds \in Ids
<1>1. /\ NumIds \in Nat /\ NumIds > 0 /\ BuffSize \in Nat /\ BuffSize > 0
      /\ MaxPids \in Nat
  BY TableAssumption, BuffAssumption, BoundAssumption
<1>2. INVALID_PID \notin Pids
  BY <1>1 DEF INVALID_PID, Pids
<1>3. Empty \in Entries /\ Empty.pid = INVALID_PID /\ Empty.outputBuffLen = 0
  BY <1>1 DEF Empty, Entries, Status, EXITED
<1> QED
  BY <1>1, <1>2, <1>3 DEF Ids

\* An entry keeps its type when a field of it is set.
LEMMA EntryType ==
    ASSUME list \in [Ids -> Entries], NEW id \in Ids
    PROVE  /\ \A p \in Pids \cup {INVALID_PID} :
                 LET l == [list EXCEPT ![id].pid = p]
                 IN  /\ l \in [Ids -> Entries] /\ l[id].pid = p
                     /\ l[id].outputBuffLen = list[id].outputBuffLen
                     /\ \A j \in Ids \ {id} : l[j] = list[j]
           /\ \A s \in Status :
                 LET l == [list EXCEPT ![id].status = s]
                 IN  /\ l \in [Ids -> Entries] /\ l[id].pid = list[id].pid
                     /\ l[id].outputBuffLen = list[id].outputBuffLen
                     /\ \A j \in Ids \ {id} : l[j] = list[j]
           /\ \A n \in 0..BuffSize :
                 LET l == [list EXCEPT ![id].outputBuffLen = n]
                 IN  /\ l \in [Ids -> Entries] /\ l[id].pid = list[id].pid
                     /\ l[id].outputBuffLen = n
                     /\ \A j \in Ids \ {id} : l[j] = list[j]
           /\ \A e \in Entries :
                 LET l == [list EXCEPT ![id] = e]
                 IN  /\ l \in [Ids -> Entries] /\ l[id] = e
                     /\ \A j \in Ids \ {id} : l[j] = list[j]
<1>1. list[id] \in Entries
  OBVIOUS
<1>2. ASSUME NEW p \in Pids \cup {INVALID_PID}
      PROVE  /\ [list[id] EXCEPT !.pid = p] \in Entries
             /\ [list[id] EXCEPT !.pid = p].pid = p
             /\ [list[id] EXCEPT !.pid = p].outputBuffLen = list[id].outputBuffLen
  BY <1>1, <1>2 DEF Entries
<1>3. ASSUME NEW s \in Status
      PROVE  /\ [list[id] EXCEPT !.status = s] \in Entries
             /\ [list[id] EXCEPT !.status = s].pid = list[id].pid
             /\ [list[id] EXCEPT !.status = s].outputBuffLen = list[id].outputBuffLen
  BY <1>1, <1>3 DEF Entries
<1>4. ASSUME NEW n \in 0..BuffSize
      PROVE  /\ [list[id] EXCEPT !.outputBuffLen = n] \in Entries
             /\ [list[id] EXCEPT !.outputBuffLen = n].pid = list[id].pid
             /\ [list[id] EXCEPT !.outputBuffLen = n].outputBuffLen = n
  BY <1>1, <1>4 DEF Entries
<1> QED
  BY <1>2, <1>3, <1>4

-----------------------------------------------------------------------------
\* A request that blocks the bridge is about an entry in use, and its child was sent
\* SIGTERM if CLEAN UP waits for it.
Blocked ==
    /\ pc.op \notin {"idle", "gone"} => InUse(pc.id)
    /\ pc.op = "cleanup" => Pid(pc.id) \in parted

\* The table, unless an entry in use was overwritten: it is what the microcontroller
\* was told, each child has one entry, and an entry not in use has no output.
Table ==
    ~spilled =>
        /\ \A id \in Ids : /\ Pid(id) = given[id]
                           /\ InUse(id) => child[Pid(id)] # "none"
                           /\ ~InUse(id) => list[id].outputBuffLen = 0
        /\ \A i, j \in Ids : InUse(i) /\ Pid(i) = Pid(j) => i = j

\* The inductive invariant.
ProcInv == TypeOK /\ Blocked /\ Table /\ OutputOnce /\ NoneLost

\* A step that leaves the pids of the table and the pipes alone loses no child.
LEMMA LosesNone ==
    ASSUME NoneLost, \A id \in Ids : list'[id].pid = list[id].pid,
           \A p \in Pids : child'[p] # "none" => child[p] # "none",
           parted \subseteq parted', piped' = piped, spilled' = spilled
    PROVE  NoneLost'
BY DEF NoneLost, Pid

\* A step that leaves the pids, the buffers and the pipes alone keeps the rest.
LEMMA SameTable ==
    ASSUME ProcInv, \A id \in Ids : /\ list'[id].pid = list[id].pid
                                    /\ list'[id].outputBuffLen = list[id].outputBuffLen,
           \A p \in Pids : child'[p] # "none" <=> child[p] # "none",
           parted \subseteq parted',
           UNCHANGED <<piped, output, given, produced, delivered, spilled>>
    PROVE  Table' /\ OutputOnce' /\ NoneLost'
<1>1. \A id \in Ids : Pid(id)' = Pid(id) /\ (InUse(id)' <=> InUse(id))
  BY DEF Pid, InUse
<1>2. \A id \in Ids : InUse(id) => Pid(id) \in Pids
  BY DEF ProcInv, TypeOK, InUse, Pid
<1>3. Table'
  BY <1>1, <1>2 DEF ProcInv, Table
<1>4. OutputOnce'
  BY <1>1 DEF ProcInv, OutputOnce
<1> QED
  BY <1>3, <1>4, LosesNone DEF ProcInv

LEMMA InitInv == Init => ProcInv
<1> SUFFICES ASSUME Init
             PROVE  ProcInv
  OBVIOUS
<1>1. \A id \in Ids : list[id] = Empty /\ ~InUse(id)
  BY Constants DEF Init, InUse, Pid
<1>2. list \in [Ids -> Entries]
  BY Constants DEF Init
<1>3. TypeOK
  <2>1. /\ nextId \in Ids
        /\ pc \in [op : {"idle", "gone", "read", "avail", "write", "wait", "cleanup"}, id : Ids]
        /\ told \in [op : {"none", "running", "wait"}, pid : Pids \cup {INVALID_PID}, alive : BOOLEAN]
    BY Constants DEF Init, Idle, Nothing
  <2>2. /\ child \in [Pids -> States] /\ piped \subseteq Pids /\ spilled \in BOOLEAN
        /\ given \in [Ids -> Pids \cup {INVALID_PID}] /\ ends \in [Pids -> SUBSET Holders]
        /\ parted \subseteq Pids
    BY DEF Init, States
  <2>3. output \in [Pids -> Nat] /\ produced \in [Pids -> Nat] /\ delivered \in [Pids -> Nat]
    BY DEF Init
  <2> QED
    BY <1>2, <2>1, <2>2, <2>3 DEF TypeOK, Entries, States
<1>4. Blocked
  BY DEF Init, Blocked, Idle
<1>5. Table /\ OutputOnce /\ NoneLost
  BY <1>1, Constants DEF Init, Table, OutputOnce, NoneLost, Pid
<1> QED
  BY <1>3, <1>4, <1>5 DEF ProcInv

\* The holders of a child's ends after a fork().
LEMMA ForkType ==
    ASSUME ends \in [Pids -> SUBSET Holders], NEW p \in Pids
    PROVE  popen2(p) \in [Pids -> SUBSET Holders]
<1>1. p \in Holders /\ BRIDGE \in Holders
  BY DEF Holders
<1> QED
  BY <1>1 DEF popen2, forked

LEMMA RunInv ==
    ASSUME ProcInv, NEW p \in Pids, run(p)
    PROVE  ProcInv'
<1>1. list \in [Ids -> Entries] /\ nextId \in Ids /\ child \in [Pids -> States]
      /\ given \in [Ids -> Pids \cup {INVALID_PID}] /\ INVALID_PID \notin Pids
      /\ ends \in [Pids -> SUBSET Holders]
  BY Constants DEF ProcInv, TypeOK, Entries, States
<1>2. /\ pc = Idle /\ child[p] = "none" /\ list' = [list EXCEPT ![nextId].pid = p]
      /\ child' = [child EXCEPT ![p] = "running"]
      /\ given' = [given EXCEPT ![nextId] = p]
      /\ spilled' = (spilled \/ InUse(nextId))
      /\ told' = Nothing /\ nextId' = (nextId + 1) % NumIds /\ piped' = piped \cup {p}
      /\ ends' = popen2(p) /\ UNCHANGED <<pc, output, produced, delivered, parted>>
  BY DEF run, Started, nextIdAfter
<1>3. /\ list' \in [Ids -> Entries] /\ list'[nextId].pid = p
      /\ list'[nextId].outputBuffLen = list[nextId].outputBuffLen
      /\ \A j \in Ids \ {nextId} : list'[j] = list[j]
  BY <1>1, <1>2, EntryType
<1>4. TypeOK'
  <2>1. ends' \in [Pids -> SUBSET Holders]
    BY <1>1, <1>2, ForkType
  <2> QED
    BY <1>1, <1>2, <1>3, <2>1, Constants DEF ProcInv, TypeOK, Entries, States, Nothing
<1>5. Blocked'
  BY <1>2 DEF Blocked, Idle
<1>6. ASSUME ~spilled'
      PROVE  ~spilled /\ ~InUse(nextId)
  BY <1>2, <1>6
<1>7. ASSUME ~spilled'
      PROVE  \A j \in Ids : Pid(j) # p
  BY <1>1, <1>2, <1>6, <1>7 DEF ProcInv, Table, InUse
<1>8. Table'
  BY <1>1, <1>2, <1>3, <1>6, <1>7 DEF ProcInv, Table, InUse, Pid
<1>9. OutputOnce'
  <2> SUFFICES ASSUME ~spilled'
               PROVE  /\ \A q \in Pids : delivered[q] + output[q] <= produced[q]
                      /\ \A j \in Ids : InUse(j)' =>
                            delivered[Pid(j)'] + list'[j].outputBuffLen + output[Pid(j)']
                              <= produced[Pid(j)']
    BY <1>2 DEF OutputOnce, Pid
  <2>1. \A q \in Pids : delivered[q] + output[q] <= produced[q]
    BY <1>6 DEF ProcInv, OutputOnce
  <2>2. ASSUME NEW j \in Ids, InUse(j)'
        PROVE  delivered[Pid(j)'] + list'[j].outputBuffLen + output[Pid(j)']
                 <= produced[Pid(j)']
    <3>1. CASE j = nextId
      <4>1. Pid(j)' = p /\ list'[j].outputBuffLen = 0
        BY <1>3, <1>6, <3>1 DEF Pid, ProcInv, Table
      <4>2. delivered[p] \in Nat /\ output[p] \in Nat
        BY DEF ProcInv, TypeOK
      <4> QED
        BY <2>1, <4>1, <4>2
    <3>2. CASE j # nextId
      BY <1>3, <1>6, <2>2, <3>2 DEF ProcInv, OutputOnce, InUse, Pid
    <3> QED
      BY <3>1, <3>2
  <2> QED
    BY <2>1, <2>2
<1>10. NoneLost'
  <2> SUFFICES ASSUME ~spilled', NEW q \in Pids, child'[q] # "none"
               PROVE  (\E id \in Ids : list'[id].pid = q) \/ (q \in parted /\ q \notin piped')
    BY <1>2 DEF NoneLost, Pid
  <2>1. CASE q = p
    BY <1>1, <1>3, <2>1
  <2>2. CASE q # p
    <3>1. child[q] # "none"
      BY <1>1, <1>2, <2>2
    <3>2. CASE \E id \in Ids : Pid(id) = q
      BY <1>1, <1>3, <1>6, <3>2, Constants DEF InUse, Pid
    <3>3. CASE q \in parted /\ q \notin piped
      BY <1>2, <2>2, <3>3
    <3> QED
      BY <1>6, <3>1, <3>2, <3>3 DEF ProcInv, NoneLost
  <2> QED
    BY <2>1, <2>2
<1> QED
  BY <1>4, <1>5, <1>8, <1>9, <1>10 DEF ProcInv

LEMMA RunFailsInv ==
    ASSUME ProcInv, runFails
    PROVE  ProcInv'
<1>1. list \in [Ids -> Entries] /\ nextId \in Ids
  BY DEF ProcInv, TypeOK, Entries
<1>2. /\ pc = Idle /\ list' = [list EXCEPT ![nextId].pid = INVALID_PID]
      /\ spilled' = (spilled \/ InUse(nextId)) /\ told' = Nothing
      /\ UNCHANGED <<nextId, pc, child, piped, ends, output, given, produced, delivered, parted>>
  BY DEF runFails, kernel
<1>3. /\ list' \in [Ids -> Entries] /\ list'[nextId].pid = INVALID_PID
      /\ list'[nextId].outputBuffLen = list[nextId].outputBuffLen
      /\ \A j \in Ids \ {nextId} : list'[j] = list[j]
  BY <1>1, <1>2, EntryType
<1>4. TypeOK'
  BY <1>2, <1>3 DEF ProcInv, TypeOK, Entries, Nothing
<1>5. Blocked'
  BY <1>2 DEF Blocked, Idle
<1>6. ASSUME ~spilled'
      PROVE  ~spilled /\ ~InUse(nextId)
  BY <1>2, <1>6
<1>7. Table'
  BY <1>1, <1>2, <1>3, <1>6 DEF ProcInv, Table, InUse, Pid
<1>8. OutputOnce'
  BY <1>1, <1>2, <1>3, <1>6 DEF ProcInv, OutputOnce, InUse, Pid
<1>9. NoneLost'
  <2> SUFFICES ASSUME ~spilled', NEW q \in Pids, child[q] # "none"
               PROVE  (\E id \in Ids : list'[id].pid = q) \/ (q \in parted /\ q \notin piped)
    BY <1>2 DEF NoneLost, Pid
  <2>1. CASE \E id \in Ids : Pid(id) = q
    BY <1>3, <1>6, <2>1, Constants DEF InUse, Pid
  <2> QED
    BY <1>6, <2>1 DEF ProcInv, NoneLost
<1> QED
  BY <1>4, <1>5, <1>7, <1>8, <1>9 DEF ProcInv

\* The answers of RUNNING and WAIT.
LEMMA AnswerType ==
    ASSUME NEW op \in {"running", "wait"}, NEW p \in Pids \cup {INVALID_PID}, NEW b \in BOOLEAN
    PROVE  Answer(op, p, b) \in [op : {"none", "running", "wait"}, pid : Pids \cup {INVALID_PID},
                                alive : BOOLEAN]
BY DEF Answer

\* A child that waitpid() returns is reaped and its status kept.
LEMMA Reaps ==
    ASSUME ProcInv, NEW id \in Ids, InUse(id), Zombie(Pid(id)),
           child' = [child EXCEPT ![Pid(id)] = "reaped"]
    PROVE  /\ Pid(id) \in Pids /\ child[Pid(id)] \in Status
           /\ child' \in [Pids -> States]
           /\ \A p \in Pids : child'[p] # "none" <=> child[p] # "none"
           /\ \A j \in Ids : [list EXCEPT ![id].status = child[Pid(id)]][j].pid = list[j].pid
           /\ \A j \in Ids : [list EXCEPT ![id].status = child[Pid(id)]][j].outputBuffLen
                              = list[j].outputBuffLen
           /\ [list EXCEPT ![id].status = child[Pid(id)]] \in [Ids -> Entries]
<1>1. list \in [Ids -> Entries] /\ child \in [Pids -> States] /\ Pid(id) \in Pids
  BY DEF ProcInv, TypeOK, Entries, States, InUse, Pid
<1>2. child[Pid(id)] \in Status /\ child[Pid(id)] # "none"
  BY DEF Zombie, Status, EXITED, SIGNALLED
<1>3. child' \in [Pids -> States]
      /\ \A p \in Pids : child'[p] # "none" <=> child[p] # "none"
  BY <1>1, <1>2 DEF States
<1>4. LET l == [list EXCEPT ![id].status = child[Pid(id)]]
      IN  /\ l \in [Ids -> Entries] /\ l[id].pid = list[id].pid
          /\ l[id].outputBuffLen = list[id].outputBuffLen
          /\ \A j \in Ids \ {id} : l[j] = list[j]
  BY <1>1, <1>2, EntryType
<1> QED
  BY <1>1, <1>2, <1>3, <1>4

\* RUNNING leaves pids and output alone; a zombie that it finds is reaped.
LEMMA RunningInv ==
    ASSUME ProcInv, NEW id \in Ids, running(id)
    PROVE  ProcInv'
<1>1. /\ list \in [Ids -> Entries] /\ child \in [Pids -> States]
      /\ given \in [Ids -> Pids \cup {INVALID_PID}]
  BY DEF ProcInv, TypeOK, Entries, States
<1>2. UNCHANGED <<nextId, pc, piped, ends, output, given, produced, delivered, parted, spilled>>
  BY DEF running, notes
<1>3. /\ list' \in [Ids -> Entries]
      /\ \A j \in Ids : /\ list'[j].pid = list[j].pid
                        /\ list'[j].outputBuffLen = list[j].outputBuffLen
      /\ child' \in [Pids -> States]
      /\ \A p \in Pids : child'[p] # "none" <=> child[p] # "none"
  <2>1. CASE InUse(id) /\ Zombie(Pid(id))
    <3>1. list' = [list EXCEPT ![id].status = child[Pid(id)]]
          /\ child' = [child EXCEPT ![Pid(id)] = "reaped"]
      BY <2>1 DEF running
    <3> QED
      BY <2>1, <3>1, Reaps
  <2>2. CASE UNCHANGED <<list, child>>
    BY <1>1, <2>2
  <2> QED
    BY <2>1, <2>2 DEF running
<1>4. told' \in [op : {"none", "running", "wait"}, pid : Pids \cup {INVALID_PID}, alive : BOOLEAN]
  <2>1. given[id] \in Pids \cup {INVALID_PID}
    BY <1>1
  <2>2. \/ told' = Nothing
        \/ told' = Answer("running", given[id], FALSE)
        \/ told' = Answer("running", given[id], child[Pid(id)] = "running")
    BY DEF running, runningAnswer
  <2>3. (child[Pid(id)] = "running") \in BOOLEAN
    OBVIOUS
  <2>4. CASE told' = Nothing
    BY <2>4 DEF Nothing
  <2>5. CASE told' = Answer("running", given[id], child[Pid(id)] = "running")
    BY <2>1, <2>3, <2>5, AnswerType, Zenon
  <2>6. CASE told' = Answer("running", given[id], FALSE)
    BY <2>1, <2>6, AnswerType, Zenon
  <2> QED
    BY <2>2, <2>4, <2>5, <2>6
<1>5. TypeOK'
  BY <1>2, <1>3, <1>4 DEF ProcInv, TypeOK, Entries, States
<1>6. Blocked'
  BY <1>2 DEF running, Blocked, Idle
<1>7. Table' /\ OutputOnce' /\ NoneLost'
  BY <1>2, <1>3, SameTable
<1> QED
  BY <1>5, <1>6, <1>7 DEF ProcInv

\* WAIT answers, or blocks the bridge, and the requests for a pipe and CLEAN UP of a
\* child whose entry has a signal block it.
Blocks(op, id) ==
    /\ InUse(id)
    /\ op \in {"idle", "read", "avail", "write", "wait", "cleanup"}
    /\ op = "cleanup" => Pid(id) \in parted'
    /\ pc' = [op |-> op, id |-> id]
    /\ parted \subseteq parted' /\ parted' \subseteq Pids
    /\ UNCHANGED <<list, nextId, child, piped, ends, output, given, produced, delivered, spilled>>

LEMMA BlocksInv ==
    ASSUME ProcInv, NEW op, NEW id \in Ids, Blocks(op, id), told' = Nothing
    PROVE  ProcInv'
<1>1. TypeOK'
  BY DEF ProcInv, TypeOK, Blocks, Nothing
<1>2. Blocked'
  BY DEF Blocked, Blocks, InUse, Pid
<1>3. Table' /\ OutputOnce' /\ NoneLost'
  BY SameTable DEF Blocks
<1> QED
  BY <1>1, <1>2, <1>3 DEF ProcInv

LEMMA WaitInv ==
    ASSUME ProcInv, NEW id \in Ids, wait(id)
    PROVE  ProcInv'
<1>1. /\ InUse(id) /\ pc = Idle
      /\ UNCHANGED <<list, nextId, child, piped, ends, output, given, produced, delivered,
                     parted, spilled>>
  BY DEF wait, kernel, notes
<1>2. Pid(id) \in Pids /\ parted \subseteq Pids
  BY <1>1 DEF ProcInv, TypeOK, InUse, Pid
<1>3. CASE told' = Answer("wait", Pid(id), FALSE) /\ UNCHANGED pc
  <2>1. told' \in [op : {"none", "running", "wait"}, pid : Pids \cup {INVALID_PID}, alive : BOOLEAN]
    BY <1>2, <1>3, AnswerType
  <2>2. TypeOK'
    BY <1>1, <1>3, <2>1 DEF ProcInv, TypeOK
  <2>3. Blocked'
    BY <1>1, <1>3 DEF Blocked, Idle
  <2> QED
    BY <1>1, <2>2, <2>3, SameTable DEF ProcInv
<1>4. CASE pc' = [op |-> "wait", id |-> id] /\ told' = Nothing
  <2>1. Blocks("wait", id)
    BY <1>1, <1>2, <1>4 DEF Blocks
  <2> QED
    BY <1>4, <2>1, BlocksInv
<1> QED
  BY <1>3, <1>4 DEF wait

LEMMA StartInv ==
    ASSUME ProcInv, NEW op \in {"read", "avail", "write"}, NEW id \in Ids, startIO(op, id)
    PROVE  ProcInv'
<1>1. told' = Nothing /\ Blocks(op, id)
  BY DEF startIO, kernel, notes, Blocks, ProcInv, TypeOK
<1> QED
  BY <1>1, BlocksInv

LEMMA CleanupKillsInv ==
    ASSUME ProcInv, NEW id \in Ids, cleanupKills(id)
    PROVE  ProcInv'
<1>1. Pid(id) \in Pids /\ parted \subseteq Pids
  BY DEF ProcInv, TypeOK, cleanupKills, InUse, Pid
<1>2. told' = Nothing /\ Blocks("cleanup", id)
  BY <1>1 DEF cleanupKills, kernel, Blocks
<1> QED
  BY <1>2, BlocksInv

\* What the close of an entry keeps.
LEMMA ClosesInv ==
    ASSUME ProcInv, NEW id \in Ids, InUse(id), closes(id),
           Pid(id) \in parted', parted \subseteq parted',
           \A p \in Pids : child'[p] # "none" <=> child[p] # "none",
           UNCHANGED <<produced, delivered, spilled>>
    PROVE  /\ list' \in [Ids -> Entries] /\ output' \in [Pids -> Nat] /\ piped' \subseteq Pids
           /\ given' \in [Ids -> Pids \cup {INVALID_PID}]
           /\ Table' /\ OutputOnce' /\ NoneLost'
<1>1. /\ list \in [Ids -> Entries] /\ Pid(id) \in Pids
      /\ given \in [Ids -> Pids \cup {INVALID_PID}]
      /\ output \in [Pids -> Nat] /\ piped \subseteq Pids
  BY DEF ProcInv, TypeOK, Entries, InUse, Pid
<1>2. /\ list' = [list EXCEPT ![id] = Empty]
      /\ piped' = piped \ {Pid(id)} /\ output' = [output EXCEPT ![Pid(id)] = 0]
      /\ given' = [given EXCEPT ![id] = INVALID_PID]
  BY DEF closes, Closed
<1>3. /\ list' \in [Ids -> Entries] /\ list'[id] = Empty
      /\ \A j \in Ids \ {id} : list'[j] = list[j]
      /\ given' \in [Ids -> Pids \cup {INVALID_PID}] /\ given'[id] = INVALID_PID
      /\ \A j \in Ids \ {id} : given'[j] = given[j]
      /\ output' \in [Pids -> Nat]
      /\ \A p \in Pids : output'[p] <= output[p]
  BY <1>1, <1>2, EntryType, Constants
<1>4. Table'
  BY <1>1, <1>2, <1>3, Constants DEF ProcInv, Table, InUse, Pid
<1>5. OutputOnce'
  <2> SUFFICES ASSUME ~spilled
               PROVE  /\ \A q \in Pids : delivered[q] + output'[q] <= produced[q]
                      /\ \A j \in Ids : InUse(j)' =>
                            delivered[Pid(j)'] + list'[j].outputBuffLen + output'[Pid(j)']
                              <= produced[Pid(j)']
    BY DEF OutputOnce, Pid
  <2>1. ASSUME NEW q \in Pids
        PROVE  delivered[q] + output'[q] <= produced[q]
    BY <1>1, <1>3 DEF ProcInv, TypeOK, OutputOnce
  <2>2. ASSUME NEW j \in Ids, InUse(j)'
        PROVE  delivered[Pid(j)'] + list'[j].outputBuffLen + output'[Pid(j)']
                 <= produced[Pid(j)']
    <3>1. j # id /\ list'[j] = list[j] /\ InUse(j)
      BY <1>3, <2>2, Constants DEF InUse, Pid
    <3>2. Pid(j) \in Pids /\ list[j].outputBuffLen \in Nat
      BY <1>1, <3>1 DEF InUse, Pid, Entries
    <3>3. delivered[Pid(j)] + list[j].outputBuffLen + output[Pid(j)] <= produced[Pid(j)]
      BY <3>1 DEF ProcInv, OutputOnce
    <3> QED
      BY <1>1, <1>3, <3>1, <3>2, <3>3 DEF Pid, ProcInv, TypeOK
  <2> QED
    BY <2>1, <2>2
<1>6. NoneLost'
  <2> SUFFICES ASSUME ~spilled, NEW q \in Pids, child[q] # "none"
               PROVE  (\E j \in Ids : list'[j].pid = q) \/ (q \in parted' /\ q \notin piped')
    BY DEF NoneLost, Pid
  <2>1. CASE \E j \in Ids : Pid(j) = q
    <3>1. PICK j \in Ids : Pid(j) = q
      BY <2>1
    <3> QED
      BY <1>2, <1>3, <3>1 DEF Pid
  <2>2. CASE q \in parted /\ q \notin piped
    BY <1>2, <2>2
  <2> QED
    BY <2>1, <2>2 DEF ProcInv, NoneLost
<1> QED
  BY <1>1, <1>2, <1>3, <1>4, <1>5, <1>6

LEMMA CleanupInv ==
    ASSUME ProcInv, NEW id \in Ids, cleanup(id)
    PROVE  ProcInv'
<1>1. /\ InUse(id) /\ closes(id) /\ parted' = parted \cup {Pid(id)}
      /\ pc = Idle /\ told' = Nothing
      /\ UNCHANGED <<nextId, pc, child, ends, produced, delivered, spilled>>
  BY DEF cleanup
<1>2. Pid(id) \in Pids
  BY <1>1 DEF ProcInv, TypeOK, InUse, Pid
<1>3. /\ list' \in [Ids -> Entries] /\ output' \in [Pids -> Nat] /\ piped' \subseteq Pids
      /\ given' \in [Ids -> Pids \cup {INVALID_PID}]
      /\ Table' /\ OutputOnce' /\ NoneLost'
  BY <1>1, ClosesInv
<1>4. TypeOK'
  BY <1>1, <1>2, <1>3 DEF ProcInv, TypeOK, Entries, Nothing
<1>5. Blocked'
  BY <1>1 DEF Blocked, Idle
<1> QED
  BY <1>3, <1>4, <1>5 DEF ProcInv

\* waitpid() returns to WAIT or CLEAN UP.
LEMMA WaitedInv ==
    ASSUME ProcInv, waited
    PROVE  ProcInv'
<1> DEFINE p == Pid(pc.id)
<1>1. pc.id \in Ids /\ InUse(pc.id) /\ p \in Pids
  BY DEF waited, ProcInv, TypeOK, Blocked, InUse, Pid
<1>2. /\ Zombie(p) /\ child' = [child EXCEPT ![p] = "reaped"] /\ pc' = Idle
      /\ UNCHANGED <<nextId, ends, produced, delivered, parted, spilled>>
  BY DEF waited
<1>3. /\ child' \in [Pids -> States] /\ \A q \in Pids : child'[q] # "none" <=> child[q] # "none"
  BY <1>1, <1>2, Reaps
<1>4. /\ list' \in [Ids -> Entries] /\ output' \in [Pids -> Nat] /\ piped' \subseteq Pids
      /\ given' \in [Ids -> Pids \cup {INVALID_PID}]
      /\ Table' /\ OutputOnce' /\ NoneLost'
  <2>1. CASE pc.op = "cleanup" /\ closes(pc.id)
    <3>1. p \in parted'
      BY <1>2, <2>1 DEF ProcInv, Blocked
    <3> QED
      BY <1>1, <1>2, <1>3, <2>1, <3>1, ClosesInv
  <2>2. CASE list' = [list EXCEPT ![pc.id].status = child[p]] /\ UNCHANGED <<piped, output, given>>
    <3>1. /\ list' \in [Ids -> Entries]
          /\ \A j \in Ids : /\ list'[j].pid = list[j].pid
                            /\ list'[j].outputBuffLen = list[j].outputBuffLen
      BY <1>1, <1>2, <2>2, Reaps
    <3> QED
      BY <1>2, <1>3, <2>2, <3>1, SameTable DEF ProcInv, TypeOK
  <2> QED
    BY <2>1, <2>2 DEF waited
<1>5. told' \in [op : {"none", "running", "wait"}, pid : Pids \cup {INVALID_PID}, alive : BOOLEAN]
  <2>1. CASE told' = Answer("wait", p, FALSE)
    BY <1>1, <2>1, AnswerType
  <2>2. CASE told' = Nothing
    BY <2>2 DEF Nothing
  <2> QED
    BY <2>1, <2>2 DEF waited
<1>6. pc' \in [op : {"idle", "gone", "read", "avail", "write", "wait", "cleanup"}, id : Ids]
  BY <1>2, Constants DEF Idle
<1>7. TypeOK'
  BY <1>2, <1>3, <1>4, <1>5, <1>6 DEF ProcInv, TypeOK, Entries, States
<1>8. Blocked'
  BY <1>2 DEF Blocked, Idle
<1> QED
  BY <1>4, <1>7, <1>8 DEF ProcInv

\* What a read takes from the pipe is what it puts into the buffer.
LEMMA FillType ==
    ASSUME ProcInv, NEW id \in Ids, InUse(id)
    PROVE  /\ Pid(id) \in Pids /\ list[id].outputBuffLen \in 0..BuffSize
           /\ Fill(id) \in Nat /\ Fill(id) <= output[Pid(id)]
           /\ list[id].outputBuffLen + Fill(id) \in 0..BuffSize
<1>1. Pid(id) \in Pids /\ list[id].outputBuffLen \in 0..BuffSize /\ output[Pid(id)] \in Nat
  BY DEF ProcInv, TypeOK, InUse, Pid
<1>2. Fill(id) = IF output[Pid(id)] <= BuffSize - list[id].outputBuffLen
                 THEN output[Pid(id)] ELSE BuffSize - list[id].outputBuffLen
  BY DEF Fill, Room, Least
<1> QED
  BY <1>1, <1>2, Constants

\* A read of a pipe: bytes go from the pipe to the buffer and n of them on to a
\* response, which may be lost; len of them are buffered after it.
Reads(id, n, len) ==
    /\ output' = [output EXCEPT ![Pid(id)] = output[Pid(id)] - Fill(id)]
    /\ list' = [list EXCEPT ![id].outputBuffLen = len]
    /\ \/ delivered' = [delivered EXCEPT ![Pid(id)] = delivered[Pid(id)] + n]
       \/ UNCHANGED delivered
    /\ pc' = Idle /\ told' = Nothing
    /\ UNCHANGED <<nextId, child, piped, ends, given, produced, parted, spilled>>

LEMMA ReadInv ==
    ASSUME ProcInv, NEW id \in Ids, InUse(id),
           NEW n \in Nat, n <= list[id].outputBuffLen + Fill(id),
           NEW len, len = list[id].outputBuffLen + Fill(id) - n, Reads(id, n, len)
    PROVE  ProcInv'
<1> DEFINE p == Pid(id)
<1>1. /\ p \in Pids /\ list[id].outputBuffLen \in 0..BuffSize
      /\ Fill(id) \in Nat /\ Fill(id) <= output[p] /\ len \in 0..BuffSize
  BY FillType, Constants
<1>2. /\ list \in [Ids -> Entries] /\ output \in [Pids -> Nat]
      /\ delivered \in [Pids -> Nat] /\ produced \in [Pids -> Nat]
  BY DEF ProcInv, TypeOK, Entries
<1>3. /\ list' \in [Ids -> Entries]
      /\ \A j \in Ids : list'[j].pid = list[j].pid
      /\ list'[id].outputBuffLen = len
      /\ \A j \in Ids \ {id} : list'[j] = list[j]
  <2>1. list' = [list EXCEPT ![id].outputBuffLen = len]
    BY DEF Reads
  <2>2. /\ list' \in [Ids -> Entries] /\ list'[id].pid = list[id].pid
        /\ list'[id].outputBuffLen = len
        /\ \A j \in Ids \ {id} : list'[j] = list[j]
    BY <1>1, <1>2, <2>1, EntryType
  <2> QED
    BY <2>2
<1>4. /\ output' \in [Pids -> Nat] /\ output'[p] = output[p] - Fill(id)
      /\ \A q \in Pids \ {p} : output'[q] = output[q]
  <2>1. output[p] - Fill(id) \in Nat
    BY <1>1, <1>2, Constants
  <2> HIDE DEF p
  <2> QED
    BY <1>1, <1>2, <2>1 DEF p, Reads
<1>5. /\ delivered' \in [Pids -> Nat] /\ delivered'[p] \in {delivered[p], delivered[p] + n}
      /\ \A q \in Pids \ {p} : delivered'[q] = delivered[q]
  <2> HIDE DEF p
  <2> QED
    BY <1>1, <1>2 DEF p, Reads
<1>6. TypeOK'
  BY <1>3, <1>4, <1>5, Constants DEF ProcInv, TypeOK, Entries, Idle, Nothing, Reads
<1>7. Blocked'
  BY DEF Blocked, Reads, Idle
<1>8. Table'
  <2>1. \A j \in Ids : Pid(j)' = Pid(j) /\ (InUse(j)' <=> InUse(j))
    BY <1>3 DEF Pid, InUse
  <2>2. \A j \in Ids : ~InUse(j) => list'[j].outputBuffLen = list[j].outputBuffLen
    BY <1>3
  <2> HIDE DEF p
  <2> QED
    BY <2>1, <2>2 DEF ProcInv, Table, Reads
<1>9. OutputOnce'
  <2> SUFFICES ASSUME ~spilled
               PROVE  /\ \A q \in Pids : delivered'[q] + output'[q] <= produced[q]
                      /\ \A j \in Ids : InUse(j)' =>
                            delivered'[Pid(j)'] + list'[j].outputBuffLen + output'[Pid(j)']
                              <= produced[Pid(j)']
    BY DEF OutputOnce, Pid, Reads
  <2>1. /\ delivered[p] + list[id].outputBuffLen + output[p] <= produced[p]
        /\ delivered'[p] + len + output'[p] <= produced[p]
    <3>1. delivered[p] + list[id].outputBuffLen + output[p] <= produced[p]
      BY DEF ProcInv, OutputOnce
    <3> HIDE DEF p
    <3> QED
      BY <1>1, <1>2, <1>4, <1>5, <3>1
  <2>2. ASSUME NEW q \in Pids
        PROVE  delivered'[q] + output'[q] <= produced[q]
    <3>1. CASE q = p
      <4> HIDE DEF p
      <4> QED
        BY <1>1, <1>2, <1>4, <1>5, <2>1, <3>1
    <3>2. CASE q # p
      BY <1>4, <1>5, <3>2 DEF ProcInv, OutputOnce
    <3> QED
      BY <3>1, <3>2
  <2>3. ASSUME NEW j \in Ids, InUse(j)'
        PROVE  delivered'[Pid(j)'] + list'[j].outputBuffLen + output'[Pid(j)']
                 <= produced[Pid(j)']
    <3>1. CASE j = id
      BY <1>3, <2>1, <3>1 DEF Pid
    <3>2. CASE j # id
      <4>1. list'[j] = list[j] /\ Pid(j)' = Pid(j) /\ InUse(j) /\ Pid(j) \in Pids
        BY <1>2, <1>3, <2>3, <3>2 DEF InUse, Pid, Entries
      <4>2. Pid(j) # p
        BY <3>2, <4>1 DEF ProcInv, Table
      <4>3. delivered[Pid(j)] + list[j].outputBuffLen + output[Pid(j)] <= produced[Pid(j)]
        BY <4>1 DEF ProcInv, OutputOnce
      <4> QED
        BY <1>4, <1>5, <4>1, <4>2, <4>3
    <3> QED
      BY <3>1, <3>2
  <2> QED
    BY <2>2, <2>3
<1>10. NoneLost'
  BY <1>3, LosesNone DEF ProcInv, Reads
<1> QED
  BY <1>6, <1>7, <1>8, <1>9, <1>10 DEF ProcInv

LEMMA UnblockInv ==
    ASSUME ProcInv, Unblock \/ writeInput
    PROVE  ProcInv'
<1>1. pc.id \in Ids /\ InUse(pc.id)
  <2>1. pc.op \notin {"idle", "gone"}
    BY DEF Unblock, readOutput, availableOutput, writeInput, writeFails, waited
  <2> QED
    BY <2>1 DEF ProcInv, TypeOK, Blocked
<1>2. CASE readOutput
  <2>0. PICK l \in 1..BuffSize :
          LET have == list[pc.id].outputBuffLen + Fill(pc.id)
              n == Least(have, l)
          IN  /\ output' = [output EXCEPT ![Pid(pc.id)] = @ - Fill(pc.id)]
              /\ list' = [list EXCEPT ![pc.id].outputBuffLen = have - Taken(n)]
              /\ \/ delivered' = [delivered EXCEPT ![Pid(pc.id)] = @ + n]
                 \/ UNCHANGED delivered
    BY <1>2 DEF readOutput
  <2> DEFINE have == list[pc.id].outputBuffLen + Fill(pc.id)
             n == Least(have, l)
             len == have - n
  <2>1. have \in Nat /\ l \in Nat
    BY <1>1, FillType
  <2>2. n \in Nat /\ n <= have
    BY <1>1, <2>1 DEF Least
  <2>3. Reads(pc.id, n, len)
    <3>1. /\ output' = [output EXCEPT ![Pid(pc.id)] = output[Pid(pc.id)] - Fill(pc.id)]
          /\ pc' = Idle /\ told' = Nothing
          /\ UNCHANGED <<nextId, child, piped, ends, given, produced, parted, spilled>>
      BY <1>2, <2>0 DEF readOutput
    <3>2. list' = [list EXCEPT ![pc.id].outputBuffLen = len]
      BY <2>0 DEF Taken
    <3>3. \/ delivered' = [delivered EXCEPT ![Pid(pc.id)] = delivered[Pid(pc.id)] + n]
          \/ UNCHANGED delivered
      BY <2>0
    <3> HIDE DEF have, n, len
    <3> QED
      BY <3>1, <3>2, <3>3 DEF Reads
  <2>4. len = list[pc.id].outputBuffLen + Fill(pc.id) - n
    <3>1. list[pc.id].outputBuffLen \in Nat /\ Fill(pc.id) \in Nat
      BY <1>1, FillType
    <3> HIDE DEF n
    <3> QED
      BY <2>2, <3>1
  <2> HIDE DEF have, n, len
  <2> QED
    BY <1>1, <2>2, <2>3, <2>4, ReadInv DEF have
<1>3. CASE availableOutput
  <2> DEFINE len == list[pc.id].outputBuffLen + Fill(pc.id)
  <2>1. list[pc.id].outputBuffLen \in Nat /\ Fill(pc.id) \in Nat
    BY <1>1, FillType
  <2>2. Reads(pc.id, 0, len)
    BY <1>3 DEF availableOutput, notes, Reads
  <2>3. /\ 0 \in Nat /\ 0 <= list[pc.id].outputBuffLen + Fill(pc.id)
        /\ len = list[pc.id].outputBuffLen + Fill(pc.id) - 0
    BY <2>1
  <2> HIDE DEF len
  <2> QED
    BY <1>1, <2>2, <2>3, ReadInv
<1>4. CASE writeInput \/ writeFails
  <2>1. /\ pc' \in {Idle, Gone} /\ told' = Nothing
        /\ UNCHANGED <<list, nextId, child, piped, ends, output, given, produced, delivered,
                       parted, spilled>>
    BY <1>4 DEF writeInput, writeFails, kernel, notes
  <2>2. TypeOK'
    BY <2>1, Constants DEF ProcInv, TypeOK, Idle, Gone, Nothing
  <2>3. Blocked'
    BY <2>1 DEF Blocked, Idle, Gone
  <2> QED
    BY <2>1, <2>2, <2>3, SameTable DEF ProcInv
<1> QED
  BY <1>2, <1>3, <1>4, WaitedInv DEF Unblock

\* RESET clears the entries it reaches, and closes their pipes.
LEMMA ResetInv ==
    ASSUME ProcInv, reset
    PROVE  ProcInv'
<1>1. /\ list \in [Ids -> Entries] /\ output \in [Pids -> Nat] /\ parted \subseteq Pids
      /\ given \in [Ids -> Pids \cup {INVALID_PID}]
  BY DEF ProcInv, TypeOK, Entries
<1>2. /\ pc = Idle /\ told' = Nothing
      /\ list' = [id \in Ids |-> IF id \in Reached THEN Empty ELSE list[id]]
      /\ piped' = piped \ Signals
      /\ output' = [p \in Pids |-> IF p \in Signals THEN 0 ELSE output[p]]
      /\ parted' = parted \cup Signals
      /\ given' = [id \in Ids |-> IF id \in Reached THEN INVALID_PID ELSE given[id]]
      /\ UNCHANGED <<nextId, pc, child, ends, produced, delivered, spilled>>
  BY DEF reset
<1>3. Signals \subseteq Pids
  BY <1>1 DEF Signals, Reached, InUse, Pid, Entries
<1>5. /\ list' \in [Ids -> Entries] /\ given' \in [Ids -> Pids \cup {INVALID_PID}]
      /\ output' \in [Pids -> Nat] /\ \A p \in Pids : output'[p] <= output[p]
  BY <1>1, <1>2, Constants
<1>6. TypeOK'
  BY <1>1, <1>2, <1>3, <1>5 DEF ProcInv, TypeOK, Entries, Nothing
<1>7. Blocked'
  BY <1>2 DEF Blocked, Idle
<1>8. \A j \in Ids : /\ j \in Reached => ~InUse(j)' /\ Pid(j)' = INVALID_PID
                                          /\ list'[j].outputBuffLen = 0 /\ given'[j] = INVALID_PID
                     /\ j \notin Reached => list'[j] = list[j] /\ given'[j] = given[j]
                                              /\ Pid(j)' = Pid(j) /\ (InUse(j)' <=> InUse(j))
  BY <1>2, Constants DEF InUse, Pid
<1>9. \A j \in Ids : InUse(j) => Pid(j) \in Pids /\ list[j].outputBuffLen \in Nat
  BY <1>1 DEF InUse, Pid, Entries
<1>10. Table'
  <2> SUFFICES ASSUME ~spilled
               PROVE  /\ \A j \in Ids : /\ Pid(j)' = given'[j]
                                        /\ InUse(j)' => child[Pid(j)'] # "none"
                                        /\ ~InUse(j)' => list'[j].outputBuffLen = 0
                      /\ \A i, j \in Ids : InUse(i)' /\ Pid(i)' = Pid(j)' => i = j
    BY <1>2 DEF Table, Pid
  <2>1. ASSUME NEW j \in Ids
        PROVE  /\ Pid(j)' = given'[j]
               /\ InUse(j)' => child[Pid(j)'] # "none"
               /\ ~InUse(j)' => list'[j].outputBuffLen = 0
    <3>1. CASE j \in Reached
      BY <1>8, <3>1
    <3>2. CASE j \notin Reached
      BY <1>8, <1>9, <3>2 DEF ProcInv, Table
    <3> QED
      BY <3>1, <3>2
  <2>2. ASSUME NEW i \in Ids, NEW j \in Ids, InUse(i)', Pid(i)' = Pid(j)'
        PROVE  i = j
    <3>1. InUse(i) /\ Pid(i)' = Pid(i) /\ Pid(i) \in Pids
      <4>1. i \notin Reached
        BY <1>8, <2>2
      <4>2. InUse(i) /\ Pid(i)' = Pid(i)
        BY <1>8, <2>2, <4>1
      <4> QED
        BY <1>9, <4>2
    <3>2. Pid(j)' = Pid(j)
      <4>1. Pid(j)' \in Pids
        BY <2>2, <3>1
      <4>2. j \notin Reached
        BY <1>8, <4>1, Constants
      <4> QED
        BY <1>8, <4>2
    <3>3. Pid(i) = Pid(j)
      BY <2>2, <3>1, <3>2
    <3>4. \A k, l \in Ids : InUse(k) /\ Pid(k) = Pid(l) => k = l
      BY DEF ProcInv, Table
    <3> QED
      BY <3>1, <3>3, <3>4
  <2> QED
    BY <2>1, <2>2
<1>11. OutputOnce'
  <2> SUFFICES ASSUME ~spilled
               PROVE  /\ \A q \in Pids : delivered[q] + output'[q] <= produced[q]
                      /\ \A j \in Ids : InUse(j)' =>
                            delivered[Pid(j)'] + list'[j].outputBuffLen + output'[Pid(j)']
                              <= produced[Pid(j)']
    BY <1>2 DEF OutputOnce, Pid
  <2>1. delivered \in [Pids -> Nat] /\ produced \in [Pids -> Nat]
    BY DEF ProcInv, TypeOK
  <2>2. ASSUME NEW q \in Pids
        PROVE  delivered[q] + output'[q] <= produced[q]
    BY <1>1, <1>5, <2>1 DEF ProcInv, OutputOnce
  <2>3. ASSUME NEW j \in Ids, InUse(j)'
        PROVE  delivered[Pid(j)'] + list'[j].outputBuffLen + output'[Pid(j)']
                 <= produced[Pid(j)']
    <3>1. InUse(j) /\ list'[j] = list[j] /\ Pid(j)' = Pid(j)
      BY <1>8, <2>3
    <3>2. delivered[Pid(j)] + list[j].outputBuffLen + output[Pid(j)] <= produced[Pid(j)]
      BY <3>1 DEF ProcInv, OutputOnce
    <3>3. Pid(j) \in Pids /\ list[j].outputBuffLen \in Nat
      BY <1>9, <3>1
    <3> QED
      BY <1>1, <1>5, <2>1, <3>1, <3>2, <3>3
  <2> QED
    BY <2>2, <2>3
<1>12. NoneLost'
  <2> SUFFICES ASSUME ~spilled, NEW q \in Pids, child[q] # "none"
               PROVE  (\E j \in Ids : list'[j].pid = q) \/ (q \in parted' /\ q \notin piped')
    BY <1>2 DEF NoneLost, Pid
  <2>1. CASE \E j \in Ids : Pid(j) = q
    <3>1. PICK j \in Ids : Pid(j) = q
      BY <2>1
    <3>2. CASE j \in Reached
      <4>1. InUse(j)
        BY <3>1, Constants DEF InUse
      <4>2. q \in Signals
        BY <3>1, <3>2, <4>1 DEF Signals
      <4> QED
        BY <1>2, <4>2
    <3>3. CASE j \notin Reached
      BY <1>2, <3>1, <3>3 DEF Pid
    <3> QED
      BY <3>2, <3>3
  <2>2. CASE q \in parted /\ q \notin piped
    BY <1>2, <2>2
  <2> QED
    BY <2>1, <2>2 DEF ProcInv, NoneLost
<1> QED
  BY <1>6, <1>7, <1>10, <1>11, <1>12 DEF ProcInv

\* What the children and their descendants do in the meantime: a byte is written, or
\* somebody ends.
LEMMA WritesInv ==
    ASSUME ProcInv, NEW p \in Pids, childWrites(p)
    PROVE  ProcInv'
<1>1. /\ output \in [Pids -> Nat] /\ produced \in [Pids -> Nat]
      /\ list \in [Ids -> Entries] /\ delivered \in [Pids -> Nat]
  BY DEF ProcInv, TypeOK, Entries
<1>2. /\ UNCHANGED <<list, nextId, pc, child, piped, ends, given, delivered, parted, spilled>>
      /\ told' = Nothing
      /\ output' = [output EXCEPT ![p] = output[p] + 1]
      /\ produced' = [produced EXCEPT ![p] = produced[p] + 1]
  BY DEF childWrites
<1>3. /\ output' \in [Pids -> Nat] /\ produced' \in [Pids -> Nat]
      /\ \A q \in Pids : output'[q] - output[q] = produced'[q] - produced[q]
  BY <1>1, <1>2
<1>4. TypeOK'
  BY <1>2, <1>3 DEF ProcInv, TypeOK, Nothing
<1>5. Blocked' /\ Table' /\ NoneLost'
  BY <1>2 DEF ProcInv, Blocked, Table, NoneLost, InUse, Pid
<1>6. \A j \in Ids : InUse(j) => Pid(j) \in Pids /\ list[j].outputBuffLen \in Nat
  BY <1>1 DEF InUse, Pid, Entries
<1>7. OutputOnce'
  <2> SUFFICES ASSUME ~spilled
               PROVE  /\ \A q \in Pids : delivered[q] + output'[q] <= produced'[q]
                      /\ \A j \in Ids : InUse(j) =>
                            delivered[Pid(j)] + list[j].outputBuffLen + output'[Pid(j)]
                              <= produced'[Pid(j)]
    BY <1>2 DEF OutputOnce, Pid, InUse
  <2>1. ASSUME NEW q \in Pids
        PROVE  delivered[q] + output'[q] <= produced'[q]
    BY <1>1, <1>3 DEF ProcInv, OutputOnce
  <2>2. ASSUME NEW j \in Ids, InUse(j)
        PROVE  delivered[Pid(j)] + list[j].outputBuffLen + output'[Pid(j)] <= produced'[Pid(j)]
    <3>1. delivered[Pid(j)] + list[j].outputBuffLen + output[Pid(j)] <= produced[Pid(j)]
      BY <2>2 DEF ProcInv, OutputOnce
    <3>2. Pid(j) \in Pids /\ list[j].outputBuffLen \in Nat
      BY <1>6, <2>2
    <3> QED
      BY <1>1, <1>3, <3>1, <3>2
  <2> QED
    BY <2>1, <2>2
<1> QED
  BY <1>4, <1>5, <1>7 DEF ProcInv

LEMMA EndsInv ==
    ASSUME ProcInv, NEW p \in Pids, childEnds(p) \/ descendantEnds(p)
    PROVE  ProcInv'
<1>1. child \in [Pids -> States] /\ ends \in [Pids -> SUBSET Holders]
  BY DEF ProcInv, TypeOK, States
<1>2. /\ UNCHANGED <<list, nextId, pc, piped, output, given, produced, delivered, parted, spilled>>
      /\ told' = Nothing
  BY DEF childEnds, descendantEnds, notes
<1>3. /\ child' \in [Pids -> States]
      /\ \A q \in Pids : child'[q] # "none" <=> child[q] # "none"
  <2>1. CASE childEnds(p)
    <3>1. /\ child' \in {[child EXCEPT ![p] = "exited"], [child EXCEPT ![p] = "signalled"]}
          /\ child[p] # "none"
      BY <2>1 DEF childEnds, Alive
    <3> QED
      BY <1>1, <3>1 DEF States
  <2>2. CASE UNCHANGED child
    BY <1>1, <2>2
  <2> QED
    BY <2>1, <2>2 DEF descendantEnds
<1>4. ends' \in [Pids -> SUBSET Holders]
  <2>1. \A h : Without(h) \in [Pids -> SUBSET Holders]
    BY <1>1 DEF Without
  <2>2. \A q \in Pids : Inherited(q) \in [Pids -> SUBSET Holders]
    <3>1. \A q \in Pids : -q \in Holders
      BY DEF Holders
    <3> QED
      BY <1>1, <3>1 DEF Inherited
  <2> QED
    BY <2>1, <2>2 DEF childEnds, descendantEnds
<1>5. TypeOK'
  BY <1>2, <1>3, <1>4 DEF ProcInv, TypeOK, States, Nothing
<1>6. Blocked'
  BY <1>2 DEF ProcInv, Blocked, InUse, Pid
<1>7. Table' /\ OutputOnce' /\ NoneLost'
  BY <1>2, <1>3, SameTable
<1> QED
  BY <1>5, <1>6, <1>7 DEF ProcInv

LEMMA NextInv == ProcInv /\ [Next]_vars => ProcInv'
<1>1. ASSUME ProcInv, Request
      PROVE  ProcInv'
  BY <1>1, RunInv, RunFailsInv, RunningInv, WaitInv, CleanupInv, CleanupKillsInv, StartInv, ResetInv
     DEF Request, UsedIds
<1>2. ASSUME ProcInv, UNCHANGED vars
      PROVE  ProcInv'
  BY <1>2 DEF vars, kernel, notes, ProcInv, TypeOK, Blocked, Table, OutputOnce, NoneLost, InUse, Pid
<1> QED
  BY <1>1, <1>2, UnblockInv, WritesInv, EndsInv DEF Next, Children

LEMMA Invariant == Spec => []ProcInv
BY InitInv, NextInv, PTL DEF Spec

-----------------------------------------------------------------------------
\* No read of a pipe fills the buffer of an entry beyond its size, however reads,
\* polls and the child's writes alternate (readOutput, availableOutput).
THEOREM TypeCorrect == Spec => []TypeOK
<1>1. ProcInv => TypeOK
  BY DEF ProcInv
<1> QED
  BY <1>1, Invariant, PTL

\* The output of a child is delivered at most once and under its own id, through
\* partial reads, polls, lost responses, CLEAN UP and RESET.
THEOREM OutputDeliveredOnce == Spec => []OutputOnce
<1>1. ProcInv => OutputOnce
  BY DEF ProcInv
<1> QED
  BY <1>1, Invariant, PTL

\* RUNNING answers for the child started under the id and says whether it runs, also
\* after an earlier answer reaped it.
THEOREM RunningIsTrue == Spec => RunningHonest
<1> DEFINE A == told'.op = "running" /\ ~spilled /\ told'.pid # INVALID_PID
                  => (told'.alive <=> child[told'.pid] = "running")
<1>1. ProcInv /\ [Next]_vars => [A]_vars
  <2> SUFFICES ASSUME ProcInv, Next, told'.op = "running", ~spilled, told'.pid # INVALID_PID
               PROVE  told'.alive <=> child[told'.pid] = "running"
    OBVIOUS
  <2>1. PICK id \in Ids : running(id)
    BY DEF Next, Request, Unblock, Children, run, runFails, wait, cleanup, cleanupKills, startIO,
           reset, readOutput, availableOutput, writeInput, writeFails, waited, childWrites,
           childEnds, descendantEnds, UsedIds, Nothing, Answer
  <2>2. Pid(id) = given[id]
    BY DEF ProcInv, Table
  <2>3. InUse(id)
    BY <2>1, <2>2 DEF running, InUse, Answer
  <2>4. told' = Answer("running", given[id], child[Pid(id)] = "running")
    BY <2>1, <2>3 DEF running, runningAnswer, Nothing
  <2> QED
    BY <2>2, <2>4 DEF Answer
<1> QED
  BY <1>1, Invariant, PTL DEF Spec, RunningHonest

\* Every child ever started is in the table or was let go of by CLEAN UP or sent
\* SIGTERM by a RESET, however often a RESET stopped at a child found dead.
THEOREM NoChildLost == Spec => []NoneLost
<1>1. ProcInv => NoneLost
  BY DEF ProcInv
<1> QED
  BY <1>1, Invariant, PTL
=============================================================================
