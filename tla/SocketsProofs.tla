--------------------------- MODULE SocketsProofs ---------------------------
(***************************************************************************)
(* Theorems about Sockets, for every number of slots, size of the buffers   *)
(* and number of connections: the buffers keep their sizes, every open slot *)
(* is served, no byte reaches another connection, and a failing CONNECT ends*)
(* the oldest connection, if any.                                           *)
(***************************************************************************)
EXTENDS Sockets, SequenceTheorems, TLAPS

Tags == Conns \cup {INVALID}

\* n bytes of one connection.
LEMMA RepeatType ==
    ASSUME NEW c \in Tags, NEW n \in Nat
    PROVE  /\ Repeat(c, n) \in Seq(Tags)
           /\ Len(Repeat(c, n)) = n
           /\ \A k \in 1..n : Repeat(c, n)[k] = c
<1>1. Repeat(c, n) \in [1..n -> Tags]
  BY DEF Repeat
<1>2. Repeat(c, n) \in Seq(Tags)
  BY <1>1, SeqDef
<1>3. Len(Repeat(c, n)) = n
  BY <1>1, <1>2, LenProperties DEF Repeat
<1> QED
  BY <1>2, <1>3 DEF Repeat

\* What is appended and what is taken away.
LEMMA AppendedType ==
    ASSUME NEW s \in Seq(Tags), NEW c \in Tags, NEW n \in Nat
    PROVE  /\ s \o Repeat(c, n) \in Seq(Tags)
           /\ Len(s \o Repeat(c, n)) = Len(s) + n
           /\ (\A k \in 1..Len(s) : s[k] = c)
                => \A k \in 1..Len(s) + n : (s \o Repeat(c, n))[k] = c
<1>1. Repeat(c, n) \in Seq(Tags) /\ Len(Repeat(c, n)) = n
  BY RepeatType
<1>2. Len(s) \in Nat
  BY LenProperties
<1>3. \A k \in 1..Len(s) + n :
        (s \o Repeat(c, n))[k] = IF k <= Len(s) THEN s[k] ELSE Repeat(c, n)[k - Len(s)]
  BY <1>1, ConcatProperties
<1>4. ASSUME \A k \in 1..Len(s) : s[k] = c, NEW k \in 1..Len(s) + n
      PROVE  (s \o Repeat(c, n))[k] = c
  <2>1. CASE k <= Len(s)
    BY <1>2, <1>3, <1>4, <2>1
  <2>2. CASE ~(k <= Len(s))
    <3>1. k - Len(s) \in 1..n
      BY <1>2, <2>2
    <3> QED
      BY <1>3, <1>4, <2>2, <3>1, RepeatType
  <2> QED
    BY <2>1, <2>2
<1> QED
  BY <1>1, <1>4, ConcatProperties

LEMMA RemovedType ==
    ASSUME NEW s \in Seq(Tags), NEW n \in 0..Len(s)
    PROVE  /\ SubSeq(s, n + 1, Len(s)) \in Seq(Tags)
           /\ Len(SubSeq(s, n + 1, Len(s))) = Len(s) - n
           /\ \A d : (\A k \in 1..Len(s) : s[k] = d)
                        => \A k \in 1..Len(s) - n : SubSeq(s, n + 1, Len(s))[k] = d
<1>1. Len(s) \in Nat /\ n \in Nat /\ n <= Len(s) /\ n + 1 \in Int /\ Len(s) \in Int
  BY LenProperties
<1>2. \A i \in n + 1..Len(s) : s[i] \in Tags
  BY <1>1, ElementOfSeq
<1>3. /\ SubSeq(s, n + 1, Len(s)) \in Seq(Tags)
      /\ Len(SubSeq(s, n + 1, Len(s))) = IF n + 1 <= Len(s) THEN Len(s) - (n + 1) + 1 ELSE 0
      /\ \A i \in 1..Len(s) - (n + 1) + 1 : SubSeq(s, n + 1, Len(s))[i] = s[n + 1 + i - 1]
  BY <1>1, <1>2, SubSeqProperties
<1>4. Len(SubSeq(s, n + 1, Len(s))) = Len(s) - n
  BY <1>1, <1>3
<1>5. ASSUME NEW d, \A k \in 1..Len(s) : s[k] = d, NEW k \in 1..Len(s) - n
      PROVE  SubSeq(s, n + 1, Len(s))[k] = d
  <2>1. k \in 1..Len(s) - (n + 1) + 1 /\ n + 1 + k - 1 \in 1..Len(s)
    BY <1>1
  <2> QED
    BY <1>3, <1>5, <2>1
<1> QED
  BY <1>3, <1>4, <1>5

LEMMA Constants ==
    /\ MaxClients \in Nat /\ MaxClients > 0 /\ 0 \in Ids
    /\ BuffLen \in Nat /\ BuffLen > 0 /\ DataLen \in Nat /\ MaxConns \in Nat
    /\ INVALID \in Tags /\ INVALID \notin Conns
    /\ \A n \in 0..MaxConns : n < MaxConns => n + 1 \in Conns
BY ClientsAssumption, BuffAssumption, DataAssumption, ConnsAssumption, SMT
   DEF Ids, Tags, Conns, INVALID

\* The slot after nextId, without the remainder.
LEMMA NextIdAfter ==
    ASSUME nextId \in Ids
    PROVE  /\ nextIdAfter \in Ids
           /\ nextIdAfter = IF nextId + 1 = MaxClients THEN 0 ELSE nextId + 1
<1>1. nextId \in Nat /\ nextId < MaxClients /\ MaxClients \in Nat /\ MaxClients > 0
  BY Constants, SMT DEF Ids
<1>2. CASE nextId + 1 = MaxClients
  BY <1>1, <1>2, SMT DEF nextIdAfter, Ids
<1>3. CASE nextId + 1 < MaxClients
  BY <1>1, <1>3, SMT DEF nextIdAfter, Ids
<1> QED
  BY <1>1, <1>2, <1>3, SMT

\* The types of what closes changes.
InfoType ==
    /\ sockFd \in [Ids -> Tags]
    /\ connecting \in [Ids -> BOOLEAN]
    /\ connected \in [Ids -> BOOLEAN]
    /\ rxBuff \in [Ids -> Seq(Tags)]
    /\ txBuff \in [Ids -> Seq(Tags)]
    /\ \A i \in Ids : Len(rxBuff[i]) <= BuffLen /\ Len(txBuff[i]) < BuffLen
    /\ broken \in [Ids -> BOOLEAN]
    /\ urgent \in [Ids -> BOOLEAN]

OtherType ==
    /\ pc \in [at : {"connecting", "recv", "send", "serve"}, id : Ids]
    /\ server \in BOOLEAN
    /\ nextId \in Ids
    /\ made \in 0..MaxConns
    /\ meant \in [Ids -> Tags]
    /\ lost \in BOOLEAN

LEMMA TypeSplit == TypeOK <=> InfoType /\ OtherType
BY DEF TypeOK, InfoType, OtherType, Tags

LEMMA Empty ==
    /\ <<>> \in Seq(Tags) /\ Len(<<>>) = 0
    /\ Len(<<>>) <= BuffLen /\ Len(<<>>) < BuffLen
<1>1. <<>> \in Seq(Tags) /\ Len(<<>>) = 0
  BY EmptySeq
<1> QED
  BY <1>1, Constants

LEMMA ClosesType ==
    ASSUME InfoType, NEW i \in Ids, closes(i)
    PROVE  InfoType'
BY Empty, Constants DEF InfoType, closes

\* One stage of the runner leads to another.
LEMMA StageType ==
    ASSUME pc \in [at : {"connecting", "recv", "send", "serve"}, id : Ids]
    PROVE  /\ \A s \in {"connecting", "recv", "send", "serve"} : Goto(s) =>
                pc' \in [at : {"connecting", "recv", "send", "serve"}, id : Ids]
           /\ NextConnecting \/ NextClient =>
                pc' \in [at : {"connecting", "recv", "send", "serve"}, id : Ids]
BY Constants DEF Goto, NextConnecting, NextClient

LEMMA RunnerType ==
    ASSUME TypeOK, runner
    PROVE  TypeOK'
<1>1. InfoType /\ OtherType
  BY TypeSplit
<1>2. pc.id \in Ids
  BY <1>1 DEF OtherType
<1>3. OtherType'
  <2>1. UNCHANGED <<server, nextId, made, meant, lost>>
    BY DEF runner, Running, selectFails, connectPending, connectDone, connectFailed,
           notConnected, excepted, receives, overflows, recvFails, sends, sendFails
  <2>2. \/ Goto("recv") \/ Goto("serve") \/ NextConnecting \/ NextClient
        \/ pc' = [pc EXCEPT !.at = "send"]
    BY DEF runner, selectFails, connectPending, connectDone, connectFailed,
           notConnected, excepted, receives, overflows, recvFails, sends, sendFails
  <2>3. pc' \in [at : {"connecting", "recv", "send", "serve"}, id : Ids]
    BY <1>1, <2>2, StageType DEF OtherType
  <2> QED
    BY <1>1, <2>1, <2>3 DEF OtherType
<1>4. InfoType'
  <2>1. CASE UNCHANGED info
    BY <1>1, <2>1 DEF InfoType, info
  <2>2. CASE closes(pc.id)
    BY <1>1, <1>2, <2>2, ClosesType
  <2>3. CASE connectDone
    BY <1>1, <1>2, <2>3 DEF InfoType, connectDone
  <2>4. CASE \E n \in 0..BuffLen : receives(n)
    <3>1. PICK n \in 0..BuffLen : receives(n)
      BY <2>4
    <3>2. n \in Nat /\ rxBuff[pc.id] \in Seq(Tags) /\ sockFd[pc.id] \in Tags
      BY <1>1, <1>2, Constants DEF InfoType
    <3> DEFINE s == rxBuff[pc.id] \o Repeat(sockFd[pc.id], n)
    <3>3. s \in Seq(Tags) /\ Len(s) = Len(rxBuff[pc.id]) + n
      BY <3>2, AppendedType
    <3>4. rxBuff' = [rxBuff EXCEPT ![pc.id] = s] /\ Len(rxBuff[pc.id]) + n <= BuffLen
          /\ UNCHANGED <<sockFd, connecting, connected, txBuff, broken, urgent>>
      BY <3>1 DEF receives
    <3> QED
      BY <1>1, <1>2, <3>3, <3>4 DEF InfoType
  <2>5. CASE \E n \in 0..BuffLen : sends(n)
    <3>1. PICK n \in 0..BuffLen : sends(n)
      BY <2>5
    <3>2. txBuff[pc.id] \in Seq(Tags) /\ Len(txBuff[pc.id]) \in Nat /\ n \in Nat
      BY <1>1, <1>2, Constants, LenProperties DEF InfoType
    <3>3. n \in 0..Len(txBuff[pc.id])
      BY <3>1, <3>2 DEF sends
    <3> DEFINE s == SubSeq(txBuff[pc.id], n + 1, Len(txBuff[pc.id]))
    <3>4. s \in Seq(Tags) /\ Len(s) = Len(txBuff[pc.id]) - n
      BY <3>2, <3>3, RemovedType
    <3>5. Len(s) < BuffLen
      BY <1>1, <1>2, <3>2, <3>4, Constants DEF InfoType
    <3>6. txBuff' = [txBuff EXCEPT ![pc.id] = s]
          /\ UNCHANGED <<sockFd, connecting, connected, rxBuff, broken, urgent>>
      BY <3>1 DEF sends
    <3> QED
      BY <1>1, <1>2, <3>4, <3>5, <3>6 DEF InfoType
  <2> QED
    BY <2>1, <2>2, <2>3, <2>4, <2>5
       DEF runner, selectFails, connectPending, connectFailed, notConnected, excepted,
           overflows, recvFails, sendFails
<1> QED
  BY <1>3, <1>4 DEF TypeOK, InfoType, OtherType, Tags

\* A frame that opens a slot.
LEMMA OpensType ==
    ASSUME TypeOK, accept \/ connect \/ connectUntold
    PROVE  TypeOK'
<1>1. InfoType /\ OtherType
  BY TypeSplit
<1>2. nextId \in Ids /\ nextIdAfter \in Ids
  BY <1>1, NextIdAfter DEF OtherType
<1>3. made' = made + 1 /\ made + 1 \in Tags /\ made' \in 0..MaxConns /\ nextId' = nextIdAfter
  <2>1. made' = made + 1 /\ made < MaxConns /\ nextId' = nextIdAfter
    BY DEF accept, connect, connectUntold, fills
  <2>2. made \in Nat /\ made + 1 \in Conns
    BY <1>1, <2>1, Constants DEF OtherType
  <2> QED
    BY <2>1, <2>2, Constants, SMT DEF Tags, Conns
<1>4. OtherType'
  <2>1. pc' \in [at : {"connecting", "recv", "send", "serve"}, id : Ids]
    BY <1>1, StageType DEF OtherType, accept, connect, connectUntold, Serve
  <2>2. meant' \in [Ids -> Tags] /\ lost' \in BOOLEAN /\ server' \in BOOLEAN
    BY <1>1, <1>2, <1>3 DEF OtherType, accept, connect, connectUntold, told
  <2> QED
    BY <1>2, <1>3, <2>1, <2>2 DEF OtherType
<1>5. InfoType'
  <2>1. CASE accept
    BY <1>1, <1>2, <1>3, <2>1 DEF InfoType, accept, fills
  <2>2. CASE connect
    BY <1>1, <1>2, <1>3, <2>2 DEF InfoType, connect, fills
  <2>3. CASE connectUntold
    BY <1>1, <1>2, <1>3, <2>3, Empty, Constants DEF InfoType, connectUntold
  <2> QED
    BY <2>1, <2>2, <2>3
<1> QED
  BY <1>4, <1>5 DEF TypeOK, InfoType, OtherType, Tags

\* What fits is shorter than the buffer.
LEMMA WrittenType ==
    ASSUME InfoType, OtherType, NEW i \in Ids, NEW len \in 1..DataLen, Fits(i, len)
    PROVE  Written(i, len) \in Seq(Tags) /\ Len(Written(i, len)) < BuffLen
<1>1. txBuff[i] \in Seq(Tags) /\ meant[i] \in Tags /\ len \in Nat
  BY Constants DEF InfoType, OtherType
<1>2. Written(i, len) \in Seq(Tags) /\ Len(Written(i, len)) = Len(txBuff[i]) + len
  BY <1>1, AppendedType DEF Written
<1> QED
  BY <1>2 DEF Fits

LEMMA LeastType ==
    ASSUME NEW s \in Seq(Tags), NEW len \in 1..DataLen
    PROVE  Least(len, Len(s)) \in 0..Len(s)
<1>1. len \in Nat /\ Len(s) \in Nat
  BY Constants, LenProperties
<1> QED
  BY <1>1, SMT DEF Least

LEMMA FrameType ==
    ASSUME TypeOK, Frame
    PROVE  TypeOK'
<1>1. InfoType /\ OtherType
  BY TypeSplit
<1>2. nextId \in Ids
  BY <1>1 DEF OtherType
<1>3. ASSUME Serve
      PROVE  pc' \in [at : {"connecting", "recv", "send", "serve"}, id : Ids]
  BY <1>1, <1>3, StageType DEF OtherType, Serve
<1>4. CASE listen \/ otherFrame
  BY <1>1, <1>3, <1>4 DEF TypeOK, InfoType, OtherType, Tags, listen, otherFrame, info
<1>5. CASE connectRefused
  <2>1. InfoType'
    BY <1>1, <1>2, <1>5, ClosesType DEF connectRefused
  <2> QED
    BY <1>1, <1>3, <1>5, <2>1 DEF TypeOK, InfoType, OtherType, Tags, connectRefused
<1>6. ASSUME NEW i \in Ids, NEW len \in 1..DataLen, read(i, len)
      PROVE  TypeOK'
  <2> DEFINE s == SubSeq(rxBuff[i], Least(len, Len(rxBuff[i])) + 1, Len(rxBuff[i]))
  <2>1. rxBuff[i] \in Seq(Tags) /\ Len(rxBuff[i]) \in Nat /\ Len(rxBuff[i]) <= BuffLen
    BY <1>1, LenProperties DEF InfoType
  <2>2. Least(len, Len(rxBuff[i])) \in 0..Len(rxBuff[i])
    BY <2>1, LeastType
  <2>3. s \in Seq(Tags) /\ Len(s) = Len(rxBuff[i]) - Least(len, Len(rxBuff[i]))
    BY <2>1, <2>2, RemovedType
  <2>4. Len(s) <= BuffLen
    BY <2>1, <2>2, <2>3, Constants
  <2>5. rxBuff' = [rxBuff EXCEPT ![i] = s]
        /\ UNCHANGED <<server, sockFd, connecting, connected, txBuff, broken, urgent, nextId, made, meant, lost>>
    BY <1>6 DEF read
  <2>6. InfoType'
    BY <1>1, <2>3, <2>4, <2>5 DEF InfoType
  <2>7. OtherType'
    BY <1>1, <1>3, <1>6, <2>5 DEF OtherType, read
  <2> QED
    BY <2>6, <2>7 DEF TypeOK, InfoType, OtherType, Tags
<1>7. ASSUME NEW i \in Ids, NEW len \in 1..DataLen, write(i, len)
      PROVE  TypeOK'
  <2>1. Written(i, len) \in Seq(Tags) /\ Len(Written(i, len)) < BuffLen
    BY <1>1, <1>7, WrittenType DEF write
  <2>2. InfoType'
    BY <1>1, <1>7, <2>1 DEF InfoType, write
  <2>3. OtherType'
    BY <1>1, <1>3, <1>7 DEF OtherType, write
  <2> QED
    BY <2>2, <2>3 DEF TypeOK, InfoType, OtherType, Tags
<1>8. ASSUME NEW len \in 1..DataLen, writeToAll(len)
      PROVE  TypeOK'
  <2>1. ASSUME NEW i \in Ids
        PROVE  txBuff'[i] \in Seq(Tags) /\ Len(txBuff'[i]) < BuffLen
    <3>1. txBuff'[i] = txBuff[i] \/ (txBuff'[i] = Written(i, len) /\ Fits(i, len))
      <4> DEFINE full == {j \in Ids : connected[j] /\ ~Fits(j, len)}
                 to(j) == connected[j] /\ \A k \in full : j < k
      <4>1. txBuff' = [j \in Ids |-> IF to(j) THEN Written(j, len) ELSE txBuff[j]]
        BY <1>8 DEF writeToAll
      <4>2. to(i) => Fits(i, len)
        <5>1. SUFFICES ASSUME to(i), ~Fits(i, len)
                       PROVE  FALSE
          OBVIOUS
        <5>2. i \in full
          BY <5>1
        <5>3. i < i
          BY <5>1, <5>2
        <5>4. i \in Int
          BY Constants DEF Ids
        <5> QED
          BY <5>3, <5>4
      <4>3. txBuff'[i] = IF to(i) THEN Written(i, len) ELSE txBuff[i]
        BY <4>1
      <4> QED
        BY <4>2, <4>3
    <3> QED
      BY <1>1, <3>1, WrittenType DEF InfoType
  <2>2. txBuff' \in [Ids -> Seq(Tags)]
    <3>1. txBuff' = [j \in Ids |-> txBuff'[j]]
      BY <1>8 DEF writeToAll
    <3> QED
      BY <2>1, <3>1
  <2>3. InfoType'
    BY <1>1, <1>8, <2>1, <2>2 DEF InfoType, writeToAll
  <2>4. OtherType'
    BY <1>1, <1>3, <1>8 DEF OtherType, writeToAll
  <2> QED
    BY <2>3, <2>4 DEF TypeOK, InfoType, OtherType, Tags
<1>9. ASSUME NEW i \in Ids, close(i)
      PROVE  TypeOK'
  <2>1. InfoType'
    BY <1>1, <1>9, ClosesType DEF close
  <2>2. OtherType'
    BY <1>1, <1>3, <1>9, Constants DEF OtherType, close
  <2> QED
    BY <2>1, <2>2 DEF TypeOK, InfoType, OtherType, Tags
<1>10. CASE reset
  <2>1. InfoType'
    BY <1>1, <1>10, Empty, Constants DEF InfoType, reset
  <2>2. OtherType'
    BY <1>1, <1>3, <1>10, Constants DEF OtherType, reset
  <2> QED
    BY <2>1, <2>2 DEF TypeOK, InfoType, OtherType, Tags
<1> QED
  BY <1>4, <1>5, <1>6, <1>7, <1>8, <1>9, <1>10, OpensType DEF Frame

\* Buffers, flags and ids keep their types and sizes in every slot, for every number
\* of slots and every size (checkClients, write, writeToAll).
THEOREM TypeCorrect == Spec => []TypeOK
<1>1. Init => TypeOK
  <2>1. ASSUME Init
        PROVE  InfoType
    BY <2>1, Empty, Constants DEF Init, InfoType
  <2>2. ASSUME Init
        PROVE  OtherType
    <3>1. /\ pc = [at |-> "connecting", id |-> 0] /\ server = FALSE /\ nextId = 0 /\ made = 0
          /\ meant = [i \in Ids |-> INVALID] /\ lost = FALSE
      BY <2>2 DEF Init
    <3>2. pc \in [at : {"connecting", "recv", "send", "serve"}, id : Ids]
      BY <3>1, Constants
    <3>3. meant \in [Ids -> Tags]
      BY <3>1, Constants
    <3>4. nextId \in Ids /\ made \in 0..MaxConns
      BY <3>1, Constants
    <3> QED
      BY <3>1, <3>2, <3>3, <3>4 DEF OtherType
  <2> QED
    BY <2>1, <2>2 DEF TypeOK, InfoType, OtherType, Tags
<1>2. TypeOK /\ [Next]_vars => TypeOK'
  <2>1. ASSUME TypeOK, NEW i \in Ids, peerEnds(i) \/ peerUrges(i)
        PROVE  TypeOK'
    BY <2>1 DEF TypeOK, peerEnds, peerUrges
  <2>2. ASSUME TypeOK, UNCHANGED vars
        PROVE  TypeOK'
    BY <2>2 DEF TypeOK, vars, info
  <2> QED
    BY <2>1, <2>2, RunnerType, FrameType DEF Next
<1> QED
  BY <1>1, <1>2, PTL DEF Spec

-----------------------------------------------------------------------------
\* A free slot's buffers are empty, which is what lets ACCEPT and CONNECT fill it
\* without clearing them.
FreeIsEmpty == \A i \in Ids : ~Open(i) => rxBuff[i] = <<>> /\ txBuff[i] = <<>>

\* The microcontroller knows every open connection.
Known == ~lost => \A i \in Ids : Open(i) => meant[i] = sockFd[i]

SlotInv == Watched /\ FreeIsEmpty /\ Known /\ NoCrossTalk

\* Closing a slot keeps all of it.
LEMMA ClosesInv ==
    ASSUME InfoType, SlotInv, NEW i \in Ids, closes(i),
           lost' = lost, \A j \in Ids : j = i \/ meant'[j] = meant[j]
    PROVE  SlotInv'
<1>1. /\ \A j \in Ids \ {i} : /\ sockFd'[j] = sockFd[j] /\ connecting'[j] = connecting[j]
                               /\ connected'[j] = connected[j] /\ rxBuff'[j] = rxBuff[j]
                               /\ txBuff'[j] = txBuff[j] /\ meant'[j] = meant[j]
      /\ sockFd'[i] = INVALID /\ connecting'[i] = FALSE /\ connected'[i] = FALSE
      /\ rxBuff'[i] = <<>> /\ txBuff'[i] = <<>>
  BY DEF InfoType, closes
<1>2. Watched' /\ FreeIsEmpty' /\ Known'
  BY <1>1 DEF SlotInv, Watched, FreeIsEmpty, Known, Open
<1>3. NoCrossTalk'
  <2>1. SUFFICES ASSUME ~lost, NEW j \in Ids
                 PROVE  /\ \A k \in 1..Len(txBuff'[j]) : txBuff'[j][k] = sockFd'[j]
                        /\ \A k \in 1..Len(rxBuff'[j]) : rxBuff'[j][k] = meant'[j]
    BY DEF NoCrossTalk
  <2>2. CASE j = i
    BY <1>1, <2>2, Empty
  <2>3. CASE j # i
    BY <1>1, <2>1, <2>3 DEF SlotInv, NoCrossTalk
  <2> QED
    BY <2>2, <2>3
<1> QED
  BY <1>2, <1>3 DEF SlotInv

LEMMA RunnerInv ==
    ASSUME TypeOK, SlotInv, runner
    PROVE  SlotInv'
<1>1. InfoType /\ OtherType /\ pc.id \in Ids
  BY TypeSplit DEF OtherType
<1>2. UNCHANGED <<server, nextId, made, meant, lost>>
  BY DEF runner, Running, selectFails, connectPending, connectDone, connectFailed,
         notConnected, excepted, receives, overflows, recvFails, sends, sendFails
<1>3. CASE UNCHANGED info
  BY <1>2, <1>3 DEF info, SlotInv, Watched, FreeIsEmpty, Known, NoCrossTalk, Open
<1>4. CASE closes(pc.id)
  BY <1>1, <1>2, <1>4, ClosesInv
<1>5. CASE connectDone
  <2>1. Watched'
    BY <1>1, <1>5 DEF connectDone, InfoType, SlotInv, Watched, Open
  <2> QED
    BY <1>2, <1>5, <2>1 DEF connectDone, SlotInv, FreeIsEmpty, Known, NoCrossTalk, Open
<1>6. CASE \E n \in 0..BuffLen : receives(n)
  <2>1. PICK n \in 0..BuffLen : receives(n)
    BY <1>6
  <2> DEFINE i == pc.id
             s == rxBuff[i] \o Repeat(sockFd[i], n)
  <2>2. rxBuff[i] \in Seq(Tags) /\ sockFd[i] \in Tags /\ n \in Nat
    BY <1>1, Constants DEF InfoType
  <2>3. rxBuff' = [rxBuff EXCEPT ![i] = s] /\ connected[i]
        /\ UNCHANGED <<sockFd, connecting, connected, txBuff, broken, urgent>>
    BY <2>1 DEF receives
  <2>4. Open(i)
    BY <1>1, <2>3 DEF SlotInv, Watched
  <2>5. Watched' /\ Known'
    BY <1>2, <2>3 DEF SlotInv, Watched, Known, Open
  <2>6. FreeIsEmpty'
    BY <1>1, <2>3, <2>4 DEF SlotInv, FreeIsEmpty, Open, InfoType
  <2>7. ASSUME ~lost
        PROVE  \A k \in 1..Len(s) : s[k] = meant[i]
    <3>1. meant[i] = sockFd[i] /\ \A k \in 1..Len(rxBuff[i]) : rxBuff[i][k] = meant[i]
      BY <1>1, <2>4, <2>7 DEF SlotInv, Known, NoCrossTalk
    <3>2. Len(s) = Len(rxBuff[i]) + n
      BY <2>2, AppendedType
    <3>3. (\A k \in 1..Len(rxBuff[i]) : rxBuff[i][k] = sockFd[i])
            => \A k \in 1..Len(rxBuff[i]) + n : s[k] = sockFd[i]
      BY <2>2, AppendedType
    <3> QED
      BY <3>1, <3>2, <3>3
  <2>8. NoCrossTalk'
    BY <1>1, <1>2, <2>3, <2>7 DEF SlotInv, NoCrossTalk, InfoType
  <2> QED
    BY <2>5, <2>6, <2>8 DEF SlotInv
<1>7. CASE \E n \in 0..BuffLen : sends(n)
  <2>1. PICK n \in 0..BuffLen : sends(n)
    BY <1>7
  <2> DEFINE i == pc.id
             s == SubSeq(txBuff[i], n + 1, Len(txBuff[i]))
  <2>2. txBuff[i] \in Seq(Tags) /\ Len(txBuff[i]) \in Nat
    BY <1>1, LenProperties DEF InfoType
  <2>3. txBuff' = [txBuff EXCEPT ![i] = s] /\ n \in 0..Len(txBuff[i])
        /\ UNCHANGED <<sockFd, connecting, connected, rxBuff, broken, urgent>>
    BY <2>1, <2>2, Constants DEF sends
  <2>4. Watched' /\ Known'
    BY <1>2, <2>3 DEF SlotInv, Watched, Known, Open
  <2>5. txBuff[i] = <<>> => s = <<>>
    <3>1. s \in Seq(Tags) /\ Len(s) = Len(txBuff[i]) - n
      BY <2>2, <2>3, RemovedType
    <3>2. SUFFICES ASSUME txBuff[i] = <<>>
                   PROVE  Len(s) = 0
      BY <3>1, EmptySeq
    <3> QED
      BY <2>3, <3>1, <3>2, Empty
  <2>6. FreeIsEmpty'
    BY <1>1, <2>3, <2>5 DEF SlotInv, FreeIsEmpty, Open, InfoType
  <2>7. ASSUME ~lost
        PROVE  \A k \in 1..Len(s) : s[k] = sockFd[i]
    <3>1. \A k \in 1..Len(txBuff[i]) : txBuff[i][k] = sockFd[i]
      BY <1>1, <2>7 DEF SlotInv, NoCrossTalk
    <3>2. Len(s) = Len(txBuff[i]) - n
      BY <2>2, <2>3, RemovedType
    <3> QED
      BY <2>2, <2>3, <3>1, <3>2, RemovedType, ZenonT(60)
  <2>8. NoCrossTalk'
    BY <1>1, <1>2, <2>3, <2>7 DEF SlotInv, NoCrossTalk, InfoType
  <2> QED
    BY <2>4, <2>6, <2>8 DEF SlotInv
<1> QED
  BY <1>3, <1>4, <1>5, <1>6, <1>7
     DEF runner, selectFails, connectPending, connectFailed, notConnected, excepted,
         overflows, recvFails, sendFails

\* WRITE and WRITE_TO_ALL append what is meant for the connection to the slots of D,
\* all of them open.
LEMMA WritesInv ==
    ASSUME TypeOK, SlotInv, NEW len \in 1..DataLen, NEW D \in SUBSET {i \in Ids : Open(i)},
           \A i \in Ids : txBuff'[i] = IF i \in D THEN Written(i, len) ELSE txBuff[i],
           UNCHANGED <<sockFd, connecting, connected, rxBuff, meant, lost>>
    PROVE  SlotInv'
<1>1. InfoType /\ OtherType
  BY TypeSplit
<1>2. Watched' /\ FreeIsEmpty' /\ Known'
  BY DEF SlotInv, Watched, FreeIsEmpty, Known, Open
<1>3. NoCrossTalk'
  <2>1. SUFFICES ASSUME ~lost, NEW i \in Ids
                 PROVE  \A k \in 1..Len(txBuff'[i]) : txBuff'[i][k] = sockFd[i]
    BY DEF SlotInv, NoCrossTalk
  <2>2. \A k \in 1..Len(txBuff[i]) : txBuff[i][k] = sockFd[i]
    BY <2>1 DEF SlotInv, NoCrossTalk
  <2>3. CASE i \notin D
    BY <2>2, <2>3
  <2>4. CASE i \in D
    <3>1. meant[i] = sockFd[i]
      BY <2>1, <2>4 DEF SlotInv, Known
    <3>2. txBuff[i] \in Seq(Tags) /\ meant[i] \in Tags /\ len \in Nat
      BY <1>1, Constants DEF InfoType, OtherType
    <3>3. Len(Written(i, len)) = Len(txBuff[i]) + len
      BY <3>2, AppendedType DEF Written
    <3>4. (\A k \in 1..Len(txBuff[i]) : txBuff[i][k] = meant[i])
            => \A k \in 1..Len(txBuff[i]) + len : Written(i, len)[k] = meant[i]
      BY <3>2, AppendedType DEF Written
    <3> QED
      BY <2>2, <2>4, <3>1, <3>3, <3>4
  <2> QED
    BY <2>3, <2>4
<1> QED
  BY <1>2, <1>3 DEF SlotInv

\* ACCEPT and CONNECT fill a slot that is free, hence empty.
LEMMA OpensInv ==
    ASSUME TypeOK, SlotInv, accept \/ connect \/ connectUntold
    PROVE  SlotInv'
<1>1. InfoType /\ OtherType
  BY TypeSplit
<1>2. nextId \in Ids /\ nextIdAfter \in Ids /\ ~Open(nextId)
  BY <1>1, NextIdAfter DEF OtherType, accept, connect, connectUntold
<1>3. made + 1 # INVALID
  BY <1>1, Constants DEF OtherType, INVALID
<1>4. /\ rxBuff[nextId] = <<>> /\ txBuff[nextId] = <<>>
      /\ connecting[nextId] = FALSE /\ connected[nextId] = FALSE
  BY <1>1, <1>2 DEF SlotInv, FreeIsEmpty, Watched, InfoType
<1>5. CASE accept \/ connect
  <2>1. /\ sockFd' = [sockFd EXCEPT ![nextId] = made + 1] /\ UNCHANGED <<rxBuff, txBuff>>
        /\ \/ connected' = [connected EXCEPT ![nextId] = TRUE] /\ UNCHANGED connecting
           \/ connecting' = [connecting EXCEPT ![nextId] = TRUE] /\ UNCHANGED connected
        /\ \/ meant' = [meant EXCEPT ![nextId] = made + 1] /\ UNCHANGED lost
           \/ lost'
    BY <1>5 DEF accept, connect, fills, told
  <2>2. Watched'
    BY <1>1, <1>2, <1>3, <1>4, <2>1 DEF InfoType, SlotInv, Watched, Open
  <2>3. FreeIsEmpty'
    BY <1>1, <1>2, <1>4, <2>1 DEF InfoType, SlotInv, FreeIsEmpty, Open
  <2>4. Known'
    BY <1>1, <1>2, <2>1 DEF InfoType, OtherType, SlotInv, Known, Open
  <2>5. NoCrossTalk'
    <3>1. SUFFICES ASSUME ~lost', NEW i \in Ids
                   PROVE  /\ \A k \in 1..Len(txBuff[i]) : txBuff[i][k] = sockFd'[i]
                          /\ \A k \in 1..Len(rxBuff[i]) : rxBuff[i][k] = meant'[i]
      BY <2>1 DEF NoCrossTalk
    <3>2. ~lost /\ meant' = [meant EXCEPT ![nextId] = made + 1]
      BY <2>1, <3>1
    <3>3. CASE i = nextId
      BY <1>4, <3>3, Empty
    <3>4. CASE i # nextId
      BY <1>1, <2>1, <3>1, <3>2, <3>4 DEF InfoType, OtherType, SlotInv, NoCrossTalk
    <3> QED
      BY <3>3, <3>4
  <2> QED
    BY <2>2, <2>3, <2>4, <2>5 DEF SlotInv
<1>6. CASE connectUntold
  <2>1. lost' = TRUE
    BY <1>6 DEF connectUntold
  <2>2. \A i \in Ids :
          /\ sockFd'[i] = IF i = nextIdAfter THEN INVALID ELSE IF i = nextId THEN made + 1 ELSE sockFd[i]
          /\ connecting'[i] = IF i = nextIdAfter THEN FALSE ELSE IF i = nextId THEN TRUE ELSE connecting[i]
          /\ connected'[i] = IF i = nextIdAfter THEN FALSE ELSE connected[i]
          /\ rxBuff'[i] = IF i = nextIdAfter THEN <<>> ELSE rxBuff[i]
          /\ txBuff'[i] = IF i = nextIdAfter THEN <<>> ELSE txBuff[i]
    BY <1>2, <1>6 DEF connectUntold
  <2>3. Watched' /\ FreeIsEmpty'
    BY <1>2, <1>3, <1>4, <2>2 DEF SlotInv, Watched, FreeIsEmpty, Open
  <2> QED
    BY <2>1, <2>3 DEF SlotInv, Known, NoCrossTalk
<1> QED
  BY <1>5, <1>6

LEMMA FrameInv ==
    ASSUME TypeOK, SlotInv, Frame
    PROVE  SlotInv'
<1>1. InfoType /\ OtherType
  BY TypeSplit
<1>2. CASE listen \/ otherFrame
  BY <1>2 DEF listen, otherFrame, info, SlotInv, Watched, FreeIsEmpty, Known, NoCrossTalk, Open
<1>3. CASE connectRefused
  BY <1>1, <1>3, ClosesInv DEF connectRefused, OtherType
<1>4. ASSUME NEW i \in Ids, NEW len \in 1..DataLen, read(i, len)
      PROVE  SlotInv'
  <2> DEFINE n == Least(len, Len(rxBuff[i]))
             s == SubSeq(rxBuff[i], n + 1, Len(rxBuff[i]))
  <2>1. rxBuff[i] \in Seq(Tags) /\ Len(rxBuff[i]) \in Nat
    BY <1>1, LenProperties DEF InfoType
  <2>2. n \in 0..Len(rxBuff[i])
    BY <2>1, LeastType
  <2>3. s \in Seq(Tags) /\ Len(s) = Len(rxBuff[i]) - n
    BY <2>1, <2>2, RemovedType
  <2>4. rxBuff' = [rxBuff EXCEPT ![i] = s]
        /\ UNCHANGED <<sockFd, connecting, connected, txBuff, meant, lost>>
    BY <1>4 DEF read
  <2>5. rxBuff[i] = <<>> => s = <<>>
    <3>1. SUFFICES ASSUME rxBuff[i] = <<>>
                   PROVE  Len(s) = 0
      BY <2>3, EmptySeq
    <3> QED
      BY <2>2, <2>3, <3>1, Empty
  <2>6. Watched' /\ Known' /\ FreeIsEmpty'
    BY <1>1, <2>4, <2>5 DEF SlotInv, Watched, Known, FreeIsEmpty, Open, InfoType
  <2>7. ASSUME ~lost
        PROVE  \A k \in 1..Len(s) : s[k] = meant[i]
    <3>1. \A k \in 1..Len(rxBuff[i]) : rxBuff[i][k] = meant[i]
      BY <2>7 DEF SlotInv, NoCrossTalk
    <3>2. (\A k \in 1..Len(rxBuff[i]) : rxBuff[i][k] = meant[i])
            => \A k \in 1..Len(rxBuff[i]) - n : s[k] = meant[i]
      BY <2>1, <2>2, RemovedType, Zenon
    <3> QED
      BY <2>3, <3>1, <3>2
  <2>8. NoCrossTalk'
    BY <1>1, <2>4, <2>7 DEF SlotInv, NoCrossTalk, InfoType
  <2> QED
    BY <2>6, <2>8 DEF SlotInv
<1>5. ASSUME NEW i \in Ids, NEW len \in 1..DataLen, write(i, len)
      PROVE  SlotInv'
  <2>1. \A j \in Ids : txBuff'[j] = IF j \in {i} THEN Written(j, len) ELSE txBuff[j]
    BY <1>1, <1>5 DEF write, InfoType
  <2>2. {i} \in SUBSET {j \in Ids : Open(j)}
        /\ UNCHANGED <<sockFd, connecting, connected, rxBuff, meant, lost>>
    BY <1>5 DEF write
  <2> QED
    BY <2>1, <2>2, WritesInv
<1>6. ASSUME NEW len \in 1..DataLen, writeToAll(len)
      PROVE  SlotInv'
  <2> DEFINE full == {i \in Ids : connected[i] /\ ~Fits(i, len)}
             D == {i \in Ids : connected[i] /\ \A j \in full : i < j}
  <2>1. \A j \in Ids : txBuff'[j] = IF j \in D THEN Written(j, len) ELSE txBuff[j]
    BY <1>6 DEF writeToAll
  <2>2. D \in SUBSET {j \in Ids : Open(j)}
    BY DEF SlotInv, Watched
  <2>3. UNCHANGED <<sockFd, connecting, connected, rxBuff, meant, lost>>
    BY <1>6 DEF writeToAll
  <2> HIDE DEF D
  <2> QED
    BY <2>1, <2>2, <2>3, WritesInv
<1>7. ASSUME NEW i \in Ids, close(i)
      PROVE  SlotInv'
  <2>1. closes(i) /\ lost' = lost /\ \A j \in Ids : j = i \/ meant'[j] = meant[j]
    BY <1>1, <1>7 DEF close, OtherType
  <2> QED
    BY <1>1, <2>1, ClosesInv
<1>8. CASE reset
  <2>1. \A i \in Ids : /\ sockFd'[i] = INVALID /\ connecting'[i] = FALSE /\ connected'[i] = FALSE
                       /\ rxBuff'[i] = <<>> /\ txBuff'[i] = <<>>
    BY <1>8 DEF reset, SlotInv, FreeIsEmpty
  <2>2. NoCrossTalk'
    BY <2>1, Empty DEF NoCrossTalk
  <2> QED
    BY <2>1, <2>2 DEF SlotInv, Watched, FreeIsEmpty, Known, Open
<1> QED
  BY <1>2, <1>3, <1>4, <1>5, <1>6, <1>7, <1>8, OpensInv DEF Frame

LEMMA SlotsKept == Spec => []SlotInv
<1>1. Init => SlotInv
  BY Empty DEF Init, SlotInv, Watched, FreeIsEmpty, Known, NoCrossTalk, Open
<1>2. TypeOK /\ SlotInv /\ [Next]_vars => SlotInv'
  <2>1. ASSUME SlotInv, UNCHANGED <<sockFd, connecting, connected, rxBuff, txBuff, meant, lost>>
        PROVE  SlotInv'
    BY <2>1 DEF SlotInv, Watched, FreeIsEmpty, Known, NoCrossTalk, Open
  <2>2. ASSUME SlotInv, NEW i \in Ids, peerEnds(i) \/ peerUrges(i)
        PROVE  SlotInv'
    BY <2>1, <2>2 DEF peerEnds, peerUrges
  <2>3. ASSUME SlotInv, UNCHANGED vars
        PROVE  SlotInv'
    BY <2>1, <2>3 DEF vars, info
  <2> QED
    BY <2>2, <2>3, RunnerInv, FrameInv DEF Next
<1> QED
  BY <1>1, <1>2, TypeCorrect, PTL DEF Spec

\* Every open slot is connecting or connected, so the runner serves it and notices
\* its end (runner, checkConnections, closeClient, accept, connect).
THEOREM EverySlotServed == Spec => []Watched
<1>1. SlotInv => Watched
  BY DEF SlotInv
<1> QED
  BY <1>1, SlotsKept, PTL

\* No byte is sent to, or read as coming from, another connection than its own: slots
\* are reused without clearing their buffers, which are empty since closeClient and
\* RESET clear those of every slot they free.
THEOREM NoByteAstray == Spec => []NoCrossTalk
<1>1. SlotInv => NoCrossTalk
  BY DEF SlotInv
<1> QED
  BY <1>1, SlotsKept, PTL

-----------------------------------------------------------------------------
\* The order in which slots are filled next, and then again.
Precedes(i, j) == IF i < nextId THEN i < j /\ j < nextId ELSE i < j \/ j < nextId

\* Connections are older the earlier their slots come in that order.
Rotation ==
    /\ \A i \in Ids : sockFd[i] <= made
    /\ \A i, j \in Ids : Open(i) /\ Open(j) /\ Precedes(i, j) => sockFd[i] < sockFd[j]

LEMMA Numbers ==
    ASSUME TypeOK
    PROVE  /\ nextId \in Int /\ made \in Nat /\ nextId \in Ids
           /\ \A i \in Ids : i \in Int /\ 0 <= i /\ i < MaxClients /\ sockFd[i] \in Nat
<1>1. \A i \in Ids : i \in Int /\ 0 <= i /\ i < MaxClients
  BY Constants, SMT DEF Ids
<1>2. Tags \subseteq Nat /\ 0..MaxConns \subseteq Nat
  BY Constants, SMT DEF Tags, Conns, INVALID
<1> QED
  BY <1>1, <1>2, TypeSplit DEF InfoType, OtherType

\* Steps that open no slot.
LEMMA ShrinkRotation ==
    ASSUME Rotation, UNCHANGED <<nextId, made>>, TypeOK,
           \A i \in Ids : sockFd'[i] = sockFd[i] \/ sockFd'[i] = INVALID
    PROVE  Rotation'
<1>1. \A i \in Ids : sockFd'[i] <= made'
  BY Numbers DEF Rotation, INVALID
<1>2. \A i, j \in Ids : Open(i)' /\ Open(j)' /\ Precedes(i, j)' => sockFd'[i] < sockFd'[j]
  BY DEF Rotation, Open, Precedes
<1> QED
  BY <1>1, <1>2 DEF Rotation

\* The slot that is filled is the last in the new order and has the newest connection.
LEMMA OpenRotation ==
    ASSUME TypeOK, Rotation, accept \/ connect \/ connectUntold
    PROVE  Rotation'
<1> DEFINE m == MaxClients
<1>1. nextId' = nextIdAfter /\ made' = made + 1
  BY DEF accept, connect, connectUntold, fills
<1>2. nextId' = IF nextId + 1 = m THEN 0 ELSE nextId + 1
  BY <1>1, NextIdAfter, Numbers
<1>3. \A i \in Ids : sockFd'[i] = (IF i = nextId THEN made + 1 ELSE sockFd[i]) \/ sockFd'[i] = INVALID
  BY Numbers, TypeSplit DEF accept, connect, connectUntold, fills, InfoType
<1>4. \A i \in Ids : sockFd'[i] <= made'
  BY <1>1, <1>3, Numbers, SMT DEF Rotation, INVALID
<1>5. ASSUME NEW i \in Ids, NEW j \in Ids, Open(i)', Open(j)', Precedes(i, j)'
      PROVE  sockFd'[i] < sockFd'[j]
  <2>1. i # nextId
    BY <1>2, <1>5, Numbers, Constants, SMT DEF Precedes
  <2>2. sockFd'[i] = sockFd[i] /\ Open(i)
    BY <1>3, <1>5, <2>1 DEF Open
  <2>3. CASE j = nextId
    BY <1>3, <1>5, <2>2, <2>3, Numbers DEF Rotation, Open
  <2>4. CASE j # nextId
    <3>1. sockFd'[j] = sockFd[j] /\ Open(j)
      BY <1>3, <1>5, <2>4 DEF Open
    <3>2. Precedes(i, j)
      BY <1>2, <1>5, <2>1, <2>4, Numbers, Constants, SMT DEF Precedes
    <3> QED
      BY <2>2, <3>1, <3>2 DEF Rotation
  <2> QED
    BY <2>3, <2>4
<1> QED
  BY <1>4, <1>5 DEF Rotation

\* What a step may do to the slots.
LEMMA SlotChanges ==
    ASSUME TypeOK, [Next]_vars
    PROVE  \/ accept \/ connect \/ connectUntold
           \/ /\ UNCHANGED <<nextId, made>>
              /\ \A i \in Ids : sockFd'[i] = sockFd[i] \/ sockFd'[i] = INVALID
<1>1. InfoType
  BY TypeSplit
<1>2. CASE runner
  BY <1>1, <1>2
     DEF runner, Running, selectFails, connectPending, connectDone, connectFailed, closes,
         notConnected, excepted, receives, overflows, recvFails, sends, sendFails, info, InfoType
<1>3. CASE Frame
  BY <1>1, <1>3
     DEF Frame, listen, connectRefused, closes, read, write, writeToAll, close, reset,
         otherFrame, info, InfoType
<1>4. CASE (\E i \in Ids : peerEnds(i) \/ peerUrges(i)) \/ UNCHANGED vars
  BY <1>4 DEF peerEnds, peerUrges, vars, info
<1> QED
  BY <1>2, <1>3, <1>4 DEF Next

LEMMA RotationKept == Spec => []Rotation
<1>1. Init => Rotation
  BY DEF Init, Rotation, Open, INVALID
<1>2. TypeOK /\ Rotation /\ [Next]_vars => Rotation'
  BY SlotChanges, OpenRotation, ShrinkRotation
<1> QED
  BY <1>1, <1>2, TypeCorrect, PTL DEF Spec

\* Of two open slots the next to be filled is the older.
LEMMA FirstIsOldest ==
    ASSUME TypeOK, Rotation, NEW i \in Ids, Open(i),
           \A j \in Ids : Open(j) => j = i \/ Precedes(i, j)
    PROVE  \A j \in Ids : Open(j) => sockFd[i] <= sockFd[j]
BY Numbers DEF Rotation

\* A connection whose peer has not ended it is closed only by CLOSE or RESET, for urgent
\* data of that peer, or as the oldest of all: when CONNECT fails its error path closes
\* the slot of nextId (connect, checkClients, closeClient).
THEOREM EvictionOfOldest == Spec => OnlyOldestEvicted
<1>1. TypeOK /\ Rotation /\ [Next]_vars => [EvictsOldest]_vars
  <2>1. SUFFICES ASSUME TypeOK, Rotation, [Next]_vars, NEW i \in Ids, Evicts(i)
                 PROVE  \A j \in Ids : Open(j) => sockFd[i] <= sockFd[j]
    BY DEF EvictsOldest
  <2>2. InfoType /\ nextId \in Ids
    BY <2>1, TypeSplit, Numbers
  <2>3. Open(i) /\ ~broken[i] /\ ~urgent[i] /\ sockFd'[i] # sockFd[i] /\ ~close(i) /\ ~reset
    BY <2>1 DEF Evicts
  <2>4. ~runner
    BY <2>2, <2>3
       DEF runner, selectFails, connectPending, connectDone, connectFailed, closes,
           notConnected, excepted, receives, overflows, recvFails, sends, sendFails, info, InfoType
  <2>5. (connectRefused /\ i = nextId) \/ (connectUntold /\ i = nextIdAfter)
    <3>1. CASE Frame
      BY <2>2, <2>3, <3>1, ZenonT(60)
         DEF Frame, listen, accept, connect, fills, connectUntold, connectRefused, closes, read,
             write, writeToAll, close, otherFrame, info, InfoType
    <3>2. CASE (\E j \in Ids : peerEnds(j) \/ peerUrges(j)) \/ UNCHANGED vars
      BY <2>3, <3>2 DEF peerEnds, peerUrges, vars, info
    <3> QED
      BY <2>1, <2>4, <3>1, <3>2 DEF Next
  <2>6. CASE connectRefused /\ i = nextId
    <3>1. \A j \in Ids : j = i \/ Precedes(i, j)
      BY <2>1, <2>6, Numbers DEF Precedes
    <3> QED
      BY <2>1, <2>3, <3>1, FirstIsOldest
  <2>7. CASE connectUntold /\ i = nextIdAfter
    <3>1. ~Open(nextId)
      BY <2>7 DEF connectUntold
    <3>2. i = IF nextId + 1 = MaxClients THEN 0 ELSE nextId + 1
      BY <2>1, <2>2, <2>7, NextIdAfter
    <3>3. \A j \in Ids : Open(j) => j = i \/ Precedes(i, j)
      <4>1. ASSUME NEW j \in Ids, j # nextId
            PROVE  j = i \/ Precedes(i, j)
        BY <2>1, <3>2, <4>1, Numbers, Constants, SMT DEF Precedes
      <4> QED
        BY <3>1, <4>1
    <3> QED
      BY <2>1, <2>3, <3>3, FirstIsOldest
  <2> QED
    BY <2>5, <2>6, <2>7
<1> QED
  BY <1>1, TypeCorrect, RotationKept, PTL DEF Spec, OnlyOldestEvicted
=============================================================================
