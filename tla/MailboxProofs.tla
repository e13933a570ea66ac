---------------------------- MODULE MailboxProofs ----------------------------
(***************************************************************************)
(* Theorems about Mailbox, for every number of slots, connections and       *)
(* messages and every size of the buffers: no text exceeds its buffer, the  *)
(* microcontroller receives each RAW message of a client at most once,      *)
(* whole and in order, and an answer of DATASTORE GET is one text.  The last *)
(* part is about the buffer that such a text is written to (JsonBuffer).    *)
(***************************************************************************)
EXTENDS Mailbox, JsonBuffer, FiniteSums, SequenceTheorems, TLAPS

Stages == {"accept", "recv", "send", "process", "serve"}
Places == [at : Stages, id : Ids]

LEMMA Constants ==
    /\ MaxClients \in Nat /\ RecvLen \in Nat /\ RxSize \in Nat /\ DataSize \in Nat
    /\ MaxConns \in Nat /\ MaxMsgs \in Nat /\ DataSize > 0
    /\ 0 \in Ids /\ \A n \in Ids : (n + 1) % MaxClients \in Ids
    /\ IsFiniteSet(Ids) /\ IsFiniteSet(Conns) /\ Ids \subseteq Nat /\ Conns \subseteq Nat
    /\ INVALID \notin Conns /\ INVALID \in Nat
<1>1. /\ MaxClients \in Nat /\ RecvLen \in Nat /\ RxSize \in Nat /\ DataSize \in Nat
      /\ MaxConns \in Nat /\ MaxMsgs \in Nat /\ DataSize > 0 /\ MaxClients > 0
  BY SizesAssumption, BoundAssumption
<1>2. IsFiniteSet(Ids) /\ IsFiniteSet(Conns)
  BY <1>1, FS_Interval DEF Ids, Conns
<1>3. 0 \in Ids /\ \A n \in Ids : (n + 1) % MaxClients \in Ids
  BY <1>1 DEF Ids
<1>4. Ids \subseteq Nat /\ Conns \subseteq Nat /\ INVALID \notin Conns /\ INVALID \in Nat
  BY <1>1 DEF Ids, Conns, INVALID
<1> QED
  BY <1>1, <1>2, <1>3, <1>4

\* The units a peer sends, one after the other.
LEMMA Next1Facts ==
    ASSUME NEW c \in Conns, NEW n \in Nat, NEW u \in Next1(c, n)
    PROVE  /\ u.conn = c /\ u.num = n \div 2 + 1 /\ u.part \in {"begin", "end", "bad"}
           /\ u.part = "begin" <=> n % 2 = 0
           /\ n \div 2 + 1 <= MaxMsgs => u \in Units
<1>1. n \div 2 + 1 \in Nat /\ n \div 2 + 1 >= 1
  OBVIOUS
<1>2. PICK p \in {"begin", "end", "bad"} :
        u = [conn |-> c, num |-> n \div 2 + 1, part |-> p] /\ (p = "begin" <=> n % 2 = 0)
  BY DEF Next1, Unit
<1>3. u.conn = c /\ u.num = n \div 2 + 1 /\ u.part = p
  BY <1>2
<1>4. ASSUME n \div 2 + 1 <= MaxMsgs
      PROVE  u \in Units
  <2>1. n \div 2 + 1 \in 1..MaxMsgs
    BY <1>1, <1>4, Constants
  <2> QED
    BY <1>2, <2>1 DEF Units
<1> QED
  BY <1>2, <1>3, <1>4

-----------------------------------------------------------------------------
\* An open slot has its buffers, and one that kept them over a RESET holds no text.
Shape ==
    /\ \A i \in Ids : Open(i) => buffers[i]
    /\ \A i \in Ids : buffers[i] /\ ~Open(i) => received[i] = <<>>

\* No two slots have the same connection, and every one was accepted.
Distinct ==
    /\ \A i \in Ids : sockFd[i] <= taken
    /\ \A i, j \in Ids : Open(i) /\ sockFd[i] = sockFd[j] => i = j

\* What a slot holds is what its peer sent last, after the units that came before.
Behind(i) == sent[sockFd[i]] - Len(received[i])
Stream ==
    \A i \in Ids : Open(i) =>
        /\ Behind(i) \in Nat
        /\ ~astray => \A k \in 1..Len(received[i]) :
                         received[i][k] \in Next1(sockFd[i], Behind(i) + k - 1)

\* What RECV returned and will return came before what the slots hold.
Text == read \o rxBuffer
Passed ==
    ~astray => \A k \in 1..Len(Text) :
        /\ Text[k].conn \in Conns /\ Text[k].conn <= taken /\ Text[k].num \in Nat
        /\ \A i \in Ids : Open(i) /\ sockFd[i] = Text[k].conn => 2 * Text[k].num <= Behind(i)

\* Each text of a request, two units of some slot, lengthens jsonMsg by one at most, and
\* so does an answer of DATASTORE GET.
Holds(i) == IF Open(i) THEN Len(received[i]) ELSE 0
Lens == SumFunctionOnSet([i \in Ids |-> Holds(i)], Ids)
Sent == SumFunctionOnSet(sent, Conns)
Counted ==
    /\ Begun(sent) <= MaxMsgs
    /\ Lens <= Sent
    /\ 2 * jsonMsgLen + Lens <= 2 + Sent

\* The length of jsonMsg is cleared with it.
Clear == ~jsonMsg => jsonMsgLen = 0

\* The inductive invariant.
MailInv == TypeOK /\ Shape /\ Distinct /\ Stream /\ Passed /\ Counted /\ Clear /\ RawOnce

-----------------------------------------------------------------------------
\* What the invariant says of the types, in the names used here.
LEMMA Types ==
    ASSUME TypeOK
    PROVE  /\ app \in {"running", "aborted"} /\ pc \in Places
           /\ sockFd \in [Ids -> Conns \cup {INVALID}] /\ buffers \in [Ids -> BOOLEAN]
           /\ received \in [Ids -> Seq(Units)] /\ \A i \in Ids : Len(received[i]) \in 0..RecvLen
           /\ nextId \in Ids /\ database \subseteq Keys /\ jsonMsg \in BOOLEAN /\ jsonMsgLen \in Nat
           /\ rxBuffer \in Seq(Units) /\ Len(rxBuffer) \in 0..RxSize
           /\ taken \in 0..MaxConns /\ sent \in [Conns -> 0..2 * MaxMsgs] /\ sent \in [Conns -> Nat]
           /\ read \in Seq(Units) /\ astray \in BOOLEAN
           /\ \A i \in Ids : Open(i) <=> sockFd[i] \in Conns
           /\ Text \in Seq(Units)
<1>1. Text \in Seq(Units)
  BY ConcatProperties DEF TypeOK, Text
<1>2. \A i \in Ids : Len(received[i]) \in 0..RecvLen
  BY LenProperties, Constants DEF TypeOK
<1>3. Len(rxBuffer) \in 0..RxSize
  BY LenProperties, Constants DEF TypeOK
<1>4. jsonMsgLen \in Nat /\ sent \in [Conns -> Nat]
  BY Constants DEF TypeOK
<1>5. \A i \in Ids : Open(i) <=> sockFd[i] \in Conns
  BY Constants DEF TypeOK, Open
<1> QED
  BY <1>1, <1>2, <1>3, <1>4, <1>5 DEF TypeOK, Places, Stages

\* A peer has sent twice as many units as it has begun messages at most.
LEMMA BegunFacts ==
    ASSUME NEW f \in [Conns -> Nat]
    PROVE  /\ Begun(f) \in Nat /\ SumFunctionOnSet(f, Conns) \in Nat
           /\ SumFunctionOnSet(f, Conns) <= 2 * Begun(f)
           /\ \A c \in Conns : (f[c] + 1) \div 2 <= Begun(f)
<1> DEFINE h == [c \in Conns |-> (f[c] + 1) \div 2]
<1>1. \A c \in Conns : /\ f[c] \in Nat /\ h[c] \in Nat /\ f[c] <= 2 * h[c]
                       /\ h[c] = (f[c] + 1) \div 2
  OBVIOUS
<1>2. Begun(f) = SumFunctionOnSet(h, Conns)
  BY DEF Begun, SumFunction
<1> HIDE DEF h
<1>3. Begun(f) \in Nat /\ SumFunctionOnSet(f, Conns) \in Nat
  BY <1>1, <1>2, SumType, Constants
<1>4. SumFunctionOnSet(f, Conns) <= 2 * Begun(f)
  BY <1>1, <1>2, SumBelow, Constants
<1>5. \A c \in Conns : (f[c] + 1) \div 2 <= Begun(f)
  BY <1>1, <1>2, SumAtLeast, Constants
<1> QED
  BY <1>3, <1>4, <1>5

LEMMA Sums ==
    ASSUME TypeOK
    PROVE  /\ \A i \in Ids : Holds(i) \in Nat
           /\ Lens \in Nat /\ Sent \in Nat /\ Begun(sent) \in Nat
           /\ Sent <= 2 * Begun(sent)
           /\ \A c \in Conns : (sent[c] + 1) \div 2 <= Begun(sent)
<1>1. \A i \in Ids : Holds(i) \in Nat
  BY Types DEF Holds
<1>2. Lens \in Nat
  BY <1>1, SumType, Constants DEF Lens
<1>3. sent \in [Conns -> Nat]
  BY Types
<1> QED
  BY <1>1, <1>2, <1>3, BegunFacts DEF Sent

LEMMA HoldsAfter ==
    ASSUME received' \in [Ids -> Seq(Units)]
    PROVE  \A i \in Ids : Holds(i)' \in Nat
BY LenProperties DEF Holds

\* The next place is one.
LEMMA PlaceType ==
    ASSUME pc \in Places, NEW s \in Stages, NEW next \in Stages
    PROVE  /\ Goto(s) => pc' \in Places
           /\ Turn(s, next) => pc' \in Places
BY Constants DEF Places, Goto, Turn

LEMMA TakenType ==
    ASSUME TypeOK
    PROVE  Taken \in 0..Len(rxBuffer)
<1> DEFINE S == {DataSize, Len(rxBuffer)}
<1>1. DataSize \in Nat /\ Len(rxBuffer) \in Nat
  BY Types, Constants
<1>2. \E x \in S : \A y \in S : x <= y
  BY <1>1
<1>3. Min(S) \in S /\ \A y \in S : Min(S) <= y
  BY <1>2 DEF Min
<1> QED
  BY <1>1, <1>3 DEF Taken

-----------------------------------------------------------------------------
LEMMA InitInv == Init => MailInv
<1> SUFFICES ASSUME Init
             PROVE  MailInv
  OBVIOUS
<1>1. \A i \in Ids : ~Open(i)
  BY DEF Init, Open
<1>2. <<>> \in Seq(Units) /\ Len(<<>>) = 0
  OBVIOUS
<1>3. TypeOK
  <2>1. /\ sockFd \in [Ids -> Conns \cup {INVALID}] /\ buffers \in [Ids -> BOOLEAN]
        /\ received \in [Ids -> Seq(Units)] /\ \A i \in Ids : Len(received[i]) <= RecvLen
    BY <1>2, Constants DEF Init
  <2>2. sent \in [Conns -> 0..2 * MaxMsgs] /\ jsonMsgLen \in 0..MaxMsgs + 1 /\ taken \in 0..MaxConns
    <3>1. 0 \in 0..2 * MaxMsgs /\ 0 \in 0..MaxMsgs + 1 /\ 0 \in 0..MaxConns
      BY Constants
    <3> QED
      BY <3>1 DEF Init
  <2>3. rxBuffer \in Seq(Units) /\ Len(rxBuffer) <= RxSize /\ read \in Seq(Units)
    BY <1>2, Constants DEF Init
  <2> QED
    BY <2>1, <2>2, <2>3, Constants DEF Init, TypeOK
<1>4. Shape /\ Clear
  BY <1>1 DEF Init, Shape, Clear
<1>5. Distinct
  BY <1>1 DEF Init, Distinct, INVALID
<1>6. Text = <<>> /\ Len(Text) = 0
  BY DEF Init, Text
<1>7. Stream /\ Passed
  BY <1>1, <1>6 DEF Stream, Passed
<1>8. Counted
  <2>1. \A i \in Ids : Holds(i) = 0
    BY <1>1 DEF Holds
  <2>2. \A c \in Conns : (sent[c] + 1) \div 2 = 0
    BY DEF Init
  <2>3. SumFunctionOnSet([i \in Ids |-> Holds(i)], Ids) = 0
    BY <2>1, SumZero, Constants
  <2>4. SumFunctionOnSet([c \in Conns |-> (sent[c] + 1) \div 2], Conns) = 0
    BY <2>2, SumZero, Constants
  <2>5. Lens = 0 /\ Begun(sent) = 0
    BY <2>3, <2>4 DEF Lens, Begun, SumFunction
  <2> QED
    BY <1>3, <2>5, Sums, Constants DEF Counted, Init
<1>9. RawOnce
  BY <1>6 DEF RawOnce, Text
<1> QED
  BY <1>3, <1>4, <1>5, <1>7, <1>8, <1>9 DEF MailInv

-----------------------------------------------------------------------------
\* No slot comes to hold more, and what it holds stays or is dropped, unless the text is
\* not followed further.
Shrinks ==
    /\ sent' = sent /\ taken <= taken'
    /\ \A i \in Ids : sockFd'[i] = sockFd[i] \/ sockFd'[i] = INVALID
    /\ \A i \in Ids : Open(i)' => /\ Len(received'[i]) <= Len(received[i])
                                  /\ astray' \/ received'[i] = received[i] \/ received'[i] = <<>>
    /\ astray => astray'

\* Then no text becomes a message that was not one, or appears a second time, unless it
\* comes to RECV.
LEMMA ShrinksInv ==
    ASSUME MailInv, TypeOK', Shrinks
    PROVE  /\ Distinct' /\ Stream'
           /\ astray' \/ Text' = Text => Passed' /\ RawOnce'
           /\ \A i \in Ids : Open(i)' => /\ Open(i) /\ sockFd'[i] = sockFd[i]
                                         /\ Behind(i)' >= Behind(i)
                                         /\ Behind(i)' \in Nat /\ Behind(i) \in Nat
           /\ Lens' \in Nat /\ Lens' <= Lens /\ Begun(sent)' = Begun(sent) /\ Sent' = Sent
<1> USE DEF Shrinks
<1>1. \A i \in Ids : Open(i)' => Open(i) /\ sockFd'[i] = sockFd[i]
  BY DEF Open
<1>2. TypeOK /\ Distinct /\ Stream /\ Passed /\ RawOnce
  BY DEF MailInv
<1>3. Distinct'
  <2>1. taken \in Nat /\ taken' \in Nat
    BY <1>2, Types, Constants DEF TypeOK
  <2>2. ASSUME NEW i \in Ids
        PROVE  sockFd'[i] <= taken'
    <3>1. sockFd[i] <= taken /\ sockFd[i] \in Nat
      BY <1>2, Types, Constants DEF Distinct
    <3> QED
      BY <2>1, <3>1 DEF INVALID
  <2>3. \A i, j \in Ids : Open(i)' /\ sockFd'[i] = sockFd'[j] => i = j
    BY <1>1, <1>2 DEF Distinct, Open
  <2> QED
    BY <2>2, <2>3 DEF Distinct
<1>4. \A i \in Ids : Open(i)' => Behind(i)' >= Behind(i) /\ Behind(i)' \in Nat /\ Behind(i) \in Nat
  <2>1. SUFFICES ASSUME NEW i \in Ids, Open(i)'
                 PROVE  Behind(i)' >= Behind(i) /\ Behind(i)' \in Nat /\ Behind(i) \in Nat
    OBVIOUS
  <2>2. Behind(i) \in Nat
    BY <1>1, <1>2, <2>1 DEF Stream
  <2>3. Len(received[i]) \in Nat /\ Len(received'[i]) \in Nat
    BY <1>2, LenProperties DEF TypeOK
  <2>4. sent[sockFd[i]] \in Nat
    BY <1>1, <1>2, <2>1, Types
  <2>5. Behind(i)' = sent[sockFd[i]] - Len(received'[i])
    BY <1>1, <2>1 DEF Behind
  <2> QED
    BY <2>1, <2>2, <2>3, <2>4, <2>5 DEF Behind
<1>5. Stream'
  <2>1. SUFFICES ASSUME NEW i \in Ids, Open(i)', ~astray', NEW k \in 1..Len(received'[i])
                 PROVE  received'[i][k] \in Next1(sockFd'[i], Behind(i)' + k - 1)
    BY <1>4 DEF Stream
  <2>2. received'[i] = received[i]
    BY <2>1
  <2>3. Behind(i)' = Behind(i)
    BY <1>1, <2>1, <2>2 DEF Behind
  <2> QED
    BY <1>1, <1>2, <2>1, <2>2, <2>3 DEF Stream
<1>6. ASSUME astray' \/ Text' = Text
      PROVE  Passed'
  <2>1. SUFFICES ASSUME ~astray', Text' = Text, NEW k \in 1..Len(Text)
                 PROVE  /\ Text[k].conn \in Conns /\ Text[k].conn <= taken' /\ Text[k].num \in Nat
                        /\ \A i \in Ids : Open(i)' /\ sockFd'[i] = Text[k].conn =>
                              2 * Text[k].num <= Behind(i)'
    BY <1>6 DEF Passed
  <2>2. /\ Text[k].conn \in Conns /\ Text[k].conn <= taken /\ Text[k].num \in Nat
        /\ \A i \in Ids : Open(i) /\ sockFd[i] = Text[k].conn => 2 * Text[k].num <= Behind(i)
    BY <1>2, <2>1 DEF Passed
  <2>3. Text[k].conn <= taken'
    <3>1. taken \in Nat /\ taken' \in Nat
      BY <1>2, Types, Constants DEF TypeOK
    <3>2. Text[k].conn \in Nat
      BY <2>2, Constants
    <3> QED
      BY <2>2, <3>1, <3>2
  <2>4. ASSUME NEW i \in Ids, Open(i)', sockFd'[i] = Text[k].conn
        PROVE  2 * Text[k].num <= Behind(i)'
    <3>1. Open(i) /\ sockFd[i] = Text[k].conn
      BY <1>1, <2>4
    <3>2. Behind(i)' >= Behind(i) /\ Behind(i)' \in Nat /\ Behind(i) \in Nat
      BY <1>4, <2>4
    <3> QED
      BY <2>2, <3>1, <3>2
  <2> QED
    BY <2>2, <2>3, <2>4
<1>7. ASSUME astray' \/ Text' = Text
      PROVE  RawOnce'
  <2>1. ASSUME ~astray'
        PROVE  ~astray /\ read' \o rxBuffer' = read \o rxBuffer
    BY <1>7, <2>1 DEF Text
  <2> QED
    BY <1>2, <2>1 DEF RawOnce, Whole
<1>8. \A i \in Ids : Holds(i)' <= Holds(i) /\ Holds(i) \in Nat /\ Holds(i)' \in Nat
  <2>1. \A i \in Ids : Len(received[i]) \in Nat /\ Len(received'[i]) \in Nat
    BY <1>2, LenProperties DEF TypeOK
  <2> QED
    BY <1>1, <2>1 DEF Holds
<1>9. Lens' \in Nat /\ Lens' <= Lens
  <2> DEFINE f == [i \in Ids |-> Holds(i)']
             g == [i \in Ids |-> Holds(i)]
  <2>1. \A i \in Ids : f[i] \in Nat /\ g[i] \in Nat /\ f[i] <= 1 * g[i]
    BY <1>8
  <2>2. SumFunctionOnSet(f, Ids) \in Nat /\ SumFunctionOnSet(g, Ids) \in Nat
    <3> HIDE DEF f, g
    <3> QED
      BY <2>1, SumType, Constants
  <2>3. SumFunctionOnSet(f, Ids) <= 1 * SumFunctionOnSet(g, Ids)
    <3> HIDE DEF f, g
    <3> QED
      BY <2>1, SumBelow, Constants
  <2>4. Lens = SumFunctionOnSet(g, Ids) /\ Lens' = SumFunctionOnSet(f, Ids)
    BY DEF Lens
  <2> HIDE DEF f, g
  <2> QED
    BY <2>2, <2>3, <2>4
<1>10. Begun(sent)' = Begun(sent) /\ Sent' = Sent
  BY DEF Begun, Sent
<1> QED
  BY <1>1, <1>3, <1>4, <1>5, <1>6, <1>7, <1>9, <1>10

\* The count holds when the length of jsonMsg, if it grows, grows as allowed.
LEMMA CountedInv ==
    ASSUME MailInv, NEW n \in Nat, jsonMsgLen' = n, NEW l \in Nat, Lens' = l,
           l <= Lens, Begun(sent)' = Begun(sent), Sent' = Sent,
           n <= 1 \/ n <= jsonMsgLen \/ (n <= jsonMsgLen + 1 /\ l <= Lens - 2)
    PROVE  Counted'
<1>1. Lens \in Nat /\ Sent \in Nat /\ jsonMsgLen \in Nat
  BY Sums, Types DEF MailInv
<1>2. Begun(sent) <= MaxMsgs /\ Lens <= Sent /\ 2 * jsonMsgLen + Lens <= 2 + Sent
  BY DEF MailInv, Counted
<1>3. l <= Sent /\ 2 * n + l <= 2 + Sent
  <2>1. CASE n <= 1
    BY <1>1, <1>2, <2>1
  <2>2. CASE n <= jsonMsgLen
    BY <1>1, <1>2, <2>2
  <2>3. CASE n <= jsonMsgLen + 1 /\ l <= Lens - 2
    BY <1>1, <1>2, <2>3
  <2> QED
    BY <2>1, <2>2, <2>3
<1>4. Begun(sent)' <= MaxMsgs /\ Lens' <= Sent' /\ 2 * jsonMsgLen' + Lens' <= 2 + Sent'
  BY <1>2, <1>3
<1> QED
  BY <1>4 DEF Counted

\* A step that does no more than that keeps the invariant.
LEMMA KeptInv ==
    ASSUME MailInv, TypeOK', Shape', Clear', Shrinks, astray' \/ Text' = Text,
           jsonMsgLen' <= 1 \/ jsonMsgLen' <= jsonMsgLen
    PROVE  MailInv'
<1>1. /\ Distinct' /\ Stream' /\ Passed' /\ RawOnce'
      /\ Lens' \in Nat /\ Lens' <= Lens /\ Begun(sent)' = Begun(sent) /\ Sent' = Sent
  BY ShrinksInv
<1>2. jsonMsgLen' \in Nat
  BY Constants DEF TypeOK
<1>3. Counted'
  BY <1>1, <1>2, CountedInv
<1> QED
  BY <1>1, <1>3 DEF MailInv

-----------------------------------------------------------------------------
\* Steps that leave the texts, the slots and the peers alone.
LEMMA NothingInv ==
    ASSUME MailInv, app' \in {"running", "aborted"}, pc' \in Places, database' \subseteq Keys,
           UNCHANGED <<slots, nextId, message, rxBuffer, peers, history>>
    PROVE  MailInv'
<1>1. UNCHANGED <<sockFd, buffers, received, nextId, jsonMsg, jsonMsgLen, rxBuffer, taken, sent,
                  read, astray>>
  BY DEF slots, message, peers, history
<1>2. TypeOK'
  BY <1>1 DEF MailInv, TypeOK, Places, Stages
<1>3. Shape' /\ Clear' /\ Text' = Text
  BY <1>1 DEF MailInv, Shape, Clear, Open, Text
<1>4. Shrinks
  <2>1. taken <= taken' /\ \A i \in Ids : Len(received'[i]) <= Len(received[i])
    BY <1>1, Types, Constants DEF MailInv
  <2> QED
    BY <1>1, <2>1 DEF Shrinks
<1>5. jsonMsgLen' <= jsonMsgLen
  BY <1>1, Types DEF MailInv
<1> QED
  BY <1>2, <1>3, <1>4, <1>5, KeptInv

LEMMA AbortsInv == MailInv /\ aborts => MailInv'
<1>1. ASSUME MailInv, aborts
      PROVE  MailInv'
  <2>1. pc' \in Places /\ app' = "aborted" /\ database' \subseteq Keys
    BY <1>1, Types DEF aborts, MailInv
  <2> QED
    BY <1>1, <2>1, NothingInv DEF aborts
<1> QED
  BY <1>1

LEMMA QuietInv ==
    ASSUME MailInv, \/ noConnection \/ recvNothing \/ selectFails \/ processNone \/ processClosed \/ sendFails
                    \/ otherFrame \/ \E k \in Keys : datastorePut(k)
    PROVE  MailInv'
<1> USE DEF MailInv
<1>1. pc \in Places /\ app \in {"running", "aborted"} /\ database \subseteq Keys
  BY Types
<1>2. CASE noConnection
  <2>1. pc' \in Places
    BY <1>1, <1>2, PlaceType DEF noConnection, Stages
  <2> QED
    BY <1>1, <1>2, <2>1, NothingInv DEF noConnection
<1>3. CASE recvNothing \/ selectFails
  <2>1. pc' \in Places
    BY <1>1, <1>3, PlaceType DEF recvNothing, selectFails, Stages
  <2> QED
    BY <1>1, <1>3, <2>1, NothingInv DEF recvNothing, selectFails
<1>4. CASE processNone
  <2>1. pc' \in Places
    BY <1>1, <1>4, PlaceType DEF processNone, GoesOn, Stages
  <2> QED
    BY <1>1, <1>4, <2>1, NothingInv DEF processNone
<1>5. CASE processClosed
  BY <1>5, AbortsInv DEF processClosed
<1>6. CASE sendFails
  BY <1>6, AbortsInv DEF sendFails
<1>7. CASE otherFrame
  <2>1. pc' \in Places
    BY <1>1, <1>7, PlaceType DEF otherFrame, Stages
  <2> QED
    BY <1>1, <1>7, <2>1, NothingInv DEF otherFrame
<1>8. ASSUME NEW k \in Keys, datastorePut(k)
      PROVE  MailInv'
  <2>1. pc' \in Places
    BY <1>1, <1>8, PlaceType DEF datastorePut, Stages
  <2> QED
    BY <1>1, <1>8, <2>1, NothingInv DEF datastorePut
<1> QED
  BY <1>2, <1>3, <1>4, <1>5, <1>6, <1>7, <1>8

-----------------------------------------------------------------------------
LEMMA RefusesInv == MailInv /\ refuses => MailInv'
<1> SUFFICES ASSUME MailInv, refuses
             PROVE  MailInv'
  OBVIOUS
<1>1. /\ taken < MaxConns /\ taken' = taken + 1
      /\ UNCHANGED <<sockFd, buffers, received, nextId, database, jsonMsg, jsonMsgLen, rxBuffer, sent,
                     read, astray>>
  BY DEF refuses, slots, message, history
<1>2. TypeOK
  BY DEF MailInv
<1>3. app' \in {"running", "aborted"} /\ pc' \in Places
  BY <1>2, Types, PlaceType DEF refuses, Stages
<1>4. taken' \in 0..MaxConns /\ taken <= taken'
  BY <1>1, <1>2, Types, Constants
<1>5. TypeOK'
  BY <1>1, <1>2, <1>3, <1>4 DEF TypeOK, Places, Stages
<1>6. Shape' /\ Clear' /\ Text' = Text
  BY <1>1 DEF MailInv, Shape, Clear, Open, Text
<1>7. Shrinks
  <2>1. \A i \in Ids : Len(received'[i]) <= Len(received[i])
    BY <1>1, <1>2, Types, Constants
  <2> QED
    BY <1>1, <1>4, <2>1 DEF Shrinks
<1>8. jsonMsgLen' <= jsonMsgLen
  BY <1>1, <1>2, Types
<1> QED
  BY <1>5, <1>6, <1>7, <1>8, KeptInv

\* A new connection has sent nothing, and nothing of it is in any text.
LEMMA AcceptsInv == MailInv /\ accepts => MailInv'
<1> SUFFICES ASSUME MailInv, accepts
             PROVE  MailInv'
  OBVIOUS
<1>1. TypeOK
  BY DEF MailInv
<1>2. PICK n \in Ids, c \in Conns : n = nextId /\ c = taken + 1
  <2>1. taken < MaxConns /\ taken \in Nat /\ taken + 1 \in Conns
    <3>1. taken < MaxConns
      BY DEF accepts
    <3>2. taken \in Nat
      BY <1>1, Types, Constants
    <3> QED
      BY <3>1, <3>2, Constants DEF Conns
  <2> QED
    BY <1>1, <2>1, Types
<1>3. /\ taken < MaxConns /\ ~Open(n) /\ taken' = c
      /\ sockFd' = [sockFd EXCEPT ![n] = c] /\ buffers' = [buffers EXCEPT ![n] = TRUE]
      /\ received' = [received EXCEPT ![n] = <<>>] /\ nextId' = (n + 1) % MaxClients
      /\ UNCHANGED <<app, database, jsonMsg, jsonMsgLen, rxBuffer, sent, read, astray>>
  BY <1>2 DEF accepts, message, history
<1>4. c \in 1..MaxConns /\ taken \in Nat /\ c # INVALID
  BY <1>1, <1>2, Types, Constants DEF Conns
<1>5. /\ sockFd'[n] = c /\ received'[n] = <<>> /\ buffers'[n] /\ Open(n)'
      /\ \A i \in Ids \ {n} : /\ sockFd'[i] = sockFd[i] /\ received'[i] = received[i]
                              /\ buffers'[i] = buffers[i] /\ Open(i)' = Open(i)
  <2>1. /\ sockFd \in [Ids -> Conns \cup {INVALID}] /\ buffers \in [Ids -> BOOLEAN]
        /\ received \in [Ids -> Seq(Units)]
    BY <1>1, Types
  <2> QED
    BY <1>2, <1>3, <1>4, <2>1 DEF Open
<1>6. TypeOK'
  <2>1. sockFd' \in [Ids -> Conns \cup {INVALID}] /\ buffers' \in [Ids -> BOOLEAN]
    BY <1>1, <1>2, <1>3, <1>4, Types
  <2>2. received' \in [Ids -> Seq(Units)] /\ \A i \in Ids : Len(received'[i]) <= RecvLen
    <3>1. <<>> \in Seq(Units) /\ Len(<<>>) = 0
      OBVIOUS
    <3>2. received' \in [Ids -> Seq(Units)]
      BY <1>1, <1>3, <3>1, Types
    <3>3. \A i \in Ids : Len(received[i]) <= RecvLen
      BY <1>1 DEF TypeOK
    <3>4. Len(received'[n]) <= RecvLen
      BY <1>5, <3>1, Constants
    <3>5. \A i \in Ids \ {n} : Len(received'[i]) <= RecvLen
      BY <1>5, <3>3
    <3> QED
      BY <3>2, <3>4, <3>5
  <2>3. nextId' \in Ids /\ taken' \in 0..MaxConns
    BY <1>2, <1>3, <1>4, Constants
  <2>4. pc' \in Places
    BY <1>1, Types, PlaceType DEF accepts, Stages
  <2> QED
    BY <1>1, <1>3, <2>1, <2>2, <2>3, <2>4 DEF TypeOK, Places, Stages
<1>7. Shape'
  BY <1>5 DEF MailInv, Shape
<1>8. Distinct'
  <2>1. \A i \in Ids : sockFd[i] <= taken /\ sockFd[i] \in Nat
    BY <1>1, Types, Constants DEF MailInv, Distinct
  <2>2. \A i \in Ids \ {n} : sockFd'[i] <= taken' /\ sockFd'[i] # c
    BY <1>2, <1>3, <1>4, <1>5, <2>1
  <2>3. sockFd'[n] <= taken'
    BY <1>2, <1>3, <1>4, <1>5
  <2>4. ASSUME NEW i \in Ids, NEW j \in Ids, Open(i)', sockFd'[i] = sockFd'[j]
        PROVE  i = j
    <3>1. CASE i = n \/ j = n
      BY <1>5, <2>2, <2>4, <3>1
    <3>2. CASE i # n /\ j # n
      BY <1>5, <2>4, <3>2 DEF MailInv, Distinct
    <3> QED
      BY <3>1, <3>2
  <2> QED
    BY <2>2, <2>3, <2>4 DEF Distinct
<1>9. /\ Behind(n)' \in Nat /\ Len(received'[n]) = 0
      /\ \A i \in Ids \ {n} : Behind(i)' = Behind(i)
  <2>1. sent[c] \in Nat /\ sent' = sent
    BY <1>1, <1>2, <1>3, <1>4, Types
  <2>2. Len(received'[n]) = 0
    BY <1>5
  <2>3. Behind(n)' = sent[c] - 0
    BY <1>5, <2>1, <2>2 DEF Behind
  <2>4. \A i \in Ids \ {n} : Behind(i)' = Behind(i)
    BY <1>5, <2>1 DEF Behind
  <2> QED
    BY <2>1, <2>2, <2>3, <2>4
<1>10. Stream'
  <2>1. ASSUME NEW i \in Ids \ {n}, Open(i)'
        PROVE  /\ Behind(i)' \in Nat
               /\ ~astray' => \A k \in 1..Len(received'[i]) :
                    received'[i][k] \in Next1(sockFd'[i], Behind(i)' + k - 1)
    BY <1>3, <1>5, <1>9, <2>1 DEF MailInv, Stream
  <2>2. 1..Len(received'[n]) = {}
    BY <1>9
  <2> QED
    BY <1>9, <2>1, <2>2 DEF Stream
<1>11. Text' = Text
  BY <1>3 DEF Text
<1>12. Passed'
  <2>1. SUFFICES ASSUME ~astray, NEW k \in 1..Len(Text)
                 PROVE  /\ Text[k].conn \in Conns /\ Text[k].conn <= taken' /\ Text[k].num \in Nat
                        /\ \A i \in Ids : Open(i)' /\ sockFd'[i] = Text[k].conn =>
                              2 * Text[k].num <= Behind(i)'
    BY <1>3, <1>11 DEF Passed
  <2>2. /\ Text[k].conn \in Conns /\ Text[k].conn <= taken /\ Text[k].num \in Nat
        /\ \A i \in Ids : Open(i) /\ sockFd[i] = Text[k].conn => 2 * Text[k].num <= Behind(i)
    BY <2>1 DEF MailInv, Passed
  <2>3. Text[k].conn # c /\ Text[k].conn <= taken'
    <3>1. Text[k].conn \in Nat
      BY <2>2, Constants
    <3> QED
      BY <1>2, <1>3, <1>4, <2>2, <3>1
  <2> QED
    BY <1>5, <1>9, <2>2, <2>3
<1>13. RawOnce'
  BY <1>3 DEF MailInv, RawOnce, Whole
<1>14. Counted'
  <2>1. \A i \in Ids : Holds(i)' = Holds(i)
    BY <1>3, <1>5, <1>9 DEF Holds
  <2>2. Lens' = Lens
    BY <2>1 DEF Lens
  <2> QED
    BY <1>3, <2>2 DEF MailInv, Counted, Begun, Sent
<1>15. Clear'
  BY <1>3 DEF MailInv, Clear
<1> QED
  BY <1>6, <1>7, <1>8, <1>10, <1>12, <1>13, <1>14, <1>15 DEF MailInv

-----------------------------------------------------------------------------
\* Some slots are closed.
LEMMA ClosesInv ==
    ASSUME MailInv, pc' \in Places, NEW S \in SUBSET Ids, closes(S),
           UNCHANGED <<app, received, nextId, database, message, rxBuffer, peers, history>>
    PROVE  MailInv'
<1>1. UNCHANGED <<app, received, nextId, database, jsonMsg, jsonMsgLen, rxBuffer, taken, sent,
                  read, astray>>
  BY DEF message, peers, history
<1>2. TypeOK
  BY DEF MailInv
<1>3. /\ sockFd' = [i \in Ids |-> IF i \in S THEN INVALID ELSE sockFd[i]]
      /\ buffers' = [i \in Ids |-> IF i \in S THEN FALSE ELSE buffers[i]]
  BY DEF closes
<1>4. TypeOK'
  <2>1. sockFd' \in [Ids -> Conns \cup {INVALID}] /\ buffers' \in [Ids -> BOOLEAN]
    BY <1>2, <1>3, Types
  <2> QED
    BY <1>1, <1>2, <2>1 DEF TypeOK, Places, Stages
<1>5. Shape'
  <2>1. \A i \in Ids : IF i \in S THEN ~Open(i)' /\ ~buffers'[i]
                       ELSE Open(i)' = Open(i) /\ buffers'[i] = buffers[i]
    BY <1>3 DEF Open
  <2> QED
    BY <1>1, <2>1 DEF MailInv, Shape
<1>6. Clear' /\ Text' = Text
  BY <1>1 DEF MailInv, Clear, Text
<1>7. Shrinks
  <2>1. taken <= taken' /\ \A i \in Ids : Len(received'[i]) <= Len(received[i])
    BY <1>1, <1>2, Types, Constants
  <2> QED
    BY <1>1, <1>3, <2>1 DEF Shrinks
<1>8. jsonMsgLen' <= jsonMsgLen
  BY <1>1, <1>2, Types
<1> QED
  BY <1>4, <1>5, <1>6, <1>7, <1>8, KeptInv

LEMMA SendInv == MailInv /\ (recvEnd \/ sends) => MailInv'
<1>1. MailInv => pc \in Places
  BY Types DEF MailInv
<1>2. ASSUME MailInv, recvEnd
      PROVE  MailInv'
  <2>1. pc' \in Places /\ {pc.id} \in SUBSET Ids
    BY <1>1, <1>2, PlaceType DEF recvEnd, Places, Stages
  <2> QED
    BY <1>2, <2>1, ClosesInv DEF recvEnd
<1>3. ASSUME MailInv, sends
      PROVE  MailInv'
  <2>1. pc' \in Places
    BY <1>1, <1>3, PlaceType DEF sends, Stages
  <2> QED
    BY <1>3, <2>1, ClosesInv DEF sends
<1> QED
  BY <1>2, <1>3

-----------------------------------------------------------------------------
\* The text of a slot is cleared.
LEMMA ClearedInv ==
    ASSUME MailInv, pc' \in Places, cleared,
           UNCHANGED <<app, sockFd, buffers, nextId, database, message, rxBuffer, peers, history>>
    PROVE  MailInv'
<1>1. UNCHANGED <<app, sockFd, buffers, nextId, database, jsonMsg, jsonMsgLen, rxBuffer, taken, sent,
                  read, astray>>
  BY DEF message, peers, history
<1>2. TypeOK
  BY DEF MailInv
<1>3. received' = [received EXCEPT ![pc.id] = <<>>] /\ pc.id \in Ids
  BY <1>2, Types DEF cleared, Places
<1>4. <<>> \in Seq(Units) /\ Len(<<>>) = 0
  OBVIOUS
<1>5. /\ received' \in [Ids -> Seq(Units)]
      /\ \A i \in Ids : received'[i] = <<>> \/ received'[i] = received[i]
  BY <1>2, <1>3, <1>4, Types
<1>6. ASSUME NEW i \in Ids
      PROVE  Len(received'[i]) <= Len(received[i]) /\ Len(received'[i]) <= RecvLen
  <2>1. Len(received[i]) \in Nat /\ Len(received[i]) <= RecvLen
    BY <1>2, Types, Constants
  <2>2. Len(received'[i]) = 0 \/ Len(received'[i]) = Len(received[i])
    BY <1>4, <1>5
  <2> QED
    BY <2>1, <2>2, Constants
<1>7. TypeOK'
  BY <1>1, <1>2, <1>5, <1>6 DEF TypeOK, Places, Stages
<1>8. Shape'
  BY <1>1, <1>5 DEF MailInv, Shape, Open
<1>9. Clear' /\ Text' = Text
  BY <1>1 DEF MailInv, Clear, Text
<1>10. Shrinks
  <2>1. taken <= taken'
    BY <1>1, <1>2, Types, Constants
  <2> QED
    BY <1>1, <1>5, <1>6, <2>1 DEF Shrinks
<1>11. jsonMsgLen' <= jsonMsgLen
  BY <1>1, <1>2, Types
<1> QED
  BY <1>7, <1>8, <1>9, <1>10, <1>11, KeptInv

-----------------------------------------------------------------------------
\* Frames that change jsonMsg or what RECV takes from.
LEMMA MessageInv ==
    ASSUME MailInv, pc' \in Places, jsonMsg' \in BOOLEAN, jsonMsgLen' \in 0..1, Clear',
           UNCHANGED <<app, slots, nextId, database, rxBuffer, peers, history>>
    PROVE  MailInv'
<1>1. UNCHANGED <<app, sockFd, buffers, received, nextId, database, rxBuffer, taken, sent, read, astray>>
  BY DEF slots, peers, history
<1>2. TypeOK
  BY DEF MailInv
<1>3. jsonMsgLen' \in 0..MaxMsgs + 1 /\ jsonMsgLen' <= 1
  BY Constants
<1>4. TypeOK'
  BY <1>1, <1>2, <1>3 DEF TypeOK, Places, Stages
<1>5. Shape' /\ Text' = Text
  BY <1>1 DEF MailInv, Shape, Open, Text
<1>6. Shrinks
  <2>1. taken <= taken' /\ \A i \in Ids : Len(received'[i]) <= Len(received[i])
    BY <1>1, <1>2, Types, Constants
  <2> QED
    BY <1>1, <2>1 DEF Shrinks
<1> QED
  BY <1>3, <1>4, <1>5, <1>6, KeptInv

LEMMA AnswerInv ==
    ASSUME MailInv, send \/ \E k \in Keys : datastoreGet(k)
    PROVE  MailInv'
<1>1. pc \in Places /\ jsonMsg \in BOOLEAN
  BY Types DEF MailInv
<1>2. CASE send
  <2>1. pc' \in Places /\ jsonMsg' = FALSE /\ jsonMsgLen' = 0
    BY <1>1, <1>2, PlaceType DEF send, freed, Stages
  <2>2. jsonMsg' \in BOOLEAN /\ Clear'
    BY <2>1, Zenon DEF Clear
  <2>3. jsonMsgLen' \in 0..1
    BY <2>1
  <2> QED
    BY <1>2, <2>1, <2>2, <2>3, MessageInv DEF send
<1>3. ASSUME NEW k \in Keys, datastoreGet(k)
      PROVE  MailInv'
  <2>1. CASE k \in database /\ jsonMsg
    BY <1>3, <2>1, AbortsInv DEF datastoreGet
  <2>2. CASE ~(k \in database /\ jsonMsg)
    <3>1. /\ Goto("accept")
          /\ UNCHANGED <<app, slots, nextId, database, rxBuffer, peers, read, astray>>
          /\ IF k \in database THEN jsonMsg' = TRUE /\ jsonMsgLen' = jsonMsgLen + 1
             ELSE UNCHANGED message
      BY <1>3, <2>2 DEF datastoreGet
    <3>2. pc' \in Places
      BY <1>1, <3>1, PlaceType DEF Stages
    <3>3. CASE k \in database
      <4>1. jsonMsg' = TRUE /\ jsonMsgLen' = 1
        BY <2>2, <3>1, <3>3 DEF MailInv, Clear
      <4> QED
        BY <3>1, <3>2, <4>1, MessageInv DEF Clear, history
    <3>4. CASE k \notin database
      <4>1. app' \in {"running", "aborted"} /\ database' \subseteq Keys
        BY <3>1, Types DEF MailInv
      <4> QED
        BY <3>1, <3>2, <3>4, <4>1, NothingInv DEF history
    <3> QED
      BY <3>3, <3>4
  <2> QED
    BY <2>1, <2>2
<1> QED
  BY <1>2, <1>3

\* A text cut in two.
LEMMA CutInTwo ==
    ASSUME NEW s \in Seq(Units), NEW n \in 0..Len(s)
    PROVE  /\ SubSeq(s, 1, n) \in Seq(Units) /\ SubSeq(s, n + 1, Len(s)) \in Seq(Units)
           /\ Len(SubSeq(s, 1, n)) = n /\ Len(SubSeq(s, n + 1, Len(s))) = Len(s) - n
           /\ SubSeq(s, 1, n) \o SubSeq(s, n + 1, Len(s)) = s
<1>1. Len(s) \in Nat /\ \A i \in 1..Len(s) : s[i] \in Units
  BY LenProperties, ElementOfSeq
<1>2. /\ SubSeq(s, 1, n) \in Seq(Units)
      /\ Len(SubSeq(s, 1, n)) = IF 1 <= n THEN n - 1 + 1 ELSE 0
  <2>1. \A i \in 1..n : s[i] \in Units
    BY <1>1
  <2> QED
    BY <2>1, SubSeqProperties
<1>3. /\ SubSeq(s, n + 1, Len(s)) \in Seq(Units)
      /\ Len(SubSeq(s, n + 1, Len(s))) = IF n + 1 <= Len(s) THEN Len(s) - (n + 1) + 1 ELSE 0
  <2>1. \A i \in n + 1..Len(s) : s[i] \in Units
    BY <1>1
  <2> QED
    BY <1>1, <2>1, SubSeqProperties
<1>4. SubSeq(s, 1, n) \o SubSeq(s, n + 1, Len(s)) = s
  <2>1. 1 \in 1..Len(s) + 1 /\ n \in 1 - 1..Len(s) /\ Len(s) \in n..Len(s)
    BY <1>1
  <2>2. SubSeq(s, 1, n) \o SubSeq(s, n + 1, Len(s)) = SubSeq(s, 1, Len(s))
    BY <2>1, ConcatAdjacentSubSeq, Zenon
  <2> QED
    BY <2>2, SubSeqFull
<1>5. Len(SubSeq(s, 1, n)) = n
  BY <1>1, <1>2
<1>6. Len(SubSeq(s, n + 1, Len(s))) = Len(s) - n
  BY <1>1, <1>3
<1> QED
  BY <1>2, <1>3, <1>4, <1>5, <1>6

LEMMA TextAssociative ==
    ASSUME NEW s \in Seq(Units), NEW t \in Seq(Units), NEW u \in Seq(Units)
    PROVE  (s \o t) \o u = s \o (t \o u)
BY ConcatAssociative

\* What leaves rxBuffer is what RECV returns, or is not followed further.
LEMMA TakesInv == MailInv /\ (recv \/ recvUnanswered) => MailInv'
<1> SUFFICES ASSUME MailInv, recv \/ recvUnanswered
             PROVE  MailInv'
  OBVIOUS
<1>1. /\ takes
      /\ UNCHANGED <<app, sockFd, buffers, received, nextId, database, jsonMsg, jsonMsgLen, taken, sent>>
  BY DEF recv, recvUnanswered, takes, slots, message, peers
<1>2. TypeOK
  BY DEF MailInv
<1>3. PICK n \in 0..Len(rxBuffer) : n = Taken
  BY <1>2, TakenType
<1>4. PICK s : s = SubSeq(rxBuffer, 1, n)
  OBVIOUS
<1>5. rxBuffer' = SubSeq(rxBuffer, n + 1, Len(rxBuffer))
  BY <1>1, <1>3 DEF takes
<1>6. rxBuffer \in Seq(Units) /\ Len(rxBuffer) \in Nat /\ read \in Seq(Units) /\ n \in Nat
  BY <1>2, <1>3, Types, Constants
<1>7. PICK t : t = rxBuffer'
  OBVIOUS
<1>8. /\ s \in Seq(Units) /\ t \in Seq(Units) /\ Len(t) = Len(rxBuffer) - n
      /\ s \o t = rxBuffer
  BY <1>4, <1>5, <1>6, <1>7, CutInTwo
<1>9. \/ read' = (IF astray THEN read ELSE read \o s) /\ astray' = astray
      \/ read' = <<>> /\ astray' = TRUE
  BY <1>3, <1>4 DEF recv, recvUnanswered
<1>10. read' \in Seq(Units) /\ astray' \in BOOLEAN
  <2>1. read \o s \in Seq(Units)
    BY <1>6, <1>8, ConcatProperties
  <2>2. <<>> \in Seq(Units) /\ astray \in BOOLEAN
    BY <1>2, Types
  <2> QED
    BY <1>6, <1>9, <2>1, <2>2
<1>11. astray' \/ Text' = Text
  <2>1. ASSUME ~astray'
        PROVE  Text' = Text
    <3>1. read' = read \o s
      BY <1>9, <2>1
    <3>2. (read \o s) \o t = read \o (s \o t)
      <4>1. read \in Seq(Units) /\ s \in Seq(Units) /\ t \in Seq(Units)
        BY <1>6, <1>8
      <4> QED
        BY <4>1, TextAssociative, Zenon
    <3>3. read' \o t = Text
      BY <1>8, <3>1, <3>2 DEF Text
    <3> QED
      BY <1>7, <3>3 DEF Text
  <2> QED
    BY <2>1
<1>12. pc' \in Places
  BY <1>1, <1>2, Types, PlaceType DEF takes, Stages
<1>13. TypeOK'
  <2>1. Len(rxBuffer') <= RxSize
    <3>1. Len(rxBuffer) <= RxSize
      BY <1>2 DEF TypeOK
    <3> QED
      BY <1>6, <1>7, <1>8, <3>1, Constants
  <2> QED
    BY <1>1, <1>2, <1>7, <1>8, <1>10, <1>12, <2>1 DEF TypeOK, Places, Stages
<1>14. Shape' /\ Clear'
  BY <1>1 DEF MailInv, Shape, Clear, Open
<1>15. Shrinks
  <2>1. taken <= taken' /\ \A i \in Ids : Len(received'[i]) <= Len(received[i])
    BY <1>1, <1>2, Types, Constants
  <2>2. astray => astray'
    BY <1>9
  <2> QED
    BY <1>1, <2>1, <2>2 DEF Shrinks
<1>16. jsonMsgLen' <= jsonMsgLen
  BY <1>1, <1>2, Types
<1> QED
  BY <1>11, <1>13, <1>14, <1>15, <1>16, KeptInv

LEMMA ResetInv == MailInv /\ reset => MailInv'
<1> SUFFICES ASSUME MailInv, reset
             PROVE  MailInv'
  OBVIOUS
<1>1. /\ sockFd' = [i \in Ids |-> INVALID] /\ nextId' = 0
      /\ received' = [i \in Ids |-> IF Open(i) THEN <<>> ELSE received[i]]
      /\ UNCHANGED <<app, buffers, database, jsonMsg, jsonMsgLen, rxBuffer, taken, sent, read, astray>>
  BY DEF reset, message, peers, history
<1>2. TypeOK
  BY DEF MailInv
<1>3. \A i \in Ids : ~Open(i)' /\ (received'[i] = <<>> \/ (~Open(i) /\ received'[i] = received[i]))
  BY <1>1 DEF Open
<1>4. <<>> \in Seq(Units) /\ Len(<<>>) = 0
  OBVIOUS
<1>5. received' \in [Ids -> Seq(Units)]
  BY <1>1, <1>2, <1>4, Types
<1>6. ASSUME NEW i \in Ids
      PROVE  Len(received'[i]) <= RecvLen
  <2>1. Len(received[i]) <= RecvLen
    BY <1>2 DEF TypeOK
  <2> QED
    BY <1>3, <1>4, <2>1, Constants
<1>7. TypeOK'
  <2>1. sockFd' \in [Ids -> Conns \cup {INVALID}] /\ nextId' \in Ids
    BY <1>1, Constants
  <2>2. pc' \in Places
    BY <1>2, Types, PlaceType DEF reset, Stages
  <2> QED
    BY <1>1, <1>2, <1>5, <1>6, <2>1, <2>2 DEF TypeOK, Places, Stages
<1>8. Shape'
  BY <1>1, <1>3 DEF MailInv, Shape
<1>9. Clear' /\ Text' = Text
  BY <1>1 DEF MailInv, Clear, Text
<1>10. Shrinks
  <2>1. taken <= taken'
    BY <1>1, <1>2, Types, Constants
  <2> QED
    BY <1>1, <1>3, <2>1 DEF Shrinks
<1>11. jsonMsgLen' <= jsonMsgLen
  BY <1>1, <1>2, Types
<1> QED
  BY <1>7, <1>8, <1>9, <1>10, <1>11, KeptInv

\* A restart follows the texts anew.
LEMMA RestartInv == MailInv /\ restart => MailInv'
<1> SUFFICES ASSUME MailInv, restart
             PROVE  MailInv'
  OBVIOUS
<1>1. /\ app' = "running" /\ sockFd' = [i \in Ids |-> INVALID] /\ buffers' = [i \in Ids |-> FALSE]
      /\ received' = [i \in Ids |-> <<>>] /\ nextId' = 0 /\ database' = {} /\ jsonMsg' = FALSE
      /\ jsonMsgLen' = 0 /\ rxBuffer' = <<>> /\ read' = <<>> /\ astray' = FALSE
      /\ UNCHANGED <<taken, sent>>
  BY DEF restart, peers
<1>2. TypeOK
  BY DEF MailInv
<1>3. \A i \in Ids : ~Open(i)'
  BY <1>1 DEF Open
<1>4. <<>> \in Seq(Units) /\ Len(<<>>) = 0
  OBVIOUS
<1>5. TypeOK'
  <2>1. /\ sockFd' \in [Ids -> Conns \cup {INVALID}] /\ buffers' \in [Ids -> BOOLEAN]
        /\ nextId' \in Ids /\ jsonMsgLen' \in 0..MaxMsgs + 1
    BY <1>1, Constants
  <2>2. /\ received' \in [Ids -> Seq(Units)] /\ \A i \in Ids : Len(received'[i]) <= RecvLen
        /\ rxBuffer' \in Seq(Units) /\ Len(rxBuffer') <= RxSize /\ read' \in Seq(Units)
    BY <1>1, <1>4, Constants
  <2>3. pc' \in Places
    BY <1>2, Types, PlaceType DEF restart, Stages
  <2> QED
    BY <1>1, <1>2, <2>1, <2>2, <2>3 DEF TypeOK, Places, Stages
<1>6. Shape' /\ Clear'
  BY <1>1, <1>3 DEF Shape, Clear
<1>7. Distinct'
  <2>1. \A i \in Ids : sockFd'[i] <= taken'
    BY <1>1, <1>2, Types, Constants DEF INVALID
  <2> QED
    BY <1>3, <2>1 DEF Distinct
<1>8. Text' = <<>> /\ Len(Text') = 0
  BY <1>1, <1>4 DEF Text
<1>9. Stream' /\ Passed'
  BY <1>3, <1>8 DEF Stream, Passed
<1>10. Counted'
  <2>1. \A i \in Ids : Holds(i)' = 0
    BY <1>3 DEF Holds
  <2>2. SumFunctionOnSet([i \in Ids |-> Holds(i)'], Ids) = 0
    BY <2>1, SumZero, Constants
  <2>3. Lens' = 0
    BY <2>2 DEF Lens
  <2>4. Begun(sent)' = Begun(sent) /\ Sent' = Sent
    BY <1>1 DEF Begun, Sent
  <2>5. Lens \in Nat
    BY <1>2, Sums
  <2> QED
    BY <1>1, <2>3, <2>4, <2>5, CountedInv
<1>11. RawOnce'
  BY <1>8 DEF RawOnce, Text
<1> QED
  BY <1>5, <1>6, <1>7, <1>9, <1>10, <1>11 DEF MailInv

-----------------------------------------------------------------------------
\* What arrives continues what was sent, and fits the bound on messages.
LEMMA ArrivalFacts ==
    ASSUME NEW c \in Conns, NEW n \in Nat, NEW s \in Arrivals(c, n)
    PROVE  /\ Len(s) \in 1..2
           /\ \A k \in 1..Len(s) : s[k] \in Next1(c, n + k - 1)
           /\ (n + Len(s) + 1) \div 2 <= MaxMsgs => s \in Seq(Units)
<1>1. CASE \E u \in Next1(c, n) : s = <<u>>
  <2>1. PICK u \in Next1(c, n) : s = <<u>>
    BY <1>1
  <2>2. Len(s) = 1 /\ s[1] = u /\ n + 1 - 1 = n
    BY <2>1
  <2>3. \A k \in 1..Len(s) : s[k] \in Next1(c, n + k - 1)
    <3>1. \A k \in 1..Len(s) : k = 1
      BY <2>2
    <3> QED
      BY <2>2, <3>1
  <2>4. ASSUME (n + Len(s) + 1) \div 2 <= MaxMsgs
        PROVE  s \in Seq(Units)
    <3>1. n \div 2 + 1 <= MaxMsgs
      BY <2>2, <2>4, Constants
    <3>2. u \in Units
      BY <3>1, Next1Facts
    <3> QED
      BY <2>1, <3>2
  <2> QED
    BY <2>2, <2>3, <2>4
<1>2. CASE \E u \in Next1(c, n), v \in Next1(c, n + 1) : s = <<u, v>>
  <2>1. PICK u \in Next1(c, n), v \in Next1(c, n + 1) : s = <<u, v>>
    BY <1>2
  <2>2. Len(s) = 2 /\ s[1] = u /\ s[2] = v /\ n + 1 - 1 = n /\ n + 2 - 1 = n + 1
    BY <2>1
  <2>3. \A k \in 1..Len(s) : s[k] \in Next1(c, n + k - 1)
    <3>1. \A k \in 1..Len(s) : k = 1 \/ k = 2
      BY <2>2
    <3> QED
      BY <2>2, <3>1
  <2>4. ASSUME (n + Len(s) + 1) \div 2 <= MaxMsgs
        PROVE  s \in Seq(Units)
    <3>1. n \div 2 + 1 <= MaxMsgs /\ (n + 1) \div 2 + 1 <= MaxMsgs
      BY <2>2, <2>4, Constants
    <3>2. u \in Units /\ v \in Units
      BY <3>1, Next1Facts
    <3> QED
      BY <2>1, <3>2
  <2> QED
    BY <2>2, <2>3, <2>4
<1> QED
  BY <1>1, <1>2 DEF Arrivals

LEMMA RecvTextInv == MailInv /\ recvText => MailInv'
<1> SUFFICES ASSUME MailInv, recvText
             PROVE  MailInv'
  OBVIOUS
<1>1. TypeOK
  BY DEF MailInv
<1>2. /\ pc' \in Places /\ Open(pc.id) /\ pc.id \in Ids
      /\ UNCHANGED <<app, sockFd, buffers, nextId, database, jsonMsg, jsonMsgLen, rxBuffer, taken,
                     read, astray>>
  <2>1. pc \in Places
    BY <1>1, Types
  <2>2. pc' \in Places
    BY <2>1, PlaceType DEF recvText, Stages
  <2> QED
    BY <2>1, <2>2 DEF recvText, message, history, Places
<1>3. PICK n \in Ids, c \in Conns : n = pc.id /\ c = sockFd[n] /\ Open(n)
  BY <1>1, <1>2, Types
<1>4. PICK s \in Arrivals(c, sent[c]) :
         /\ Len(received[n]) + Len(s) <= RecvLen
         /\ received' = [received EXCEPT ![n] = @ \o s]
         /\ sent' = [sent EXCEPT ![c] = @ + Len(s)]
         /\ Begun(sent') <= MaxMsgs
  BY <1>3 DEF recvText
<1>5. /\ received \in [Ids -> Seq(Units)] /\ sent \in [Conns -> Nat]
      /\ \A i \in Ids : Len(received[i]) \in Nat
  BY <1>1, Types, Constants
<1>6. /\ Len(s) \in 1..2
      /\ \A k \in 1..Len(s) : s[k] \in Next1(c, sent[c] + k - 1)
      /\ (sent[c] + Len(s) + 1) \div 2 <= MaxMsgs => s \in Seq(Units)
  BY <1>5, ArrivalFacts
<1>7. /\ sent' \in [Conns -> Nat] /\ sent'[c] = sent[c] + Len(s)
      /\ \A d \in Conns \ {c} : sent'[d] = sent[d]
  BY <1>4, <1>5, <1>6
<1>8. \A d \in Conns : sent'[d] \in 0..2 * MaxMsgs /\ (sent'[d] + 1) \div 2 <= MaxMsgs
  <2>1. PICK g \in [Conns -> Nat] : g = sent'
    BY <1>7
  <2>2. \A d \in Conns : (g[d] + 1) \div 2 <= Begun(g) /\ Begun(g) \in Nat
    BY BegunFacts
  <2>3. Begun(g) <= MaxMsgs
    BY <1>4, <2>1
  <2>4. ASSUME NEW d \in Conns
        PROVE  sent'[d] \in 0..2 * MaxMsgs /\ (sent'[d] + 1) \div 2 <= MaxMsgs
    <3>1. PICK m \in Nat : m = g[d]
      OBVIOUS
    <3>2. (m + 1) \div 2 <= MaxMsgs
      BY <2>2, <2>3, <3>1, Constants
    <3>3. m \in 0..2 * MaxMsgs
      BY <3>2, Constants
    <3> QED
      BY <2>1, <3>1, <3>2, <3>3
  <2> QED
    BY <2>4
<1>9. s \in Seq(Units) /\ Len(s) \in Nat
  BY <1>6, <1>7, <1>8
<1>10. /\ received[n] \o s \in Seq(Units) /\ Len(received[n] \o s) = Len(received[n]) + Len(s)
       /\ \A k \in 1..Len(received[n]) + Len(s) : (received[n] \o s)[k] =
             IF k <= Len(received[n]) THEN received[n][k] ELSE s[k - Len(received[n])]
  BY <1>5, <1>9, ConcatProperties
<1>11. /\ received' \in [Ids -> Seq(Units)] /\ received'[n] = received[n] \o s
       /\ \A i \in Ids \ {n} : received'[i] = received[i]
       /\ \A i \in Ids : Open(i)' = Open(i)
  BY <1>2, <1>4, <1>5, <1>10 DEF Open
<1>12. TypeOK'
  <2>1. sent' \in [Conns -> 0..2 * MaxMsgs]
    BY <1>7, <1>8
  <2>2. \A i \in Ids : Len(received'[i]) <= RecvLen
    <3>1. \A i \in Ids : Len(received[i]) <= RecvLen
      BY <1>1 DEF TypeOK
    <3> QED
      BY <1>4, <1>10, <1>11, <3>1
  <2> QED
    BY <1>1, <1>2, <1>11, <2>1, <2>2 DEF TypeOK, Places, Stages
<1>13. Shape'
  <2>1. \A i \in Ids : buffers'[i] = buffers[i]
    BY <1>2
  <2> QED
    BY <1>3, <1>11, <2>1 DEF MailInv, Shape
<1>14. Distinct' /\ Clear'
  BY <1>2 DEF MailInv, Distinct, Clear, Open
<1>15. \A i \in Ids : Open(i) => Behind(i)' = Behind(i)
  <2>1. Behind(n)' = Behind(n)
    <3>1. /\ Behind(n)' = sent'[c] - Len(received'[n])
          /\ Behind(n) = sent[c] - Len(received[n])
      BY <1>2, <1>3 DEF Behind
    <3>2. sent[c] \in Nat /\ Len(received[n]) \in Nat
      BY <1>5
    <3> QED
      BY <1>7, <1>9, <1>10, <1>11, <3>1, <3>2
  <2>2. ASSUME NEW i \in Ids \ {n}, Open(i)
        PROVE  Behind(i)' = Behind(i)
    <3>1. sockFd[i] \in Conns \ {c}
      BY <1>1, <1>3, <2>2, Types DEF MailInv, Distinct
    <3> QED
      BY <1>2, <1>7, <1>11, <3>1 DEF Behind
  <2> QED
    BY <2>1, <2>2
<1>16. Stream'
  <2>1. ASSUME NEW i \in Ids \ {n}, Open(i)'
        PROVE  /\ Behind(i)' \in Nat
               /\ ~astray' => \A k \in 1..Len(received'[i]) :
                    received'[i][k] \in Next1(sockFd'[i], Behind(i)' + k - 1)
    BY <1>2, <1>11, <1>15, <2>1 DEF MailInv, Stream
  <2>2. Behind(n) \in Nat /\ Behind(n)' = Behind(n) /\ sent[c] = Behind(n) + Len(received[n])
    <3>1. Behind(n) \in Nat
      BY <1>3 DEF MailInv, Stream
    <3>2. sent[c] \in Nat /\ Len(received[n]) \in Nat /\ Behind(n) = sent[c] - Len(received[n])
      BY <1>3, <1>5 DEF Behind
    <3> QED
      BY <1>3, <1>15, <3>1, <3>2
  <2>3. ASSUME ~astray', NEW k \in 1..Len(received'[n])
        PROVE  received'[n][k] \in Next1(c, Behind(n) + k - 1)
    <3>1. k \in 1..Len(received[n]) + Len(s) /\ Len(received[n]) \in Nat
      BY <1>5, <1>10, <1>11, <2>3
    <3>2. CASE k <= Len(received[n])
      <4>1. k \in 1..Len(received[n])
        BY <3>1, <3>2
      <4>2. received[n][k] \in Next1(c, Behind(n) + k - 1)
        BY <1>2, <1>3, <2>3, <4>1 DEF MailInv, Stream
      <4> QED
        BY <1>10, <1>11, <3>1, <3>2, <4>2
    <3>3. CASE ~(k <= Len(received[n]))
      <4>1. PICK j \in 1..Len(s) : j = k - Len(received[n])
        <5>1. k - Len(received[n]) \in 1..Len(s)
          BY <1>9, <3>1, <3>3
        <5> QED
          BY <5>1
      <4>2. received'[n][k] = s[j]
        BY <1>10, <1>11, <3>1, <3>3, <4>1
      <4>3. sent[c] + j - 1 = Behind(n) + k - 1
        BY <2>2, <3>1, <4>1
      <4> QED
        BY <1>6, <4>2, <4>3
    <3> QED
      BY <3>2, <3>3
  <2>4. sockFd'[n] = c
    BY <1>2, <1>3
  <2> QED
    BY <2>1, <2>2, <2>3, <2>4 DEF Stream
<1>17. Text' = Text
  BY <1>2 DEF Text
<1>18. Passed'
  <2>1. SUFFICES ASSUME ~astray, NEW k \in 1..Len(Text)
                 PROVE  /\ Text[k].conn \in Conns /\ Text[k].conn <= taken /\ Text[k].num \in Nat
                        /\ \A i \in Ids : Open(i)' /\ sockFd'[i] = Text[k].conn =>
                              2 * Text[k].num <= Behind(i)'
    BY <1>2, <1>17 DEF Passed
  <2>2. /\ Text[k].conn \in Conns /\ Text[k].conn <= taken /\ Text[k].num \in Nat
        /\ \A i \in Ids : Open(i) /\ sockFd[i] = Text[k].conn => 2 * Text[k].num <= Behind(i)
    BY <2>1 DEF MailInv, Passed
  <2> QED
    BY <1>2, <1>11, <1>15, <2>2
<1>19. RawOnce'
  BY <1>2 DEF MailInv, RawOnce, Whole
<1>20. Counted'
  <2>1. Sent' = Sent + Len(s) /\ Begun(sent)' <= MaxMsgs
    <3>1. PICK g \in [Conns -> Nat] : g = sent'
      BY <1>7
    <3>2. SumFunctionOnSet(g, Conns) = SumFunctionOnSet(sent, Conns) + g[c] - sent[c]
      <4>1. \A d \in Conns : sent[d] \in Nat /\ g[d] \in Nat
        BY <1>5
      <4>2. \A d \in Conns \ {c} : sent[d] = g[d]
        BY <1>7, <3>1
      <4>3. IsFiniteSet(Conns)
        BY Constants
      <4> QED
        BY <4>1, <4>2, <4>3, SumChange
    <3>3. Sent' = SumFunctionOnSet(g, Conns) /\ Sent = SumFunctionOnSet(sent, Conns) /\ Sent \in Nat
      BY <1>1, <3>1, Sums DEF Sent
    <3>4. Begun(sent)' = Begun(g)
      BY <3>1 DEF Begun
    <3>5. g[c] = sent[c] + Len(s) /\ sent[c] \in Nat
      BY <1>5, <1>7, <3>1
    <3> QED
      BY <1>4, <1>9, <3>1, <3>2, <3>3, <3>4, <3>5
  <2>2. Lens' = Lens + Len(s)
    <3> DEFINE f == [i \in Ids |-> Holds(i)]
               g == [i \in Ids |-> Holds(i)']
    <3>1. \A i \in Ids : f[i] \in Nat /\ g[i] \in Nat
      BY <1>1, <1>11, Sums, HoldsAfter
    <3>2. g[n] = f[n] + Len(s)
      BY <1>3, <1>10, <1>11 DEF Holds
    <3>5. \A i \in Ids \ {n} : f[i] = g[i]
      BY <1>11 DEF Holds
    <3>3. Lens = SumFunctionOnSet(f, Ids) /\ Lens' = SumFunctionOnSet(g, Ids) /\ Lens \in Nat
      BY <1>1, Sums DEF Lens
    <3> HIDE DEF f, g
    <3>4. SumFunctionOnSet(g, Ids) = SumFunctionOnSet(f, Ids) + g[n] - f[n]
      <4>1. IsFiniteSet(Ids)
        BY Constants
      <4> QED
        BY <3>1, <3>5, <4>1, SumChange
    <3> QED
      BY <1>9, <3>1, <3>2, <3>3, <3>4
  <2>3. /\ Lens \in Nat /\ Sent \in Nat /\ jsonMsgLen \in Nat /\ jsonMsgLen' = jsonMsgLen
        /\ Lens <= Sent /\ 2 * jsonMsgLen + Lens <= 2 + Sent
    BY <1>1, <1>2, Sums, Types DEF MailInv, Counted
  <2>4. Lens' <= Sent' /\ 2 * jsonMsgLen' + Lens' <= 2 + Sent'
    BY <1>9, <2>1, <2>2, <2>3
  <2> QED
    BY <2>1, <2>4 DEF Counted
<1> QED
  BY <1>12, <1>13, <1>14, <1>16, <1>18, <1>19, <1>20 DEF MailInv

-----------------------------------------------------------------------------
\* A command is read from the slot whose turn it is.
Reads ==
    /\ At("process") /\ buffers[pc.id] /\ readable(received[pc.id])
    /\ UNCHANGED <<app, sockFd, buffers, nextId, peers>>

LEMMA ProcessPlace ==
    ASSUME pc \in Places
    PROVE  (GoesOn \/ Ends) => pc' \in Places
BY PlaceType DEF GoesOn, Ends, Stages

LEMMA JunkFacts ==
    ASSUME NEW n \in Nat
    PROVE  /\ [k \in 1..n |-> JUNK] \in Seq(Units)
           /\ Len([k \in 1..n |-> JUNK]) = n
           /\ n = 0 => [k \in 1..n |-> JUNK] = <<>>
<1>1. \A k \in 1..n : JUNK \in Units
  BY DEF Units
<1>2. [k \in 1..n |-> JUNK] \in Seq(Units) /\ Len([k \in 1..n |-> JUNK]) = n
  BY <1>1, IsASeq
<1>3. ASSUME n = 0
      PROVE  [k \in 1..n |-> JUNK] = <<>>
  BY <1>2, <1>3, EmptySeq
<1> QED
  BY <1>2, <1>3

\* The command was a whole message and leaves two units less.
LEMMA ConsumedFacts ==
    ASSUME MailInv, Reads, consumed
    PROVE  /\ pc.id \in Ids /\ Open(pc.id)
           /\ received' \in [Ids -> Seq(Units)] /\ \A i \in Ids : Len(received'[i]) <= RecvLen
           /\ read' \in Seq(Units) /\ astray' \in BOOLEAN
           /\ Shape' /\ Shrinks
           /\ \A i \in Ids : received'[i] = received[i] \/ i = pc.id
           /\ Len(received[pc.id]) \in Nat /\ Len(received[pc.id]) > 1
           /\ Len(received'[pc.id]) = Len(received[pc.id]) - 2
           /\ ~astray' => ~astray /\ Len(received[pc.id]) = 2 /\ read' = read
<1>1. TypeOK
  BY DEF MailInv
<1>2. PICK n \in Ids : n = pc.id
  BY <1>1, Types DEF Places
<1>3. /\ received \in [Ids -> Seq(Units)]
      /\ \A i \in Ids : Len(received[i]) \in Nat /\ Len(received[i]) <= RecvLen
  BY <1>1, Types, Constants
<1>4. PICK l \in Nat : l = Len(received[n]) - 2 /\ l = left
  <2>1. Len(received[n]) > 1
    BY <1>2 DEF Reads, readable
  <2>2. Len(received[n]) - 2 \in Nat
    BY <1>3, <2>1
  <2> QED
    BY <1>2, <2>2 DEF left
<1>5. PICK j \in Seq(Units) : j = [k \in 1..l |-> JUNK] /\ Len(j) = l /\ (l = 0 => j = <<>>)
  BY JunkFacts
<1>6. /\ received' = [received EXCEPT ![n] = j]
      /\ astray' = (astray \/ l > 0) /\ read' = IF l > 0 THEN <<>> ELSE read
  BY <1>2, <1>4, <1>5 DEF consumed
<1>7. /\ received' \in [Ids -> Seq(Units)] /\ received'[n] = j
      /\ \A i \in Ids : received'[i] = received[i] \/ i = n
  BY <1>3, <1>5, <1>6
<1>8. \A i \in Ids : Len(received'[i]) <= RecvLen /\ Len(received'[i]) <= Len(received[i])
  <2>1. ASSUME NEW i \in Ids
        PROVE  Len(received'[i]) <= RecvLen /\ Len(received'[i]) <= Len(received[i])
    <3>1. CASE i = n
      BY <1>3, <1>4, <1>5, <1>7, <3>1, Constants
    <3>2. CASE i # n
      BY <1>3, <1>7, <3>2, Constants
    <3> QED
      BY <3>1, <3>2
  <2> QED
    BY <2>1
<1>9. read' \in Seq(Units) /\ astray' \in BOOLEAN
  <2>1. read \in Seq(Units) /\ <<>> \in Seq(Units)
    BY <1>1, Types
  <2>2. read' \in Seq(Units)
    BY <1>6, <2>1
  <2> QED
    BY <1>6, <2>2
<1>10. Open(n)
  <2>1. received[n] # <<>>
    <3>1. Len(<<>>) = 0
      OBVIOUS
    <3> QED
      BY <1>4, <3>1
  <2> QED
    BY <1>2, <2>1 DEF Reads, MailInv, Shape
<1>11. Shape'
  <2>1. \A i \in Ids : Open(i)' = Open(i) /\ buffers'[i] = buffers[i]
    BY DEF Reads, Open
  <2> QED
    BY <1>7, <1>10, <2>1 DEF MailInv, Shape
<1>12. ~astray' => ~astray /\ l = 0 /\ read' = read
  <2>1. ~astray' => ~astray /\ ~(l > 0)
    BY <1>6, Zenon
  <2>2. ~(l > 0) => l = 0 /\ read' = read
    BY <1>6
  <2> QED
    BY <2>1, <2>2, Zenon
<1>13. Shrinks
  <2>1. sent' = sent /\ taken <= taken' /\ sockFd' = sockFd
    BY <1>1, Types, Constants DEF Reads, peers
  <2>2. astray => astray'
    BY <1>6
  <2>3. ASSUME NEW i \in Ids
        PROVE  astray' \/ received'[i] = received[i] \/ received'[i] = <<>>
    BY <1>5, <1>7, <1>12
  <2> QED
    BY <1>8, <2>1, <2>2, <2>3 DEF Shrinks
<1>14. ~astray' => ~astray /\ Len(received[n]) = 2 /\ read' = read
  <2>1. l = 0 => Len(received[n]) = 2
    BY <1>3, <1>4
  <2> QED
    BY <1>12, <2>1, Zenon
<1>15. Len(received[n]) \in Nat /\ Len(received[n]) > 1 /\ Len(received'[n]) = Len(received[n]) - 2
  BY <1>3, <1>4, <1>5, <1>7
<1> QED
  BY <1>2, <1>7, <1>8, <1>9, <1>10, <1>11, <1>13, <1>14, <1>15

\* What commands that bring RECV nothing have in common.
LEMMA CommandInv ==
    ASSUME MailInv, Reads, consumed, pc' \in Places, database' \subseteq Keys, rxBuffer' = rxBuffer,
           jsonMsg' \in BOOLEAN, jsonMsgLen' \in 0..MaxMsgs + 1, Clear',
           jsonMsgLen' = 0 \/ jsonMsgLen' = jsonMsgLen
    PROVE  MailInv'
<1>1. TypeOK
  BY DEF MailInv
<1>2. TypeOK'
  BY <1>1, ConsumedFacts DEF Reads, peers, TypeOK, Places, Stages
<1>3. astray' \/ Text' = Text
  BY ConsumedFacts DEF Text
<1>4. jsonMsgLen' <= 1 \/ jsonMsgLen' <= jsonMsgLen
  BY <1>1, Types
<1> QED
  BY <1>2, <1>3, <1>4, ConsumedFacts, KeptInv

LEMMA BareInv == MailInv /\ Reads /\ processBare => MailInv'
<1> SUFFICES ASSUME MailInv, Reads, processBare
             PROVE  MailInv'
  OBVIOUS
<1>1. TypeOK
  BY DEF MailInv
<1>2. pc' \in Places /\ database' \subseteq Keys /\ rxBuffer' = rxBuffer /\ consumed
  BY <1>1, Types, ProcessPlace DEF processBare
<1>3. \/ jsonMsg' = FALSE /\ jsonMsgLen' = 0
      \/ jsonMsg' = jsonMsg /\ jsonMsgLen' = jsonMsgLen
  BY DEF processBare, freed, message
<1>4. jsonMsg' \in BOOLEAN /\ jsonMsgLen' \in 0..MaxMsgs + 1
  <2>1. jsonMsg \in BOOLEAN /\ jsonMsgLen \in 0..MaxMsgs + 1 /\ 0 \in 0..MaxMsgs + 1
    BY <1>1, Constants DEF TypeOK
  <2>2. jsonMsg' \in BOOLEAN
    BY <1>3, <2>1, Zenon
  <2>3. jsonMsgLen' = 0 \/ jsonMsgLen' = jsonMsgLen
    BY <1>3, Zenon
  <2> QED
    BY <2>1, <2>2, <2>3, Zenon
<1>5. Clear'
  BY <1>3 DEF MailInv, Clear
<1> QED
  BY <1>2, <1>3, <1>4, <1>5, CommandInv

LEMMA GetInv == MailInv /\ Reads /\ processGet => MailInv'
<1> SUFFICES ASSUME MailInv, Reads, processGet
             PROVE  MailInv'
  OBVIOUS
<1>1. TypeOK
  BY DEF MailInv
<1>2. CASE aborts
  BY <1>2, AbortsInv
<1>3. CASE ~aborts
  <2>1. /\ consumed /\ (GoesOn \/ Ends)
        /\ database' = database /\ jsonMsg' = jsonMsg /\ jsonMsgLen' = jsonMsgLen
        /\ rxBuffer' = rxBuffer
    BY <1>3 DEF processGet, message
  <2>2. pc' \in Places /\ database' \subseteq Keys
    BY <1>1, <2>1, Types, ProcessPlace
  <2>3. jsonMsg' \in BOOLEAN /\ jsonMsgLen' \in 0..MaxMsgs + 1
    BY <1>1, <2>1 DEF TypeOK
  <2>4. Clear'
    BY <2>1 DEF MailInv, Clear
  <2> QED
    BY <2>1, <2>2, <2>3, <2>4, CommandInv
<1> QED
  BY <1>2, <1>3

\* The sum of the slots' texts is two units less after a command.
LEMMA ConsumedSum ==
    ASSUME MailInv, Reads, consumed
    PROVE  Lens >= 2 /\ Lens' = Lens - 2
<1>1. PICK n \in Ids : n = pc.id
  BY ConsumedFacts
<1>2. /\ Open(n) /\ Open(n)' /\ Len(received[n]) \in Nat /\ Len(received[n]) > 1
      /\ Len(received'[n]) = Len(received[n]) - 2
      /\ \A i \in Ids \ {n} : received'[i] = received[i] /\ Open(i)' = Open(i)
  BY <1>1, ConsumedFacts DEF Reads, Open
<1> DEFINE f == [i \in Ids |-> Holds(i)]
           g == [i \in Ids |-> Holds(i)']
<1>3. \A i \in Ids : f[i] \in Nat /\ g[i] \in Nat
  BY ConsumedFacts, Sums, HoldsAfter DEF MailInv
<1>4. g[n] = f[n] - 2 /\ f[n] >= 2
  BY <1>2 DEF Holds
<1>5. \A i \in Ids \ {n} : f[i] = g[i]
  BY <1>2 DEF Holds
<1>6. Lens = SumFunctionOnSet(f, Ids) /\ Lens' = SumFunctionOnSet(g, Ids) /\ Lens \in Nat
  BY Sums DEF Lens, MailInv
<1>7. IsFiniteSet(Ids)
  BY Constants
<1> HIDE DEF f, g
<1>8. SumFunctionOnSet(g, Ids) = SumFunctionOnSet(f, Ids) + g[n] - f[n]
  BY <1>3, <1>5, <1>7, SumChange
<1>9. f[n] <= SumFunctionOnSet(f, Ids)
  BY <1>3, <1>7, SumAtLeast
<1> QED
  BY <1>3, <1>4, <1>6, <1>8, <1>9

LEMMA DeleteInv == MailInv /\ Reads /\ processDelete => MailInv'
<1> SUFFICES ASSUME MailInv, Reads, processDelete
             PROVE  MailInv'
  OBVIOUS
<1>1. TypeOK
  BY DEF MailInv
<1>2. /\ consumed /\ database' \subseteq Keys /\ pc' \in Places
      /\ jsonMsg' = TRUE /\ jsonMsgLen' = jsonMsgLen + 1 /\ rxBuffer' = rxBuffer
  <2>1. /\ consumed /\ (GoesOn \/ Ends) /\ jsonMsg' = TRUE /\ jsonMsgLen' = jsonMsgLen + 1
        /\ rxBuffer' = rxBuffer
    BY DEF processDelete
  <2>2. database' \subseteq Keys
    BY <1>1, Types DEF processDelete
  <2> QED
    BY <1>1, <2>1, <2>2, Types, ProcessPlace
<1>3. jsonMsgLen + 1 \in 0..MaxMsgs + 1
  <2>1. /\ Lens \in Nat /\ Sent \in Nat /\ Sent <= 2 * Begun(sent) /\ Begun(sent) \in Nat
        /\ jsonMsgLen \in Nat /\ MaxMsgs \in Nat
    BY <1>1, Sums, Types, Constants
  <2>2. Begun(sent) <= MaxMsgs /\ 2 * jsonMsgLen + Lens <= 2 + Sent
    BY DEF MailInv, Counted
  <2>3. Lens >= 2
    BY <1>2, ConsumedSum
  <2> QED
    BY <2>1, <2>2, <2>3
<1>4. TypeOK'
  <2>1. jsonMsg' \in BOOLEAN /\ jsonMsgLen' \in 0..MaxMsgs + 1
    BY <1>2, <1>3
  <2> QED
    BY <1>1, <1>2, <2>1, ConsumedFacts DEF Reads, peers, TypeOK, Places, Stages
<1>5. astray' \/ Text' = Text
  BY <1>2, ConsumedFacts DEF Text
<1>6. Shape' /\ Shrinks
  BY <1>2, ConsumedFacts
<1>7. /\ Distinct' /\ Stream' /\ Passed' /\ RawOnce'
      /\ Lens' \in Nat /\ Begun(sent)' = Begun(sent) /\ Sent' = Sent
  BY <1>4, <1>5, <1>6, ShrinksInv
<1>8. Counted'
  <2>1. Lens' = Lens - 2 /\ Lens \in Nat /\ jsonMsgLen \in Nat
    BY <1>1, <1>2, ConsumedSum, Sums, Types
  <2>2. PICK l \in Nat : l = Lens' /\ l <= Lens - 2 /\ l <= Lens
    BY <1>7, <2>1
  <2>3. PICK n \in Nat : n = jsonMsgLen' /\ n <= jsonMsgLen + 1
    BY <1>2, <2>1
  <2> QED
    BY <1>7, <2>2, <2>3, CountedInv
<1>9. Clear'
  BY <1>2 DEF Clear
<1> QED
  BY <1>4, <1>6, <1>7, <1>8, <1>9 DEF MailInv

-----------------------------------------------------------------------------
\* RawOnce of a text.
First(t) == {k \in 1..Len(t) : k % 2 = 1}
Raw(t) ==
    /\ Len(t) % 2 = 0
    /\ \A k \in First(t) : Whole(t[k], t[k + 1])
    /\ \A j, k \in First(t) : j < k /\ t[j].conn = t[k].conn => t[j].num < t[k].num

LEMMA RawOnceRaw == ASSUME Text \in Seq(Units) PROVE RawOnce <=> (~astray => Raw(Text))
<1>1. DOMAIN Text = 1..Len(Text)
  BY LenProperties
<1> DEFINE t == Text
<1>2. RawOnce <=> (~astray => /\ Len(t) % 2 = 0
                              /\ \A k \in {k \in DOMAIN t : k % 2 = 1} : Whole(t[k], t[k + 1])
                              /\ \A j, k \in {k \in DOMAIN t : k % 2 = 1} :
                                    j < k /\ t[j].conn = t[k].conn => t[j].num < t[k].num)
  BY DEF RawOnce, Text
<1> QED
  BY <1>1, <1>2, Zenon DEF Raw, First

LEMMA RawOnceAfter == ASSUME Text' \in Seq(Units), Raw(Text') PROVE RawOnce'
<1>1. DOMAIN Text' = 1..Len(Text')
  BY LenProperties
<1> DEFINE t == Text'
<1>2. (/\ Len(t) % 2 = 0
       /\ \A k \in {k \in DOMAIN t : k % 2 = 1} : Whole(t[k], t[k + 1])
       /\ \A j, k \in {k \in DOMAIN t : k % 2 = 1} :
             j < k /\ t[j].conn = t[k].conn => t[j].num < t[k].num) => RawOnce'
  BY DEF RawOnce, Text, Whole
<1> QED
  BY <1>1, <1>2, Zenon DEF Raw, First

LEMMA WholeFacts ==
    ASSUME NEW u \in Units, NEW v, Whole(u, v)
    PROVE  u.part = "begin" /\ v.conn = u.conn /\ v.num = u.num
<1>1. CASE u = JUNK
  BY <1>1 DEF Whole, JUNK, Unit
<1>2. CASE u \in [conn : Conns, num : 1..MaxMsgs, part : {"begin", "end", "bad"}]
  BY <1>2 DEF Whole
<1> QED
  BY <1>1, <1>2 DEF Units

\* A whole message of which the text has only earlier ones is one more.
LEMMA RawAppend ==
    ASSUME NEW t \in Seq(Units), Raw(t), NEW s \in Seq(Units), Len(s) = 2, Whole(s[1], s[2]),
           \A j \in 1..Len(t) : t[j].conn = s[1].conn => t[j].num < s[1].num
    PROVE  Raw(t \o s)
<1>1. PICK n \in Nat : n = Len(t)
  BY LenProperties
<1>2. PICK w \in Seq(Units) : w = t \o s
  BY ConcatProperties
<1>3. /\ Len(w) = n + 2 /\ w[n + 1] = s[1] /\ w[n + 2] = s[2]
      /\ \A k \in 1..n : w[k] = t[k]
  <2>1. /\ Len(w) = n + 2
        /\ \A k \in 1..n + 2 : w[k] = IF k <= n THEN t[k] ELSE s[k - n]
    <3>1. /\ Len(t \o s) = Len(t) + Len(s)
          /\ \A k \in 1..Len(t) + Len(s) : (t \o s)[k] = IF k <= Len(t) THEN t[k] ELSE s[k - Len(t)]
      BY ConcatProperties, Zenon
    <3>2. Len(t) + Len(s) = n + 2
      BY <1>1
    <3> QED
      BY <1>1, <1>2, <3>1, <3>2, Zenon
  <2>2. n + 1 \in 1..n + 2 /\ n + 2 \in 1..n + 2 /\ (n + 1) - n = 1 /\ (n + 2) - n = 2
    OBVIOUS
  <2> QED
    BY <2>1, <2>2
<1>4. n % 2 = 0 /\ (n + 2) % 2 = 0 /\ (n + 1) % 2 = 1
  <2>1. n % 2 = 0
    BY <1>1, Zenon DEF Raw
  <2> QED
    BY <2>1
<1>5. ASSUME NEW k \in First(w)
      PROVE  (k \in First(t) /\ k + 1 \in 1..n) \/ k = n + 1
  <2>1. k \in 1..n + 2 /\ k % 2 = 1
    BY <1>3 DEF First
  <2>2. (k \in 1..n /\ k + 1 \in 1..n) \/ k = n + 1
    BY <1>4, <2>1
  <2> QED
    BY <1>1, <2>1, <2>2 DEF First
<1>6. \A k \in First(w) : Whole(w[k], w[k + 1])
  <2>1. ASSUME NEW k \in First(t), k + 1 \in 1..n
        PROVE  Whole(w[k], w[k + 1])
    <3>1. w[k] = t[k] /\ w[k + 1] = t[k + 1]
      BY <1>1, <1>3, <2>1 DEF First
    <3> QED
      BY <3>1 DEF Raw
  <2>2. Whole(w[n + 1], w[(n + 1) + 1])
    <3>1. (n + 1) + 1 = n + 2
      OBVIOUS
    <3> QED
      BY <1>3, <3>1
  <2> QED
    BY <1>5, <2>1, <2>2
<1>7. ASSUME NEW j \in First(w), NEW k \in First(w), j < k, w[j].conn = w[k].conn
      PROVE  w[j].num < w[k].num
  <2>1. j \in First(t) /\ w[j] = t[j] /\ j \in 1..n
    BY <1>1, <1>3, <1>5, <1>7 DEF First
  <2>2. CASE k \in First(t)
    <3>1. w[k] = t[k]
      BY <1>1, <1>3, <2>2 DEF First
    <3> QED
      BY <1>7, <2>1, <2>2, <3>1 DEF Raw
  <2>3. CASE k = n + 1
    BY <1>1, <1>3, <1>7, <2>1, <2>3
  <2> QED
    BY <1>5, <2>2, <2>3
<1> QED
  BY <1>2, <1>3, <1>4, <1>6, <1>7 DEF Raw

\* A RAW message that fits comes after all that were read from its client before.
LEMMA RawFitsInv ==
    ASSUME MailInv, Reads, consumed, pc' \in Places,
           UNCHANGED <<database, message>>,
           NEW s, s = SubSeq(received[pc.id], 1, 2), RxFits(s), rxBuffer' = rxBuffer \o s
    PROVE  MailInv'
<1>1. TypeOK
  BY DEF MailInv
<1>2. PICK n \in Ids : n = pc.id /\ Open(n)
  BY ConsumedFacts
<1>3. PICK q \in Seq(Units) : q = received[n] /\ Len(q) \in Nat /\ Len(q) > 1
  BY <1>1, <1>2, Types, ConsumedFacts
<1>4. s \in Seq(Units) /\ Len(s) = 2 /\ s[1] = q[1] /\ s[2] = q[2] /\ q[1] \in Units
  <2>1. \A k \in 1..2 : q[k] \in Units
    BY <1>3, ElementOfSeq
  <2>2. s = SubSeq(q, 1, 2)
    BY <1>2, <1>3
  <2>3. /\ s \in Seq(Units) /\ Len(s) = IF 1 <= 2 THEN 2 - 1 + 1 ELSE 0
        /\ \A k \in 1..2 - 1 + 1 : s[k] = q[1 + k - 1]
    BY <2>1, <2>2, SubSeqProperties
  <2> QED
    BY <2>1, <2>3
<1>5. Whole(q[1], q[2])
  BY <1>2, <1>3 DEF Reads, readable
<1>6. rxBuffer' \in Seq(Units) /\ Len(rxBuffer') <= RxSize
  <2>1. rxBuffer \in Seq(Units)
    BY <1>1, Types
  <2>2. rxBuffer \o s \in Seq(Units) /\ Len(rxBuffer \o s) = Len(rxBuffer) + Len(s)
    BY <1>4, <2>1, ConcatProperties
  <2> QED
    BY <2>2 DEF RxFits
<1>7. TypeOK'
  <2>1. UNCHANGED <<app, sockFd, buffers, nextId, taken, sent, database, jsonMsg, jsonMsgLen>>
    BY DEF Reads, peers, message
  <2> QED
    BY <1>1, <1>6, <2>1, ConsumedFacts DEF TypeOK, Places, Stages
<1>8. Shape' /\ Shrinks
  BY ConsumedFacts
<1>9. /\ Distinct' /\ Stream'
      /\ astray' \/ Text' = Text => Passed' /\ RawOnce'
      /\ \A i \in Ids : Open(i)' => /\ Open(i) /\ sockFd'[i] = sockFd[i] /\ Behind(i)' >= Behind(i)
                                    /\ Behind(i)' \in Nat /\ Behind(i) \in Nat
      /\ Lens' \in Nat /\ Lens' <= Lens /\ Begun(sent)' = Begun(sent) /\ Sent' = Sent
  BY <1>7, <1>8, ShrinksInv
<1>10. Counted'
  <2>1. jsonMsgLen' = jsonMsgLen /\ jsonMsgLen \in Nat
    BY <1>1, Types DEF message
  <2> QED
    BY <1>9, <2>1, CountedInv
<1>11. Clear'
  BY DEF MailInv, Clear, message
<1>12. CASE astray'
  BY <1>7, <1>8, <1>9, <1>10, <1>11, <1>12 DEF MailInv
<1>13. CASE ~astray'
  <2>1. ~astray /\ Len(q) = 2 /\ read' = read
    BY <1>2, <1>3, <1>13, ConsumedFacts
  <2>2. PICK t \in Seq(Units) : t = Text /\ Text' = t \o s /\ Len(t) \in Nat
    <3>1. rxBuffer \in Seq(Units) /\ read \in Seq(Units) /\ Text \in Seq(Units)
      BY <1>1, Types
    <3>2. (read \o rxBuffer) \o s = read \o (rxBuffer \o s)
      BY <1>4, <3>1, TextAssociative, Zenon
    <3>3. Text' = Text \o s
      BY <2>1, <3>2 DEF Text
    <3> QED
      BY <3>1, <3>3, LenProperties
  <2>3. PICK c \in Conns : c = sockFd[n] /\ c <= taken
    BY <1>1, <1>2, Types DEF MailInv, Distinct
  <2>4. PICK b \in Nat : b = Behind(n)
    BY <1>2 DEF MailInv, Stream
  <2>5. PICK u \in Units : u = q[1]
    BY <1>4
  <2>6. u.conn = c /\ u.num \in Nat /\ 2 * u.num = b + 2
    <3>1. u.part = "begin"
      BY <1>5, <2>5, WholeFacts
    <3>2. u \in Next1(c, b)
      <4>1. 1 \in 1..Len(received[n]) /\ b + 1 - 1 = b
        BY <1>3
      <4>2. received[n][1] \in Next1(sockFd[n], Behind(n) + 1 - 1)
        BY <1>2, <2>1, <4>1 DEF MailInv, Stream
      <4> QED
        BY <1>3, <2>3, <2>4, <2>5, <4>1, <4>2
    <3>3. u.conn = c /\ u.num = b \div 2 + 1 /\ b % 2 = 0
      BY <3>1, <3>2, Next1Facts
    <3> QED
      BY <3>3
  <2>7. /\ s[1].conn = c /\ s[1].num = u.num /\ s[2].conn = c /\ s[2].num = u.num
    BY <1>4, <1>5, <2>5, <2>6, WholeFacts
  <2>8. \A j \in 1..Len(t) : /\ t[j].conn \in Conns /\ t[j].conn <= taken /\ t[j].num \in Nat
                             /\ \A i \in Ids : Open(i) /\ sockFd[i] = t[j].conn =>
                                   2 * t[j].num <= Behind(i)
    BY <2>1, <2>2 DEF MailInv, Passed
  <2>9. RawOnce'
    <3>1. Raw(t)
      BY <2>1, <2>2, RawOnceRaw DEF MailInv
    <3>2. ASSUME NEW j \in 1..Len(t), t[j].conn = s[1].conn
          PROVE  t[j].num < s[1].num
      <4>1. 2 * t[j].num <= b /\ t[j].num \in Nat
        BY <1>2, <2>3, <2>4, <2>7, <2>8, <3>2
      <4> QED
        BY <2>6, <2>7, <4>1
    <3>3. Raw(t \o s)
      BY <1>4, <1>5, <3>1, <3>2, RawAppend
    <3> QED
      BY <1>4, <2>2, <3>3, ConcatProperties, RawOnceAfter
  <2>10. Behind(n)' = b + 2
    <3>1. Len(received'[n]) = 0 /\ Len(received[n]) = 2
      BY <1>2, <1>3, <2>1, ConsumedFacts
    <3>2. sent'[sockFd'[n]] = sent[c] /\ sent[c] \in Nat
      BY <1>1, <2>3, Types DEF Reads, peers
    <3> QED
      BY <2>3, <2>4, <3>1, <3>2 DEF Behind
  <2>11. Passed'
    <3>1. /\ Len(t \o s) = Len(t) + 2
          /\ \A k \in 1..Len(t) + 2 : (t \o s)[k] = IF k <= Len(t) THEN t[k] ELSE s[k - Len(t)]
      BY <1>4, ConcatProperties
    <3>2. UNCHANGED <<sockFd, taken>>
      BY DEF Reads, peers
    <3>3. ASSUME NEW k \in 1..Len(t) + 2
          PROVE  /\ (t \o s)[k].conn \in Conns /\ (t \o s)[k].conn <= taken
                 /\ (t \o s)[k].num \in Nat
                 /\ \A i \in Ids : Open(i)' /\ sockFd[i] = (t \o s)[k].conn =>
                       2 * (t \o s)[k].num <= Behind(i)'
      <4>1. CASE k \in 1..Len(t)
        <5>1. (t \o s)[k] = t[k]
          BY <3>1, <4>1
        <5>2. ASSUME NEW i \in Ids, Open(i)', sockFd[i] = t[k].conn
              PROVE  2 * t[k].num <= Behind(i)'
          <6>1. Open(i) /\ Behind(i)' >= Behind(i) /\ Behind(i)' \in Nat /\ Behind(i) \in Nat
            BY <1>9, <5>2
          <6>2. 2 * t[k].num <= Behind(i) /\ t[k].num \in Nat
            BY <2>8, <4>1, <5>2, <6>1
          <6> QED
            BY <6>1, <6>2
        <5> QED
          BY <2>8, <4>1, <5>1, <5>2
      <4>2. CASE k \notin 1..Len(t)
        <5>1. k - Len(t) \in 1..2 /\ ~(k <= Len(t))
          BY <2>2, <4>2
        <5>2. (t \o s)[k] = s[k - Len(t)]
          BY <3>1, <5>1
        <5>3. (t \o s)[k].conn = c /\ (t \o s)[k].num = u.num
          <6>1. k - Len(t) = 1 \/ k - Len(t) = 2
            BY <5>1
          <6> QED
            BY <2>7, <5>2, <6>1
        <5>4. ASSUME NEW i \in Ids, Open(i)', sockFd[i] = c
              PROVE  2 * u.num <= Behind(i)'
          <6>1. i = n
            BY <1>2, <2>3, <5>4 DEF MailInv, Distinct
          <6> QED
            BY <2>6, <2>10, <6>1
        <5> QED
          BY <2>3, <2>6, <5>3, <5>4
      <4> QED
        BY <4>1, <4>2
    <3>4. \A k \in 1..Len(Text') :
             /\ Text'[k].conn \in Conns /\ Text'[k].conn <= taken' /\ Text'[k].num \in Nat
             /\ \A i \in Ids : Open(i)' /\ sockFd'[i] = Text'[k].conn =>
                   2 * Text'[k].num <= Behind(i)'
      BY <2>2, <3>1, <3>2, <3>3
    <3> QED
      BY <3>4 DEF Passed
  <2> QED
    BY <1>7, <1>8, <1>9, <1>10, <1>11, <2>9, <2>11 DEF MailInv
<1> QED
  BY <1>12, <1>13

LEMMA RawInv == MailInv /\ Reads /\ processRaw => MailInv'
<1> SUFFICES ASSUME MailInv, Reads, processRaw
             PROVE  MailInv'
  OBVIOUS
<1>1. TypeOK
  BY DEF MailInv
<1>2. CASE pending
  BY <1>2, AbortsInv DEF processRaw
<1>3. CASE ~pending
  <2>1. PICK s : s = SubSeq(received[pc.id], 1, 2)
    OBVIOUS
  <2>2. /\ consumed
        /\ IF RxFits(s) THEN rxBuffer' = rxBuffer \o s /\ GoesOn ELSE Ends /\ UNCHANGED rxBuffer
        /\ UNCHANGED <<database, message>>
    BY <1>3, <2>1 DEF processRaw
  <2>3. pc' \in Places
    BY <1>1, <2>2, Types, ProcessPlace
  <2>4. CASE RxFits(s)
    BY <2>1, <2>2, <2>3, <2>4, RawFitsInv
  <2>5. CASE ~RxFits(s)
    <3>1. rxBuffer' = rxBuffer /\ jsonMsg' = jsonMsg /\ jsonMsgLen' = jsonMsgLen /\ database' = database
      BY <2>2, <2>5 DEF message
    <3>2. database' \subseteq Keys /\ jsonMsg' \in BOOLEAN /\ jsonMsgLen' \in 0..MaxMsgs + 1
      BY <1>1, <3>1 DEF TypeOK
    <3>3. Clear'
      BY <3>1 DEF MailInv, Clear
    <3> QED
      BY <2>2, <2>3, <3>1, <3>2, <3>3, CommandInv
  <2> QED
    BY <2>4, <2>5
<1> QED
  BY <1>2, <1>3

LEMMA ProcessInv == MailInv /\ (processCommand \/ processFull) => MailInv'
<1>1. ASSUME MailInv, processCommand
      PROVE  MailInv'
  <2>1. At("process") /\ buffers[pc.id] /\ readable(received[pc.id])
    BY <1>1 DEF processCommand
  <2>2. pc \in Places
    BY <1>1, Types DEF MailInv
  <2>3. CASE processRaw
    <3>1. pending \/ Reads
      BY <2>1, <2>3 DEF processRaw, Reads
    <3>2. CASE pending
      BY <1>1, <2>3, <3>2, AbortsInv DEF processRaw
    <3> QED
      BY <1>1, <2>3, <3>1, <3>2, RawInv
  <2>4. CASE processBare
    <3>1. Reads
      BY <2>1, <2>4 DEF processBare, Reads
    <3> QED
      BY <1>1, <2>4, <3>1, BareInv
  <2>5. CASE processGet
    <3>1. aborts \/ Reads
      BY <2>1, <2>5 DEF processGet, Reads
    <3> QED
      BY <1>1, <2>5, <3>1, AbortsInv, GetInv
  <2>6. CASE aborts
    BY <1>1, <2>6, AbortsInv
  <2>7. CASE processDelete
    <3>1. Reads
      BY <2>1, <2>7 DEF processDelete, Reads
    <3> QED
      BY <1>1, <2>7, <3>1, DeleteInv
  <2>8. CASE processUnknown
    <3>1. pc' \in Places
      BY <2>2, <2>8, ProcessPlace DEF processUnknown
    <3> QED
      BY <1>1, <2>8, <3>1, ClearedInv DEF processUnknown
  <2> QED
    BY <1>1, <2>3, <2>4, <2>5, <2>6, <2>7, <2>8 DEF processCommand
<1>2. ASSUME MailInv, processFull
      PROVE  MailInv'
  <2>1. pc' \in Places
    BY <1>2, Types, ProcessPlace DEF MailInv, processFull
  <2> QED
    BY <1>2, <2>1, ClearedInv DEF processFull
<1> QED
  BY <1>1, <1>2

-----------------------------------------------------------------------------
LEMMA NextInv == MailInv /\ [Next]_vars => MailInv'
<1>1. ASSUME MailInv, Runner
      PROVE  MailInv'
  BY <1>1, QuietInv, AcceptsInv, RefusesInv, RecvTextInv, SendInv, ProcessInv DEF Runner
<1>2. ASSUME MailInv, Frame
      PROVE  MailInv'
  BY <1>2, QuietInv, AnswerInv, TakesInv, ResetInv DEF Frame
<1>3. ASSUME MailInv, UNCHANGED vars
      PROVE  MailInv'
  <2>1. pc' \in Places /\ app' \in {"running", "aborted"} /\ database' \subseteq Keys
    BY <1>3, Types DEF MailInv, vars
  <2> QED
    BY <1>3, <2>1, NothingInv DEF vars
<1> QED
  BY <1>1, <1>2, <1>3, RestartInv DEF Next

LEMMA Invariant == Spec => []MailInv
BY InitInv, NextInv, PTL DEF Spec

\* No text exceeds its buffer, and the length of jsonMsg, which requests and frames
\* lengthen without clearing it, is bounded by the messages that the peers began.
THEOREM TypeCorrect == Spec => []TypeOK
<1>1. MailInv => TypeOK
  BY DEF MailInv
<1> QED
  BY <1>1, Invariant, PTL

\* RECV returns whole RAW messages, each at most once and those of a client in order,
\* through partial receives, full buffers, closed and reused slots and RESET, while the
\* text is followed.
THEOREM RawMessagesOnce == Spec => []RawOnce
<1>1. MailInv => RawOnce
  BY DEF MailInv
<1> QED
  BY <1>1, Invariant, PTL

\* An answer of DATASTORE GET is never appended to a text that was not cleared.
THEOREM AnswerIsWhole == Spec => AnswerWhole
<1> DEFINE A == At("serve") /\ jsonMsg' /\ ~jsonMsg => jsonMsgLen' = 1
<1>1. ASSUME MailInv, [Next]_vars
      PROVE  [A]_vars
  <2>1. SUFFICES ASSUME Next, At("serve"), jsonMsg', ~jsonMsg
                 PROVE  jsonMsgLen' = 1
    BY <1>1
  <2>2. jsonMsgLen = 0
    BY <1>1, <2>1 DEF MailInv, Clear
  <2>3. ASSUME Runner
        PROVE  FALSE
    BY <2>1, <2>3 DEF Runner, noConnection, accepts, refuses, recvNothing, selectFails, recvText, recvEnd,
                      sends, processCommand, processNone, processFull, processClosed, At
  <2>4. ASSUME NEW k \in Keys, datastoreGet(k)
        PROVE  jsonMsgLen' = 1
    <3>1. (k \in database /\ jsonMsgLen' = jsonMsgLen + 1) \/ jsonMsg' = jsonMsg
      BY <2>1, <2>4, Zenon DEF datastoreGet, message
    <3>2. jsonMsgLen' = jsonMsgLen + 1
      BY <2>1, <3>1, Zenon
    <3> QED
      BY <2>2, <3>2
  <2>5. ASSUME \/ send \/ sendFails \/ recv \/ recvUnanswered \/ reset \/ otherFrame
               \/ \E k \in Keys : datastorePut(k)
        PROVE  FALSE
    BY <2>1, <2>5 DEF send, freed, sendFails, aborts, recv, recvUnanswered, takes, reset, otherFrame,
                      datastorePut, message
  <2>6. ASSUME restart
        PROVE  FALSE
    BY <2>1, <2>6 DEF restart
  <2> QED
    BY <2>1, <2>3, <2>4, <2>5, <2>6 DEF Next, Frame
<1> QED
  BY <1>1, Invariant, PTL DEF Spec, AnswerWhole

-----------------------------------------------------------------------------
\* The buffer that the text of a message is written to (JsonBuffer), for every text and
\* every size of the first buffer that is a power of two.

\* The powers of two are numbers, a smaller one is at most half of a larger one, and
\* half of one is one.
LEMMA Doubles ==
    /\ \A k \in Shifted : k \in Nat /\ k >= 1
    /\ \A j, k \in Shifted : j < k => 2 * j <= k
    /\ \A k \in Shifted : k = 1 \/ (k \div 2 \in Shifted /\ 2 * (k \div 2) = k)
<1>1. \A k \in Shifted : k \in Nat /\ k >= 1
  BY SMT DEF Shifted
<1>2. \A j, k \in Shifted : j < k => 2 * j <= k
  BY SMTT(60) DEF Shifted
<1>3. \A k \in Shifted : k = 1 \/ (k \div 2 \in Shifted /\ 2 * (k \div 2) = k)
  BY SMTT(60) DEF Shifted
<1> QED
  BY <1>1, <1>2, <1>3

\* getNextPowerOfTwo gives the least power of two that is large enough, for every number
\* up to one; for a number above one power and up to the next, the next.
LEMMA NextPower ==
    ASSUME NEW n \in Nat, NEW m \in Shifted, n <= m
    PROVE  /\ NextPowerOfTwo(n) \in Shifted
           /\ NextPowerOfTwo(n) >= n /\ NextPowerOfTwo(n) <= m
           /\ \A c \in Shifted : c < n /\ n <= 2 * c => NextPowerOfTwo(n) = 2 * c
<1> DEFINE S == {k \in Shifted : k >= n}
           k == NextPowerOfTwo(n)
<1>1. PICK l \in S : \A j \in S : l <= j
  <2>1. S \subseteq Nat /\ m \in S
    BY Doubles
  <2> HIDE DEF S
  <2> QED
    BY <2>1, LeastOf
<1>2. l \in Shifted /\ l >= n /\ (l = 1 \/ l \div 2 < n)
  <2>1. l \in Nat /\ l >= 1
    BY <1>1, Doubles
  <2>2. l = 1 \/ l \div 2 \in Shifted
    BY <1>1, Doubles
  <2>3. l = 1 \/ (l \div 2 < l /\ l \div 2 \in Nat)
    BY <2>1, SMT
  <2>4. l = 1 \/ l \div 2 \notin S
    BY <1>1, <2>1, <2>3, SMT
  <2> QED
    BY <1>1, <2>2, <2>3, <2>4, SMT
<1>3. k \in Shifted /\ k >= n /\ (k = 1 \/ k \div 2 < n)
  BY <1>2, Zenon DEF NextPowerOfTwo
<1> HIDE DEF k, S
<1>4. k \in Nat /\ k >= 1 /\ m \in Nat /\ m >= 1
  BY <1>3, Doubles
<1>5. ASSUME NEW c \in Shifted, c < k
      PROVE  c < n
  <2>1. c \in Nat /\ c >= 1 /\ 2 * c <= k
    BY <1>3, <1>5, Doubles
  <2>2. k # 1 /\ c <= k \div 2
    BY <1>4, <2>1, SMT
  <2>3. k \div 2 < n /\ k \div 2 \in Nat
    BY <1>3, <1>4, <2>2, SMT
  <2> QED
    BY <2>1, <2>2, <2>3, SMT
<1>6. k <= m
  BY <1>4, <1>5, SMT
<1>7. ASSUME NEW c \in Shifted, c < n, n <= 2 * c
      PROVE  k = 2 * c
  <2>1. c \in Nat /\ c >= 1
    BY Doubles
  <2>2. c < k
    BY <1>3, <1>4, <1>7, <2>1, SMT
  <2>3. 2 * c <= k
    BY <1>3, <2>2, Doubles
  <2>4. ASSUME 2 * c < k
        PROVE  FALSE
    <3>1. k # 1 /\ k \div 2 < n
      BY <1>3, <1>4, <2>1, <2>4, SMT
    <3>2. k \div 2 \in Shifted
      BY <1>3, <3>1, Doubles
    <3>3. c <= k \div 2 /\ k \div 2 \in Nat
      BY <1>4, <2>1, <2>4, SMT
    <3>4. c < k \div 2 \/ c = k \div 2
      BY <2>1, <3>3, SMT
    <3>5. c < k \div 2 => 2 * c <= k \div 2
      BY <3>2, Doubles
    <3>6. c = k \div 2
      BY <1>7, <2>1, <3>1, <3>3, <3>4, <3>5, SMT
    <3>7. 2 * (k \div 2) = k
      BY <1>3, <3>1, Doubles
    <3> QED
      BY <2>4, <3>6, <3>7, <1>4, SMT
  <2> QED
    BY <1>4, <2>1, <2>3, <2>4, SMT
<1> QED
  BY <1>3, <1>6, <1>7 DEF k

\* The room after it was asked for: the buffer is as it was, or its new size is a power
\* of two; while the account is exact, and no more is asked for than the buffer has,
\* the size doubles, the account stays exact and there is as much room as was asked for.
LEMMA RoomGiven ==
    ASSUME BufferAssumption, NEW b \in [cap : Nat, room : Nat, len : Nat], NEW size \in Nat,
           b.room >= size \/ b.len + size <= MaxAlloc
    PROVE  LET g == checkRoom(b, size)
           IN  /\ g \in [cap : Nat, room : Nat, len : Nat] /\ g.len = b.len
               /\ b.cap \in Shifted => g.cap \in Shifted
               /\ b.cap \in Shifted /\ b.room + b.len = b.cap /\ size <= b.cap =>
                      g.room + g.len = g.cap /\ g.cap >= b.cap /\ g.room >= size
<1> DEFINE g == checkRoom(b, size)
<1>1. b.cap \in Nat /\ b.room \in Nat /\ b.len \in Nat
  OBVIOUS
<1>2. CASE b.room >= size
  <2>1. g = b
    BY <1>2 DEF checkRoom
  <2> QED
    BY <1>1, <1>2, <2>1, SMT
<1>3. CASE b.room < size
  <2> DEFINE n == b.len + size
             k == NextPowerOfTwo(n)
  <2>1. n \in Nat /\ n <= MaxAlloc /\ MaxAlloc \in Shifted
    BY <1>1, <1>3, SMT DEF BufferAssumption
  <2>2. /\ k \in Shifted /\ k >= n
        /\ \A c \in Shifted : c < n /\ n <= 2 * c => k = 2 * c
    BY <2>1, NextPower
  <2>3. g = [cap |-> k, room |-> b.room + k \div 2, len |-> b.len]
    <3>1. ~(b.room >= size)
      BY <1>1, <1>3, SMT
    <3> QED
      BY <3>1 DEF checkRoom
  <2> HIDE DEF k, g
  <2>4. k \in Nat /\ k \div 2 \in Nat
    <3>1. k \in Nat
      BY <2>2, Doubles
    <3> QED
      BY <3>1, SMT
  <2>5. g \in [cap : Nat, room : Nat, len : Nat] /\ g.len = b.len /\ g.cap = k
    BY <1>1, <2>3, <2>4, SMT
  <2>6. ASSUME b.cap \in Shifted, b.room + b.len = b.cap, size <= b.cap
        PROVE  g.room + g.len = g.cap /\ g.cap >= b.cap /\ g.room >= size
    <3>1. b.cap < n /\ n <= 2 * b.cap
      BY <1>1, <1>3, <2>6, SMT
    <3>2. k = 2 * b.cap
      BY <2>2, <2>6, <3>1
    <3>3. k \div 2 = b.cap
      BY <1>1, <3>2, SMT
    <3>4. g.room = b.room + b.cap
      BY <2>3, <3>3
    <3> QED
      BY <1>1, <2>5, <2>6, <3>2, <3>4, SMT
  <2> QED
    BY <2>2, <2>5, <2>6 DEF g
<1> QED
  BY <1>1, <1>2, <1>3, SMT DEF g

\* The invariant: the size of the buffer is a power of two, and while no piece is longer
\* than the first buffer the account is exact and an aborted piece had not asked for
\* its room.
BufferInv ==
    /\ BufferTypeOK /\ output.cap \in Shifted
    /\ ShortPieces => output.room + output.len = output.cap /\ output.cap >= AllocLen
    /\ ShortPieces => AbortsUnasked

\* It is inductive.
LEMMA BufferInvHolds ==
    ASSUME BufferAssumption
    PROVE  Writer => []BufferInv
<1>1. /\ AllocLen \in Shifted /\ AllocLen \in Nat
      /\ \A t \in Texts : /\ Len(t) \in Nat
                          /\ \A i \in 1..Len(t) : t[i].room \in Nat /\ Len(t[i].chars) \in Nat
  BY Doubles DEF BufferAssumption
<1>2. WriterInit => BufferInv
  <2> SUFFICES ASSUME WriterInit
               PROVE  BufferInv
    OBVIOUS
  <2>1. pieces \in Texts /\ done = 0 /\ stage = "write" /\ 0 \in 0..Len(pieces)
    BY <1>1, SMT DEF WriterInit
  <2>2. /\ output \in [cap : Nat, room : Nat, len : Nat]
        /\ output.cap = AllocLen /\ output.room = AllocLen /\ output.len = 0
    BY <1>1 DEF WriterInit
  <2>3. output.room + output.len = output.cap /\ output.cap >= AllocLen
    BY <1>1, <2>2, SMT
  <2> QED
    BY <1>1, <2>1, <2>2, <2>3 DEF BufferInv, BufferTypeOK, AbortsUnasked
<1>3. BufferInv /\ [WriterNext]_(writer) => BufferInv'
  <2> SUFFICES ASSUME BufferInv, [WriterNext]_(writer)
               PROVE  BufferInv'
    OBVIOUS
  <2> DEFINE piece == pieces[done + 1]
  <2>1. /\ pieces \in Texts /\ done \in 0..Len(pieces) /\ Len(pieces) \in Nat
        /\ output \in [cap : Nat, room : Nat, len : Nat] /\ output.cap \in Shifted
    BY <1>1 DEF BufferInv, BufferTypeOK
  <2>2. ASSUME Writing
        PROVE  /\ stage = "write" /\ done + 1 \in 1..Len(pieces)
               /\ piece.room \in Nat /\ Len(piece.chars) \in Nat
               /\ ShortPieces => piece.room <= AllocLen
    <3>1. stage = "write" /\ done + 1 \in 1..Len(pieces)
      BY <2>1, <2>2, SMT DEF Writing
    <3> QED
      BY <1>1, <2>1, <3>1 DEF ShortPieces
  <2> DEFINE g == checkRoom(output, piece.room)
  <2>3. ASSUME Writing, Granted
        PROVE  /\ g \in [cap : Nat, room : Nat, len : Nat] /\ g.cap \in Shifted
               /\ ShortPieces =>
                      g.room + g.len = g.cap /\ g.cap >= AllocLen /\ g.room >= piece.room
    <3>1. piece.room \in Nat /\ (output.room >= piece.room \/ output.len + piece.room <= MaxAlloc)
      BY <2>2, <2>3 DEF Granted, Current
    <3> HIDE DEF piece
    <3>2. /\ g \in [cap : Nat, room : Nat, len : Nat] /\ g.cap \in Shifted
          /\ output.room + output.len = output.cap /\ piece.room <= output.cap =>
                 g.room + g.len = g.cap /\ g.cap >= output.cap /\ g.room >= piece.room
      BY <2>1, <3>1, RoomGiven
    <3>3. ASSUME ShortPieces
          PROVE  g.room + g.len = g.cap /\ g.cap >= AllocLen /\ g.room >= piece.room
      <4>1. output.room + output.len = output.cap /\ output.cap >= AllocLen /\ piece.room <= AllocLen
        BY <2>2, <2>3, <3>3 DEF BufferInv, piece
      <4>2. output.cap \in Nat /\ g.cap \in Nat
        BY <2>1, <3>2
      <4>3. piece.room <= output.cap
        BY <1>1, <3>1, <4>1, <4>2, SMT
      <4>4. g.room + g.len = g.cap /\ g.cap >= output.cap /\ g.room >= piece.room
        BY <3>2, <4>1, <4>3
      <4> QED
        BY <1>1, <4>1, <4>2, <4>4, SMT
    <3> QED
      BY <3>2, <3>3
  <2>4. CASE WritePiece
    <3>1. /\ Writing /\ Granted /\ g.room >= Len(piece.chars)
          /\ output' = [cap |-> g.cap, room |-> g.room - Len(piece.chars),
                        len |-> g.len + Len(piece.chars)]
          /\ done' = done + 1 /\ UNCHANGED <<pieces, stage>>
      BY <2>4 DEF WritePiece, Fits, Current, writeNext
    <3>2. /\ stage = "write" /\ done' \in 0..Len(pieces') /\ Len(piece.chars) \in Nat
      BY <2>1, <2>2, <3>1, SMT
    <3>3. /\ g \in [cap : Nat, room : Nat, len : Nat] /\ g.cap \in Shifted
          /\ ShortPieces => g.room + g.len = g.cap /\ g.cap >= AllocLen
      BY <2>3, <3>1
    <3> HIDE DEF g, piece
    <3>4. g.cap \in Nat /\ g.room \in Nat /\ g.len \in Nat
      BY <3>3
    <3> DEFINE l == Len(piece.chars)
    <3>5. l \in Nat /\ g.room - l \in Nat /\ g.len + l \in Nat
      BY <3>1, <3>2, <3>4, SMT
    <3>6. output'.cap = g.cap /\ output'.room = g.room - l /\ output'.len = g.len + l
      BY <3>1
    <3>7. output' \in [cap : Nat, room : Nat, len : Nat]
      BY <3>1, <3>4, <3>5
    <3> HIDE DEF l
    <3>8. (g.room - l) + (g.len + l) = g.room + g.len
      BY <3>4, <3>5, SMT
    <3>9. ShortPieces' => output'.room + output'.len = output'.cap /\ output'.cap >= AllocLen
      BY <3>1, <3>3, <3>6, <3>8 DEF ShortPieces
    <3> QED
      BY <2>1, <3>1, <3>2, <3>3, <3>6, <3>7, <3>9
         DEF BufferInv, BufferTypeOK, AbortsUnasked
  <2>5. CASE WriteAborts
    <3>1. /\ Writing /\ Granted /\ ~(g.room >= Len(piece.chars))
          /\ stage' = "aborted" /\ UNCHANGED <<pieces, done, output>>
      BY <2>5 DEF WriteAborts, Fits, Current
    <3>2. done + 1 \in 1..Len(pieces) /\ piece.room \in Nat /\ Len(piece.chars) \in Nat
      BY <2>2, <3>1
    <3>3. g.room \in Nat /\ (ShortPieces => g.room >= piece.room)
      BY <2>3, <3>1
    <3> HIDE DEF g, piece
    <3>4. ShortPieces => done < Len(pieces) /\ piece.room < Len(piece.chars)
      BY <2>1, <3>1, <3>2, <3>3, SMT
    <3>5. ShortPieces' => AbortsUnasked'
      BY <3>1, <3>4 DEF AbortsUnasked, ShortPieces, Current, piece
    <3> QED
      BY <3>1, <3>5 DEF BufferInv, BufferTypeOK, ShortPieces
  <2>6. CASE NoMemory
    BY <2>6 DEF NoMemory, BufferInv, BufferTypeOK, ShortPieces,
                AbortsUnasked
  <2>7. CASE UNCHANGED writer
    BY <2>7 DEF writer, BufferInv, BufferTypeOK, ShortPieces,
                AbortsUnasked, Current
  <2> QED
    BY <2>4, <2>5, <2>6, <2>7 DEF WriterNext
<1> QED
  BY <1>2, <1>3, PTL DEF Writer

\* No count of the writer is ever negative: what is written was counted as free before
\* (writeNext).
THEOREM BufferTypeCorrect ==
    ASSUME BufferAssumption
    PROVE  Writer => []BufferTypeOK
<1>1. BufferInv => BufferTypeOK
  BY DEF BufferInv
<1> QED
  BY <1>1, BufferInvHolds, PTL

\* While no piece of the text is longer than the first buffer, the room that the writer
\* counts is what is left of the buffer that realloc gave it (checkOutputBufferSize), and
\* the assertion of writeNext fails only where a character is written without asking for
\* room, the comma between two members of an object (writeObject).
THEOREM RoomIsExactAlways ==
    ASSUME BufferAssumption
    PROVE  Writer => []RoomIsExact
<1>1. BufferInv => RoomIsExact
  BY DEF BufferInv, RoomIsExact
<1> QED
  BY <1>1, BufferInvHolds, PTL
=============================================================================
