-------------------------- MODULE AirVantageProofs --------------------------
(***************************************************************************)
(* Theorems about AirVantage, for every set of fields, size of the buffer   *)
(* and of a response, and number of writes and handlers: the buffer keeps   *)
(* its size, no handler outlives the session it was asked for in, and the   *)
(* microcontroller reads whole updates in the order of their versions.      *)
(***************************************************************************)
EXTENDS AirVantage, SequenceTheorems, WellFoundedInduction, TLAPS

\* A set of versions that is not empty has a highest one.
LEMMA Highest ==
    ASSUME NEW S \in SUBSET Versions, S # {}
    PROVE  \E v \in S : \A w \in S : v >= w
<1> DEFINE Below == {MaxVersion - v : v \in S}
           R == OpToRel(<, Nat)
<1>1. MaxVersion \in Nat /\ \A v \in S : v \in Nat /\ v <= MaxVersion
  BY BoundsAssumption DEF Versions
<1>2. Below \subseteq Nat /\ Below # {}
  BY <1>1
<1>3. IsWellFoundedOn(R, Nat)
  BY NatLessThanWellFounded
<1>4. PICK b \in Below : \A c \in Below : ~(<<c, b>> \in R)
  <2> HIDE DEF Below, R
  <2> QED
  BY <1>2, <1>3, WFMin
<1>5. PICK v \in S : b = MaxVersion - v
  BY <1>4
<1>6. \A c \in Below : ~(c < b)
  BY <1>2, <1>4 DEF OpToRel
<1>7. \A w \in S : v >= w
  BY <1>1, <1>5, <1>6
<1> QED
  BY <1>5, <1>7

LEMMA UnitType ==
    ASSUME NEW f \in Fields, NEW v \in Versions, NEW p \in {"begin", "end"}
    PROVE  /\ Unit(f, v, p) \in Units
           /\ Unit(f, v, p).field = f /\ Unit(f, v, p).version = v /\ Unit(f, v, p).part = p
BY DEF Unit, Units

\* The buffer with the text of an update.
LEMMA AppendedType ==
    ASSUME TypeOK, NEW f \in Fields
    PROVE  /\ rxBuffer \o Update(f) \in Seq(Units)
           /\ Len(rxBuffer) \in Nat
           /\ Len(rxBuffer \o Update(f)) = Len(rxBuffer) + 2
           /\ Len(Update(f)) = 2
           /\ \A k \in 1..Len(rxBuffer) : (rxBuffer \o Update(f))[k] = rxBuffer[k]
           /\ (rxBuffer \o Update(f))[Len(rxBuffer) + 1] = Unit(f, value[f], "begin")
           /\ (rxBuffer \o Update(f))[Len(rxBuffer) + 2] = Unit(f, value[f], "end")
<1>1. value[f] \in Versions /\ rxBuffer \in Seq(Units) /\ Len(rxBuffer) \in Nat
  BY LenProperties DEF TypeOK
<1>2. Update(f) \in Seq(Units) /\ Len(Update(f)) = 2
      /\ Update(f)[1] = Unit(f, value[f], "begin") /\ Update(f)[2] = Unit(f, value[f], "end")
  BY <1>1, UnitType DEF Update
<1>3. /\ rxBuffer \o Update(f) \in Seq(Units)
      /\ Len(rxBuffer \o Update(f)) = Len(rxBuffer) + 2
      /\ \A k \in 1..Len(rxBuffer) + 2 :
            (rxBuffer \o Update(f))[k] = IF k <= Len(rxBuffer) THEN rxBuffer[k]
                                         ELSE Update(f)[k - Len(rxBuffer)]
  <2>1. \A u \in Seq(Units) : Len(u) = 2 =>
          /\ rxBuffer \o u \in Seq(Units)
          /\ Len(rxBuffer \o u) = Len(rxBuffer) + 2
          /\ \A k \in 1..Len(rxBuffer) + 2 :
                (rxBuffer \o u)[k] = IF k <= Len(rxBuffer) THEN rxBuffer[k] ELSE u[k - Len(rxBuffer)]
    <3>1. ASSUME NEW u \in Seq(Units)
          PROVE  /\ rxBuffer \o u \in Seq(Units)
                 /\ Len(rxBuffer \o u) = Len(rxBuffer) + Len(u)
                 /\ \A k \in 1..Len(rxBuffer) + Len(u) :
                       (rxBuffer \o u)[k] = IF k <= Len(rxBuffer) THEN rxBuffer[k]
                                            ELSE u[k - Len(rxBuffer)]
      BY <1>1, ConcatProperties
    <3> QED
      BY <3>1
  <2> QED
    BY <1>2, <2>1
<1>4. \A k \in 1..Len(rxBuffer) : (rxBuffer \o Update(f))[k] = rxBuffer[k]
  BY <1>1, <1>3
<1>5. (rxBuffer \o Update(f))[Len(rxBuffer) + 1] = Update(f)[1]
  <2>1. Len(rxBuffer) + 1 \in 1..Len(rxBuffer) + 2 /\ ~(Len(rxBuffer) + 1 <= Len(rxBuffer))
        /\ Len(rxBuffer) + 1 - Len(rxBuffer) = 1
    BY <1>1
  <2> QED
    BY <1>3, <2>1
<1>6. (rxBuffer \o Update(f))[Len(rxBuffer) + 2] = Update(f)[2]
  <2>1. Len(rxBuffer) + 2 \in 1..Len(rxBuffer) + 2 /\ ~(Len(rxBuffer) + 2 <= Len(rxBuffer))
        /\ Len(rxBuffer) + 2 - Len(rxBuffer) = 2
    BY <1>1
  <2> QED
    BY <1>3, <2>1
<1> QED
  BY <1>1, <1>2, <1>3, <1>4, <1>5, <1>6

\* What RECV takes and what it leaves.
LEMMA TakenType ==
    ASSUME TypeOK
    PROVE  /\ Taken \in Nat /\ Len(rxBuffer) \in Nat /\ Taken <= Len(rxBuffer)
           /\ SubSeq(rxBuffer, Taken + 1, Len(rxBuffer)) \in Seq(Units)
           /\ Len(SubSeq(rxBuffer, Taken + 1, Len(rxBuffer))) = Len(rxBuffer) - Taken
           /\ \A k \in 1..Len(rxBuffer) - Taken :
                 SubSeq(rxBuffer, Taken + 1, Len(rxBuffer))[k] = rxBuffer[k + Taken]
<1>1. rxBuffer \in Seq(Units) /\ Len(rxBuffer) \in Nat
  BY LenProperties DEF TypeOK
<1>2. Taken \in Nat /\ Taken <= Len(rxBuffer)
  BY <1>1, SizesAssumption DEF Taken
<1>3. \A i \in Taken + 1..Len(rxBuffer) : rxBuffer[i] \in Units
  BY <1>1, <1>2, ElementOfSeq
<1>4. /\ SubSeq(rxBuffer, Taken + 1, Len(rxBuffer)) \in Seq(Units)
      /\ Len(SubSeq(rxBuffer, Taken + 1, Len(rxBuffer)))
            = IF Taken + 1 <= Len(rxBuffer) THEN Len(rxBuffer) - (Taken + 1) + 1 ELSE 0
      /\ \A i \in 1..Len(rxBuffer) - (Taken + 1) + 1 :
            SubSeq(rxBuffer, Taken + 1, Len(rxBuffer))[i] = rxBuffer[Taken + 1 + i - 1]
  BY <1>1, <1>2, <1>3, SubSeqProperties
<1>5. ASSUME NEW k \in 1..Len(rxBuffer) - Taken
      PROVE  SubSeq(rxBuffer, Taken + 1, Len(rxBuffer))[k] = rxBuffer[k + Taken]
  <2>1. k \in 1..Len(rxBuffer) - (Taken + 1) + 1 /\ Taken + 1 + k - 1 = k + Taken
    BY <1>1, <1>2
  <2> QED
    BY <1>4, <2>1
<1> QED
  BY <1>1, <1>2, <1>4, <1>5

\* The updates RECV takes of a field.
LEMMA EndedType ==
    ASSUME TypeOK, NEW f \in Fields
    PROVE  /\ Ended(f) \in SUBSET Versions
           /\ \A v \in Ended(f) : \E j \in 1..Taken :
                 rxBuffer[j].field = f /\ rxBuffer[j].part = "end" /\ rxBuffer[j].version = v
<1>1. \A j \in 1..Taken : rxBuffer[j] \in Units
  BY TakenType, ElementOfSeq DEF TypeOK
<1>2. Ended(f) \in SUBSET Versions
  BY <1>1 DEF Ended, Units
<1> QED
  BY <1>2 DEF Ended

\* What the microcontroller has read of a field after RECV.
LEMMA SeenAfter ==
    ASSUME TypeOK, recv, ~unheard, NEW f \in Fields
    PROVE  /\ Ended(f) = {} => seen'[f] = seen[f]
           /\ Ended(f) # {} => seen'[f] \in Ended(f)
           /\ seen'[f] \in Versions
<1>1. seen' = [g \in Fields |->
          IF Ended(g) = {} THEN seen[g] ELSE CHOOSE v \in Ended(g) : \A w \in Ended(g) : v >= w]
  BY DEF recv
<1>2. CASE Ended(f) = {}
  BY <1>1, <1>2 DEF TypeOK
<1>3. CASE Ended(f) # {}
  <2>1. seen'[f] = CHOOSE v \in Ended(f) : \A w \in Ended(f) : v >= w
    BY <1>1, <1>3
  <2>2. Ended(f) \in SUBSET Versions
    BY EndedType
  <2>3. seen'[f] \in Ended(f)
    BY <1>3, <2>1, <2>2, Highest
  <2> QED
    BY <1>3, <2>2, <2>3
<1> QED
  BY <1>2, <1>3

-----------------------------------------------------------------------------
\* The map of the bridge has every handler the data router has, and the router
\* notifies of nothing else; handlers are of fields asked for.
Handlers ==
    \A f \in Fields : /\ dataUpdateHandlers[f] = registered[f]
                      /\ registered[f] # 0 => f \in asked
                      /\ pending[f] # 0 => registered[f] # 0

\* The handlers after one was perhaps added, field by field.
LEMMA HandledField ==
    ASSUME TypeOK, Handlers, NEW f \in Fields, handled(f), NEW g \in Fields
    PROVE  /\ registered[g] \in Nat /\ registered'[g] \in 0..MaxHandlers
           /\ registered[g] # 0 => registered'[g] # 0
           /\ dataUpdateHandlers'[g] = registered'[g]
           /\ registered'[g] # 0 => g \in asked'
<1>1. registered[g] \in 0..MaxHandlers /\ dataUpdateHandlers[g] = registered[g]
      /\ (registered[g] # 0 => g \in asked)
  BY DEF TypeOK, Handlers
<1>2. CASE UNCHANGED <<registered, dataUpdateHandlers, asked>>
  BY <1>1, <1>2, BoundsAssumption
<1>3. CASE /\ registered[f] < MaxHandlers
           /\ registered' = [registered EXCEPT ![f] = @ + 1]
           /\ dataUpdateHandlers' = [dataUpdateHandlers EXCEPT ![f] = @ + 1]
           /\ asked' = asked \cup {f}
  <2>1. registered'[g] = IF g = f THEN registered[g] + 1 ELSE registered[g]
    BY <1>3 DEF TypeOK
  <2>2. dataUpdateHandlers'[g] = IF g = f THEN dataUpdateHandlers[g] + 1 ELSE dataUpdateHandlers[g]
    BY <1>3 DEF TypeOK
  <2>3. CASE g = f
    BY <1>1, <1>3, <2>1, <2>2, <2>3, BoundsAssumption
  <2>4. CASE g # f
    BY <1>1, <1>3, <2>1, <2>2, <2>4, BoundsAssumption
  <2> QED
    BY <2>3, <2>4
<1> QED
  BY <1>2, <1>3 DEF handled, mapped

LEMMA HandledType ==
    ASSUME TypeOK, Handlers, NEW f \in Fields, handled(f)
    PROVE  /\ registered' \in [Fields -> 0..MaxHandlers]
           /\ dataUpdateHandlers' \in [Fields -> 0..MaxHandlers]
           /\ asked' \subseteq Fields
<1>1. \A g \in Fields : registered'[g] \in 0..MaxHandlers
                        /\ dataUpdateHandlers'[g] \in 0..MaxHandlers
  BY HandledField
<1>2. registered' = [g \in Fields |-> registered'[g]]
      /\ dataUpdateHandlers' = [g \in Fields |-> dataUpdateHandlers'[g]] /\ asked' \subseteq Fields
  BY DEF TypeOK, handled, mapped
<1> QED
  BY <1>1, <1>2

\* What a write changes, field by field.
LEMMA WritesField ==
    ASSUME TypeOK, NEW f \in Fields, writes(f), NEW g \in Fields
    PROVE  /\ value[g] \in Nat /\ value'[g] \in Versions /\ value'[g] >= value[g]
           /\ pending'[g] \in Nat
           /\ pending'[g] # 0 => pending[g] # 0 \/ registered[g] # 0
<1>1. /\ value[g] \in 0..MaxVersion /\ registered[g] \in Nat /\ pending[g] \in Nat
      /\ value[f] < MaxVersion
  BY BoundsAssumption DEF TypeOK, Versions, writes
<1>2. value'[g] = IF g = f THEN value[g] + 1 ELSE value[g]
  BY DEF TypeOK, writes
<1>3. pending'[g] = IF g = f THEN pending[g] + registered[g] ELSE pending[g]
  BY DEF TypeOK, writes
<1> QED
  BY <1>1, <1>2, <1>3, BoundsAssumption DEF Versions

LEMMA WritesType ==
    ASSUME TypeOK, NEW f \in Fields, writes(f)
    PROVE  value' \in [Fields -> Versions] /\ pending' \in [Fields -> Nat]
<1>1. \A g \in Fields : value'[g] \in Versions /\ pending'[g] \in Nat
  BY WritesField
<1>2. value' = [g \in Fields |-> value'[g]] /\ pending' = [g \in Fields |-> pending'[g]]
  BY DEF TypeOK, writes
<1> QED
  BY <1>1, <1>2

LEMMA InitHolds == Init => TypeOK /\ Handlers
<1>1. Init => TypeOK
  <2>1. SUFFICES ASSUME Init
                 PROVE  TypeOK
    OBVIOUS
  <2>2. unheard \in BOOLEAN
    BY <2>1 DEF Init
  <2>3. /\ value \in [Fields -> Versions] /\ seen \in [Fields -> Versions] /\ lost \in [Fields -> Versions]
        /\ registered \in [Fields -> 0..MaxHandlers] /\ pending \in [Fields -> Nat]
        /\ dataUpdateHandlers \in [Fields -> 0..MaxHandlers]
    BY <2>1, BoundsAssumption DEF Init, Versions
  <2>4. /\ rxBuffer \in Seq(Units) /\ Len(rxBuffer) <= RxSize /\ left \in 0..Len(rxBuffer)
        /\ partial \in Seq(Units) /\ asked \subseteq Fields
    BY <2>1, SizesAssumption DEF Init
  <2> QED
    BY <2>2, <2>3, <2>4 DEF TypeOK
<1>2. Init => Handlers
  BY DEF Init, Handlers
<1> QED
  BY <1>1, <1>2

LEMMA NextHolds ==
    ASSUME TypeOK, Handlers, [Next]_vars
    PROVE  TypeOK' /\ Handlers'
<1>1. ASSUME NEW f \in Fields, remoteWrite(f)
      PROVE  TypeOK' /\ Handlers'
  <2>1. writes(f) /\ UNCHANGED <<registered, dataUpdateHandlers, rxBuffer, partial, seen, lost, asked, left, unheard>>
    BY <1>1 DEF remoteWrite, history
  <2>2. TypeOK'
    BY <2>1, WritesType DEF TypeOK
  <2>3. ASSUME NEW g \in Fields
        PROVE  /\ dataUpdateHandlers'[g] = registered'[g]
               /\ registered'[g] # 0 => g \in asked'
               /\ pending'[g] # 0 => registered'[g] # 0
    <3>1. pending'[g] # 0 => pending[g] # 0 \/ registered[g] # 0
      BY <2>1, WritesField
    <3> QED
      BY <2>1, <3>1 DEF Handlers
  <2>4. Handlers'
    BY <2>3 DEF Handlers
  <2> QED
    BY <2>2, <2>4
<1>2. ASSUME NEW f \in Fields, subscribe(f)
      PROVE  TypeOK' /\ Handlers'
  <2>1. handled(f) /\ UNCHANGED <<value, pending, rxBuffer, partial, seen, lost, left, unheard>>
    BY <1>2 DEF subscribe
  <2>2. TypeOK'
    BY <2>1, HandledType DEF TypeOK
  <2>3. ASSUME NEW g \in Fields
        PROVE  /\ dataUpdateHandlers'[g] = registered'[g]
               /\ registered'[g] # 0 => g \in asked'
               /\ pending'[g] # 0 => registered'[g] # 0
    <3>1. (pending[g] # 0 => registered[g] # 0) /\ pending'[g] = pending[g]
      BY <2>1 DEF Handlers
    <3> QED
      BY <2>1, <3>1, HandledField
  <2>4. Handlers'
    BY <2>3 DEF Handlers
  <2> QED
    BY <2>2, <2>4
<1>3. ASSUME NEW f \in Fields, push(f)
      PROVE  TypeOK' /\ Handlers'
  <2>1. writes(f) /\ handled(f) /\ UNCHANGED <<rxBuffer, partial, seen, lost, left, unheard>>
    BY <1>3 DEF push
  <2>2. TypeOK'
    BY <2>1, HandledType, WritesType DEF TypeOK
  <2>3. ASSUME NEW g \in Fields
        PROVE  /\ dataUpdateHandlers'[g] = registered'[g]
               /\ registered'[g] # 0 => g \in asked'
               /\ pending'[g] # 0 => registered'[g] # 0
    <3>1. pending'[g] # 0 => pending[g] # 0 \/ registered[g] # 0
      BY <2>1, WritesField
    <3>2. pending[g] # 0 => registered[g] # 0
      BY DEF Handlers
    <3> QED
      BY <2>1, <3>1, <3>2, HandledField
  <2>4. Handlers'
    BY <2>3 DEF Handlers
  <2> QED
    BY <2>2, <2>4
<1>4. ASSUME NEW f \in Fields, dataUpdateHdlr(f)
      PROVE  TypeOK' /\ Handlers'
  <2>1. /\ pending[f] > 0 /\ pending' = [pending EXCEPT ![f] = @ - 1] /\ appended(f)
        /\ UNCHANGED <<value, registered, dataUpdateHandlers, partial, seen, asked, left, unheard>>
    BY <1>4 DEF dataUpdateHdlr
  <2>2. pending' \in [Fields -> Nat] /\ \A g \in Fields : pending'[g] # 0 => pending[g] # 0
    BY <2>1 DEF TypeOK
  <2>3. Handlers'
    BY <2>1, <2>2 DEF Handlers
  <2>4. /\ rxBuffer' \in Seq(Units) /\ Len(rxBuffer') <= RxSize /\ Len(rxBuffer') >= Len(rxBuffer)
        /\ lost' \in [Fields -> Versions] /\ Len(rxBuffer') \in Nat /\ Len(rxBuffer) \in Nat
    <3>1. CASE Fits(Update(f))
      <4>1. rxBuffer' = rxBuffer \o Update(f) /\ lost' = lost
        BY <2>1, <3>1 DEF appended
      <4>2. Len(rxBuffer) \in Nat
        BY LenProperties DEF TypeOK
      <4>3. rxBuffer' \in Seq(Units) /\ Len(rxBuffer') = Len(rxBuffer) + 2
        BY <4>1, AppendedType
      <4>4. Len(rxBuffer') <= RxSize
        BY <3>1, <4>3, AppendedType DEF Fits
      <4> QED
        BY <4>1, <4>2, <4>3, <4>4 DEF TypeOK
    <3>2. CASE ~Fits(Update(f))
      <4>1. rxBuffer' = rxBuffer /\ lost' = [lost EXCEPT ![f] = value[f]]
        BY <2>1, <3>2 DEF appended
      <4>2. rxBuffer \in Seq(Units) /\ Len(rxBuffer) \in Nat /\ Len(rxBuffer) <= RxSize
        BY LenProperties DEF TypeOK
      <4> QED
        BY <4>1, <4>2 DEF TypeOK
    <3> QED
      BY <3>1, <3>2
  <2>5. left' \in 0..Len(rxBuffer')
    BY <2>1, <2>4 DEF TypeOK
  <2> QED
    BY <2>1, <2>2, <2>3, <2>4, <2>5 DEF TypeOK
<1>5. CASE recv \/ recvUnanswered
  <2>1. takes /\ rxBuffer' = SubSeq(rxBuffer, Taken + 1, Len(rxBuffer))
        /\ UNCHANGED <<value, registered, pending, dataUpdateHandlers, lost, asked>>
    BY <1>5 DEF recv, recvUnanswered, takes, router
  <2>2. rxBuffer' \in Seq(Units) /\ Len(rxBuffer') = Len(rxBuffer) - Taken
    BY <2>1, TakenType
  <2>3. left' \in 0..Len(rxBuffer') /\ Len(rxBuffer') <= RxSize
    <3>1. Len(rxBuffer) <= RxSize /\ left \in 0..Len(rxBuffer)
      BY DEF TypeOK
    <3>2. left' = IF left > Taken THEN left - Taken ELSE 0
      BY <2>1 DEF takes
    <3>3. Taken \in Nat /\ Len(rxBuffer) \in Nat /\ Taken <= Len(rxBuffer)
      BY TakenType
    <3> QED
      BY <2>2, <3>1, <3>2, <3>3, SizesAssumption
  <2>4. partial' \in Seq(Units)
    <3>1. Taken # 0 => rxBuffer[Taken] \in Units
      BY TakenType, ElementOfSeq DEF TypeOK
    <3>2. Taken # 0 => <<rxBuffer[Taken]>> \in Seq(Units)
      BY <3>1
    <3>3. <<>> \in Seq(Units)
      BY EmptySeq
    <3> QED
      BY <1>5, <3>2, <3>3 DEF recv, recvUnanswered, TypeOK
  <2>5. seen' \in [Fields -> Versions]
    <3>1. CASE recv /\ ~unheard
      <4>1. \A f \in Fields : seen'[f] \in Versions
        BY <3>1, SeenAfter
      <4>2. seen' = [f \in Fields |->
                IF Ended(f) = {} THEN seen[f] ELSE CHOOSE v \in Ended(f) : \A w \in Ended(f) : v >= w]
        <5>1. recv /\ ~unheard
          BY <3>1
        <5> QED
          BY <5>1 DEF recv
      <4> QED
        BY <4>1, <4>2
    <3>2. CASE recv /\ unheard
      BY <3>2 DEF recv, TypeOK
    <3>3. CASE recvUnanswered
      BY <3>3, BoundsAssumption DEF recvUnanswered, Versions
    <3> QED
      BY <1>5, <3>1, <3>2, <3>3
  <2>6. Handlers'
    BY <2>1 DEF Handlers
  <2>7. unheard' \in BOOLEAN
    BY <1>5 DEF recv, recvUnanswered, TypeOK
  <2> QED
    BY <2>1, <2>2, <2>3, <2>4, <2>5, <2>6, <2>7 DEF TypeOK
<1>6. CASE sessionEnd
  <2>1. \A f \in Fields : registered[f] - dataUpdateHandlers[f] = 0
    BY BoundsAssumption DEF TypeOK, Handlers
  <2>2. /\ registered' = [f \in Fields |-> 0] /\ dataUpdateHandlers' = [f \in Fields |-> 0]
        /\ pending' = [f \in Fields |-> 0]
    BY <1>6, <2>1 DEF sessionEnd, removedataUpdateHdlrs
  <2>3. left' \in 0..Len(rxBuffer')
    BY <1>6, LenProperties DEF sessionEnd, TypeOK
  <2>4. TypeOK'
    BY <1>6, <2>2, <2>3, BoundsAssumption DEF sessionEnd, TypeOK
  <2>5. Handlers'
    BY <1>6, <2>2 DEF sessionEnd, Handlers
  <2> QED
    BY <2>4, <2>5
<1>7. CASE restart
  <2>1. TypeOK'
    <3>1. unheard' \in BOOLEAN
      BY <1>7 DEF restart
    <3>2. /\ registered' \in [Fields -> 0..MaxHandlers] /\ pending' \in [Fields -> Nat]
          /\ dataUpdateHandlers' \in [Fields -> 0..MaxHandlers]
      BY <1>7, BoundsAssumption DEF restart
    <3>3. /\ rxBuffer' \in Seq(Units) /\ Len(rxBuffer') <= RxSize /\ left' \in 0..Len(rxBuffer')
          /\ partial' \in Seq(Units) /\ asked' \subseteq Fields
      BY <1>7, SizesAssumption DEF restart
    <3>4. UNCHANGED <<value, seen, lost>>
      BY <1>7 DEF restart
    <3> QED
      BY <3>1, <3>2, <3>3, <3>4 DEF TypeOK
  <2>2. Handlers'
    BY <1>7 DEF restart, Handlers
  <2> QED
    BY <2>1, <2>2
<1>8. CASE otherFrame \/ UNCHANGED vars
  BY <1>8 DEF otherFrame, vars, router, history, TypeOK, Handlers
<1> QED
  BY <1>1, <1>2, <1>3, <1>4, <1>5, <1>6, <1>7, <1>8 DEF Next

\* However many updates, sessions and restarts come, the text stays within rxBuffer and
\* the bridge counts the handlers as the data router does (dataUpdateHdlr, recv).
THEOREM TypeCorrect == Spec => []TypeOK
<1>1. TypeOK /\ Handlers /\ [Next]_vars => (TypeOK /\ Handlers)'
  BY NextHolds
<1> QED
  BY <1>1, InitHolds, PTL DEF Spec

-----------------------------------------------------------------------------
\* Text that came in this session is of fields asked for.
Fresh == \A k \in left + 1..Len(rxBuffer) : rxBuffer[k].field \in asked

LEMMA FreshKept ==
    ASSUME TypeOK, Handlers, Fresh, [Next]_vars
    PROVE  Fresh'
<1>1. left \in Nat /\ Len(rxBuffer) \in Nat /\ left <= Len(rxBuffer)
  BY LenProperties DEF TypeOK
<1>2. ASSUME NEW f \in Fields, remoteWrite(f) \/ subscribe(f) \/ push(f)
      PROVE  Fresh'
  <2>1. UNCHANGED <<rxBuffer, left>> /\ asked \subseteq asked'
    BY <1>2 DEF remoteWrite, subscribe, push, handled, history
  <2> QED
    BY <2>1 DEF Fresh
<1>3. ASSUME NEW f \in Fields, dataUpdateHdlr(f)
      PROVE  Fresh'
  <2>1. pending[f] # 0 /\ appended(f) /\ UNCHANGED <<asked, left>>
    BY <1>3 DEF dataUpdateHdlr, TypeOK
  <2>2. f \in asked
    BY <2>1 DEF Handlers
  <2>3. CASE rxBuffer' = rxBuffer
    BY <2>1, <2>3 DEF Fresh
  <2>4. CASE rxBuffer' = rxBuffer \o Update(f)
    <3>1. Len(rxBuffer') = Len(rxBuffer) + 2
      BY <2>4, AppendedType
    <3>2. ASSUME NEW k \in left + 1..Len(rxBuffer) + 2
          PROVE  rxBuffer'[k].field \in asked
      <4>1. k \in Nat /\ k \in 1..Len(rxBuffer) + 2 /\ left + 1 <= k
        BY <1>1, <3>2
      <4>2. CASE k <= Len(rxBuffer)
        <5>1. rxBuffer'[k] = rxBuffer[k] /\ k \in left + 1..Len(rxBuffer)
          <6>1. k \in 1..Len(rxBuffer) /\ k \in left + 1..Len(rxBuffer)
            BY <1>1, <4>1, <4>2
          <6> QED
            BY <2>4, <6>1, AppendedType
        <5> QED
          BY <5>1 DEF Fresh
      <4>3. CASE ~(k <= Len(rxBuffer))
        <5>1. k = Len(rxBuffer) + 1 \/ k = Len(rxBuffer) + 2
          BY <1>1, <4>1, <4>3
        <5>2. \A v, p : Unit(f, v, p).field = f
          BY DEF Unit
        <5>3. rxBuffer'[Len(rxBuffer) + 1].field = f /\ rxBuffer'[Len(rxBuffer) + 2].field = f
          BY <2>4, <5>2, AppendedType
        <5> QED
          BY <2>2, <5>1, <5>3
      <4> QED
        BY <4>2, <4>3
    <3> QED
      BY <2>1, <3>1, <3>2 DEF Fresh
  <2> QED
    BY <2>1, <2>3, <2>4 DEF appended
<1>4. CASE recv \/ recvUnanswered
  <2>1. /\ rxBuffer' = SubSeq(rxBuffer, Taken + 1, Len(rxBuffer)) /\ asked' = asked
        /\ left' = IF left > Taken THEN left - Taken ELSE 0
    BY <1>4 DEF recv, recvUnanswered, takes
  <2>2. Len(rxBuffer') = Len(rxBuffer) - Taken /\ Taken \in Nat
    BY <2>1, TakenType
  <2>3. ASSUME NEW k \in left' + 1..Len(rxBuffer')
        PROVE  rxBuffer'[k].field \in asked
    <3>1. k \in 1..Len(rxBuffer) - Taken /\ k + Taken \in left + 1..Len(rxBuffer)
      BY <1>1, <2>1, <2>2, <2>3
    <3>2. rxBuffer'[k] = rxBuffer[k + Taken]
      BY <2>1, <3>1, TakenType
    <3> QED
      BY <3>1, <3>2 DEF Fresh
  <2> QED
    BY <2>1, <2>3 DEF Fresh
<1>5. CASE sessionEnd \/ restart
  <2>1. left' = Len(rxBuffer')
    BY <1>5, EmptySeq DEF sessionEnd, restart
  <2>2. Len(rxBuffer') \in Nat
    BY <1>1, <1>5, EmptySeq DEF sessionEnd, restart
  <2>3. left' + 1..Len(rxBuffer') = {}
    BY <2>1, <2>2
  <2> QED
    BY <2>3 DEF Fresh
<1>6. CASE otherFrame \/ UNCHANGED vars
  BY <1>6 DEF otherFrame, vars, history, Fresh
<1> QED
  BY <1>2, <1>3, <1>4, <1>5, <1>6 DEF Next

\* SESSION END and RESET leave no handler in the data router, also not of a field that
\* was added twice, so every update that comes is of a field asked for in this session
\* (removedataUpdateHdlrs, dataUpdateHdlr).
THEOREM NoHandlerOutlives == Spec => []OnlyAsked
<1>1. Init => Fresh
  BY EmptySeq DEF Init, Fresh
<1>2. TypeOK /\ Handlers /\ Fresh /\ [Next]_vars => (TypeOK /\ Handlers /\ Fresh)'
  BY NextHolds, FreshKept
<1>3. TypeOK /\ Handlers /\ Fresh => OnlyAsked
  <2>1. SUFFICES ASSUME TypeOK, Handlers, Fresh
                 PROVE  OnlyAsked
    OBVIOUS
  <2>2. \A f \in Fields : registered[f] > 0 => f \in asked
    BY <2>1, BoundsAssumption DEF TypeOK, Handlers
  <2> QED
    BY <2>1, <2>2 DEF Fresh, OnlyAsked
<1> QED
  BY <1>1, <1>2, <1>3, InitHolds, PTL DEF Spec

-----------------------------------------------------------------------------
\* What the microcontroller is still to read, with what it has of an update.
Stream == partial \o rxBuffer

\* Updates one after the other, each from its begin to its end.
Whole(s) ==
    /\ Len(s) % 2 = 0
    /\ \A k \in 1..Len(s) : (s[k].part = "begin") <=> (k % 2 = 1)
    /\ \A k \in 1..Len(s) : k % 2 = 1 => s[k + 1] = [s[k] EXCEPT !.part = "end"]

\* Versions of a field do not decrease, from the one read last to the one written last.
Ordered(s, low, high) ==
    /\ \A k \in 1..Len(s) : low[s[k].field] <= s[k].version /\ s[k].version <= high[s[k].field]
    /\ \A j, k \in 1..Len(s) : j < k /\ s[j].field = s[k].field => s[j].version <= s[k].version

Reading ==
    /\ Len(partial) \in {0, 1}
    /\ \A f \in Fields : seen[f] <= value[f]
    /\ Whole(Stream)
    /\ Ordered(Stream, seen, value)

LEMMA Joined ==
    ASSUME NEW p \in Seq(Units), NEW r \in Seq(Units)
    PROVE  /\ p \o r \in Seq(Units)
           /\ Len(p) \in Nat /\ Len(r) \in Nat
           /\ Len(p \o r) = Len(p) + Len(r)
           /\ \A k \in 1..Len(p) : (p \o r)[k] = p[k]
           /\ \A k \in 1..Len(r) : (p \o r)[Len(p) + k] = r[k]
<1>1. Len(p) \in Nat /\ Len(r) \in Nat
  BY LenProperties
<1>2. /\ p \o r \in Seq(Units) /\ Len(p \o r) = Len(p) + Len(r)
      /\ \A k \in 1..Len(p) + Len(r) :
            (p \o r)[k] = IF k <= Len(p) THEN p[k] ELSE r[k - Len(p)]
  BY ConcatProperties
<1>3. ASSUME NEW k \in 1..Len(r)
      PROVE  (p \o r)[Len(p) + k] = r[k]
  <2>1. /\ Len(p) + k \in 1..Len(p) + Len(r)
        /\ ~(Len(p) + k <= Len(p)) /\ Len(p) + k - Len(p) = k
    BY <1>1
  <2> QED
    BY <1>2, <2>1
<1>4. \A k \in 1..Len(p) : (p \o r)[k] = p[k]
  BY <1>1, <1>2
<1> QED
  BY <1>1, <1>2, <1>3, <1>4

LEMMA ParityPlus ==
    ASSUME NEW n \in Nat, NEW m \in Nat, m % 2 = 0
    PROVE  (n + m) % 2 = n % 2
OBVIOUS

LEMMA ParityMinus ==
    ASSUME NEW n \in Nat, NEW m \in Nat, m % 2 = 0, n % 2 = 0
    PROVE  (n - m) % 2 = 0
OBVIOUS

LEMMA OddBelow ==
    ASSUME NEW n \in Nat, NEW m \in Nat, m % 2 = 0, n % 2 = 1, n <= m
    PROVE  n + 1 <= m
OBVIOUS

LEMMA OddMinus ==
    ASSUME NEW n \in Nat, n % 2 = 1
    PROVE  n - 1 \in Nat /\ (n - 1) % 2 = 0
OBVIOUS

LEMMA NotOdd ==
    ASSUME NEW n \in Nat, n % 2 # 1
    PROVE  n % 2 = 0
OBVIOUS

\* What is left when an even number of units is taken from the front.
LEMMA WholeSuffix ==
    ASSUME NEW s \in Seq(Units), NEW t \in Seq(Units), NEW m \in Nat, m % 2 = 0, Whole(s),
           Len(t) = Len(s) - m, \A k \in 1..Len(t) : t[k] = s[k + m]
    PROVE  Whole(t)
<1>1. Len(s) \in Nat /\ Len(t) \in Nat /\ m \in Nat
  BY LenProperties
<1>2. Len(t) % 2 = 0
  <2>1. Len(s) % 2 = 0
    BY DEF Whole
  <2> QED
    BY <1>1, <2>1, ParityMinus
<1>3. ASSUME NEW k \in 1..Len(t)
      PROVE  /\ k + m \in 1..Len(s) /\ (k + m) % 2 = k % 2
             /\ k % 2 = 1 => k + 1 \in 1..Len(t) /\ k + 1 + m = k + m + 1
  <2>1. k \in Nat /\ k + m \in 1..Len(s) /\ k + 1 + m = k + m + 1
    BY <1>1
  <2>2. (k + m) % 2 = k % 2
    BY <2>1, ParityPlus
  <2>3. k % 2 = 1 => k + 1 \in 1..Len(t)
    <3>1. k \in Nat /\ k <= Len(t)
      BY <1>1
    <3>2. k % 2 = 1 => k + 1 <= Len(t)
      BY <1>1, <1>2, <3>1, OddBelow
    <3> QED
      BY <1>1, <3>1, <3>2
  <2> QED
    BY <2>1, <2>2, <2>3
<1>4. ASSUME NEW k \in 1..Len(t)
      PROVE  (t[k].part = "begin") <=> (k % 2 = 1)
  <2>1. t[k] = s[k + m] /\ k + m \in 1..Len(s) /\ (k + m) % 2 = k % 2
    BY <1>3
  <2>2. (s[k + m].part = "begin") <=> ((k + m) % 2 = 1)
    BY <2>1 DEF Whole
  <2> QED
    BY <2>1, <2>2
<1>5. ASSUME NEW k \in 1..Len(t), k % 2 = 1
      PROVE  t[k + 1] = [t[k] EXCEPT !.part = "end"]
  <2>1. t[k] = s[k + m] /\ t[k + 1] = s[k + m + 1]
    <3>1. k + 1 \in 1..Len(t) /\ k + 1 + m = k + m + 1
      BY <1>3, <1>5
    <3>2. t[k + 1] = s[k + 1 + m]
      BY <3>1
    <3> QED
      BY <3>1, <3>2
  <2>2. k + m \in 1..Len(s) /\ (k + m) % 2 = 1
    BY <1>3, <1>5
  <2> QED
    BY <2>1, <2>2 DEF Whole
<1> QED
  BY <1>2, <1>4, <1>5 DEF Whole

LEMMA OrderedSuffix ==
    ASSUME NEW s \in Seq(Units), NEW t \in Seq(Units), NEW m \in Nat, NEW low, NEW rest, NEW high,
           Ordered(s, low, high), Len(t) = Len(s) - m, \A k \in 1..Len(t) : t[k] = s[k + m],
           \A k \in m + 1..Len(s) : rest[s[k].field] <= s[k].version
    PROVE  Ordered(t, rest, high)
<1>1. Len(s) \in Nat /\ Len(t) \in Nat /\ m \in Nat
  BY LenProperties
<1>2. \A k \in 1..Len(t) : k + m \in 1..Len(s) /\ k + m \in m + 1..Len(s)
  BY <1>1
<1>3. ASSUME NEW k \in 1..Len(t)
      PROVE  rest[t[k].field] <= t[k].version /\ t[k].version <= high[t[k].field]
  BY <1>2 DEF Ordered
<1>4. ASSUME NEW j \in 1..Len(t), NEW k \in 1..Len(t), j < k, t[j].field = t[k].field
      PROVE  t[j].version <= t[k].version
  <2>1. j + m < k + m /\ j + m \in 1..Len(s) /\ k + m \in 1..Len(s)
    BY <1>1, <1>2, <1>4
  <2> QED
    BY <1>4, <2>1 DEF Ordered
<1> QED
  BY <1>3, <1>4 DEF Ordered

\* An update of the version written last at the end.
LEMMA Extended ==
    ASSUME NEW s \in Seq(Units), NEW t \in Seq(Units), NEW low, NEW high,
           NEW f \in Fields, NEW v \in Versions, low[f] <= v, high[f] = v,
           Len(t) = Len(s) + 2, \A k \in 1..Len(s) : t[k] = s[k],
           t[Len(s) + 1] = Unit(f, v, "begin"), t[Len(s) + 2] = Unit(f, v, "end"),
           Whole(s), Ordered(s, low, high)
    PROVE  Whole(t) /\ Ordered(t, low, high)
<1>1. Len(s) \in Nat /\ Len(s) % 2 = 0 /\ v \in Nat
  BY LenProperties DEF Whole, Versions
<1>2. /\ t[Len(s) + 1].field = f /\ t[Len(s) + 1].version = v /\ t[Len(s) + 1].part = "begin"
      /\ t[Len(s) + 2].field = f /\ t[Len(s) + 2].version = v /\ t[Len(s) + 2].part = "end"
      /\ t[Len(s) + 2] = [t[Len(s) + 1] EXCEPT !.part = "end"]
  BY DEF Unit
<1>3. \A k \in 1..Len(t) : k \in 1..Len(s) \/ k = Len(s) + 1 \/ k = Len(s) + 2
  BY <1>1
<1>4. Len(t) % 2 = 0 /\ (Len(s) + 1) % 2 = 1 /\ (Len(s) + 2) % 2 = 0
  BY <1>1
<1>5. ASSUME NEW k \in 1..Len(t)
      PROVE  /\ (t[k].part = "begin") <=> (k % 2 = 1)
             /\ k % 2 = 1 => t[k + 1] = [t[k] EXCEPT !.part = "end"]
  <2>1. CASE k \in 1..Len(s)
    <3>1. t[k] = s[k] /\ (k % 2 = 1 => k + 1 \in 1..Len(s))
      BY <1>1, <2>1
    <3> QED
      BY <2>1, <3>1 DEF Whole
  <2>2. CASE k = Len(s) + 1
    <3>1. k + 1 = Len(s) + 2
      BY <1>1, <2>2
    <3> QED
      BY <1>2, <1>4, <2>2, <3>1
  <2>3. CASE k = Len(s) + 2
    BY <1>2, <1>4, <2>3
  <2> QED
    BY <1>3, <2>1, <2>2, <2>3
<1>6. ASSUME NEW k \in 1..Len(t)
      PROVE  low[t[k].field] <= t[k].version /\ t[k].version <= high[t[k].field]
  <2>1. CASE k \in 1..Len(s)
    BY <2>1 DEF Ordered
  <2>2. CASE k \notin 1..Len(s)
    BY <1>1, <1>2, <1>3, <2>2
  <2> QED
    BY <2>1, <2>2
<1>7. ASSUME NEW j \in 1..Len(t), NEW k \in 1..Len(t), j < k, t[j].field = t[k].field
      PROVE  t[j].version <= t[k].version
  <2>1. CASE k \in 1..Len(s)
    <3>1. j \in 1..Len(s)
      BY <1>1, <1>7, <2>1
    <3> QED
      BY <1>7, <2>1, <3>1 DEF Ordered
  <2>2. CASE k \notin 1..Len(s)
    <3>1. t[k].field = f /\ t[k].version = v
      BY <1>2, <1>3, <2>2
    <3> QED
      BY <1>6, <1>7, <3>1
  <2> QED
    BY <2>1, <2>2
<1> QED
  BY <1>4, <1>5, <1>6, <1>7 DEF Whole, Ordered

\* RECV takes an even number of units from the front of the stream, and every end of an
\* update it returned is among them.
LEMMA RecvTakes ==
    ASSUME TypeOK, Reading, recv, ~unheard, Taken > 0, TypeOK'
    PROVE  \E m \in Nat :
              /\ m % 2 = 0 /\ Len(partial') \in {0, 1}
              /\ Len(Stream') = Len(Stream) - m
              /\ \A k \in 1..Len(Stream') : Stream'[k] = Stream[k + m]
              /\ \A j \in 1..Taken : rxBuffer[j].part = "end" => Len(partial) + j <= m
<1> DEFINE p == Len(partial)
           n == Taken
<1>1. /\ p \in {0, 1} /\ n \in Nat /\ n > 0 /\ Len(rxBuffer) \in Nat /\ n <= Len(rxBuffer)
      /\ Len(Stream) = p + Len(rxBuffer) /\ \A k \in 1..Len(rxBuffer) : Stream[p + k] = rxBuffer[k]
  BY Joined, TakenType DEF Reading, Stream, TypeOK
<1>2. /\ Len(rxBuffer') = Len(rxBuffer) - n
      /\ \A k \in 1..Len(rxBuffer) - n : rxBuffer'[k] = rxBuffer[k + n]
  BY TakenType DEF recv, takes
<1>3. (rxBuffer[n].part = "begin") <=> ((p + n) % 2 = 1)
  <2>1. p + n \in 1..Len(Stream) /\ Stream[p + n] = rxBuffer[n]
    BY <1>1
  <2> QED
    BY <2>1 DEF Reading, Whole
<1>4. /\ Len(Stream') = Len(partial') + Len(rxBuffer') /\ Len(partial') \in Nat
      /\ \A k \in 1..Len(partial') : Stream'[k] = partial'[k]
      /\ \A k \in 1..Len(rxBuffer') : Stream'[Len(partial') + k] = rxBuffer'[k]
  BY Joined DEF Stream, TypeOK
<1>5. CASE rxBuffer[n].part = "begin"
  <2> DEFINE m == (p + n) - 1
  <2>1. partial' = <<rxBuffer[n]>> /\ Len(partial') = 1 /\ partial'[1] = rxBuffer[n]
    BY <1>1, <1>5 DEF recv
  <2>2. m \in Nat /\ m % 2 = 0
    <3>1. p + n \in Nat
      BY <1>1
    <3>2. (p + n) % 2 = 1
      BY <1>3, <1>5
    <3> QED
      BY <3>1, <3>2, OddMinus
  <2>3. Len(Stream') = Len(Stream) - m
    BY <1>1, <1>2, <1>4, <2>1
  <2>4. ASSUME NEW k \in 1..Len(Stream')
        PROVE  Stream'[k] = Stream[k + m]
    <3>1. CASE k = 1
      BY <1>1, <1>4, <2>1, <3>1
    <3>2. CASE k # 1
      <4>1. /\ k - 1 \in 1..Len(rxBuffer') /\ 1 + (k - 1) = k
            /\ k - 1 + n \in 1..Len(rxBuffer) /\ p + (k - 1 + n) = k + m
        BY <1>1, <1>2, <2>3, <3>2
      <4>2. Stream'[k] = rxBuffer'[k - 1] /\ rxBuffer'[k - 1] = rxBuffer[k - 1 + n]
        BY <1>2, <1>4, <2>1, <4>1
      <4> QED
        BY <1>1, <4>1, <4>2
    <3> QED
      BY <3>1, <3>2
  <2>5. ASSUME NEW j \in 1..n, rxBuffer[j].part = "end"
        PROVE  p + j <= m
    <3>1. j # n
      BY <1>5, <2>5
    <3> QED
      BY <1>1, <3>1
  <2> QED
    BY <2>1, <2>2, <2>3, <2>4, <2>5
<1>6. CASE rxBuffer[n].part # "begin"
  <2> DEFINE m == p + n
  <2>1. partial' = <<>> /\ Len(partial') = 0
    BY <1>1, <1>6 DEF recv
  <2>2. m \in Nat /\ m % 2 = 0
    <3>1. p + n \in Nat
      BY <1>1
    <3>2. (p + n) % 2 # 1
      BY <1>3, <1>6
    <3> QED
      BY <3>1, <3>2, NotOdd
  <2>3. Len(Stream') = Len(Stream) - m /\ Len(Stream') = Len(rxBuffer')
    BY <1>1, <1>2, <1>4, <2>1
  <2>4. ASSUME NEW k \in 1..Len(Stream')
        PROVE  Stream'[k] = Stream[k + m]
    <3>1. /\ k \in 1..Len(rxBuffer') /\ 0 + k = k
          /\ k + n \in 1..Len(rxBuffer) /\ p + (k + n) = k + m
      BY <1>1, <1>2, <2>3
    <3>2. Stream'[k] = rxBuffer'[k] /\ rxBuffer'[k] = rxBuffer[k + n]
      BY <1>2, <1>4, <2>1, <3>1
    <3> QED
      BY <1>1, <3>1, <3>2
  <2>5. \A j \in 1..n : p + j <= m
    BY <1>1
  <2> QED
    BY <2>1, <2>2, <2>3, <2>4, <2>5
<1> QED
  BY <1>5, <1>6

LEMMA ReadingKept ==
    ASSUME TypeOK, TypeOK', Handlers, Reading, [Next]_vars, ~unheard
    PROVE  unheard' \/ Reading'
<1>1. /\ Stream \in Seq(Units) /\ Stream' \in Seq(Units)
      /\ Len(partial) \in Nat /\ Len(rxBuffer) \in Nat /\ Len(Stream) = Len(partial) + Len(rxBuffer)
  BY Joined DEF Stream, TypeOK
<1>2. \A k \in 1..Len(Stream) : Stream[k].field \in Fields /\ Stream[k].version \in Nat
  <2>1. \A k \in 1..Len(Stream) : Stream[k] \in Units
    BY <1>1, ElementOfSeq
  <2> QED
    BY <2>1 DEF Units, Versions
<1>3. \A f \in Fields : seen[f] \in Nat /\ value[f] \in Nat /\ seen'[f] \in Nat
  BY DEF TypeOK, Versions
<1>4. ASSUME UNCHANGED <<partial, rxBuffer, seen, value>>
      PROVE  Reading'
  <2>1. Stream' = Stream
    BY <1>4 DEF Stream
  <2> QED
    BY <1>4, <2>1 DEF Reading
<1>5. ASSUME NEW f \in Fields, writes(f), UNCHANGED <<partial, rxBuffer, seen>>
      PROVE  Reading'
  <2>1. Stream' = Stream
    BY <1>5 DEF Stream
  <2>2. \A g \in Fields : value'[g] \in Nat /\ value'[g] >= value[g]
    BY <1>5, WritesField DEF Versions
  <2>3. Ordered(Stream', seen', value')
    <3>1. \A k \in 1..Len(Stream) : Stream[k].version <= value'[Stream[k].field]
      <4>1. SUFFICES ASSUME NEW k \in 1..Len(Stream)
                     PROVE  Stream[k].version <= value'[Stream[k].field]
        OBVIOUS
      <4>2. Stream[k].version <= value[Stream[k].field]
        BY DEF Reading, Ordered
      <4> QED
        BY <1>2, <1>3, <2>2, <4>2
    <3> QED
      BY <1>5, <2>1, <3>1 DEF Reading, Ordered
  <2>4. \A g \in Fields : seen'[g] <= value'[g]
    BY <1>3, <1>5, <2>2 DEF Reading
  <2> QED
    BY <1>5, <2>1, <2>3, <2>4 DEF Reading
<1>6. ASSUME NEW f \in Fields, dataUpdateHdlr(f)
      PROVE  Reading'
  <2>1. appended(f) /\ UNCHANGED <<value, partial, seen>>
    BY <1>6 DEF dataUpdateHdlr
  <2>2. CASE rxBuffer' = rxBuffer
    BY <1>4, <2>1, <2>2
  <2>3. CASE rxBuffer' = rxBuffer \o Update(f)
    <3>1. Len(rxBuffer') = Len(rxBuffer) + 2
      BY <2>3, AppendedType
    <3>2. /\ \A k \in 1..Len(partial) : Stream[k] = partial[k] /\ Stream'[k] = partial[k]
          /\ \A k \in 1..Len(rxBuffer) : Stream[Len(partial) + k] = rxBuffer[k]
          /\ \A k \in 1..Len(rxBuffer') : Stream'[Len(partial) + k] = rxBuffer'[k]
          /\ Len(Stream') = Len(partial) + Len(rxBuffer')
      BY <2>1, Joined DEF Stream, TypeOK
    <3>3. Len(Stream') = Len(Stream) + 2
      BY <1>1, <3>1, <3>2
    <3>4. ASSUME NEW k \in 1..Len(Stream)
          PROVE  Stream'[k] = Stream[k]
      <4>1. CASE k <= Len(partial)
        BY <1>1, <3>2, <4>1
      <4>2. CASE ~(k <= Len(partial))
        <5>1. PICK i \in 1..Len(rxBuffer) : k = Len(partial) + i
          <6>1. k - Len(partial) \in 1..Len(rxBuffer) /\ k = Len(partial) + (k - Len(partial))
            BY <1>1, <4>2
          <6> QED
            BY <6>1
        <5>2. i \in 1..Len(rxBuffer') /\ rxBuffer'[i] = rxBuffer[i]
          BY <1>1, <2>3, <3>1, <5>1, AppendedType
        <5> QED
          BY <3>2, <5>1, <5>2
      <4> QED
        BY <4>1, <4>2
    <3>5. Stream'[Len(Stream) + 1] = Unit(f, value[f], "begin")
      <4>1. Len(rxBuffer) + 1 \in 1..Len(rxBuffer') /\ Len(Stream) + 1 = Len(partial) + (Len(rxBuffer) + 1)
        BY <1>1, <3>1
      <4> QED
        BY <2>3, <3>2, <4>1, AppendedType
    <3>6. Stream'[Len(Stream) + 2] = Unit(f, value[f], "end")
      <4>1. Len(rxBuffer) + 2 \in 1..Len(rxBuffer') /\ Len(Stream) + 2 = Len(partial) + (Len(rxBuffer) + 2)
        BY <1>1, <3>1
      <4> QED
        BY <2>3, <3>2, <4>1, AppendedType
    <3>7. value[f] \in Versions /\ seen[f] <= value[f]
      BY DEF TypeOK, Reading
    <3>8. Whole(Stream') /\ Ordered(Stream', seen, value)
      <4>1. Whole(Stream) /\ Ordered(Stream, seen, value)
        BY DEF Reading
      <4> HIDE DEF Stream
      <4> QED
        BY <1>1, <3>3, <3>4, <3>5, <3>6, <3>7, <4>1, Extended
    <3> QED
      BY <2>1, <3>8 DEF Reading
  <2> QED
    BY <2>1, <2>2, <2>3 DEF appended
<1>7. CASE recv
  <2>1. value' = value
    BY <1>7 DEF recv, takes, router
  <2>2. CASE Taken = 0
    <3>1. rxBuffer' = rxBuffer /\ partial' = partial
      BY <1>7, <2>2, SubSeqFull DEF recv, takes, TypeOK
    <3>2. \A f \in Fields : Ended(f) = {}
      BY <2>2 DEF Ended
    <3>3. seen' = seen
      BY <1>7, <3>2 DEF recv, TypeOK
    <3> QED
      BY <1>4, <2>1, <3>1, <3>3
  <2>3. CASE Taken # 0
    <3>1. Taken > 0
      BY <2>3, TakenType
    <3>2. PICK m \in Nat :
              /\ m % 2 = 0 /\ Len(partial') \in {0, 1}
              /\ Len(Stream') = Len(Stream) - m
              /\ \A k \in 1..Len(Stream') : Stream'[k] = Stream[k + m]
              /\ \A j \in 1..Taken : rxBuffer[j].part = "end" => Len(partial) + j <= m
      BY <1>7, <3>1, RecvTakes
    <3>3. Whole(Stream')
      <4>1. Whole(Stream)
        BY DEF Reading
      <4> QED
        BY <1>1, <3>2, <4>1, WholeSuffix
    <3>4. ASSUME NEW f \in Fields, Ended(f) # {}
          PROVE  \E i \in 1..Len(Stream) :
                    i <= m /\ Stream[i].field = f /\ Stream[i].version = seen'[f]
      <4>1. PICK j \in 1..Taken :
                rxBuffer[j].field = f /\ rxBuffer[j].part = "end" /\ rxBuffer[j].version = seen'[f]
        <5>1. seen'[f] \in Ended(f)
          BY <1>7, <3>4, SeenAfter
        <5> QED
          BY <5>1, EndedType
      <4>2. Len(partial) + j <= m
        BY <3>2, <4>1
      <4>3. j \in 1..Len(rxBuffer) /\ Len(partial) + j \in 1..Len(Stream)
        BY <1>1, TakenType
      <4>4. Stream[Len(partial) + j] = rxBuffer[j]
        BY <4>3, Joined DEF Stream, TypeOK
      <4> QED
        BY <4>1, <4>2, <4>3, <4>4
    <3>8. ASSUME NEW f \in Fields, Ended(f) = {}
          PROVE  seen'[f] = seen[f]
      BY <1>7, <3>8, SeenAfter
    <3>5. ASSUME NEW f \in Fields
          PROVE  seen'[f] <= value[f]
      <4>1. CASE Ended(f) = {}
        BY <3>8, <4>1 DEF Reading
      <4>2. CASE Ended(f) # {}
        <5>1. PICK i \in 1..Len(Stream) : Stream[i].field = f /\ Stream[i].version = seen'[f]
          BY <3>4, <4>2
        <5> QED
          BY <5>1 DEF Reading, Ordered
      <4> QED
        BY <4>1, <4>2
    <3>6. ASSUME NEW k \in m + 1..Len(Stream)
          PROVE  seen'[Stream[k].field] <= Stream[k].version
      <4> DEFINE f == Stream[k].field
      <4>1. k \in 1..Len(Stream) /\ f \in Fields
        BY <1>1, <1>2, <3>2
      <4>2. CASE Ended(f) = {}
        <5>1. seen'[f] = seen[f]
          BY <3>8, <4>1, <4>2
        <5> QED
          BY <4>1, <5>1 DEF Reading, Ordered
      <4>3. CASE Ended(f) # {}
        <5>1. PICK i \in 1..Len(Stream) :
                  i <= m /\ Stream[i].field = f /\ Stream[i].version = seen'[f]
          BY <3>4, <4>1, <4>3
        <5>2. i < k
          BY <1>1, <3>2, <5>1
        <5> QED
          BY <4>1, <5>1, <5>2 DEF Reading, Ordered
      <4> QED
        BY <4>2, <4>3
    <3>7. Ordered(Stream', seen', value)
      <4>1. Ordered(Stream, seen, value)
        BY DEF Reading
      <4> QED
        BY <1>1, <3>2, <3>6, <4>1, OrderedSuffix
    <3> QED
      BY <2>1, <3>2, <3>3, <3>5, <3>7 DEF Reading
  <2> QED
    BY <2>2, <2>3
<1>8. CASE restart
  <2>1. partial' = <<>> /\ rxBuffer' = <<>> /\ UNCHANGED <<value, seen>>
    BY <1>8 DEF restart
  <2>2. Len(partial') = 0 /\ Len(Stream') = 0
    BY <2>1, EmptySeq, ConcatEmptySeq DEF Stream
  <2> QED
    BY <2>1, <2>2 DEF Reading, Whole, Ordered
<1>9. CASE sessionEnd \/ otherFrame \/ UNCHANGED vars
  BY <1>4, <1>9 DEF sessionEnd, otherFrame, vars, router, history
<1>10. ASSUME NEW f \in Fields, remoteWrite(f) \/ push(f) \/ subscribe(f)
       PROVE  Reading'
  BY <1>4, <1>5, <1>10 DEF remoteWrite, push, subscribe, history
<1>11. recvUnanswered => unheard'
  BY DEF recvUnanswered
<1> QED
  BY <1>6, <1>7, <1>8, <1>9, <1>10, <1>11 DEF Next

\* Once a response was lost nothing is claimed of the text, only that nothing was read
\* that was not written; a restart of the application begins anew.
Following == (\A f \in Fields : seen[f] <= value[f]) /\ (unheard \/ Reading)

LEMMA FollowingKept ==
    ASSUME TypeOK, TypeOK', Handlers, Following, [Next]_vars
    PROVE  Following'
<1>1. \A f \in Fields : seen[f] \in Nat /\ value[f] \in Nat /\ value[f] <= value'[f]
  <2>1. ASSUME NEW f \in Fields
        PROVE  value[f] <= value'[f]
    <3>1. value[f] \in Nat
      BY DEF TypeOK, Versions
    <3>2. CASE \E g \in Fields : writes(g)
      BY <3>2, WritesField
    <3>3. CASE value' = value
      BY <3>1, <3>3
    <3>4. (\E g \in Fields : writes(g)) \/ value' = value
      BY DEF Next, remoteWrite, push, subscribe, dataUpdateHdlr, recv, recvUnanswered, takes,
             sessionEnd, otherFrame, restart, vars, router
    <3> QED
      BY <3>2, <3>3, <3>4
  <2> QED
    BY <2>1 DEF TypeOK, Versions
<1>2. CASE recvUnanswered
  <2>1. unheard' /\ seen' = [f \in Fields |-> 0]
    BY <1>2 DEF recvUnanswered
  <2> QED
    BY <1>1, <2>1 DEF Following, TypeOK, Versions
<1>3. CASE ~unheard /\ ~recvUnanswered
  <2>1. ~unheard'
    BY <1>3 DEF Next, remoteWrite, push, subscribe, dataUpdateHdlr, recv,
                sessionEnd, otherFrame, restart, vars, history
  <2>2. Reading'
    BY <1>3, <2>1, ReadingKept DEF Following
  <2> QED
    BY <2>2 DEF Following, Reading
<1>4. CASE unheard /\ ~recvUnanswered
  <2>1. seen' = seen
    BY <1>4 DEF Next, remoteWrite, push, subscribe, dataUpdateHdlr, recv,
                sessionEnd, otherFrame, restart, vars, history
  <2>2. \A f \in Fields : seen'[f] <= value'[f]
    <3>1. \A f \in Fields : seen[f] <= value[f] /\ value'[f] \in Nat
      BY DEF Following, TypeOK, Versions
    <3> QED
      BY <1>1, <2>1, <3>1
  <2>3. CASE restart
    <3>1. partial' = <<>> /\ rxBuffer' = <<>>
      BY <2>3 DEF restart
    <3>2. Len(partial') = 0 /\ Len(Stream') = 0
      BY <3>1, EmptySeq, ConcatEmptySeq DEF Stream
    <3> QED
      BY <2>2, <3>2 DEF Following, Reading, Whole, Ordered
  <2>4. CASE ~restart
    <3>1. unheard'
      BY <1>4, <2>4 DEF Next, remoteWrite, push, subscribe, dataUpdateHdlr, recv,
                        sessionEnd, otherFrame, vars, history
    <3> QED
      BY <2>2, <3>1 DEF Following
  <2> QED
    BY <2>3, <2>4
<1> QED
  BY <1>2, <1>3, <1>4

\* However RECV cuts the text, whatever did not fit, and whatever sessions and restarts
\* come between, the microcontroller reads whole updates one after the other, of each
\* field in the order of their versions, until a response is lost (dataUpdateHdlr, recv).
THEOREM UpdatesStayWhole == Spec => []WholeUpdates
<1>1. Init => Following
  <2>1. SUFFICES ASSUME Init
                 PROVE  Reading
    BY DEF Following, Reading
  <2>2. partial = <<>> /\ rxBuffer = <<>> /\ \A f \in Fields : seen[f] <= value[f]
    BY <2>1 DEF Init
  <2>3. Len(partial) = 0 /\ Len(Stream) = 0
    BY <2>2, EmptySeq, ConcatEmptySeq DEF Stream
  <2> QED
    BY <2>2, <2>3 DEF Reading, Whole, Ordered
<1>2. TypeOK /\ Handlers /\ Following /\ [Next]_vars => (TypeOK /\ Handlers /\ Following)'
  BY NextHolds, FollowingKept
<1>3. Following => WholeUpdates
  <2>1. SUFFICES ASSUME Reading
                 PROVE  WholeUpdates
    BY DEF Following, WholeUpdates
  <2> DEFINE First == {k \in 1..Len(Stream) : Stream[k].part = "begin"}
  <2>2. \A k \in 1..Len(Stream) : (k \in First) = (k % 2 = 1)
    BY <2>1 DEF Reading, Whole
  <2>3. Len(Stream) % 2 = 0
    BY <2>1 DEF Reading, Whole
  <2>4. ASSUME NEW k \in First
        PROVE  Stream[k + 1] = [Stream[k] EXCEPT !.part = "end"]
               /\ Stream[k].version >= seen[Stream[k].field]
    BY <2>1, <2>2 DEF Reading, Whole, Ordered
  <2>5. \A j, k \in First : j < k /\ Stream[j].field = Stream[k].field
                              => Stream[j].version <= Stream[k].version
    BY <2>1 DEF Reading, Ordered
  <2> QED
    BY <2>2, <2>3, <2>4, <2>5 DEF WholeUpdates, Stream
<1> QED
  BY <1>1, <1>2, <1>3, InitHolds, PTL DEF Spec
====
