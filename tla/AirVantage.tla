----------------------------- MODULE AirVantage -----------------------------
(***************************************************************************)
(* The AirVantage service (airVantage.c): the microcontroller pushes values *)
(* of fields to the data router and subscribes to them, and reads one       *)
(* stream of the updates.  The data router is another process: it holds the *)
(* values and notifies each handler that is registered for a field of each  *)
(* write; a notification is served by the event loop of the bridge some time*)
(* later, and the value is read only then.                                  *)
(*                                                                          *)
(* Values are versions, the text of an update has two units.  The order of  *)
(* notifications of different fields is left open.  Keys of the handlers'   *)
(* map are pointers to a stack frame that is gone: a lookup may miss a      *)
(* field that is there; hashes of fields are taken to differ.               *)
(***************************************************************************)
EXTENDS Integers, Sequences

CONSTANTS
    Fields,      \* names of fields
    RxSize,      \* MANGOH_BRIDGE_AIR_VANTAGE_RX_BUFF_SIZE, 0x4000
    DataSize,    \* the most text of a response, 128
    MaxVersion,  \* bound: writes of a field
    MaxHandlers  \* bound: handlers registered for a field

ASSUME SizesAssumption == RxSize \in Nat /\ DataSize \in Nat /\ DataSize > 0
ASSUME BoundsAssumption == MaxVersion \in Nat /\ MaxHandlers \in Nat

Versions == 0..MaxVersion
Units == [field : Fields, version : Versions, part : {"begin", "end"}]
Unit(f, v, p) == [field |-> f, version |-> v, part |-> p]

VARIABLES
    \* the data router
    value,      \* the version of each field
    registered, \* handlers registered for it
    pending,    \* notifications on their way to them
    \* the bridge
    dataUpdateHandlers, \* entries of the map for each field
    rxBuffer,           \* text for RECV
    \* history
    partial, \* the unit RECV returned last, unless it ended an update
    seen,    \* the version of the last update of each field that was returned
    lost,    \* the highest version of an update that did not fit
    asked,   \* fields a handler was added for since the last SESSION END or RESET
    left,    \* units in rxBuffer from before it
    unheard  \* a response of RECV was lost, and what is read is not followed further

router == <<value, registered, pending>>
history == <<partial, seen, lost, asked, left, unheard>>
vars == <<router, dataUpdateHandlers, rxBuffer, history>>

Init ==
    /\ value = [f \in Fields |-> 0]
    /\ registered = [f \in Fields |-> 0]
    /\ pending = [f \in Fields |-> 0]
    /\ dataUpdateHandlers = [f \in Fields |-> 0]
    /\ rxBuffer = <<>>
    /\ partial = <<>>
    /\ seen = [f \in Fields |-> 0]
    /\ lost = [f \in Fields |-> 0]
    /\ asked = {}
    /\ left = 0
    /\ unheard = FALSE

-----------------------------------------------------------------------------
\* dataRouter_WriteBoolean and the like, by the bridge or by anyone else.
writes(f) ==
    /\ value[f] < MaxVersion
    /\ value' = [value EXCEPT ![f] = @ + 1]
    /\ pending' = [pending EXCEPT ![f] = @ + registered[f]]

remoteWrite(f) ==
    /\ writes(f)
    /\ UNCHANGED <<registered, dataUpdateHandlers, rxBuffer, history>>

\* Mutant of mapped: the new handler replaces the one in the map.
mappedOnce(f) == dataUpdateHandlers' = [dataUpdateHandlers EXCEPT ![f] = 1]
\* le_hashmap_Put of a field that the lookup did not find.
mapped(f) == dataUpdateHandlers' = [dataUpdateHandlers EXCEPT ![f] = @ + 1]

\* A handler is added, unless the lookup finds one or adding it fails.
handled(f) ==
    \/ /\ registered[f] < MaxHandlers
       /\ registered' = [registered EXCEPT ![f] = @ + 1]
       /\ mapped(f)
       /\ asked' = asked \cup {f}
    \/ UNCHANGED <<registered, dataUpdateHandlers, asked>>

subscribe(f) ==
    /\ handled(f)
    /\ UNCHANGED <<value, pending, rxBuffer, partial, seen, lost, left, unheard>>

\* pushBoolean, pushInteger, pushFloat, pushString: the value is written first, so a
\* handler that is added for it is not notified of it.
push(f) ==
    /\ writes(f)
    /\ handled(f)
    /\ UNCHANGED <<rxBuffer, partial, seen, lost, left, unheard>>

-----------------------------------------------------------------------------
Update(f) == <<Unit(f, value[f], "begin"), Unit(f, value[f], "end")>>

\* Mutant of Fits: the room is not checked for the whole text.
FitsPart(s) == Len(rxBuffer) < RxSize
Fits(s) == Len(rxBuffer) + Len(s) <= RxSize

\* Mutants of appended: the part of a text that fits; nothing while there is text
\* that was not received.
appendedPart(f) ==
    /\ rxBuffer' = IF Fits(Update(f)) THEN rxBuffer \o Update(f)
                   ELSE SubSeq(rxBuffer \o Update(f), 1, RxSize)
    /\ UNCHANGED lost
appendedAlone(f) ==
    /\ rxBuffer' = IF rxBuffer = <<>> THEN Update(f) ELSE rxBuffer
    /\ UNCHANGED lost

\* An update that does not fit is dropped.
appended(f) ==
    IF Fits(Update(f))
    THEN rxBuffer' = rxBuffer \o Update(f) /\ UNCHANGED lost
    ELSE lost' = [lost EXCEPT ![f] = value[f]] /\ UNCHANGED rxBuffer

\* mangoh_bridge_air_vantage_dataUpdateHdlr
dataUpdateHdlr(f) ==
    /\ pending[f] > 0
    /\ pending' = [pending EXCEPT ![f] = @ - 1]
    /\ appended(f)
    /\ UNCHANGED <<value, registered, dataUpdateHandlers, partial, seen, asked, left, unheard>>

\* mangoh_bridge_air_vantage_recv: at most DataSize units leave the buffer, before
\* the response is written, which may fail.
Taken == IF DataSize > Len(rxBuffer) THEN Len(rxBuffer) ELSE DataSize
Ended(f) ==
    {rxBuffer[k].version : k \in {j \in 1..Taken : rxBuffer[j].field = f /\ rxBuffer[j].part = "end"}}

takes ==
    /\ rxBuffer' = SubSeq(rxBuffer, Taken + 1, Len(rxBuffer))
    /\ left' = IF left > Taken THEN left - Taken ELSE 0
    /\ UNCHANGED <<router, dataUpdateHandlers, lost, asked>>

recv ==
    /\ takes
    /\ IF unheard THEN UNCHANGED <<partial, seen>>
       ELSE /\ partial' = IF Taken = 0 THEN partial
                          ELSE IF rxBuffer[Taken].part = "begin" THEN <<rxBuffer[Taken]>> ELSE <<>>
            /\ seen' = [f \in Fields |->
                  IF Ended(f) = {} THEN seen[f]
                  ELSE CHOOSE v \in Ended(f) : \A w \in Ended(f) : v >= w]
    /\ UNCHANGED unheard

recvUnanswered ==
    /\ Taken > 0
    /\ takes
    /\ unheard' = TRUE
    /\ partial' = <<>>
    /\ seen' = [f \in Fields |-> 0]

\* mangoh_bridge_air_vantage_removedataUpdateHdlrs: every handler in the map is
\* removed from the router, and the notifications on their way to it are dropped.
removedataUpdateHdlrs ==
    /\ registered' = [f \in Fields |-> registered[f] - dataUpdateHandlers[f]]
    /\ pending' = [f \in Fields |-> IF registered'[f] = 0 THEN 0 ELSE pending[f]]
    /\ dataUpdateHandlers' = [f \in Fields |-> 0]

\* SESSION END and RESET; the text of updates received stays.
sessionEnd ==
    /\ removedataUpdateHdlrs
    /\ asked' = {}
    /\ left' = Len(rxBuffer)
    /\ UNCHANGED <<value, rxBuffer, partial, seen, lost, unheard>>

\* SESSION START, AVAILABLE and frames for other modules change none of this.
otherFrame == UNCHANGED vars

\* The application is restarted: the router drops its handlers.
restart ==
    /\ registered' = [f \in Fields |-> 0]
    /\ pending' = [f \in Fields |-> 0]
    /\ dataUpdateHandlers' = [f \in Fields |-> 0]
    /\ rxBuffer' = <<>>
    /\ partial' = <<>>
    /\ asked' = {}
    /\ left' = 0
    /\ unheard' = FALSE
    /\ UNCHANGED <<value, seen, lost>>

Next ==
    \/ \E f \in Fields : remoteWrite(f) \/ subscribe(f) \/ push(f) \/ dataUpdateHdlr(f)
    \/ recv \/ recvUnanswered \/ sessionEnd \/ otherFrame \/ restart

Spec == Init /\ [][Next]_vars

\* The event loop serves what is pending, and the sketch goes on reading.
FairSpec == Spec /\ WF_vars(recv) /\ \A f \in Fields : WF_vars(dataUpdateHdlr(f))

-----------------------------------------------------------------------------
\* The types; the text stays within rxBuffer (airVantage.h).
TypeOK ==
    /\ value \in [Fields -> Versions]
    /\ registered \in [Fields -> 0..MaxHandlers]
    /\ pending \in [Fields -> Nat]
    /\ dataUpdateHandlers \in [Fields -> 0..MaxHandlers]
    /\ rxBuffer \in Seq(Units) /\ Len(rxBuffer) <= RxSize
    /\ partial \in Seq(Units)
    /\ seen \in [Fields -> Versions]
    /\ lost \in [Fields -> Versions]
    /\ asked \subseteq Fields
    /\ left \in 0..Len(rxBuffer)
    /\ unheard \in BOOLEAN

\* The microcontroller reads whole updates one after the other, and no field goes
\* back to an older value, however RECV cuts the text and whatever did not fit,
\* across sessions and with a field subscribed to twice - until a response of RECV is
\* lost, whose text is gone.
WholeUpdates ==
    LET s == partial \o rxBuffer
        First == {k \in 1..Len(s) : s[k].part = "begin"}
    IN  ~unheard =>
            /\ \A k \in 1..Len(s) : (k \in First) = (k % 2 = 1)
            /\ Len(s) % 2 = 0
            /\ \A k \in First : /\ s[k + 1] = [s[k] EXCEPT !.part = "end"]
                                /\ s[k].version >= seen[s[k].field]
            /\ \A j, k \in First : j < k /\ s[j].field = s[k].field => s[j].version <= s[k].version

\* Every handler, and every update that came since the session before ended, is of a
\* field asked for in this one: SESSION END and RESET leave no handler in the data
\* router, also not of a field that was added twice.  (Text from before them is
\* still to be received.)
OnlyAsked ==
    /\ \A f \in Fields : registered[f] > 0 => f \in asked
    /\ \A k \in left + 1..Len(rxBuffer) : rxBuffer[k].field \in asked

\* A value that a handler is notified of reaches the microcontroller, it or a newer
\* one, unless the update does not fit, the session ends or a response is lost.
UpdateArrives ==
    \A f \in Fields : \A v \in Versions :
        (pending[f] > 0 /\ value[f] = v)
            ~> (seen[f] >= v \/ lost[f] >= v \/ f \notin asked \/ unheard)
=============================================================================
