-------------------------- MODULE BridgeRefinement --------------------------
(***************************************************************************)
(* How the bridge's state stands for the state of the service it promises.  *)
(***************************************************************************)
EXTENDS Bridge

\* The requests of the microcontroller are not empty, and the protocol's strings are
\* text: no zero, which msg.data is filled up with, and no RESET that begins a CLOSE.
ASSUME ProtocolAssumption ==
    /\ \A f \in Requests : f \in [idx : Byte, body : Seq(Byte)] /\ f.body # <<>>
    /\ \A i \in DOMAIN Reset : Reset[i] # 0
    /\ \A i \in DOMAIN Close : Close[i] # 0
    /\ \/ Len(Close) > Len(Reset) + Len(Version)
       \/ SubSeq(Reset \o Version, 1, Len(Close)) # Close

\* The branch process_payload takes for a payload when the bridge is open.
Kind(body) ==
    LET Starts(bytes) == Len(body) >= Len(bytes) /\ SubSeq(body, 1, Len(bytes)) = bytes
    IN  IF Starts(Close) THEN "close" ELSE IF Starts(Reset) THEN "reset" ELSE "command"

\* What the service sees of the history: the requests accepted, the commands run, and
\* the responses that were written.
Accepted == [i \in DOMAIN handled |-> [idx |-> handled[i].idx, body |-> handled[i].body]]
Ran == {[at |-> r.at, cmd |-> r.cmd] : r \in ran}
Written == {i \in DOMAIN replies : replies[i].written}
Answers == {[to |-> replies[i].to, idx |-> replies[i].idx] : i \in Written}

Service == INSTANCE BridgeService WITH
    Commands <- DOMAIN cmdHdlrs,
    accepted <- Accepted, ran <- Ran, answers <- Answers, open <- ~closed

\* Reading the line byte by byte, checking frames and dispatching them implements
\* the request service, across pipelined requests, lost bytes, reconnections of the
\* port and restarts of the program, as long as no frame is cut short and no byte
\* comes late.
ImplementsService == Service!Spec
=============================================================================
