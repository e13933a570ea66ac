---------------------------- MODULE BridgeService ----------------------------
(***************************************************************************)
(* What the bridge promises the microcontroller: requests are accepted in   *)
(* the order they were sent, some may be lost but none is repeated, altered *)
(* or made up; each accepted request is answered at most once; commands run *)
(* only while the bridge is open, once per request; CLOSE closes it and     *)
(* RESET, or a new connection, opens it.  Bridge implements this as long as *)
(* no frame is cut short and no byte comes late.                            *)
(***************************************************************************)
EXTENDS Naturals, Sequences

CONSTANTS
    Requests,      \* the requests: [idx, body]
    Commands,      \* the commands some module handles
    Kind(_)        \* "close", "reset", "command" by the body of a request

VARIABLES
    sent,      \* the requests sent
    accepted,  \* the requests accepted, in order
    ran,       \* the commands run: [at, cmd]
    answers,   \* the answers: [to, idx]
    open       \* commands are run

vars == <<sent, accepted, ran, answers, open>>

\* s is t with some elements left out: each element of s has its place in t.
Embeds(s, t) ==
    \E at \in [DOMAIN s -> DOMAIN t] :
        /\ \A i \in DOMAIN s : t[at[i]] = s[i]
        /\ \A i, j \in DOMAIN s : i < j => at[i] < at[j]

Init ==
    /\ sent = <<>>
    /\ accepted = <<>>
    /\ ran = {}
    /\ answers = {}
    /\ open = TRUE

Request(f) ==
    /\ sent' = Append(sent, f)
    /\ UNCHANGED <<accepted, ran, answers, open>>

Accept(f) ==
    /\ accepted' = Append(accepted, f)
    /\ Embeds(accepted', sent)
    /\ UNCHANGED <<sent, ran, answers, open>>

\* The request accepted last, its number, and an answer to it.
Current == accepted[Len(accepted)]
Answer ==
    /\ answers' = answers \cup {[to |-> Len(accepted), idx |-> Current.idx]}
    /\ \A a \in answers : a.to < Len(accepted)

\* A request is done with nothing but an answer: refused, or of a kind nobody knows.
Refuse ==
    /\ accepted # <<>>
    /\ Answer
    /\ UNCHANGED <<sent, accepted, ran, open>>

CloseSession ==
    /\ accepted # <<>>
    /\ open
    /\ Kind(Current.body) = "close"
    /\ Answer
    /\ open' = FALSE
    /\ UNCHANGED <<sent, accepted, ran>>

OpenSession ==
    /\ accepted # <<>>
    /\ Kind(Current.body) = "reset"
    /\ Answer
    /\ open' = TRUE
    /\ UNCHANGED <<sent, accepted, ran>>

\* A command runs, and is answered or fails silently.
Run ==
    /\ accepted # <<>>
    /\ open
    /\ Kind(Current.body) = "command"
    /\ Current.body[1] \in Commands
    /\ \A r \in ran : r.at < Len(accepted)
    /\ ran' = ran \cup {[at |-> Len(accepted), cmd |-> Current.body[1]]}
    /\ Answer \/ UNCHANGED answers
    /\ UNCHANGED <<sent, accepted, open>>

\* The connection is made anew.
Reconnect ==
    /\ open' = TRUE
    /\ UNCHANGED <<sent, accepted, ran, answers>>

Next ==
    \/ \E f \in Requests : Request(f) \/ Accept(f)
    \/ Refuse \/ CloseSession \/ OpenSession \/ Run \/ Reconnect

Spec == Init /\ [][Next]_vars
=============================================================================
