------------------------------ MODULE MCCodecs ------------------------------
(***************************************************************************)
(* The two codings of the bridge, one at a time: the CRC of packet.c over a *)
(* stream of bytes, or the JSON writer and reader of json.c, joined by a TCP*)
(* stream that delivers a written message character by character.           *)
(***************************************************************************)
EXTENDS Json, JsonBuffer, CrcStream

VARIABLES
    subject,    \* what the behaviour is about, crc or json; the other one is idle
    value,      \* the message
    text,       \* the text the peer is sent, with what follows the message
    received    \* how much of it has arrived

vars == <<writer, crcVars, subject, value, text, received>>

-----------------------------------------------------------------------------
\* Messages: strings with every character that means something to the reader, an
\* empty one and one longer than the buffer is at first, in arrays and objects.
Strings == {<<>>, <<"a">>, <<NEWLINE>>, <<"a", QUOTE>>, <<BACKSLASH, "n">>, <<"}", ",">>,
            <<"[", "{", " ">>, [i \in 1..12 |-> "a"]}
Few == {Str(<<"a">>), Str(<<NEWLINE, "}">>), Lit("1")}
Upto2(S) == {<<>>} \cup {<<x>> : x \in S} \cup {<<x, y>> : x \in S, y \in S}
Nested ==
    {Arr(s) : s \in Upto2(Few)}
    \cup {Obj(s) : s \in Upto2({<< <<"a">>, x >> : x \in Few})}
    \cup {Arr(<<Obj(<<>>), Arr(<<>>)>>), Obj(<< <<<<"}">>, Arr(<<Obj(<<>>)>>)>> >>)}
Simple == {Str(s) : s \in Strings} \cup {Lit(l) : l \in Literals}
Messages ==
    {Obj(<<>>)}
    \cup {Obj(<< <<<<"a">>, v>> >>) : v \in Simple \cup Nested}
    \cup {Obj(<< <<<<"a">>, v>>, <<<<"}", "a">>, Lit("1")>> >>) : v \in Simple \cup Nested}
    \cup {Obj(<< <<<<"a">>, Str([i \in 1..12 |-> "n"])>>, <<<<"n">>, v>> >>) : v \in Simple}

\* What the peer sends next: nothing, blanks and another message, or something else.
Follows == {<<" ", NEWLINE, "{", "}">>, <<"{", QUOTE, "a", QUOTE, ":", "1", "}">>, <<"1", "}">>}

MCTexts == {writeData(v) : v \in Messages}

\* The buffer is sent when every piece of the message is in it.
Send(rest) ==
    /\ stage = "write" /\ done = Len(pieces) /\ text = <<>>
    /\ text' = json_write(value) \o rest
    /\ UNCHANGED <<writer, value, received>>

\* TCP may cut the text anywhere.
Receive ==
    /\ received < Len(text)
    /\ received' = received + 1
    /\ UNCHANGED <<writer, value, text>>

Write == WriterNext /\ UNCHANGED <<value, text, received>>

Init ==
    /\ subject \in {"crc", "json"}
    /\ value \in IF subject = "json" THEN Messages ELSE {Obj(<<>>)}
    /\ pieces = writeData(value)
    /\ WriterInit
    /\ text = <<>>
    /\ received = 0
    /\ CrcInit

Next ==
    \/ /\ subject = "json"
       /\ Write \/ Receive \/ \E rest \in Follows : Send(rest)
       /\ UNCHANGED <<crcVars, subject>>
    \/ /\ subject = "crc" /\ CrcNext
       /\ UNCHANGED <<writer, subject, value, text, received>>

Spec == Init /\ [][Next]_vars

-----------------------------------------------------------------------------
\* Strings the reader gives back: writeString escapes quotes, which the reader does
\* not undo, and leaves backslashes alone.
RECURSIVE Plain(_)
Plain(v) ==
    CASE DOMAIN v = {"lit"} -> TRUE
      [] DOMAIN v = {"str"} -> Range(v.str) \cap {QUOTE, BACKSLASH} = {}
      [] DOMAIN v = {"arr"} -> \A i \in DOMAIN v.arr : Plain(v.arr[i])
      [] DOMAIN v = {"obj"} -> \A i \in DOMAIN v.obj : Plain(v.obj[i][2])

Size == Len(json_write(value))
Arrived == SubSeq(text, 1, received)
Blank(s) == \A i \in DOMAIN s : s[i] \in Whitespace
Trimmed(s) == LET ink == {i \in DOMAIN s : s[i] \notin Whitespace}
              IN  IF ink = {} THEN <<>> ELSE SubSeq(s, Min(ink), Max(ink))

\* Wherever TCP cuts a message - after a brace of an inner object, or one within a
\* string - its beginning is neither taken for a message nor aborts the application:
\* the mailbox waits for the rest (processCommands).
PrefixesWait ==
    Plain(value) /\ received \in 1..Size - 1 => json_read(Arrived).res \in {"underflow", "error"}

\* A message that was written is read back as it was, and what follows it is what
\* the reader says is left, as soon as the text ends with a brace.
ReadsBack ==
    Plain(value) /\ received >= Size /\ Last(Trimmed(Arrived)) = "}" =>
        LET r == json_read(Arrived)
        IN  /\ r.res = "ok" /\ r.val = value
            /\ r.len = Len(Trimmed(SubSeq(Arrived, Size + 1, received)))
=============================================================================
