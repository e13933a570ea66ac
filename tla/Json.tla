-------------------------------- MODULE Json --------------------------------
(***************************************************************************)
(* The JSON reader and writer of json.c: text is a sequence of characters,  *)
(* a value a record whose only field names its type.  The reader is a       *)
(* recursive descent with a pointer and a count of the characters left; on  *)
(* its early exits the two part, and then the text is read as something it  *)
(* is not.  Comments and \u escapes are left out; a number, true, false or  *)
(* null is one character.                                                   *)
(***************************************************************************)
EXTENDS Integers, Sequences, SequencesExt

QUOTE == "quote"
BACKSLASH == "backslash"
NEWLINE == "newline"
Whitespace == {" ", NEWLINE}
Literals == {"1", "true", "null"}

Str(s) == [str |-> s]         \* a string of characters
Lit(l) == [lit |-> l]         \* a number, a boolean or null
Arr(s) == [arr |-> s]         \* an array of values
Obj(s) == [obj |-> s]         \* an object: its attributes and values, in order

\* Outcomes of the reader: res is ok, error, underflow or aborted, by a failed
\* assertion; ptr and len are what the caller goes on with.
Ok(p, n, v) == [res |-> "ok", ptr |-> p, len |-> n, val |-> v]
Failed(r) == [res |-> r, ptr |-> 0, len |-> 0, val |-> Lit("null")]

\* mangoh_bridge_json_skipWhitespace, forward: how many of n characters it skips.
Blanks(t, p, n) ==
    CHOOSE k \in 0..n :
        /\ \A i \in 0..k - 1 : t[p + i] \in Whitespace
        /\ k = n \/ t[p + k] \notin Whitespace

\* Mutant of Unescaped: the character after the backslash as it is.
UnescapedNot(c) == c
\* mangoh_bridge_json_getEscapeChar
Unescaped(c) == IF c = "n" THEN NEWLINE ELSE c

-----------------------------------------------------------------------------
\* mangoh_bridge_json_readString from the first character on: an escaped quote
\* is not skipped, so that it ends the string, and neither is an escaped backslash,
\* which starts an escape of its own.
RECURSIVE readChars(_, _, _, _)
readChars(t, p, n, s) ==
    IF t[p] = QUOTE
    THEN IF n = 1 THEN Failed("error") ELSE Ok(p + 1, n - 1, Str(s))
    ELSE IF n = 1 THEN Failed("error")
    ELSE IF t[p] # BACKSLASH THEN readChars(t, p + 1, n - 1, Append(s, t[p]))
    ELSE IF t[p + 1] = "n"
    THEN IF n = 2 THEN Failed("error") ELSE readChars(t, p + 2, n - 2, Append(s, Unescaped(t[p + 1])))
    ELSE IF t[p + 1] \in {QUOTE, BACKSLASH, "/"} THEN readChars(t, p + 1, n - 1, s)
    ELSE Failed("error")

readString(t, p, n) ==
    IF t[p] # QUOTE \/ n = 1 THEN Failed("error") ELSE readChars(t, p + 1, n - 1, <<>>)

\* readNumber, readTrue, readFalse and readNull: an error where the text ends.
readLiteral(t, p, n) == IF n = 1 THEN Failed("error") ELSE Ok(p + 1, n - 1, Lit(t[p]))

RECURSIVE readData(_, _, _), readItems(_, _, _, _, _), readMembers(_, _, _, _, _)

\* The character at p, not the last of the n left, and the blanks after it are read.
Step(t, p, n) == LET k == Blanks(t, p + 1, n - 1) IN [ptr |-> p + 1 + k, len |-> n - 1 - k]

\* The loop of mangoh_bridge_json_readArray; a wrong separator ends it with success.
readItems(t, p, n, start, items) ==
    IF t[p] = "]"
    THEN IF n = 1 THEN Ok(start, 0, Arr(items))
         ELSE LET a == Step(t, p, n) IN Ok(a.ptr, a.len, Arr(items))
    ELSE LET r == readData(t, p, n) IN
         IF r.res # "ok" THEN r
         ELSE LET k == Blanks(t, r.ptr, r.len)
                  q == r.ptr + k
                  m == r.len - k
                  all == Append(items, r.val)
              IN  IF t[q] = "]" THEN readItems(t, q, m, start, all)
                  ELSE IF t[q] # "," THEN Ok(start, m, Arr(all))
                  ELSE IF m = 1 THEN Ok(start, 0, Arr(all))
                  ELSE LET a == Step(t, q, m) IN readItems(t, a.ptr, a.len, start, all)

readArray(t, p, n) ==
    IF n = 1 THEN Failed("error")
    ELSE LET a == Step(t, p, n) IN readItems(t, a.ptr, a.len, p, <<>>)

\* The loop of mangoh_bridge_json_readObject: a missing colon ends it with success;
\* a wrong separator destroys a key that was destroyed already, which aborts.
readMembers(t, p, n, start, members) ==
    IF t[p] = "}"
    THEN IF n = 1 THEN Ok(start, 0, Obj(members))
         ELSE LET a == Step(t, p, n) IN Ok(a.ptr, a.len, Obj(members))
    ELSE LET key == readString(t, p, n)
             k == Blanks(t, key.ptr, key.len)
             c == key.ptr + k
             left == key.len - k
         IN
         IF key.res # "ok" THEN key
         ELSE IF t[c] # ":" THEN Ok(start, left, Obj(members))
         ELSE IF left = 1 THEN Ok(start, 0, Obj(members))
         ELSE LET b == Step(t, c, left)
                  r == readData(t, b.ptr, b.len)
                  all == Append(members, <<key.val.str, r.val>>)
                  j == Blanks(t, r.ptr, r.len)
                  q == r.ptr + j
                  m == r.len - j
              IN  IF r.res # "ok" THEN r
                  ELSE IF r.len = 0 THEN readMembers(t, r.ptr, r.len, start, all)
                  ELSE IF t[q] = "}" THEN readMembers(t, q, m, start, all)
                  ELSE IF t[q] # "," THEN Failed("aborted")
                  ELSE IF m = 1 THEN Ok(start, 0, Obj(all))
                  ELSE LET a == Step(t, q, m) IN readMembers(t, a.ptr, a.len, start, all)

readObject(t, p, n) ==
    IF n = 1 THEN Failed("aborted")
    ELSE LET a == Step(t, p, n) IN readMembers(t, a.ptr, a.len, p, <<>>)

readData(t, p, n) ==
    LET k == Blanks(t, p, n)
        q == p + k
        m == n - k
    IN  CASE t[q] = "{" -> readObject(t, q, m)
          [] t[q] = "[" -> readArray(t, q, m)
          [] t[q] = QUOTE -> readString(t, q, m)
          [] t[q] \in Literals -> readLiteral(t, q, m)
          [] OTHER -> Failed("error")

\* Mutant of json_read: a text that does not end an object is read all the same.
json_readAnyEnd(t) == readData(t, 1, Len(t))

\* mangoh_bridge_json_read: blanks at the end do not count, and a text that does
\* not end with a brace is the beginning of a message.
json_read(t) ==
    LET n == CHOOSE k \in 0..Len(t) :
                /\ \A i \in k + 1..Len(t) : t[i] \in Whitespace
                /\ k = 0 \/ t[k] \notin Whitespace
    IN  IF n = 0 \/ t[n] # "}" THEN Failed("underflow") ELSE readData(t, 1, n)

-----------------------------------------------------------------------------
\* strreplace, as writeString applies it: quotes and newlines are escaped, a
\* backslash is not.
Escaped(s) == FlattenSeq([i \in DOMAIN s |->
    IF s[i] = QUOTE THEN <<BACKSLASH, QUOTE>>
    ELSE IF s[i] = NEWLINE THEN <<BACKSLASH, "n">> ELSE <<s[i]>>])

\* A piece of text: the room that is made for it, and its characters.
Piece(s) == [room |-> Len(s), chars |-> s]
Comma == [room |-> 0, chars |-> <<",">>]

\* Sequences of pieces, with a comma after each but the last.
Commas(s) == FlattenSeq([i \in DOMAIN s |-> IF i < Len(s) THEN Append(s[i], Comma) ELSE s[i]])

\* mangoh_bridge_json_writeData: the pieces of the text, one for each memcpy.  No
\* room is made for the comma after a member of an object (writeObject); after every
\* item of an array there is room made for one (writeArray).
RECURSIVE writeData(_)
writeData(v) ==
    CASE DOMAIN v = {"lit"} -> << Piece(<<v.lit>>) >>
      [] DOMAIN v = {"str"} -> << Piece(<<QUOTE>>), Piece(Escaped(v.str)), Piece(<<QUOTE>>) >>
      [] DOMAIN v = {"arr"} ->
            << Piece(<<"[">>) >>
            \o Commas([i \in DOMAIN v.arr |-> Append(writeData(v.arr[i]), [room |-> 1, chars |-> <<>>])])
            \o << Piece(<<"]">>) >>
      [] DOMAIN v = {"obj"} ->
            << Piece(<<"{">>) >>
            \o Commas([i \in DOMAIN v.obj |->
                  << Piece(<<QUOTE>>), Piece(v.obj[i][1]), Piece(<<QUOTE>>), Piece(<<":">>) >>
                  \o writeData(v.obj[i][2])])
            \o << Piece(<<"}">>) >>

\* The text of a value, mangoh_bridge_json_write.
json_write(v) == LET pieces == writeData(v) IN FlattenSeq([i \in DOMAIN pieces |-> pieces[i].chars])
=============================================================================
