----------------------------- MODULE InfluxHttp -----------------------------
(***************************************************************************)
(* One call of readData(): the HTTP request to the database, and the       *)
(* parser of http_request(), which reads the answer character by character *)
(* out of a buffer that recv() fills with as much as has arrived.  The     *)
(* database, external, may close the connection or break it at any time.   *)
(*                                                                         *)
(* A character is a number: 0..15 the digit of that value, SP, CR and LF,  *)
(* or any other.  What the parser matches as a whole is one character      *)
(* here: CONTENT_LENGTH up to the blank, and CHUNKED for "Transfer-        *)
(* Encoding: chunked"; TEXT is a text it skips, NUL what it takes a       *)
(* failed recv() for.                                                      *)
(***************************************************************************)
EXTENDS Integers, Sequences, SequencesExt

CONSTANTS
  Answers,  \* what the database may answer, see AnswerShape
  MaxInt    \* 2^31 - 1 in the code

SP == 16
CR == 17
LF == 18
CONTENT_LENGTH == 19
CHUNKED == 20
TEXT == 21
NUL == 22
Decimals == 0..9
Chars == 0..NUL

Size(a) == Len(FlattenSeq(a.chunks))

\* The chunks of the body make one piece unless the framing is "chunked";
\* "none" is an answer without a body. `rows` says whether the body is a
\* document with the rows of a table, as opposed to one that has none.
AnswerShape(a) ==
  /\ a.status \in 100..599
  /\ a.framing \in {"length", "chunked", "none"}
  /\ a.chunks \in Seq(Seq(Chars \ {NUL}) \ {<<>>})
  /\ a.framing = "none" <=> a.chunks = <<>>
  /\ a.rows \in BOOLEAN

ASSUME HttpAssumption ==
  /\ MaxInt \in Nat /\ MaxInt >= 599
  /\ \A a \in Answers : AnswerShape(a) /\ Size(a) \in 0..MaxInt

-----------------------------------------------------------------------------
(* The answer on the wire, as the database sends it *)

Digits(n, base) ==
  LET d[k \in Nat] == IF k < base THEN <<k>> ELSE Append(d[k \div base], k % base)
  IN  d[n]

EndLine == <<CR, LF>>
Chunk(data) == Digits(Len(data), 16) \o EndLine \o data \o EndLine
Body(a) == FlattenSeq(a.chunks)

Wire(a) ==
  <<TEXT, SP>> \o Digits(a.status, 10) \o <<SP, TEXT>> \o EndLine
    \o <<TEXT>> \o EndLine
    \o CASE a.framing = "none" -> EndLine
         [] a.framing = "length" ->
              <<CONTENT_LENGTH>> \o Digits(Size(a), 10) \o EndLine \o EndLine \o Body(a)
         [] a.framing = "chunked" ->
              <<CHUNKED>> \o EndLine \o EndLine
                \o FlattenSeq([k \in DOMAIN a.chunks |-> Chunk(a.chunks[k])])
                \o Chunk(<<>>)

VARIABLES
  pc,      \* where http_request() is
  answer,  \* what the database answers
  wire,    \* the same as characters
  conn,    \* the connection: none, open, closed or broken by the database
  taken,   \* characters of the answer recv() has returned
  left,    \* how many of those the parser has not read
  first,   \* the character at the start of the buffer
  chunked,
  content_length,
  ret_code,
  resp,    \* the body as far as it has been read
  data     \* what readData() returns

network == <<answer, wire, conn>>
buffer == <<taken, left, first>>
parsed == <<chunked, content_length, ret_code, resp>>
vars == <<pc, network, buffer, parsed, data>>

Reading == {"status", "code", "line", "header", "length", "headersEnd", "size",
            "sizeEnd", "lastCR", "lastLF", "body", "bodyCR", "bodyLF"}

TypeOK ==
  /\ pc \in Reading \cup {"connect", "write", "close", "parse", "returned"}
  /\ answer \in Answers /\ wire = Wire(answer)
  /\ conn \in {"none", "open", "closed", "broken"}
  /\ taken \in 0..Len(wire) /\ left \in 0..taken
  /\ first \in Chars \ {NUL}
  /\ chunked \in BOOLEAN
  /\ content_length \in (-MaxInt - 1)..MaxInt
  /\ ret_code \in (-MaxInt - 1)..MaxInt
  /\ resp \in Seq(Chars) /\ Len(resp) <= taken
  /\ data \in {"pending", "rows", "nothing", "exception"}

\* The buffer begins with the text of the request.
Init ==
  /\ pc = "connect" /\ conn = "none" /\ answer \in Answers /\ wire = Wire(answer)
  /\ taken = 0 /\ left = 0 /\ first = TEXT
  /\ chunked = FALSE /\ content_length = 0 /\ ret_code = 0
  /\ resp = <<>> /\ data = "pending"

-----------------------------------------------------------------------------
(* The connection *)

\* The settings of the database are missing or of another type.
Misconfigured ==
  /\ pc = "connect"
  /\ pc' = "returned" /\ data' = "exception"
  /\ UNCHANGED <<network, buffer, parsed>>

\* inet_addr, socket or connect() fails; no connection remains.
CannotConnect ==
  /\ pc = "connect"
  /\ ret_code' \in {-1, -2, -3}
  /\ pc' = "parse"
  /\ UNCHANGED <<network, buffer, chunked, content_length, resp, data>>

Connect ==
  /\ pc = "connect"
  /\ conn' = "open" /\ pc' = "write"
  /\ UNCHANGED <<answer, wire, buffer, parsed, data>>

\* writev() may take less than the request.
Write ==
  /\ pc = "write"
  /\ \/ pc' = "status" /\ UNCHANGED ret_code
     \/ pc' = "close" /\ ret_code' = -6
  /\ UNCHANGED <<network, buffer, chunked, content_length, resp, data>>

\* The database ends the connection; what it has not sent by then is lost.
CutOff ==
  /\ conn = "open"
  /\ conn' \in {"closed", "broken"}
  /\ UNCHANGED <<pc, answer, wire, buffer, parsed, data>>

-----------------------------------------------------------------------------
(* _NO_MORE and _GET_NEXT_CHAR: what a recv() can return is a piece of the *)
(* answer, 0 when the connection was closed, or -1 when it was broken      *)

\* What a piece of the answer can begin with when its first character is c,
\* which may stand for a text that was split.
Starts(c) ==
  IF c \in {TEXT, CONTENT_LENGTH, CHUNKED} THEN {SP, TEXT, 0, 1, 10} ELSE {c}

\* recv() has returned the next n characters.
Piece(n) ==
  /\ conn = "open" /\ left = 0
  /\ n \in 1..(Len(wire) - taken)
  /\ taken' = taken + n
  /\ first' \in Starts(wire[taken + 1])

\* Slip: the buffer is used up one character too late.
GetNextChar_OneMore ==
  \/ left >= 0 /\ left' = left - 1 /\ UNCHANGED <<taken, first>>
  \/ \E n \in 1..Len(wire) : Piece(n) /\ left' = n - 1
  \/ left = 0 /\ conn \in {"closed", "broken"} /\ UNCHANGED buffer

GetNextChar ==
  \/ left > 0 /\ left' = left - 1 /\ UNCHANGED <<taken, first>>
  \/ \E n \in 1..Len(wire) : Piece(n) /\ left' = n - 1
  \/ left = 0 /\ conn \in {"closed", "broken"} /\ UNCHANGED buffer

\* The character it gets. A 0 is no end for _NO_MORE: the parser gets what
\* the buffer begins with.
ch ==
  CASE left > 0 \/ conn = "open" -> wire[taken - left + 1]
    [] left = 0 /\ conn = "closed" -> first
    [] OTHER -> NUL

-----------------------------------------------------------------------------
(* The parser *)

\* An int that overflows wraps around.
Wrap(n) == ((n + MaxInt + 1) % (2 * (MaxInt + 1))) - MaxInt - 1

GoTo(to) == pc' = to /\ UNCHANGED ret_code
Fail(code) == pc' = "close" /\ ret_code' = code

\* _UNTIL(c), followed by what the parser does at `to`.
Until(c, at, to) ==
  /\ pc = at
  /\ GetNextChar
  /\ \/ ch = NUL /\ Fail(-7)
     \/ ch = c /\ GoTo(to)
     \/ ch \notin {c, NUL} /\ GoTo(at)
  /\ UNCHANGED <<network, chunked, content_length, resp, data>>

\* __(c)
Expect(c, at, to) ==
  /\ pc = at
  /\ GetNextChar
  /\ \/ ch = c /\ GoTo(to)
     \/ ch # c /\ Fail(-9)
  /\ UNCHANGED <<network, chunked, content_length, resp, data>>

Status == Until(SP, "status", "code")

Code ==
  /\ pc = "code"
  /\ GetNextChar
  /\ \/ ch = NUL /\ Fail(-7)
     \/ ch \in Decimals /\ pc' = "code" /\ ret_code' = Wrap(10 * ret_code + ch)
     \/ ch \notin Decimals \cup {NUL} /\ GoTo("line")
  /\ UNCHANGED <<network, chunked, content_length, resp, data>>

Line == Until(LF, "line", "header")

\* The switch on the first character of a line.
Header ==
  /\ pc = "header"
  /\ GetNextChar
  /\ chunked' = (chunked \/ ch = CHUNKED)
  /\ \/ ch = NUL /\ Fail(-10)
     \/ ch = CONTENT_LENGTH /\ GoTo("length")
     \/ ch = CR /\ GoTo("headersEnd")
     \/ ch \notin {NUL, CONTENT_LENGTH, CR} /\ GoTo("line")
  /\ UNCHANGED <<network, content_length, resp, data>>

ContentLength ==
  /\ pc = "length"
  /\ GetNextChar
  /\ content_length' =
       IF ch \in Decimals THEN Wrap(10 * content_length + ch) ELSE content_length
  /\ \/ ch = NUL /\ Fail(-7)
     \/ ch \in Decimals /\ GoTo("length")
     \/ ch \notin Decimals \cup {NUL} /\ GoTo("line")
  /\ UNCHANGED <<network, chunked, resp, data>>

HeadersEnd == Expect(LF, "headersEnd", IF chunked THEN "size" ELSE "body")

\* Slip: the length of a chunk is read as a decimal number.
ChunkSize_Decimal ==
  /\ pc = "size"
  /\ GetNextChar
  /\ content_length' =
       IF ch \in 0..15 THEN Wrap(10 * content_length + ch) ELSE content_length
  /\ \/ ch = NUL /\ Fail(-7)
     \/ ch \in 0..15 /\ GoTo("size")
     \/ ch = CR /\ GoTo("sizeEnd")
     \/ ch \notin (0..15) \cup {CR, NUL} /\ Fail(-8)
  /\ UNCHANGED <<network, chunked, resp, data>>

ChunkSize ==
  /\ pc = "size"
  /\ GetNextChar
  /\ content_length' =
       IF ch \in 0..15 THEN Wrap(16 * content_length + ch) ELSE content_length
  /\ \/ ch = NUL /\ Fail(-7)
     \/ ch \in 0..15 /\ GoTo("size")
     \/ ch = CR /\ GoTo("sizeEnd")
     \/ ch \notin (0..15) \cup {CR, NUL} /\ Fail(-8)
  /\ UNCHANGED <<network, chunked, resp, data>>

\* Slip: the chunk without data is taken for one of the others.
ChunkSizeEnd_NoLast == Expect(LF, "sizeEnd", "body")

\* The chunk without data is the last one.
ChunkSizeEnd == Expect(LF, "sizeEnd", IF content_length = 0 THEN "lastCR" ELSE "body")

LastCR == Expect(CR, "lastCR", "lastLF")
LastLF == Expect(LF, "lastLF", "close")

-----------------------------------------------------------------------------
(* The body *)

\* Slip: everything in the buffer belongs to the body.
Portion_All(n) == n

\* How much of n characters in the buffer belongs to the body.
Portion(n) == IF n < content_length THEN n ELSE content_length

\* The n characters that have not been read begin after the first `from`.
Appended(from, n) ==
  /\ content_length' = content_length - Portion(n)
  /\ resp' = resp \o SubSeq(wire, from + 1, from + Portion(n))
  /\ left' = n - Portion(n)

\* After a 0 from recv() there is nothing to append, over and over.
ReadBody ==
  /\ pc = "body" /\ content_length > 0
  /\ \/ left > 0 /\ Appended(taken - left, left) /\ UNCHANGED <<taken, first>>
     \/ \E n \in 1..Len(wire) : Piece(n) /\ Appended(taken, n)
     \/ left = 0 /\ conn = "closed" /\ UNCHANGED <<buffer, content_length, resp>>
  /\ UNCHANGED <<pc, network, chunked, ret_code, data>>

\* The body is complete, or recv() has failed.
BodyEnds ==
  /\ pc = "body"
  /\ content_length <= 0 \/ (left = 0 /\ conn = "broken")
  /\ GoTo(IF chunked THEN "bodyCR" ELSE "close")
  /\ UNCHANGED <<network, buffer, chunked, content_length, resp, data>>

\* Slip: leaves the loop instead of failing.
BodyCR_Leave ==
  /\ pc = "bodyCR"
  /\ GetNextChar
  /\ GoTo(IF ch = CR THEN "bodyLF" ELSE "close")
  /\ UNCHANGED <<network, chunked, content_length, resp, data>>

BodyCR == Expect(CR, "bodyCR", "bodyLF")
BodyLF == Expect(LF, "bodyLF", "size")

-----------------------------------------------------------------------------
(* The end of http_request() and of readData() *)

Result(code) == IF code \div 100 = 2 THEN 0 ELSE code

CloseSocket ==
  /\ pc = "close"
  /\ pc' = "parse"
  /\ conn' = IF conn = "open" THEN "none" ELSE conn
  /\ ret_code' = Result(ret_code)
  /\ UNCHANGED <<answer, wire, buffer, chunked, content_length, resp, data>>

\* The document is parsed, and its rows are copied; a document that breaks
\* off does not parse, and one without a series fails an assertion of the
\* JSON library, which throws as well.
Parse ==
  /\ pc = "parse"
  /\ pc' = "returned"
  /\ data' = IF ret_code # 0 THEN "nothing"
             ELSE IF answer.rows /\ resp = Body(answer) THEN "rows" ELSE "exception"
  /\ UNCHANGED <<network, buffer, parsed>>

-----------------------------------------------------------------------------

Request ==
  \/ Misconfigured \/ CannotConnect \/ Connect \/ Write
  \/ Status \/ Code \/ Line \/ Header \/ ContentLength \/ HeadersEnd
  \/ ChunkSize \/ ChunkSizeEnd \/ LastCR \/ LastLF
  \/ ReadBody \/ BodyEnds \/ BodyCR \/ BodyLF
  \/ CloseSocket \/ Parse

Next == Request \/ CutOff

\* The thread runs, and the database sends its answer unless it ends the
\* connection; recv() has no timeout.
Spec == Init /\ [][Next]_vars /\ WF_vars(Request)

-----------------------------------------------------------------------------
(* Properties *)

(* Wherever recv() splits the answer, what has been appended to the body   *)
(* is the beginning of the body the database sent, and a success means all *)
(* of it, except that a connection which breaks inside a body with a       *)
(* Content-Length goes unnoticed.                                          *)
BodyIsSent ==
  /\ IsPrefix(resp, Body(answer))
  /\ pc = "close" /\ ret_code \div 100 = 2
       => resp = Body(answer) \/ (conn = "broken" /\ answer.framing = "length")

\* The database has answered, and the answer has not been cut off.
Answered ==
  /\ taken > 0
  /\ conn = "none" \/ (taken = Len(wire) /\ left = 0)

(* However it is split, an answer that arrives is reported for what it     *)
(* says: rows, an exception for a document without rows or none at all,    *)
(* nothing for a status that is no success.                                *)
AnswerIsReported ==
  pc = "returned" /\ Answered =>
    data = IF answer.status \notin 200..299 THEN "nothing"
           ELSE IF answer.rows THEN "rows" ELSE "exception"

(* An answer that breaks off is never taken for rows of the table, which   *)
(* an agent would diagnose.  (The parser may find the very last character  *)
(* at the beginning of its buffer when the database has closed before it.) *)
NeverPartialRows == data = "rows" => taken >= Len(wire) - 1

(* Every request returns, whatever is refused and wherever the connection  *)
(* breaks, unless the database closes it within the answer: then the       *)
(* parser may go on for ever with what the buffer begins with.             *)
Returns == <>(pc = "returned" \/ (conn = "closed" /\ taken < Len(wire)))

=============================================================================
