------------------------------- MODULE Lines -------------------------------
(***************************************************************************)
(* How characters become lines at both ends of the serial link: LineReader   *)
(* on the board, fed one character at a time into a buffer that may be too    *)
(* short, and LineBuffer in the page, given whatever chunk the port read.     *)
(***************************************************************************)
EXTENDS Integers, Sequences, FiniteSets

CONSTANTS
  Letters,      \* characters that are neither "cr" nor "lf"
  Chunks,       \* what one read of the page's port may deliver
  MaxLineIn,    \* kMaxLineIn: characters a line from the host may have, 256
  MaxTyped, MaxSent, MaxText   \* bounds: a line's letters, lines, a session's characters

Chars == Letters \cup {"cr", "lf"}

ASSUME LinesAssumption ==
  /\ "cr" \notin Letters /\ "lf" \notin Letters /\ Chunks \subseteq Seq(Chars)
  /\ MaxLineIn \in Nat /\ MaxTyped \in Nat /\ MaxSent \in Nat /\ MaxText \in Nat

VARIABLES
  reader,       \* LineReader: the line being gathered, whether it is too long, the lines read
  typed, sent,  \* history: the letters of the line being sent, and the lines sent
  buffer,       \* LineBuffer._buf
  received,     \* the lines it has returned
  text          \* history: the characters pushed since the port was opened

readerVars == <<reader, typed, sent>>
bufferVars == <<buffer, received, text>>
-----------------------------------------------------------------------------
FreshReader == [buf |-> <<>>, dropping |-> FALSE, lines |-> <<>>]

Completed(r) == [text |-> r.buf, overflowed |-> r.dropping]

(* Slip: once a line was too long, every later one is.                       *)
FeedLine_NoRecovery(r, c) ==
  CASE c = "cr" -> r
    [] c = "lf" -> [r EXCEPT !.buf = <<>>, !.lines = Append(@, Completed(r))]
    [] c \in Letters /\ Len(r.buf) >= MaxLineIn -> [r EXCEPT !.dropping = TRUE]
    [] c \in Letters /\ Len(r.buf) < MaxLineIn -> [r EXCEPT !.buf = Append(@, c)]

(* LineReader::feed; loop() answers an overflowed line with an error and     *)
(* never looks at its text.                                                *)
FeedLine(r, c) ==
  CASE c = "cr" -> r
    [] c = "lf" -> [FreshReader EXCEPT !.lines = Append(r.lines, Completed(r))]
    [] c \in Letters /\ Len(r.buf) >= MaxLineIn -> [r EXCEPT !.dropping = TRUE]
    [] c \in Letters /\ Len(r.buf) < MaxLineIn -> [r EXCEPT !.buf = Append(@, c)]

ReaderInit == reader = FreshReader /\ typed = <<>> /\ sent = <<>>

(* A carriage return is read and is no part of any line.                     *)
TypeChar ==
  /\ Len(typed) < MaxTyped
  /\ \E c \in Letters \cup {"cr"} :
       /\ reader' = FeedLine(reader, c)
       /\ typed' = IF c = "cr" THEN typed ELSE Append(typed, c)
  /\ UNCHANGED sent

TypeLineFeed ==
  /\ Len(sent) < MaxSent
  /\ reader' = FeedLine(reader, "lf")
  /\ sent' = Append(sent, typed) /\ typed' = <<>>

(* The board starts, with a reader of its own.                               *)
Boot == reader' = FreshReader /\ typed' = <<>> /\ sent' = <<>>

ReaderNext == TypeChar \/ TypeLineFeed \/ Boot

ReaderSpec == ReaderInit /\ [][ReaderNext]_readerVars
-----------------------------------------------------------------------------
Feeds(t) == {i \in DOMAIN t : t[i] = "lf"}

FeedsUpto(t, i) == Cardinality({j \in Feeds(t) : j <= i})

(* Where the k-th line of t ends; none ends at 0, where the first begins.    *)
EndOf(t, k) == IF k = 0 THEN 0 ELSE CHOOSE i \in Feeds(t) : FeedsUpto(t, i) = k

(* Slip: the last piece is a line even though nothing ended it.              *)
Split_LosesRest(t) ==
  LET n == Cardinality(Feeds(t))
  IN  [lines |-> [k \in 1 .. n |-> SubSeq(t, EndOf(t, k - 1) + 1, EndOf(t, k) - 1)],
       rest  |-> <<>>]

(* String.split('\n') and the pop of its last piece.                         *)
Split(t) ==
  LET n == Cardinality(Feeds(t))
  IN  [lines |-> [k \in 1 .. n |-> SubSeq(t, EndOf(t, k - 1) + 1, EndOf(t, k) - 1)],
       rest  |-> SubSeq(t, EndOf(t, n) + 1, Len(t))]

BufferInit == buffer = <<>> /\ received = <<>> /\ text = <<>>

(* LineBuffer.push.                                                          *)
Push ==
  \E chunk \in Chunks :
    LET pieces == Split(buffer \o chunk)
    IN  /\ Len(text) + Len(chunk) <= MaxText
        /\ buffer' = pieces.rest
        /\ received' = received \o pieces.lines
        /\ text' = text \o chunk

(* Each read loop has a LineBuffer of its own.                               *)
OpenPort == buffer' = <<>> /\ received' = <<>> /\ text' = <<>>

BufferNext == Push \/ OpenPort

BufferSpec == BufferInit /\ [][BufferNext]_bufferVars
-----------------------------------------------------------------------------
(* Every line feed ends one line on the board.  It is delivered whole and    *)
(* without its carriage returns, or flagged as too long, whatever came       *)
(* before it (LineReader::feed).                                            *)
BoardLines ==
  /\ Len(reader.lines) = Len(sent)
  /\ \A k \in DOMAIN sent :
       IF Len(sent[k]) > MaxLineIn THEN reader.lines[k].overflowed
       ELSE reader.lines[k] = [text |-> sent[k], overflowed |-> FALSE]

(* However the port cuts a text into chunks, the page has seen the lines of  *)
(* the whole text, and holds what no line feed has ended (LineBuffer.push).  *)
PageLines == received = Split(text).lines /\ buffer = Split(text).rest

(* A line arrives as it was sent, in either direction.                       *)
LinesAreWhole == BoardLines /\ PageLines
=============================================================================
