------------------------------ MODULE ReadBuffer ------------------------------
(***************************************************************************)
(* How GORM_ClientEvent::Read cuts the byte stream of a connection into    *)
(* responses with one buffer (src/src/gorm_client_event.cc).  Only the     *)
(* network thread uses the buffer; each recv and each turn of the parsing  *)
(* loop is a step, since bytes may arrive between them.                    *)
(*                                                                         *)
(* A byte is its position in the stream of its connection, so that what is *)
(* handed on can be compared with what was sent.  Positions in the buffer  *)
(* count from 0 (m_uszData); the end of the buffer (m_uszEnd) is cap.      *)
(* ResponseStream says what the buffer is for.                             *)
(***************************************************************************)
EXTENDS Integers, Sequences

CONSTANTS
  BufCap,      \* capacity of the first buffer (1 MB, the largest pool size)
  LenBytes,    \* length is known once more bytes than this are there (4)
  MaxLen,      \* GORM_MAX_REQUEST_LEN
  Half,        \* half of the values of 32 bits (2^31)
  ReadMax,     \* GORM_SOCKET_READ_MAX_BUFF
  Lens,        \* lengths of responses the server sends
  MaxMsgs,     \* responses on one connection (bound)
  MaxCloses    \* closes of a behaviour (bound)

ASSUME BufferAssumption ==
  /\ {BufCap, MaxLen, ReadMax} \subseteq Nat \ {0}
  /\ {LenBytes, MaxMsgs, MaxCloses, Half} \subseteq Nat
  /\ \A n \in Lens : n \in Nat /\ n > LenBytes /\ n < 2 * Half
  /\ BufCap <= MaxLen /\ LenBytes < BufCap /\ MaxLen < Half

VARIABLES
  ends,          \* where each response sent on this connection ends
  taken,         \* bytes of them recv returned
  hungUp,        \* the server closed the connection
  cap, buf,      \* capacity and contents of readingBuffer
  readPos, beginReadPos, needReadLen,
  cont,          \* bCouldContinue
  at,            \* where Read is: "idle" (not running), "recv", "parse";
                 \* "astray" once beginReadPos has gone backwards
  rejected,      \* a response was too large and Read returned an error
  handled,       \* responses handed to OneRspFinishRead
  response,      \* bytes of the last of them
  closes,        \* times Close was called
  whilstOpen     \* Close was called while the server had not closed

stream == <<ends, taken, hungUp>>
buffer == <<cap, buf, readPos, beginReadPos, needReadLen>>
reading == <<cont, at, rejected>>
outcome == <<handled, response, closes, whilstOpen>>
vars == <<stream, buffer, reading, outcome>>

Sent == IF ends = <<>> THEN 0 ELSE ends[Len(ends)]

\* First byte and length of the k-th response on the connection.
StartOf(k) == IF k = 1 THEN 0 ELSE ends[k - 1]
LengthOf(k) == ends[k] - StartOf(k)
BytesOf(k) == [i \in 1 .. LengthOf(k) |-> StartOf(k) + i - 1]

NoByte == -1
Bytes(from, n) == [i \in 1 .. n |-> buf[from + i]]

\* GORM_GetMsgLen of the bytes at a position: the length that is sent there.
GORM_GetMsgLen(pos) ==
  IF \E k \in DOMAIN ends : StartOf(k) = buf[pos + 1]
    THEN LengthOf(CHOOSE k \in DOMAIN ends : StartOf(k) = buf[pos + 1])
    ELSE 0

\* The unsigned length as the signed needReadLen it is assigned to.
ToInt(n) == IF n < Half THEN n ELSE n - 2 * Half

Init ==
  /\ ends = <<>> /\ taken = 0 /\ hungUp = FALSE
  /\ cap = BufCap /\ buf = [i \in 1 .. BufCap |-> NoByte]
  /\ readPos = 0 /\ beginReadPos = 0 /\ needReadLen = 0
  /\ cont = FALSE /\ at = "idle" /\ rejected = FALSE
  /\ handled = 0 /\ response = <<>> /\ closes = 0 /\ whilstOpen = FALSE

-----------------------------------------------------------------------------
(* The server.                                                             *)

Respond(n) ==
  /\ ~hungUp /\ Len(ends) < MaxMsgs
  /\ ends' = Append(ends, Sent + n)
  /\ UNCHANGED <<taken, hungUp, buffer, reading, outcome>>

HangUp ==
  /\ ~hungUp
  /\ hungUp' = TRUE
  /\ UNCHANGED <<ends, taken, buffer, reading, outcome>>

-----------------------------------------------------------------------------
(* Read.                                                                   *)

\* EPOLLIN: data or the end of the stream.
Read ==
  /\ at = "idle" /\ (taken < Sent \/ hungUp)
  /\ at' = "recv"
  /\ UNCHANGED <<stream, buffer, cont, rejected, outcome>>

\* Close, and the reconnection it waits for: a new stream, the same buffer.
Close ==
  /\ closes < MaxCloses
  /\ closes' = closes + 1
  /\ whilstOpen' = (whilstOpen \/ ~hungUp)
  /\ ends' = <<>> /\ taken' = 0 /\ hungUp' = FALSE
  /\ readPos' = 0 /\ beginReadPos' = 0 /\ needReadLen' = 0
  /\ at' = "idle" /\ rejected' = FALSE
  /\ handled' = 0 /\ response' = <<>>
  /\ UNCHANGED <<cap, buf, cont>>

\* recv returns 0: the server has closed, or there was no room to read into.
RecvNothing ==
  /\ at = "recv"
  /\ readPos = cap \/ (hungUp /\ taken = Sent)
  /\ Close

\* recv fails: the server reset the connection, and what it had sent is lost.
RecvFails == at = "recv" /\ readPos < cap /\ hungUp /\ Close

\* recv returns n bytes.  A short read ends the outer loop afterwards.
Continue(n) == ~(n < ReadMax /\ n < cap - readPos)

RecvBytes(n) ==
  /\ at = "recv"
  /\ n <= cap - readPos /\ n <= Sent - taken
  /\ buf' = [i \in 1 .. cap |-> IF i - 1 \in readPos .. readPos + n - 1
                                  THEN taken + i - 1 - readPos ELSE buf[i]]
  /\ taken' = taken + n
  /\ readPos' = readPos + n
  /\ cont' = Continue(n)
  /\ at' = "parse"
  /\ UNCHANGED <<ends, hungUp, cap, beginReadPos, needReadLen, rejected, outcome>>

\* recv finds nothing yet (EAGAIN).
RecvAgain ==
  /\ at = "recv" /\ readPos < cap
  /\ at' = "idle"
  /\ UNCHANGED <<stream, buffer, cont, rejected, outcome>>

\* What BeginReadNextMsg leaves in the buffer for a message of length n of
\* which got bytes are there: a larger buffer, the bytes at the start of this
\* one, or the bytes where they are.
MakeRoomForgetsCopy(n, got) ==
  IF n > cap - beginReadPos
    THEN /\ cap' = IF n > cap THEN n ELSE cap
         /\ buf' = IF n > cap THEN [i \in 1 .. n |-> NoByte] ELSE buf
         /\ beginReadPos' = 0 /\ readPos' = got
    ELSE UNCHANGED <<cap, buf, beginReadPos, readPos>>
MakeRoomKeepsPlace(n, got) == UNCHANGED <<cap, buf, beginReadPos, readPos>>
MakeRoom(n, got) ==
  IF n > cap - beginReadPos
    THEN /\ cap' = IF n > cap THEN n ELSE cap
         /\ buf' = [i \in 1 .. cap' |->
                      IF i <= got THEN buf[beginReadPos + i]
                      ELSE IF n > cap THEN NoByte ELSE buf[i]]
         /\ beginReadPos' = 0 /\ readPos' = got
    ELSE UNCHANGED <<cap, buf, beginReadPos, readPos>>

\* BeginReadNextMsg reads the length of the next message, if it is there.
\* A message that is too large ends Read with an error, and its length stays;
\* a length that becomes negative passes for a small one.
BeginReadNextMsg ==
  LET got == readPos - beginReadPos
      n == ToInt(GORM_GetMsgLen(beginReadPos)) IN
  /\ at = "parse" /\ needReadLen = 0 /\ got > LenBytes
  /\ needReadLen' = n
  /\ IF n > MaxLen
       THEN /\ rejected' = TRUE /\ at' = "idle"
            /\ UNCHANGED <<cap, buf, beginReadPos, readPos>>
       ELSE /\ MakeRoom(n, got)
            /\ UNCHANGED <<rejected, at>>
  /\ UNCHANGED <<stream, cont, outcome>>

WholeUnchecked == needReadLen # 0
Whole == needReadLen # 0 /\ needReadLen <= readPos - beginReadPos

\* A whole response is handed on, and the loop looks for the next one.  With a
\* negative length the position moves backwards, to bytes that are not in step
\* with the stream and may be outside the buffer: the model stops there.
OneRspFinishRead ==
  /\ at = "parse" /\ Whole
  /\ handled' = handled + 1
  /\ response' = Bytes(beginReadPos, needReadLen)
  /\ beginReadPos' = beginReadPos + needReadLen
  /\ needReadLen' = 0
  /\ at' = IF needReadLen < 0 THEN "astray" ELSE at
  /\ UNCHANGED <<stream, cap, buf, readPos, cont, rejected, closes, whilstOpen>>

\* No whole response is left: recv again, or return.
ParseDoneEarly ==
  /\ at = "parse"
  /\ at' = IF cont THEN "recv" ELSE "idle"
  /\ UNCHANGED <<stream, buffer, cont, rejected, outcome>>
ParseDone ==
  /\ at = "parse" /\ ~Whole
  /\ needReadLen # 0 \/ readPos - beginReadPos <= LenBytes
  /\ at' = IF cont THEN "recv" ELSE "idle"
  /\ UNCHANGED <<stream, buffer, cont, rejected, outcome>>

ReadStep ==
  \/ Read \/ RecvNothing \/ BeginReadNextMsg \/ OneRspFinishRead \/ ParseDone
  \/ \E n \in 1 .. cap : RecvBytes(n)

Next ==
  \/ ReadStep \/ RecvAgain \/ RecvFails \/ HangUp
  \/ \E n \in Lens : Respond(n)

Spec == Init /\ [][Next]_vars

\* The network thread runs Read while epoll reports the connection readable,
\* and bytes that were sent arrive, so recv does not find nothing for ever.
FairSpec == Spec /\ WF_vars(ReadStep) /\ SF_vars(\E n \in 1 .. cap : RecvBytes(n))

-----------------------------------------------------------------------------
(* Properties.                                                             *)

TypeOK ==
  /\ ends \in Seq(Nat) /\ \A k \in DOMAIN ends : LengthOf(k) \in Lens
  /\ taken \in 0 .. Sent /\ hungUp \in BOOLEAN
  /\ cap \in Nat /\ buf \in [1 .. cap -> Nat \cup {NoByte}] /\ needReadLen \in Int
  /\ at # "astray" => beginReadPos \in 0 .. readPos
  /\ readPos \in 0 .. cap
  /\ cont \in BOOLEAN /\ at \in {"idle", "recv", "parse", "astray"}
  /\ rejected \in BOOLEAN /\ whilstOpen \in BOOLEAN
  /\ handled \in 0 .. Len(ends) /\ closes \in 0 .. MaxCloses

\* A response that has begun fits into what is left of the buffer, so the
\* rest of it can always be read.
RoomForRest ==
  needReadLen # 0 /\ ~rejected => beginReadPos + needReadLen <= cap

\* Read never returns with a whole response in the buffer: the next one might
\* never come to wake it.
NothingLeftBehind ==
  at = "idle" /\ ~rejected =>
    \/ readPos - beginReadPos <= LenBytes
    \/ readPos - beginReadPos < GORM_GetMsgLen(beginReadPos)

\* Every response is handed on, unless the connection is closed, a response
\* was refused, or a length became negative.
EveryResponse ==
  \A k \in 1 .. MaxMsgs :
    Len(ends) >= k ~> handled >= k \/ closes > 0 \/ rejected \/ at = "astray"

\* Whatever recv cuts and whatever is moved or reallocated, Read hands on the
\* responses the server sent, whole and in order: byte for byte, each is the
\* next one.  Up to a length that becomes negative; a response that is merely
\* too long is refused, and does not disturb what was handed on.
Stream == INSTANCE ResponseStream
  WITH sent <- [k \in DOMAIN ends |-> BytesOf(k)], delivered <- handled, last <- response
StreamSpec == Stream!Fresh /\ [][at' # "astray" => Stream!Next]_(Stream!vars)

\* "If there is nothing to read, return GORM_EAGAIN": only a server that has
\* closed its end makes the client close the connection.
ClosedOnlyByServer == ~whilstOpen
=============================================================================
