--------------------------- MODULE ReadBufferProofs ---------------------------
(***************************************************************************)
(* Proofs about ReadBuffer, for every size of the buffer, every limit and  *)
(* all lengths of responses: the buffer stays in step with the stream, and *)
(* what Read hands on is what ResponseStream promises, until a length of   *)
(* Half or more is read, which becomes negative.                           *)
(***************************************************************************)
EXTENDS ReadBuffer, TLAPS

-----------------------------------------------------------------------------
(* The inductive invariant.                                                *)

\* The responses lie one behind the other.
Increasing == \A j, k \in DOMAIN ends : j < k => ends[j] < ends[k]

\* Where the next response to be handed on starts.
From == StartOf(handled + 1)

\* The bytes in the buffer are those from the next response on ...
Place == taken - From = readPos - beginReadPos

\* ... one by one.
Contents ==
  \A i \in 1 .. readPos - beginReadPos :
    buf[beginReadPos + i] = From + i - 1

\* A length that was read is that of the next response, and only a response
\* that is too long is refused.
Begun ==
  /\ needReadLen # 0 => handled < Len(ends) /\ needReadLen = ToInt(LengthOf(handled + 1))
  /\ rejected <=> needReadLen > MaxLen
  /\ cap <= MaxLen

\* Outside the parsing loop the buffer holds no whole response.
Parsed ==
  at # "parse" /\ ~rejected =>
    IF needReadLen = 0 THEN readPos - beginReadPos <= LenBytes
                       ELSE readPos - beginReadPos < needReadLen

IndInv ==
  /\ TypeOK /\ at # "astray"
  /\ Increasing /\ Place /\ Contents /\ Begun /\ RoomForRest /\ Parsed

Inv == TypeOK /\ IF at = "astray" THEN needReadLen = 0 ELSE IndInv

-----------------------------------------------------------------------------
(* The stream.                                                             *)

LEMMA EndsFacts ==
  ASSUME TypeOK
  PROVE  /\ Len(ends) \in Nat /\ DOMAIN ends = 1 .. Len(ends)
         /\ \A k \in 1 .. Len(ends) : ends[k] \in Nat
         /\ ends = <<>> <=> Len(ends) = 0
BY DEF TypeOK

\* Where a response starts and ends, and how long it is.
LEMMA StartFacts ==
  ASSUME TypeOK
  PROVE  /\ Sent \in Nat /\ Sent = StartOf(Len(ends) + 1)
         /\ StartOf(1) = 0
         /\ \A k \in 1 .. Len(ends) :
              /\ StartOf(k) \in Nat /\ LengthOf(k) \in Nat /\ LengthOf(k) > LenBytes
              /\ StartOf(k + 1) = ends[k] /\ ends[k] = StartOf(k) + LengthOf(k)
<1>1. StartOf(1) = 0
  BY DEF StartOf
<1>2. ASSUME NEW k \in 1 .. Len(ends)
      PROVE  StartOf(k) \in Nat /\ StartOf(k + 1) = ends[k]
  BY <1>2, EndsFacts DEF StartOf
<1>3. ASSUME NEW k \in 1 .. Len(ends)
      PROVE  LengthOf(k) \in Nat /\ LengthOf(k) > LenBytes /\ ends[k] = StartOf(k) + LengthOf(k)
  <2>1. LengthOf(k) \in Lens
    BY EndsFacts DEF TypeOK
  <2>2. LengthOf(k) \in Nat /\ LengthOf(k) > LenBytes
    BY <2>1, BufferAssumption
  <2>3. QED  BY <1>2, <2>2, EndsFacts DEF LengthOf
<1>4. Sent \in Nat /\ Sent = StartOf(Len(ends) + 1)
  BY EndsFacts DEF Sent, StartOf
<1>5. QED  BY <1>1, <1>2, <1>3, <1>4

\* Different responses start at different places, all of them sent.
LEMMA StartsDiffer ==
  ASSUME TypeOK, Increasing,
         NEW j \in 1 .. Len(ends), NEW k \in 1 .. Len(ends), j < k
  PROVE  StartOf(j) < StartOf(k)
<1>1. LenBytes \in Nat
  BY BufferAssumption
<1>2. StartOf(j) < ends[j]
  BY <1>1, StartFacts, EndsFacts
<1>3. ends[j] <= ends[k - 1] /\ StartOf(k) = ends[k - 1]
  BY EndsFacts DEF Increasing, StartOf
<1>4. QED  BY <1>2, <1>3, StartFacts, EndsFacts

\* A length keeps its value as a signed number, or becomes negative.
LEMMA Signed ==
  ASSUME TypeOK, NEW k \in 1 .. Len(ends)
  PROVE  /\ ToInt(LengthOf(k)) \in Int
         /\ LengthOf(k) < Half => ToInt(LengthOf(k)) = LengthOf(k)
         /\ LengthOf(k) >= Half => ToInt(LengthOf(k)) < 0
<1>1. LengthOf(k) \in Nat /\ LengthOf(k) < 2 * Half /\ Half \in Nat
  <2>1. LengthOf(k) \in Lens
    BY EndsFacts DEF TypeOK
  <2>2. QED  BY <2>1, BufferAssumption
<1>2. QED  BY <1>1 DEF ToInt

\* If there is a byte in the buffer, the next response has been sent, at least
\* in part, and the length that is read is its length.
LEMMA HeaderFound ==
  ASSUME IndInv, readPos > beginReadPos
  PROVE  /\ handled < Len(ends) /\ handled + 1 \in 1 .. Len(ends)
         /\ GORM_GetMsgLen(beginReadPos) = LengthOf(handled + 1)
<1>1. /\ handled \in 0 .. Len(ends) /\ Len(ends) \in Nat /\ taken \in 0 .. Sent
      /\ readPos \in Nat /\ beginReadPos \in Nat /\ cap \in Nat
  BY EndsFacts DEF IndInv, TypeOK
<1>2. handled # Len(ends)
  BY <1>1, StartFacts DEF IndInv, Place, From
<1>3. handled + 1 \in 1 .. Len(ends) /\ handled < Len(ends)
  BY <1>1, <1>2
<1>4. buf[beginReadPos + 1] = StartOf(handled + 1)
  BY <1>1, <1>3, StartFacts DEF IndInv, Contents, From
<1> DEFINE starts(k) == StartOf(k) = buf[beginReadPos + 1]
<1>5. ASSUME NEW k \in DOMAIN ends, starts(k) PROVE k = handled + 1
  <2>1. k \in 1 .. Len(ends) /\ StartOf(k) = StartOf(handled + 1)
    BY <1>4, <1>5, EndsFacts DEF IndInv
  <2>2. ~(k < handled + 1) /\ ~(handled + 1 < k)
    BY <1>1, <1>3, <2>1, StartsDiffer, StartFacts DEF IndInv
  <2>3. QED  BY <1>3, <2>1, <2>2
<1>6. handled + 1 \in DOMAIN ends /\ starts(handled + 1)
  BY <1>3, <1>4, EndsFacts DEF IndInv
<1>7. (CHOOSE k \in DOMAIN ends : starts(k)) = handled + 1
  BY <1>5, <1>6
<1>8. QED  BY <1>3, <1>6, <1>7 DEF GORM_GetMsgLen

-----------------------------------------------------------------------------
(* Initial states and steps that leave the buffer alone.                   *)

LEMMA InitInv == Init => IndInv
<1> SUFFICES ASSUME Init PROVE IndInv
  OBVIOUS
<1> USE BufferAssumption DEF Init
<1>1. Sent = 0 /\ From = 0 /\ Len(ends) = 0 /\ DOMAIN ends = {}
  BY DEF Sent, StartOf, From
<1>2. BufCap \in Nat /\ MaxLen \in Nat \ {0} /\ LenBytes \in Nat /\ MaxCloses \in Nat
  OBVIOUS
<1>3. TypeOK
  <2>1. ends \in Seq(Nat) /\ \A k \in DOMAIN ends : LengthOf(k) \in Lens
    BY <1>1
  <2>2. cap \in Nat /\ buf \in [1 .. cap -> Nat \cup {NoByte}]
    BY <1>2
  <2>3. taken \in 0 .. Sent /\ handled \in 0 .. Len(ends) /\ closes \in 0 .. MaxCloses
    BY <1>1, <1>2
  <2>4. needReadLen \in Int /\ beginReadPos \in 0 .. readPos /\ readPos \in 0 .. cap
    BY <1>2
  <2>5. QED  BY <2>1, <2>2, <2>3, <2>4 DEF TypeOK
<1>4. Increasing /\ Place /\ Contents
  BY <1>1 DEF Increasing, Place, Contents
<1>5. Begun /\ RoomForRest /\ Parsed
  BY <1>2 DEF Begun, RoomForRest, Parsed
<1>6. QED  BY <1>3, <1>4, <1>5 DEF IndInv

\* The stream is seen through these operators only.
LEMMA SameStream ==
  ASSUME ends' = ends
  PROVE  /\ Sent' = Sent /\ \A k : StartOf(k)' = StartOf(k) /\ LengthOf(k)' = LengthOf(k)
BY DEF Sent, StartOf, LengthOf

LEMMA SameFrom == ASSUME UNCHANGED <<ends, handled>> PROVE From' = From
BY SameStream DEF From

LEMMA QuietStep ==
  ASSUME IndInv, UNCHANGED <<ends, taken, buffer, cont, rejected, outcome>>,
         hungUp' \in BOOLEAN, at' \in {"idle", "recv", "parse"},
         at' # "parse" /\ ~rejected =>
           IF needReadLen = 0 THEN readPos - beginReadPos <= LenBytes
                              ELSE readPos - beginReadPos < needReadLen
  PROVE  IndInv'
<1> USE SameStream, SameFrom DEF buffer, outcome
<1>1. TypeOK'
  BY DEF IndInv, TypeOK
<1>2. Increasing' /\ Place' /\ Contents' /\ RoomForRest' /\ Parsed'
  BY DEF IndInv, Increasing, Place, Contents, RoomForRest, Parsed
<1>3. Begun'
  BY DEF IndInv, Begun
<1>4. QED  BY <1>1, <1>2, <1>3 DEF IndInv

LEMMA ReadInv == ASSUME IndInv, Read PROVE IndInv'
<1>1. at = "idle" /\ at' = "recv" /\ hungUp' = hungUp
  BY DEF Read, stream
<1>2. UNCHANGED <<ends, taken, buffer, cont, rejected, outcome>>
  BY DEF Read, stream
<1>3. QED  BY <1>1, <1>2, QuietStep DEF IndInv, TypeOK, Parsed

LEMMA RecvAgainInv == ASSUME IndInv, RecvAgain PROVE IndInv'
<1>1. at = "recv" /\ at' = "idle" /\ hungUp' = hungUp
  BY DEF RecvAgain, stream
<1>2. UNCHANGED <<ends, taken, buffer, cont, rejected, outcome>>
  BY DEF RecvAgain, stream
<1>3. QED  BY <1>1, <1>2, QuietStep DEF IndInv, TypeOK, Parsed

LEMMA HangUpInv == ASSUME IndInv, HangUp PROVE IndInv'
<1>1. UNCHANGED <<ends, taken, buffer, cont, rejected, outcome>> /\ at' = at
  BY DEF HangUp, reading
<1>2. QED  BY <1>1, QuietStep DEF IndInv, TypeOK, Parsed, HangUp

LEMMA ParseDoneInv == ASSUME IndInv, ParseDone PROVE IndInv'
<1>1. UNCHANGED <<ends, taken, buffer, cont, rejected, outcome>> /\ hungUp' = hungUp
  BY DEF ParseDone, stream
<1>2. at' \in {"idle", "recv"}
  BY DEF ParseDone
<1>3. IF needReadLen = 0 THEN readPos - beginReadPos <= LenBytes
                         ELSE readPos - beginReadPos < needReadLen
  BY DEF ParseDone, Whole, IndInv, TypeOK
<1>4. QED  BY <1>1, <1>2, <1>3, QuietStep DEF IndInv, TypeOK

-----------------------------------------------------------------------------
(* Steps that change the stream or the buffer.                             *)

\* A response more leaves those before it where they are.
LEMMA RespondStream ==
  ASSUME TypeOK, NEW n \in Lens, ends' = Append(ends, Sent + n), NEW N, N = Len(ends)
  PROVE  /\ Len(ends') = Len(ends) + 1 /\ ends' \in Seq(Nat)
         /\ \A k \in 1 .. Len(ends) : ends'[k] = ends[k] /\ LengthOf(k)' = LengthOf(k)
         /\ \A k \in 1 .. Len(ends) + 1 : StartOf(k)' = StartOf(k)
         /\ ends'[Len(ends) + 1] = Sent + n /\ LengthOf(N + 1)' = n /\ Sent' = Sent + n
<1>1. n \in Nat /\ Sent \in Nat /\ Sent = StartOf(Len(ends) + 1)
  BY BufferAssumption, StartFacts
<1>2. ends \in Seq(Nat) /\ Sent + n \in Nat /\ Len(ends) \in Nat
  BY <1>1 DEF TypeOK
<1>3. /\ Len(ends') = Len(ends) + 1 /\ ends' \in Seq(Nat)
      /\ \A k \in 1 .. Len(ends) : ends'[k] = ends[k]
      /\ ends'[Len(ends) + 1] = Sent + n
  BY <1>2
<1>4. \A k \in 1 .. Len(ends) + 1 : StartOf(k)' = StartOf(k)
  <2> SUFFICES ASSUME NEW k \in 1 .. Len(ends) + 1 PROVE StartOf(k)' = StartOf(k)
    OBVIOUS
  <2>1. k # 1 => ends'[k - 1] = ends[k - 1]
    BY <1>2, <1>3
  <2>2. QED  BY <2>1 DEF StartOf
<1>5. \A k \in 1 .. Len(ends) : LengthOf(k)' = LengthOf(k)
  BY <1>2, <1>3, <1>4 DEF LengthOf
<1>6. LengthOf(N + 1)' = n
  <2>1. LengthOf(N + 1)' = ends'[N + 1] - StartOf(N + 1)'
    BY DEF LengthOf
  <2>2. Len(ends) + 1 \in 1 .. Len(ends) + 1
    BY <1>2
  <2>3. QED  BY <1>1, <1>3, <1>4, <2>1, <2>2
<1>7. Sent' = Sent + n
  <2>1. ends' # <<>>
    BY <1>2, <1>3
  <2>2. QED  BY <1>3, <2>1 DEF Sent
<1>8. QED  BY <1>3, <1>4, <1>5, <1>6, <1>7

LEMMA RespondInv == ASSUME IndInv, NEW n \in Lens, Respond(n) PROVE IndInv'
<1>1. /\ ends' = Append(ends, Sent + n) /\ hungUp' = hungUp
      /\ UNCHANGED <<taken, buffer, reading, outcome>> /\ TypeOK
  BY DEF Respond, IndInv
<1>0. PICK N : N = Len(ends)
  OBVIOUS
<1>2. /\ N = Len(ends) /\ Len(ends') = Len(ends) + 1 /\ ends' \in Seq(Nat) /\ Len(ends) \in Nat
      /\ \A k \in 1 .. Len(ends) : ends'[k] = ends[k] /\ LengthOf(k)' = LengthOf(k)
      /\ \A k \in 1 .. Len(ends) + 1 : StartOf(k)' = StartOf(k)
      /\ ends'[Len(ends) + 1] = Sent + n /\ LengthOf(N + 1)' = n /\ Sent' = Sent + n
  BY <1>0, <1>1, RespondStream, EndsFacts
<1>3. n \in Nat /\ n > LenBytes /\ LenBytes \in Nat /\ Sent \in Nat
  BY <1>1, BufferAssumption, StartFacts
<1>4. handled \in 0 .. Len(ends) /\ From' = From
  BY <1>1, <1>2 DEF TypeOK, outcome, From
<1>5. DOMAIN ends' = 1 .. Len(ends) + 1
  BY <1>2
<1>6. TypeOK'
  <2>1. (\A k \in DOMAIN ends : LengthOf(k) \in Lens)'
    <3> SUFFICES ASSUME NEW k \in 1 .. Len(ends) + 1 PROVE LengthOf(k)' \in Lens
      BY <1>5
    <3>1. CASE k \in 1 .. Len(ends)
      BY <1>1, <1>2, <3>1, EndsFacts DEF TypeOK
    <3>2. CASE k = N + 1
      BY <1>2, <3>2
    <3>3. QED  BY <1>2, <3>1, <3>2
  <2>2. taken' \in 0 .. Sent' /\ handled' \in 0 .. Len(ends')
    BY <1>1, <1>2, <1>3, <1>4 DEF TypeOK, outcome
  <2>3. QED  BY <1>1, <1>2, <2>1, <2>2 DEF TypeOK, buffer, reading, outcome
<1>7. Increasing'
  <2> SUFFICES ASSUME NEW j \in 1 .. Len(ends) + 1, NEW k \in 1 .. Len(ends) + 1, j < k
               PROVE  ends'[j] < ends'[k]
    BY <1>5 DEF Increasing
  <2>1. CASE k \in 1 .. Len(ends)
    BY <1>2, <2>1, EndsFacts DEF IndInv, Increasing
  <2>2. CASE k = Len(ends) + 1
    <3>1. j \in 1 .. Len(ends)
      BY <1>2, <2>2
    <3>2. ends[j] <= ends[Len(ends)] /\ ends[j] \in Nat
      BY <1>1, <1>2, <3>1, EndsFacts DEF IndInv, Increasing
    <3>3. Sent = ends[Len(ends)]
      BY <1>2, <3>1 DEF Sent
    <3>4. QED  BY <1>2, <1>3, <2>2, <3>1, <3>2, <3>3
  <2>3. QED  BY <1>2, <2>1, <2>2
<1>8. Place' /\ Contents' /\ RoomForRest' /\ Parsed'
  BY <1>1, <1>4 DEF IndInv, Place, Contents, RoomForRest, Parsed, buffer, reading, outcome
<1>9. Begun'
  BY <1>1, <1>2, <1>4 DEF IndInv, Begun, buffer, reading, outcome
<1>10. QED  BY <1>1, <1>6, <1>7, <1>8, <1>9 DEF IndInv, reading

LEMMA CloseInv == ASSUME IndInv, Close PROVE IndInv'
<1> USE DEF Close
<1>1. MaxLen \in Nat \ {0} /\ LenBytes \in Nat /\ MaxCloses \in Nat
  BY BufferAssumption
<1>2. Sent' = 0 /\ From' = 0 /\ Len(ends') = 0 /\ DOMAIN ends' = {}
  BY DEF Sent, StartOf, From
<1>3. TypeOK'
  <2>1. ends' \in Seq(Nat) /\ (\A k \in DOMAIN ends : LengthOf(k) \in Lens)'
    BY <1>2
  <2>2. taken' \in 0 .. Sent' /\ handled' \in 0 .. Len(ends') /\ closes' \in 0 .. MaxCloses
    BY <1>1, <1>2 DEF IndInv, TypeOK
  <2>3. /\ cap' \in Nat /\ buf' \in [1 .. cap' -> Nat \cup {NoByte}] /\ needReadLen' \in Int
        /\ beginReadPos' \in 0 .. readPos' /\ readPos' \in 0 .. cap'
    BY DEF IndInv, TypeOK
  <2>4. QED  BY <2>1, <2>2, <2>3 DEF IndInv, TypeOK
<1>4. Increasing' /\ Place' /\ Contents' /\ RoomForRest' /\ Parsed'
  BY <1>1, <1>2 DEF Increasing, Place, Contents, RoomForRest, Parsed
<1>5. Begun'
  BY <1>1 DEF IndInv, Begun
<1>6. QED  BY <1>3, <1>4, <1>5 DEF IndInv

LEMMA RecvBytesInv == ASSUME IndInv, NEW n \in 1 .. cap, RecvBytes(n) PROVE IndInv'
<1>1. /\ UNCHANGED <<ends, hungUp, cap, beginReadPos, needReadLen, rejected, outcome>>
      /\ n <= cap - readPos /\ n <= Sent - taken
      /\ taken' = taken + n /\ readPos' = readPos + n /\ at' = "parse" /\ cont' \in BOOLEAN
  BY DEF RecvBytes, Continue
<1>2. /\ cap \in Nat /\ readPos \in 0 .. cap /\ beginReadPos \in 0 .. readPos
      /\ taken \in 0 .. Sent /\ Sent \in Nat /\ n \in Nat /\ handled + 1 \in 1 .. Len(ends) + 1
      /\ buf \in [1 .. cap -> Nat \cup {NoByte}]
  BY StartFacts, EndsFacts DEF IndInv, TypeOK
<1>3. From \in Nat /\ From' = From
  BY <1>1, <1>2, StartFacts, EndsFacts, SameFrom DEF IndInv, From, outcome
<1>4. /\ DOMAIN buf' = 1 .. cap
      /\ \A i \in 1 .. readPos : buf'[i] = buf[i]
      /\ \A i \in readPos + 1 .. readPos + n : buf'[i] = taken + i - 1 - readPos
  BY <1>1, <1>2 DEF RecvBytes
<1>5. buf' \in [1 .. cap -> Nat \cup {NoByte}]
  <2>1. \A i \in 1 .. cap : (IF i - 1 \in readPos .. readPos + n - 1
                              THEN taken + i - 1 - readPos ELSE buf[i]) \in Nat \cup {NoByte}
    BY <1>2
  <2>2. QED  BY <2>1 DEF RecvBytes
<1>6. TypeOK'
  BY <1>1, <1>2, <1>5, SameStream DEF IndInv, TypeOK, outcome
<1>7. Increasing' /\ Place' /\ RoomForRest' /\ Parsed'
  BY <1>1, <1>2, <1>3 DEF IndInv, Increasing, Place, RoomForRest, Parsed, outcome
<1>8. Contents'
  <2> SUFFICES ASSUME NEW i \in 1 .. readPos' - beginReadPos'
               PROVE  buf'[beginReadPos' + i] = From' + i - 1
    BY DEF Contents
  <2>0. /\ i \in Int /\ 1 <= i /\ i <= readPos + n - beginReadPos
        /\ beginReadPos' = beginReadPos
    <3>1. readPos' = readPos + n /\ beginReadPos' = beginReadPos
      BY <1>1
    <3>2. QED  BY <1>2, <3>1
  <2>1. CASE beginReadPos + i <= readPos
    <3>1. i \in 1 .. readPos - beginReadPos /\ beginReadPos + i \in 1 .. readPos
      BY <1>2, <2>0, <2>1
    <3>2. buf'[beginReadPos + i] = buf[beginReadPos + i]
      BY <1>4, <3>1
    <3>3. buf[beginReadPos + i] = From + i - 1
      BY <3>1 DEF IndInv, Contents
    <3>4. QED  BY <1>3, <2>0, <3>2, <3>3
  <2>2. CASE beginReadPos + i > readPos
    <3>1. buf'[beginReadPos + i] = taken + (beginReadPos + i) - 1 - readPos
      BY <1>2, <1>4, <2>0, <2>2
    <3>2. QED  BY <1>2, <1>3, <2>0, <3>1 DEF IndInv, Place
  <2>3. QED  BY <1>2, <2>0, <2>1, <2>2
<1>9. Begun'
  BY <1>1, SameStream DEF IndInv, Begun, outcome
<1>10. QED  BY <1>1, <1>6, <1>7, <1>8, <1>9 DEF IndInv

\* Whether the bytes are moved or stay, they remain the same bytes.
LEMMA BeginReadNextMsgInv == ASSUME IndInv, BeginReadNextMsg PROVE IndInv'
<1> DEFINE got == readPos - beginReadPos
<1> DEFINE n == ToInt(LengthOf(handled + 1))
<1>1. /\ at = "parse" /\ needReadLen = 0 /\ got > LenBytes
      /\ UNCHANGED <<stream, cont, outcome>>
  BY DEF BeginReadNextMsg
<1>2. /\ cap \in Nat /\ readPos \in 0 .. cap /\ beginReadPos \in 0 .. readPos
      /\ buf \in [1 .. cap -> Nat \cup {NoByte}] /\ got \in Nat /\ LenBytes \in Nat /\ MaxLen \in Nat
      /\ rejected = FALSE
  BY <1>1, BufferAssumption DEF IndInv, TypeOK, Begun
<1>3. handled < Len(ends) /\ handled + 1 \in 1 .. Len(ends) /\ ToInt(GORM_GetMsgLen(beginReadPos)) = n
  BY <1>1, <1>2, HeaderFound
<1>4. n \in Int /\ From \in Nat
  BY <1>2, <1>3, StartFacts, Signed DEF IndInv, From
<1>5. n' = n /\ From' = From /\ handled' < Len(ends') /\ Sent' = Sent
  BY <1>1, <1>3, SameStream, SameFrom DEF stream, outcome, ToInt
<1>6. (ends \in Seq(Nat) /\ \A k \in DOMAIN ends : LengthOf(k) \in Lens)' /\ Increasing'
  BY <1>1, SameStream DEF stream, IndInv, TypeOK, Increasing
<1>7. needReadLen' = n
  BY <1>3 DEF BeginReadNextMsg
<1> HIDE DEF n
<1>8. CASE n > MaxLen
  <2>1. rejected' = TRUE /\ at' = "idle" /\ UNCHANGED <<cap, buf, beginReadPos, readPos>>
    BY <1>3, <1>8 DEF BeginReadNextMsg
  <2>2. TypeOK'
    BY <1>1, <1>4, <1>5, <1>6, <1>7, <2>1 DEF IndInv, TypeOK, stream, outcome
  <2>3. Place' /\ Contents' /\ RoomForRest' /\ Parsed'
    BY <1>1, <1>5, <2>1 DEF IndInv, Place, Contents, RoomForRest, Parsed, stream
  <2>4. Begun'
    BY <1>5, <1>7, <1>8, <2>1 DEF IndInv, Begun, n
  <2>5. QED  BY <1>6, <2>1, <2>2, <2>3, <2>4 DEF IndInv
<1>9. CASE ~(n > MaxLen) /\ n > cap - beginReadPos
  <2> DEFINE size == IF n > cap THEN n ELSE cap
  <2>1. rejected' = FALSE /\ at' = "parse" /\ MakeRoom(n, got)
    BY <1>1, <1>2, <1>3, <1>9 DEF BeginReadNextMsg
  <2>2. cap' = size /\ beginReadPos' = 0 /\ readPos' = got
    BY <1>9, <2>1 DEF MakeRoom
  <2>3. size \in Nat /\ size <= MaxLen /\ size >= cap /\ size >= n
    BY <1>2, <1>4, <1>9 DEF IndInv, Begun
  <2>4. buf' = [i \in 1 .. size |->
                  IF i <= got THEN buf[beginReadPos + i]
                  ELSE IF n > cap THEN NoByte ELSE buf[i]]
    BY <1>9, <2>1, <2>2 DEF MakeRoom
  <2>5. buf' \in [1 .. size -> Nat \cup {NoByte}]
    <3>1. \A i \in 1 .. size : (IF i <= got THEN buf[beginReadPos + i]
                                ELSE IF n > cap THEN NoByte ELSE buf[i]) \in Nat \cup {NoByte}
      BY <1>2, <2>3
    <3>2. QED  BY <2>4, <3>1
  <2>6. \A i \in 1 .. got : buf'[i] = From + i - 1
    <3>1. \A i \in 1 .. got : buf'[i] = buf[beginReadPos + i]
      BY <1>2, <2>3, <2>4
    <3>2. QED  BY <3>1 DEF IndInv, Contents
  <2> HIDE DEF size
  <2>7. TypeOK'
    <3>1. beginReadPos' \in 0 .. readPos' /\ readPos' \in 0 .. cap' /\ needReadLen' \in Int
      BY <1>2, <1>4, <1>7, <2>2, <2>3
    <3>2. cap' \in Nat /\ buf' \in [1 .. cap' -> Nat \cup {NoByte}]
      BY <2>2, <2>3, <2>5
    <3>3. /\ taken' \in 0 .. Sent' /\ hungUp' \in BOOLEAN /\ cont' \in BOOLEAN
          /\ whilstOpen' \in BOOLEAN /\ handled' \in 0 .. Len(ends') /\ closes' \in 0 .. MaxCloses
      BY <1>1, <1>5 DEF IndInv, TypeOK, stream, outcome
    <3>4. QED  BY <1>6, <2>1, <3>1, <3>2, <3>3 DEF TypeOK
  <2>8. Place' /\ RoomForRest' /\ Parsed'
    <3>1. readPos' - beginReadPos' = readPos - beginReadPos
      BY <1>2, <2>2
    <3>2. Place'
      BY <1>1, <1>5, <3>1 DEF IndInv, Place, stream
    <3>3. RoomForRest'
      BY <1>4, <1>7, <2>2, <2>3 DEF RoomForRest
    <3>4. QED  BY <2>1, <3>2, <3>3 DEF Parsed
  <2>9. Contents'
    BY <1>2, <1>5, <2>2, <2>6 DEF Contents
  <2>10. Begun'
    BY <1>2, <1>4, <1>5, <1>7, <1>9, <2>1, <2>2, <2>3 DEF IndInv, Begun, n
  <2>11. QED  BY <1>6, <2>1, <2>7, <2>8, <2>9, <2>10 DEF IndInv
<1>10. CASE ~(n > MaxLen) /\ ~(n > cap - beginReadPos)
  <2>1. rejected' = FALSE /\ at' = "parse" /\ MakeRoom(n, got)
    BY <1>1, <1>2, <1>3, <1>10 DEF BeginReadNextMsg
  <2>2. UNCHANGED <<cap, buf, beginReadPos, readPos>>
    BY <1>10, <2>1 DEF MakeRoom
  <2>3. TypeOK'
    BY <1>1, <1>4, <1>5, <1>6, <1>7, <2>1, <2>2 DEF IndInv, TypeOK, stream, outcome
  <2>4. Place' /\ Contents' /\ Parsed'
    BY <1>1, <1>5, <2>1, <2>2 DEF IndInv, Place, Contents, Parsed, stream
  <2>5. RoomForRest'
    BY <1>2, <1>4, <1>7, <1>10, <2>2 DEF RoomForRest
  <2>6. Begun'
    BY <1>2, <1>4, <1>5, <1>7, <1>10, <2>1, <2>2 DEF IndInv, Begun, n
  <2>7. QED  BY <1>6, <2>1, <2>3, <2>4, <2>5, <2>6 DEF IndInv
<1>11. QED  BY <1>8, <1>9, <1>10

\* What is handed on is the next response, and the one behind it comes next.
LEMMA Handed ==
  ASSUME IndInv, OneRspFinishRead, ~ (needReadLen < 0)
  PROVE  /\ handled < Len(ends) /\ handled + 1 \in 1 .. Len(ends)
         /\ needReadLen = LengthOf(handled + 1) /\ rejected = FALSE
         /\ From' = From + needReadLen /\ From \in Nat
         /\ response' = BytesOf(handled + 1)
<1>1. /\ cap \in Nat /\ readPos \in 0 .. cap /\ beginReadPos \in 0 .. readPos
      /\ needReadLen \in Int /\ handled \in 0 .. Len(ends) /\ Len(ends) \in Nat
      /\ MaxLen \in Nat /\ cap <= MaxLen /\ rejected \in BOOLEAN
  BY EndsFacts, BufferAssumption DEF IndInv, TypeOK, Begun
<1>2. needReadLen \in Nat /\ needReadLen # 0 /\ needReadLen <= readPos - beginReadPos
  BY <1>1 DEF OneRspFinishRead, Whole
<1>3. /\ handled < Len(ends) /\ handled + 1 \in 1 .. Len(ends) /\ rejected = FALSE
      /\ needReadLen = LengthOf(handled + 1)
  <2>1. /\ handled < Len(ends) /\ handled + 1 \in 1 .. Len(ends) /\ rejected = FALSE
        /\ needReadLen = ToInt(LengthOf(handled + 1))
    BY <1>1, <1>2 DEF IndInv, Begun
  <2>2. LengthOf(handled + 1) \in Nat /\ Half \in Nat
    BY <2>1, StartFacts, BufferAssumption DEF IndInv
  <2>3. QED  BY <1>2, <2>1, <2>2, Signed DEF IndInv
<1>4. /\ From \in Nat /\ StartOf(handled + 1) = From
      /\ StartOf(handled + 1 + 1) = From + needReadLen
  BY <1>3, StartFacts DEF IndInv, From
<1>5. From' = From + needReadLen
  <2>1. From' = StartOf(handled + 1 + 1)
    BY DEF From, StartOf, OneRspFinishRead, stream
  <2>2. QED  BY <1>4, <2>1
<1>6. response' = [i \in 1 .. needReadLen |-> buf[beginReadPos + i]]
  BY DEF OneRspFinishRead, Bytes
<1>7. \A i \in 1 .. needReadLen : buf[beginReadPos + i] = From + i - 1
  BY <1>1, <1>2 DEF IndInv, Contents
<1>8. BytesOf(handled + 1) = [i \in 1 .. needReadLen |-> From + i - 1]
  BY <1>3, <1>4 DEF BytesOf
<1>9. response' = BytesOf(handled + 1)
  BY <1>6, <1>7, <1>8
<1>10. QED  BY <1>3, <1>4, <1>5, <1>9

LEMMA OneRspFinishReadInv ==
  ASSUME IndInv, OneRspFinishRead, ~ (needReadLen < 0)
  PROVE  IndInv'
<1>1. /\ at = "parse" /\ needReadLen # 0 /\ needReadLen <= readPos - beginReadPos
      /\ handled' = handled + 1 /\ beginReadPos' = beginReadPos + needReadLen /\ needReadLen' = 0
      /\ UNCHANGED <<ends, taken, hungUp, cap, buf, readPos, cont, at, rejected, closes, whilstOpen>>
  BY DEF OneRspFinishRead, Whole, stream
<1>2. /\ handled < Len(ends) /\ rejected = FALSE
      /\ From' = From + needReadLen /\ From \in Nat
  BY Handed
<1>3. /\ cap \in Nat /\ readPos \in 0 .. cap /\ beginReadPos \in 0 .. readPos
      /\ needReadLen \in Nat /\ handled \in 0 .. Len(ends) /\ Len(ends) \in Nat
      /\ at # "astray" /\ taken \in 0 .. Sent /\ Sent \in Nat /\ MaxLen \in Nat
  BY EndsFacts, StartFacts, BufferAssumption DEF IndInv, TypeOK
<1>4. TypeOK'
  BY <1>1, <1>2, <1>3, SameStream DEF IndInv, TypeOK
<1>5. Increasing' /\ RoomForRest' /\ Parsed'
  BY <1>1 DEF IndInv, Increasing, RoomForRest, Parsed
<1>6. Place'
  BY <1>1, <1>2, <1>3 DEF IndInv, Place
<1>7. Contents'
  <2> SUFFICES ASSUME NEW i \in 1 .. readPos' - beginReadPos'
               PROVE  buf'[beginReadPos' + i] = From' + i - 1
    BY DEF Contents
  <2>1. needReadLen + i \in 1 .. readPos - beginReadPos /\ i \in Int
    BY <1>1, <1>3
  <2>2. buf[beginReadPos + (needReadLen + i)] = From + (needReadLen + i) - 1
    BY <2>1 DEF IndInv, Contents
  <2>3. beginReadPos' + i = beginReadPos + (needReadLen + i)
    BY <1>1, <1>3, <2>1
  <2>4. From' + i - 1 = From + (needReadLen + i) - 1
    BY <1>2, <1>3, <2>1
  <2>5. QED  BY <1>1, <2>2, <2>3, <2>4
<1>8. Begun'
  BY <1>1, <1>2, <1>3 DEF IndInv, Begun
<1>9. QED  BY <1>1, <1>3, <1>4, <1>5, <1>6, <1>7, <1>8 DEF IndInv

-----------------------------------------------------------------------------
(* The invariant and what follows from it.                                 *)

\* A negative length is the length, Half or more, of the next response.
LEMMA GoesAstray ==
  ASSUME IndInv, OneRspFinishRead, needReadLen < 0
  PROVE  TypeOK' /\ at' = "astray" /\ needReadLen' = 0 /\ LengthOf(handled + 1) >= Half
<1>1. /\ at' = "astray" /\ handled' = handled + 1 /\ needReadLen' = 0
      /\ UNCHANGED <<ends, taken, hungUp, cap, buf, readPos, cont, rejected, closes, whilstOpen>>
  BY DEF OneRspFinishRead, stream
<1>2. /\ needReadLen \in Int /\ handled \in 0 .. Len(ends) /\ Len(ends) \in Nat
  BY EndsFacts DEF IndInv, TypeOK
<1>3. /\ handled < Len(ends) /\ handled + 1 \in 1 .. Len(ends)
      /\ needReadLen = ToInt(LengthOf(handled + 1))
  BY <1>2 DEF IndInv, Begun
<1>4. TypeOK'
  BY <1>1, <1>2, <1>3, SameStream DEF IndInv, TypeOK
<1>5. LengthOf(handled + 1) >= Half
  <2>1. LengthOf(handled + 1) \in Nat /\ Half \in Nat
    BY <1>3, StartFacts, BufferAssumption DEF IndInv
  <2>2. QED  BY <1>3, <2>1, Signed DEF IndInv
<1>6. QED  BY <1>1, <1>4, <1>5

\* From then on only the server acts.
LEMMA StaysAstray ==
  ASSUME TypeOK, at = "astray", [Next]_vars
  PROVE  /\ TypeOK' /\ at' = "astray" /\ UNCHANGED <<needReadLen, handled, response, closes, whilstOpen>>
<1>1. CASE HangUp
  BY <1>1, SameStream DEF HangUp, TypeOK, buffer, reading, outcome
<1>2. ASSUME NEW n \in Lens, Respond(n)
      PROVE  /\ TypeOK' /\ at' = "astray" /\ UNCHANGED <<needReadLen, handled, response, closes, whilstOpen>>
  <2>1. /\ ends' = Append(ends, Sent + n) /\ UNCHANGED <<taken, hungUp, buffer, reading, outcome>>
    BY <1>2 DEF Respond
  <2>2. PICK N : N = Len(ends)
    OBVIOUS
  <2>3. /\ Len(ends') = Len(ends) + 1 /\ ends' \in Seq(Nat) /\ Sent' = Sent + n
        /\ \A k \in 1 .. Len(ends) : LengthOf(k)' = LengthOf(k)
        /\ LengthOf(N + 1)' = n
    BY <2>1, <2>2, RespondStream
  <2>4. Len(ends) \in Nat /\ n \in Nat /\ Sent \in Nat /\ DOMAIN ends' = 1 .. Len(ends) + 1
    BY <2>3, EndsFacts, StartFacts, BufferAssumption
  <2>5. ASSUME NEW k \in 1 .. Len(ends) + 1 PROVE LengthOf(k)' \in Lens
    <3>1. CASE k \in 1 .. Len(ends)
      BY <2>3, <3>1, EndsFacts DEF TypeOK
    <3>2. CASE k = N + 1
      BY <2>3, <3>2
    <3>3. QED  BY <2>2, <2>4, <3>1, <3>2
  <2>6. (\A k \in DOMAIN ends : LengthOf(k) \in Lens)'
    BY <2>4, <2>5
  <2>7. taken' \in 0 .. Sent' /\ handled' \in 0 .. Len(ends')
    BY <2>1, <2>3, <2>4 DEF TypeOK, outcome
  <2>8. QED  BY <2>1, <2>3, <2>6, <2>7 DEF TypeOK, buffer, reading, outcome
<1>3. CASE UNCHANGED vars
  BY <1>3, SameStream DEF vars, stream, buffer, reading, outcome, TypeOK
<1>4. ~ ReadStep /\ ~ RecvAgain /\ ~ RecvFails
  BY DEF ReadStep, Read, RecvNothing, BeginReadNextMsg, OneRspFinishRead, ParseDone, RecvBytes,
     RecvAgain, RecvFails
<1>5. QED  BY <1>1, <1>2, <1>3, <1>4 DEF Next

\* Every step but a negative length keeps the buffer in step.
LEMMA IndNext ==
  ASSUME IndInv, [Next]_vars, ~ (OneRspFinishRead /\ needReadLen < 0)
  PROVE  IndInv'
<1>1. CASE Read
  BY <1>1, ReadInv
<1>2. CASE RecvNothing
  BY <1>2, CloseInv DEF RecvNothing
<1>3. CASE BeginReadNextMsg
  BY <1>3, BeginReadNextMsgInv
<1>4. CASE OneRspFinishRead
  BY <1>4, OneRspFinishReadInv
<1>5. CASE ParseDone
  BY <1>5, ParseDoneInv
<1>6. CASE \E n \in 1 .. cap : RecvBytes(n)
  BY <1>6, RecvBytesInv
<1>7. CASE RecvAgain
  BY <1>7, RecvAgainInv
<1>8. CASE RecvFails
  BY <1>8, CloseInv DEF RecvFails
<1>9. CASE HangUp
  BY <1>9, HangUpInv
<1>10. CASE \E n \in Lens : Respond(n)
  BY <1>10, RespondInv
<1>11. CASE UNCHANGED vars
  <2>1. UNCHANGED <<ends, taken, buffer, cont, rejected, outcome, hungUp, at>>
    BY <1>11 DEF vars, stream, reading
  <2>2. QED  BY <2>1, QuietStep DEF IndInv, TypeOK, Parsed
<1>12. QED
  BY <1>1, <1>2, <1>3, <1>4, <1>5, <1>6, <1>7, <1>8, <1>9, <1>10, <1>11 DEF Next, ReadStep

LEMMA NextInv == Inv /\ [Next]_vars => Inv'
BY IndNext, GoesAstray, StaysAstray DEF Inv, IndInv

LEMMA SpecInv == Spec => []Inv
<1>1. Init => Inv
  BY InitInv DEF Inv, IndInv
<1>2. QED  BY <1>1, NextInv, PTL DEF Spec

\* Types of the read buffer; above all, the read positions stay within the
\* buffer and no byte is taken that was not sent.
THEOREM TypesHold == Spec => []TypeOK
BY SpecInv, PTL DEF Inv

\* Only a response of Half bytes or more, the next one, sends Read astray.
AstrayCause ==
  [][at # "astray" /\ at' = "astray" => LengthOf(handled + 1) >= Half]_vars

\* Read loses its place in the stream at a response of 2^31 bytes or more, and
\* nowhere else.
THEOREM AstrayCauseHolds == Spec => AstrayCause
<1>1. Inv /\ [Next]_vars => [at # "astray" /\ at' = "astray" => LengthOf(handled + 1) >= Half]_vars
  BY IndNext, GoesAstray DEF Inv, IndInv
<1>2. QED  BY <1>1, SpecInv, PTL DEF Spec, AstrayCause

\* No response is so long.
ShortLengths == \A k \in DOMAIN ends : LengthOf(k) < Half

\* Then Read stays in step.
LEMMA ShortInStep == Spec /\ []ShortLengths => []IndInv
<1>1. IndInv /\ ShortLengths /\ [Next]_vars => IndInv'
  <2> SUFFICES ASSUME IndInv, ShortLengths, OneRspFinishRead, needReadLen < 0 PROVE FALSE
    BY IndNext
  <2>1. LengthOf(handled + 1) >= Half
    BY GoesAstray
  <2>2. handled + 1 \in DOMAIN ends
    <3>1. handled \in 0 .. Len(ends) /\ Len(ends) \in Nat /\ needReadLen \in Int
      BY EndsFacts DEF IndInv, TypeOK
    <3>2. QED  BY <3>1, EndsFacts DEF IndInv, Begun
  <2>3. LengthOf(handled + 1) \in Nat /\ Half \in Nat
    BY <2>2, StartFacts, EndsFacts, BufferAssumption DEF IndInv
  <2>4. QED  BY <2>1, <2>2, <2>3 DEF ShortLengths
<1>2. QED  BY <1>1, InitInv, PTL DEF Spec

\* The bytes between the two positions are the stream's, starting where the
\* next response starts: nothing is skipped, repeated or overwritten.
InStep ==
  LET from == StartOf(handled + 1) IN
  at # "astray" =>
    Bytes(beginReadPos, readPos - beginReadPos) = [i \in 1 .. taken - from |-> from + i - 1]

\* The bytes between the two positions are the stream's, from the next
\* response on, whatever the sizes, until a length becomes negative.
THEOREM InStepHolds == Spec => []InStep
<1>1. IndInv => InStep
  <2> SUFFICES ASSUME IndInv PROVE InStep
    OBVIOUS
  <2>1. From \in Int /\ taken - From = readPos - beginReadPos
    <3>1. handled \in 0 .. Len(ends) /\ Len(ends) \in Nat
      BY EndsFacts DEF IndInv, TypeOK
    <3>2. CASE handled + 1 \in 1 .. Len(ends)
      BY <3>2, StartFacts DEF IndInv, From, Place
    <3>3. CASE handled = Len(ends)
      BY <3>3, StartFacts DEF IndInv, From, Place
    <3>4. QED  BY <3>1, <3>2, <3>3
  <2>2. [i \in 1 .. readPos - beginReadPos |-> buf[beginReadPos + i]]
          = [i \in 1 .. taken - From |-> From + i - 1]
    BY <2>1 DEF IndInv, Contents
  <2>3. QED  BY <2>2 DEF InStep, Bytes, From
<1>2. Inv => InStep
  BY <1>1 DEF Inv, InStep
<1>3. QED  BY <1>2, SpecInv, PTL

\* There is always room for the rest of a response that has begun.
THEOREM RoomForRestHolds == Spec => []RoomForRest
<1>1. Inv => RoomForRest
  BY DEF Inv, TypeOK, IndInv, RoomForRest
<1>2. QED  BY <1>1, SpecInv, PTL

\* Read returns only when no whole response is left in the buffer.
THEOREM NothingLeftBehindHolds == Spec => []NothingLeftBehind
<1>1. Inv => NothingLeftBehind
  <2> SUFFICES ASSUME IndInv, at = "idle", ~rejected
               PROVE  \/ readPos - beginReadPos <= LenBytes
                      \/ readPos - beginReadPos < GORM_GetMsgLen(beginReadPos)
    BY DEF NothingLeftBehind, Inv
  <2>1. /\ readPos \in Nat /\ beginReadPos \in 0 .. readPos /\ needReadLen \in Int /\ LenBytes \in Nat
        /\ MaxLen \in Nat
    BY BufferAssumption DEF IndInv, TypeOK
  <2>2. CASE readPos > beginReadPos /\ needReadLen # 0
    <3>1. /\ handled + 1 \in 1 .. Len(ends) /\ GORM_GetMsgLen(beginReadPos) = LengthOf(handled + 1)
          /\ needReadLen = ToInt(LengthOf(handled + 1)) /\ readPos - beginReadPos < needReadLen
      BY <2>1, <2>2, HeaderFound DEF IndInv, Parsed, Begun
    <3>2. LengthOf(handled + 1) \in Nat /\ Half \in Nat
      BY <3>1, StartFacts, BufferAssumption DEF IndInv
    <3>3. needReadLen = LengthOf(handled + 1)
      BY <2>1, <2>2, <3>1, <3>2, Signed DEF IndInv
    <3>4. QED  BY <3>1, <3>3
  <2>3. CASE ~(readPos > beginReadPos) \/ needReadLen = 0
    BY <2>1, <2>3 DEF IndInv, Parsed
  <2>4. QED  BY <2>2, <2>3
<1>2. QED  BY <1>1, SpecInv, PTL

-----------------------------------------------------------------------------
(* The stream of whole responses.                                          *)

sentBar == [k \in DOMAIN ends |-> BytesOf(k)]

LEMMA SentBar ==
  ASSUME TypeOK
  PROVE  Len(sentBar) = Len(ends) /\ DOMAIN sentBar = 1 .. Len(ends) /\ Len(ends) \in Nat
BY EndsFacts DEF sentBar

LEMMA StreamInit == Init => Stream!Fresh
BY DEF Init, Stream!Fresh

\* Every step is a response sent, a response handed on, a connection cut, or
\* nothing that the stream sees.
LEMMA StreamStep ==
  IndInv /\ [Next]_vars /\ ~ (OneRspFinishRead /\ needReadLen < 0)
    => [Stream!Next]_(Stream!vars)
<1> SUFFICES ASSUME IndInv, [Next]_vars, ~ (OneRspFinishRead /\ needReadLen < 0)
             PROVE  [Stream!Next]_(Stream!vars)
  OBVIOUS
<1>0. IndInv'
  BY IndNext
<1>1. ASSUME UNCHANGED <<ends, handled, response>>
      PROVE  UNCHANGED Stream!vars
  <2>1. sentBar' = sentBar
    BY <1>1 DEF sentBar, BytesOf, LengthOf, StartOf
  <2>2. QED  BY <1>1, <2>1 DEF Stream!vars, sentBar
<1>2. ASSUME Close PROVE Stream!Cut
  BY <1>2 DEF Close, Stream!Cut
<1>3. ASSUME OneRspFinishRead PROVE Stream!Deliver
  <2>1. handled + 1 \in 1 .. Len(ends) /\ handled < Len(ends) /\ response' = BytesOf(handled + 1)
    BY <1>3, Handed
  <2>2. UNCHANGED ends /\ handled' = handled + 1
    BY <1>3 DEF OneRspFinishRead, stream
  <2>3. sentBar' = sentBar
    BY <2>2 DEF sentBar, BytesOf, LengthOf, StartOf
  <2>4. handled < Len(sentBar) /\ response' = sentBar[handled + 1]
    BY <2>1, SentBar DEF IndInv, sentBar
  <2>5. QED  BY <2>2, <2>3, <2>4 DEF Stream!Deliver, sentBar
<1>4. ASSUME NEW n \in Lens, Respond(n) PROVE Stream!Send
  <2>1. ends' = Append(ends, Sent + n) /\ UNCHANGED <<handled, response>>
    BY <1>4 DEF Respond, outcome
  <2>2. PICK N : N = Len(ends)
    OBVIOUS
  <2>3. /\ Len(ends') = Len(ends) + 1
        /\ \A k \in 1 .. Len(ends) : LengthOf(k)' = LengthOf(k)
        /\ \A k \in 1 .. Len(ends) + 1 : StartOf(k)' = StartOf(k)
    BY <2>1, <2>2, RespondStream DEF IndInv
  <2>4. Len(sentBar) = Len(ends) /\ DOMAIN sentBar = 1 .. Len(ends) /\ Len(ends) \in Nat
    BY SentBar DEF IndInv
  <2>5. Len(sentBar') = Len(ends') /\ DOMAIN ends' = 1 .. Len(ends')
    <3>1. DOMAIN ends' = 1 .. Len(ends') /\ Len(ends') \in Nat
      BY <1>0 DEF IndInv, TypeOK
    <3>2. DOMAIN sentBar' = DOMAIN ends'
      BY DEF sentBar
    <3>3. QED  BY <3>1, <3>2 DEF sentBar
  <2>6. ASSUME NEW k \in 1 .. Len(ends) PROVE sentBar'[k] = sentBar[k]
    <3>1. k \in DOMAIN ends' /\ k \in DOMAIN ends
      BY <2>3, <2>4, <2>5, EndsFacts DEF IndInv
    <3>2. LengthOf(k)' = LengthOf(k) /\ StartOf(k)' = StartOf(k)
      BY <2>3, <2>4
    <3>3. sentBar[k] = BytesOf(k) /\ sentBar'[k] = BytesOf(k)'
      BY <3>1 DEF sentBar
    <3>4. BytesOf(k)' = BytesOf(k)
      BY <3>2 DEF BytesOf
    <3>5. QED  BY <3>3, <3>4
  <2>7. QED  BY <2>1, <2>3, <2>4, <2>5, <2>6 DEF Stream!Send, sentBar
<1>5. CASE RecvNothing \/ RecvFails
  BY <1>2, <1>5 DEF RecvNothing, RecvFails, Stream!Next
<1>6. CASE OneRspFinishRead
  BY <1>3, <1>6 DEF Stream!Next
<1>7. CASE \E n \in Lens : Respond(n)
  BY <1>4, <1>7 DEF Stream!Next
<1>8. CASE Read \/ BeginReadNextMsg \/ ParseDone \/ RecvAgain
  BY <1>1, <1>8 DEF Read, BeginReadNextMsg, ParseDone, RecvAgain, stream, outcome
<1>9. CASE HangUp \/ (\E n \in 1 .. cap : RecvBytes(n))
  BY <1>1, <1>9 DEF HangUp, RecvBytes, outcome
<1>10. CASE UNCHANGED vars
  BY <1>1, <1>10 DEF vars, stream, outcome
<1>11. QED  BY <1>5, <1>6, <1>7, <1>8, <1>9, <1>10 DEF Next, ReadStep

\* For every size of the buffer, every limit and every way recv cuts the
\* stream, Read hands on exactly the responses sent, whole and in order, until
\* a length becomes negative.
THEOREM StreamSpecHolds == Spec => StreamSpec
<1>1. Inv /\ [Next]_vars => [at' # "astray" => Stream!Next]_(Stream!vars)
  BY StreamStep, GoesAstray, StaysAstray DEF Inv
<1>2. QED  BY <1>1, StreamInit, SpecInv, PTL DEF Spec, StreamSpec

\* If no response has 2^31 bytes or more, Read implements the whole promise of
\* the stream: what is handed on is what was sent, without exception.
THEOREM ReadsTheStream == Spec /\ []ShortLengths => Stream!Spec
<1>1. IndInv /\ IndInv' /\ [Next]_vars => [Stream!Next]_(Stream!vars)
  BY StreamStep, GoesAstray DEF IndInv
<1>2. QED  BY <1>1, StreamInit, ShortInStep, PTL DEF Spec, Stream!Spec

-----------------------------------------------------------------------------
(* The connection that is closed although the server is there.             *)

\* Where recv is asked for no bytes: the buffer is full, and either no response
\* has begun in it, so that MakeRoom was not reached, or one was refused.
FullBetween ==
  /\ readPos = cap
  /\ needReadLen = 0 /\ readPos - beginReadPos <= LenBytes
FullRefused == readPos = cap /\ rejected

CloseCause == [][whilstOpen' # whilstOpen => FullBetween \/ FullRefused]_vars

LEMMA OnlyCloseCloses ==
  ASSUME TypeOK, [Next]_vars, whilstOpen' # whilstOpen
  PROVE  RecvNothing /\ ~hungUp /\ readPos = cap /\ at = "recv"
<1>1. \/ RecvNothing \/ RecvFails
      \/ UNCHANGED whilstOpen
  BY DEF Next, ReadStep, Read, BeginReadNextMsg, OneRspFinishRead, ParseDone, RecvBytes,
     RecvAgain, HangUp, Respond, vars, outcome
<1>2. hungUp = TRUE /\ Close => whilstOpen' = whilstOpen
  BY DEF Close, TypeOK
<1>3. RecvNothing
  BY <1>1, <1>2 DEF RecvFails, TypeOK
<1>4. ~ hungUp
  BY <1>2, <1>3 DEF RecvNothing, TypeOK
<1>5. QED  BY <1>3, <1>4 DEF RecvNothing

\* The client closes a connection that the server keeps open in two cases only:
\* its buffer is full to the last byte with at most LenBytes bytes of a next
\* response in it, or with the bytes of a response that was refused.
THEOREM CloseCauseHolds == Spec => CloseCause
<1>1. Inv /\ [Next]_vars => [whilstOpen' # whilstOpen => FullBetween \/ FullRefused]_vars
  <2> SUFFICES ASSUME IndInv, [Next]_vars, whilstOpen' # whilstOpen, ~ rejected
               PROVE  FullBetween
    BY OnlyCloseCloses DEF FullRefused, Inv
  <2>1. readPos = cap /\ at = "recv"
    BY OnlyCloseCloses DEF IndInv
  <2>2. needReadLen = 0
    <3>1. ASSUME needReadLen # 0 PROVE FALSE
      <4>1. beginReadPos + needReadLen <= cap /\ readPos - beginReadPos < needReadLen
        BY <2>1, <3>1 DEF IndInv, RoomForRest, Parsed
      <4>2. cap \in Nat /\ beginReadPos \in 0 .. readPos /\ needReadLen \in Int
        BY DEF IndInv, TypeOK
      <4>3. QED  BY <2>1, <4>1, <4>2
    <3>2. QED  BY <3>1
  <2>3. readPos - beginReadPos <= LenBytes
    BY <2>1, <2>2 DEF IndInv, Parsed
  <2>4. QED  BY <2>1, <2>2, <2>3 DEF FullBetween
<1>2. QED  BY <1>1, SpecInv, PTL DEF Spec, CloseCause

\* The buffer never shrinks, and no position is beyond the bytes of the stream.
Ahead == cap >= BufCap /\ beginReadPos <= From

LEMMA AheadKept == IndInv /\ IndInv' /\ Ahead /\ [Next]_vars => Ahead'
<1> SUFFICES ASSUME IndInv, IndInv', Ahead, [Next]_vars PROVE Ahead'
  OBVIOUS
<1>1. /\ cap \in Nat /\ BufCap \in Nat /\ beginReadPos \in Nat /\ handled \in Nat
      /\ handled \in 0 .. Len(ends) /\ Len(ends) \in Nat /\ TypeOK
  <2>1. TypeOK /\ BufCap \in Nat
    BY BufferAssumption DEF IndInv
  <2>2. Len(ends) \in Nat
    BY <2>1, EndsFacts
  <2>3. cap \in Nat /\ readPos \in 0 .. cap /\ beginReadPos \in 0 .. readPos
        /\ handled \in 0 .. Len(ends)
    BY <2>1 DEF IndInv, TypeOK
  <2>4. QED  BY <2>1, <2>2, <2>3
<1>2. From \in Nat
  <2>1. handled + 1 \in 1 .. Len(ends) + 1
    BY <1>1
  <2>2. \A k \in 1 .. Len(ends) + 1 : StartOf(k) \in Nat
    BY <1>1, StartFacts
  <2>3. QED  BY <2>1, <2>2 DEF From
<1>3. CASE UNCHANGED <<ends, handled, cap, beginReadPos>>
  BY <1>3, SameFrom DEF Ahead
<1>4. CASE Read \/ RecvAgain \/ HangUp \/ ParseDone \/ UNCHANGED vars
           \/ \E n \in 1 .. cap : RecvBytes(n)
  BY <1>3, <1>4 DEF Read, RecvAgain, HangUp, ParseDone, RecvBytes, vars, stream, buffer, outcome
<1>5. CASE Close
  <2>1. From' = 0
    BY <1>5 DEF Close, From, StartOf
  <2>2. QED  BY <1>1, <1>5, <2>1 DEF Close, Ahead
<1>6. CASE BeginReadNextMsg
  <2>1. ends' = ends /\ handled' = handled
    BY <1>6 DEF BeginReadNextMsg, stream, outcome
  <2>2. From' = From
    BY <2>1, SameFrom
  <2>3. \/ UNCHANGED <<cap, beginReadPos>>
        \/ beginReadPos' = 0 /\ cap' \in Nat /\ cap' >= cap
    <3>1. cap' \in Nat
      BY DEF IndInv, TypeOK
    <3>2. LET n == ToInt(GORM_GetMsgLen(beginReadPos)) IN
          \/ UNCHANGED <<cap, beginReadPos>>
          \/ beginReadPos' = 0 /\ cap' = IF n > cap THEN n ELSE cap
      BY <1>6 DEF BeginReadNextMsg, MakeRoom
    <3>3. QED
      <4>1. CASE ToInt(GORM_GetMsgLen(beginReadPos)) > cap
        <5>1. cap' = ToInt(GORM_GetMsgLen(beginReadPos)) => cap' > cap
          BY <4>1
        <5>2. QED  BY <1>1, <3>1, <3>2, <4>1, <5>1
      <4>2. CASE ~ (ToInt(GORM_GetMsgLen(beginReadPos)) > cap)
        BY <1>1, <3>2, <4>2
      <4>3. QED  BY <4>1, <4>2
  <2>4. QED  BY <1>1, <1>2, <2>2, <2>3 DEF Ahead
<1>7. CASE OneRspFinishRead
  <2>1. cap' = cap /\ beginReadPos' = beginReadPos + needReadLen /\ needReadLen \in Int
    BY <1>7 DEF OneRspFinishRead, IndInv, TypeOK
  <2>2. From' = From + needReadLen
    <3>1. ~ (needReadLen < 0)
      BY <1>7 DEF OneRspFinishRead, IndInv
    <3>2. QED  BY <1>7, <3>1, Handed
  <2>3. QED  BY <1>1, <1>2, <2>1, <2>2 DEF Ahead
<1>8. ASSUME NEW n \in Lens, Respond(n) PROVE Ahead'
  <2>1. /\ ends' = Append(ends, Sent + n)
        /\ UNCHANGED <<handled, cap, beginReadPos>>
    BY <1>8 DEF Respond, buffer, outcome
  <2>2. From' = From
    <3>1. PICK N : N = Len(ends)
      OBVIOUS
    <3>2. \A k \in 1 .. Len(ends) + 1 : StartOf(k)' = StartOf(k)
      BY <1>1, <2>1, <3>1, RespondStream
    <3>3. QED  BY <1>1, <2>1, <3>2 DEF From
  <2>3. QED  BY <2>1, <2>2 DEF Ahead
<1>9. QED
  BY <1>4, <1>5, <1>6, <1>7, <1>8 DEF Next, ReadStep, RecvNothing, RecvFails

LEMMA AheadNext ==
  Inv /\ Inv' /\ (at # "astray" => Ahead) /\ [Next]_vars => (at # "astray" => Ahead)'
BY AheadKept, StaysAstray DEF Inv

\* As long as less than a first buffer was sent on a connection, only the server
\* closes it.
THEOREM ShortStreamStaysOpen == Spec /\ [](Sent < BufCap) => []ClosedOnlyByServer
<1>1. Init => (at # "astray" => Ahead) /\ ClosedOnlyByServer
  BY BufferAssumption DEF Init, Ahead, ClosedOnlyByServer, From, StartOf
<1>2. Inv /\ (at # "astray" => Ahead) /\ Sent < BufCap /\ ClosedOnlyByServer /\ [Next]_vars
        => ClosedOnlyByServer'
  <2>0. Inv /\ at = "astray" /\ [Next]_vars => whilstOpen' = whilstOpen
    BY StaysAstray DEF Inv
  <2> SUFFICES ASSUME IndInv, Ahead, Sent < BufCap, ~ whilstOpen, [Next]_vars
               PROVE  whilstOpen' = whilstOpen
    BY <2>0 DEF ClosedOnlyByServer, Inv
  <2>1. ASSUME readPos = cap PROVE FALSE
    <3>1. /\ taken \in 0 .. Sent /\ readPos \in 0 .. cap /\ beginReadPos \in 0 .. readPos
          /\ cap \in Nat /\ BufCap \in Nat /\ TypeOK
      BY BufferAssumption DEF IndInv, TypeOK
    <3>2. Sent \in Nat /\ From \in Nat
      <4>1. handled + 1 \in 1 .. Len(ends) + 1
        BY <3>1, EndsFacts DEF TypeOK
      <4>2. /\ Sent \in Nat /\ StartOf(1) = 0
            /\ \A k \in 1 .. Len(ends) : StartOf(k) \in Nat /\ StartOf(k + 1) = ends[k]
            /\ Sent = StartOf(Len(ends) + 1)
        BY <3>1, StartFacts
      <4>3. QED  BY <3>1, <4>1, <4>2, EndsFacts DEF From
    <3>3. taken - From = readPos - beginReadPos /\ beginReadPos <= From /\ cap >= BufCap
      BY DEF IndInv, Place, Ahead
    <3>4. QED  BY <2>1, <3>1, <3>2, <3>3
  <2>2. QED  BY <2>1, OnlyCloseCloses DEF IndInv
<1>3. QED  BY <1>1, <1>2, AheadNext, SpecInv, PTL DEF Spec
=============================================================================
