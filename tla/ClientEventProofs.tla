------------------------- MODULE ClientEventProofs -------------------------
(***************************************************************************)
(* Proofs about ClientEvent, for any number of connections and requests    *)
(* and any capacities.                                                     *)
(***************************************************************************)
EXTENDS ClientEvent, TLAPS

-----------------------------------------------------------------------------
(* The inductive invariant.                                                *)

\* A connection only holds requests that were routed to it.
Routed == \A c \in Conns : \A r \in Held(c) : route[r] = c

\* Ids in use are not larger than the last id handed out.
IdsHandedOut ==
  /\ seqIdx >= HS
  /\ \A r \in Reqs : route[r] # NoConn => r <= seqIdx

\* Finished requests were accepted, and are held by no connection.
FinishedOnce ==
  /\ Finished \subseteq Accepted
  /\ \A c \in Conns : Held(c) \cap Finished = {}
  /\ rsp \cap done = {} /\ rsp \cap lost = {} /\ done \cap lost = {}

\* Where the network thread can be, and what it holds there.
CloseStages ==
  /\ phase = "loop" <=> closing = NoConn
  /\ phase \notin {"resend", "crashed"} => resend = {}
  /\ phase # "loop" => inflight[closing] = {}
  /\ phase \in {"resend", "crashed"} => /\ waiting[closing] = {} /\ nulls[closing] = {}
                                       /\ sending[closing] = NoMsg
                                       /\ HS \notin Range(queue[closing])
  /\ closing \notin dead

\* Nothing was read on a connection whose handshake is still queued.
HandshakeFresh ==
  \A c \in Conns : HS \in Range(queue[c]) => nulls[c] = {} /\ inflight[c] = {}

\* A live connection with something to send has write interest, or a flag
\* that makes SignalCB give it write interest.
OutputNoticed ==
  \A c \in Conns \ (dead \cup {closing}) :
    HasOutput(c) => wantWrite[c] \/ dataFlag[c]

IndInv ==
  /\ TypeOK
  /\ Routed
  /\ IdsHandedOut
  /\ FinishedOnce
  /\ CloseStages
  /\ SentInOrder
  /\ NoneForgotten
  /\ HandshakeAhead
  /\ HandshakeFresh
  /\ OutputNoticed

-----------------------------------------------------------------------------
(* What the operations on a send queue do to its elements.                 *)

LEMMA AppendElements ==
  ASSUME NEW S, NEW q \in Seq(S), NEW x \in S
  PROVE  /\ Append(q, x) \in Seq(S)
         /\ Len(Append(q, x)) = Len(q) + 1
         /\ \A i \in 1 .. Len(q) : Append(q, x)[i] = q[i]
         /\ Append(q, x)[Len(q) + 1] = x
         /\ Range(Append(q, x)) = Range(q) \cup {x}
<1>1. /\ Append(q, x) \in Seq(S)
      /\ Len(Append(q, x)) = Len(q) + 1
      /\ \A i \in 1 .. Len(q) : Append(q, x)[i] = q[i]
      /\ Append(q, x)[Len(q) + 1] = x
  OBVIOUS
<1>2. Range(Append(q, x)) = Range(q) \cup {x}
  BY <1>1 DEF Range
<1>3. QED  BY <1>1, <1>2

LEMMA ElementInRange ==
  ASSUME NEW S, NEW q \in Seq(S), NEW i \in 1 .. Len(q)
  PROVE  q[i] \in Range(q)
BY DEF Range

LEMMA TailElements ==
  ASSUME NEW S, NEW q \in Seq(S), q # <<>>
  PROVE  /\ Len(q) \in Nat \ {0}
         /\ Head(q) \in S /\ Head(q) = q[1]
         /\ Tail(q) \in Seq(S)
         /\ Len(Tail(q)) = Len(q) - 1
         /\ \A i \in 1 .. Len(q) - 1 : Tail(q)[i] = q[i + 1]
         /\ Range(q) = {Head(q)} \cup Range(Tail(q))
<1>1. /\ Len(q) \in Nat \ {0}
      /\ Head(q) \in S /\ Head(q) = q[1]
      /\ Tail(q) \in Seq(S)
      /\ Len(Tail(q)) = Len(q) - 1
      /\ \A i \in 1 .. Len(q) - 1 : Tail(q)[i] = q[i + 1]
  OBVIOUS
<1>2. ASSUME NEW y \in Range(q)  PROVE y \in {Head(q)} \cup Range(Tail(q))
  <2>1. PICK i \in 1 .. Len(q) : y = q[i]
    BY <1>2 DEF Range
  <2>2. CASE i = 1
    BY <2>1, <2>2, <1>1
  <2>3. CASE i # 1
    <3>1. i - 1 \in 1 .. Len(Tail(q)) /\ Tail(q)[i - 1] = y
      BY <2>1, <2>3, <1>1
    <3>2. Tail(q)[i - 1] \in Range(Tail(q))
      BY <3>1, <1>1, ElementInRange
    <3>3. QED  BY <3>1, <3>2
  <2>4. QED  BY <2>2, <2>3
<1>3. ASSUME NEW y \in {Head(q)} \cup Range(Tail(q))  PROVE y \in Range(q)
  <2>1. CASE y = Head(q)
    BY <2>1, <1>1 DEF Range
  <2>2. CASE y \in Range(Tail(q))
    <3>1. PICK i \in 1 .. Len(Tail(q)) : y = Tail(q)[i]
      BY <2>2, <1>1 DEF Range
    <3>2. i + 1 \in 1 .. Len(q) /\ q[i + 1] = y
      BY <3>1, <1>1
    <3>3. QED  BY <3>2 DEF Range
  <2>3. QED  BY <1>3, <2>1, <2>2
<1>4. QED  BY <1>1, <1>2, <1>3

LEMMA FrontElements ==
  ASSUME NEW S, NEW q \in Seq(S), NEW x \in S
  PROVE  /\ <<x>> \o q \in Seq(S)
         /\ Len(<<x>> \o q) = Len(q) + 1
         /\ (<<x>> \o q)[1] = x
         /\ \A i \in 2 .. Len(q) + 1 : (<<x>> \o q)[i] = q[i - 1]
         /\ Range(<<x>> \o q) = {x} \cup Range(q)
<1>1. /\ <<x>> \o q \in Seq(S)
      /\ Len(<<x>> \o q) = Len(q) + 1
      /\ (<<x>> \o q)[1] = x
      /\ \A i \in 2 .. Len(q) + 1 : (<<x>> \o q)[i] = q[i - 1]
  OBVIOUS
<1>2. ASSUME NEW y \in Range(q)  PROVE y \in Range(<<x>> \o q)
  <2>1. PICK i \in 1 .. Len(q) : y = q[i]
    BY <1>2 DEF Range
  <2>2. i + 1 \in 1 .. Len(<<x>> \o q) /\ (<<x>> \o q)[i + 1] = y
    BY <2>1, <1>1
  <2>3. QED  BY <1>1, <2>2, ElementInRange
<1>3. ASSUME NEW y \in Range(<<x>> \o q)  PROVE y \in {x} \cup Range(q)
  <2>1. PICK i \in 1 .. Len(<<x>> \o q) : y = (<<x>> \o q)[i]
    BY <1>3 DEF Range
  <2>2. CASE i = 1
    BY <2>1, <2>2, <1>1
  <2>3. CASE i # 1
    <3>1. i - 1 \in 1 .. Len(q) /\ q[i - 1] = y
      BY <2>1, <2>3, <1>1
    <3>2. QED  BY <3>1 DEF Range
  <2>4. QED  BY <2>2, <2>3
<1>4. x \in Range(<<x>> \o q)
  <2>1. 1 \in DOMAIN (<<x>> \o q)
    BY <1>1
  <2>2. QED  BY <2>1, <1>1 DEF Range
<1>5. QED  BY <1>1, <1>2, <1>3, <1>4

-----------------------------------------------------------------------------
(* Each action preserves the inductive invariant.                          *)

LEMMA NoConnIsNone == NoConn \notin Conns
BY ConstantsAssumption DEF NoConn, Conns

LEMMA InitInv == Init => IndInv
<1> SUFFICES ASSUME Init PROVE IndInv
  OBVIOUS
<1> USE ConstantsAssumption
<1>1. \A c \in Conns : Range(queue[c]) = {HS} /\ Held(c) = {}
  BY DEF Init, Held, Queued, Resending, Range
<1>2. TypeOK
  <2>1. \A c \in Conns : queue[c] \in Seq(Msgs) /\ Len(queue[c]) <= SendCap
    BY DEF Init, Msgs
  <2>2. queue \in [Conns -> Seq(Msgs)]
    BY <2>1 DEF Init
  <2>3. age \in [Reqs -> Ages] /\ seqIdx \in HS .. MaxId \cup {HS}
    BY DEF Init, HS, Ages
  <2>4. /\ waiting \in [Conns -> SUBSET Reqs]
        /\ nulls \in [Conns -> SUBSET Nat]
        /\ inflight \in [Conns -> SUBSET Msgs]
    BY DEF Init
  <2>5. QED  BY <2>1, <2>2, <2>3, <2>4 DEF Init, TypeOK
<1>3. Routed /\ FinishedOnce /\ NoneForgotten
  BY <1>1 DEF Init, Routed, FinishedOnce, Finished, Accepted, NoneForgotten, Conns, NoConn
<1>4. IdsHandedOut /\ CloseStages
  BY DEF Init, IdsHandedOut, CloseStages, Conns, NoConn, HS
<1>5. SentInOrder /\ HandshakeAhead /\ HandshakeFresh /\ OutputNoticed
  BY <1>1 DEF Init, SentInOrder, Queued, Resending, HandshakeAhead, HandshakeFresh, OutputNoticed
<1>6. QED  BY <1>2, <1>3, <1>4, <1>5 DEF IndInv

\* Actions that touch neither queue, wait map nor resend list leave what the
\* connections hold as it is.
LEMMA HeldUnchanged ==
  ASSUME UNCHANGED <<queue, waiting, resend, closing>>
  PROVE  \A c \in Conns : /\ Held(c)' = Held(c) /\ Queued(c)' = Queued(c)
                          /\ Resending(c)' = Resending(c)
BY DEF Held, Queued, Resending

\* What is true of queue contents and wait maps survives every action that
\* leaves them, and the ids given out, alone.
LEMMA ContentsUnchanged ==
  ASSUME IndInv, UNCHANGED <<queue, waiting, resend, closing, route, seqIdx>>
  PROVE  Routed' /\ IdsHandedOut' /\ SentInOrder'
BY HeldUnchanged DEF IndInv, Routed, IdsHandedOut, SentInOrder

LEMMA InitReturnsInv == IndInv /\ InitReturns => IndInv'
<1> SUFFICES ASSUME IndInv, InitReturns PROVE IndInv'
  OBVIOUS
<1> USE DEF IndInv, InitReturns, shared, perConn, close, messages, server
<1>1. TypeOK'
  BY DEF TypeOK
<1>2. Routed' /\ IdsHandedOut' /\ SentInOrder'
  BY ContentsUnchanged
<1>3. FinishedOnce' /\ NoneForgotten'
  BY HeldUnchanged DEF FinishedOnce, Finished, Accepted, NoneForgotten
<1>4. CloseStages'
  BY DEF CloseStages
<1>5. HandshakeAhead' /\ HandshakeFresh' /\ OutputNoticed'
  BY HeldUnchanged DEF HandshakeAhead, HandshakeFresh, OutputNoticed, HasOutput
<1>6. QED  BY <1>1, <1>2, <1>3, <1>4, <1>5

LEMMA OnUpdateInv == IndInv /\ OnUpdate => IndInv'
<1> SUFFICES ASSUME IndInv, OnUpdate PROVE IndInv'
  OBVIOUS
<1> USE DEF IndInv, OnUpdate, perConn, close, server
<1>1. PICK r \in rsp : /\ rsp' = rsp \ {r} /\ done' = done \cup {r}
                      /\ age' = [age EXCEPT ![r] = 0]
  OBVIOUS
<1>2. TypeOK'
  BY <1>1, ConstantsAssumption DEF TypeOK, Ages
<1>3. Routed' /\ IdsHandedOut' /\ SentInOrder'
  BY ContentsUnchanged
<1>4. Finished' = Finished
  BY <1>1 DEF Finished
<1>5. FinishedOnce' /\ NoneForgotten'
  BY <1>1, <1>4, HeldUnchanged DEF FinishedOnce, Accepted, NoneForgotten
<1>6. CloseStages' /\ HandshakeFresh'
  BY DEF CloseStages, HandshakeFresh
<1>7. HandshakeAhead' /\ OutputNoticed'
  BY HeldUnchanged DEF HandshakeAhead, OutputNoticed, HasOutput
<1>8. QED  BY <1>2, <1>3, <1>5, <1>6, <1>7

LEMMA SignalCBInv == IndInv /\ SignalCB => IndInv'
<1> SUFFICES ASSUME IndInv, SignalCB PROVE IndInv'
  OBVIOUS
<1> USE DEF IndInv, SignalCB, business, close, messages, server
<1>1. TypeOK'
  BY DEF TypeOK
<1>2. Routed' /\ IdsHandedOut' /\ SentInOrder'
  BY ContentsUnchanged
<1>3. FinishedOnce' /\ NoneForgotten'
  BY HeldUnchanged DEF FinishedOnce, Finished, Accepted, NoneForgotten
<1>4. CloseStages' /\ HandshakeFresh'
  BY DEF CloseStages, HandshakeFresh
<1>5. HandshakeAhead'
  BY HeldUnchanged DEF HandshakeAhead
<1>6. OutputNoticed'
  BY DEF OutputNoticed, HasOutput
<1>7. QED  BY <1>1, <1>2, <1>3, <1>4, <1>5, <1>6

LEMMA WriteIdleInv ==
  ASSUME IndInv, NEW c \in Conns, WriteIdle(c)
  PROVE  IndInv'
<1> USE DEF IndInv, WriteIdle, business, shared, close, messages, server
<1>1. TypeOK'
  BY DEF TypeOK
<1>2. Routed' /\ IdsHandedOut' /\ SentInOrder'
  BY ContentsUnchanged
<1>3. FinishedOnce' /\ NoneForgotten'
  BY HeldUnchanged DEF FinishedOnce, Finished, Accepted, NoneForgotten
<1>4. CloseStages' /\ HandshakeFresh'
  BY DEF CloseStages, HandshakeFresh
<1>5. HandshakeAhead'
  BY HeldUnchanged DEF HandshakeAhead
<1>6. OutputNoticed'
  BY DEF OutputNoticed, HasOutput, TypeOK
<1>7. QED  BY <1>1, <1>2, <1>3, <1>4, <1>5, <1>6

\* Only ages change, and perhaps the number of faults.
LEMMA TimeInv ==
  ASSUME IndInv, age' \in [Reqs -> Ages], faults' \in Nat,
         UNCHANGED <<business, shared, perConn, close, answer, inflight, first, lost>>
  PROVE  IndInv'
<1> USE DEF IndInv, business, shared, perConn, close
<1>1. TypeOK'
  BY DEF TypeOK
<1>2. Routed' /\ IdsHandedOut' /\ SentInOrder'
  BY ContentsUnchanged
<1>3. FinishedOnce' /\ NoneForgotten'
  BY HeldUnchanged DEF FinishedOnce, Finished, Accepted, NoneForgotten
<1>4. CloseStages' /\ HandshakeFresh'
  BY DEF CloseStages, HandshakeFresh
<1>5. HandshakeAhead' /\ OutputNoticed'
  BY HeldUnchanged DEF HandshakeAhead, OutputNoticed, HasOutput
<1>6. QED  BY <1>1, <1>2, <1>3, <1>4, <1>5

LEMMA TickInv == IndInv /\ Tick => IndInv'
BY TimeInv DEF Tick, Restamped, server, IndInv, TypeOK

LEMMA ClockSetBackInv == IndInv /\ ClockSetBack => IndInv'
BY TimeInv DEF ClockSetBack, Restamped, IndInv, TypeOK

\* Entering Close: the list of requests to send again is still empty.
LEMMA ReadClosedInv ==
  ASSUME IndInv, NEW c \in Conns, ReadClosed(c)
  PROVE  IndInv'
<1> USE DEF IndInv, ReadClosed, InLoop, business, shared, messages
<1>1. resend = {} /\ resend' = {} /\ closing = NoConn
  BY DEF CloseStages
<1>2. \A d \in Conns : /\ Held(d)' = Held(d) /\ Queued(d)' = Queued(d)
                       /\ Resending(d)' = Resending(d)
  BY <1>1 DEF Held, Queued, Resending
<1>3. TypeOK'
  BY ConstantsAssumption DEF TypeOK
<1>4. Routed' /\ IdsHandedOut' /\ SentInOrder'
  BY <1>2 DEF Routed, IdsHandedOut, SentInOrder
<1>5. FinishedOnce' /\ NoneForgotten'
  BY <1>2 DEF FinishedOnce, Finished, Accepted, NoneForgotten
<1>6. CloseStages'
  BY <1>1 DEF CloseStages, TypeOK, Conns, NoConn
<1>7. HandshakeAhead' /\ HandshakeFresh'
  BY <1>2 DEF HandshakeAhead, HandshakeFresh, TypeOK
<1>8. OutputNoticed'
  BY <1>1 DEF OutputNoticed, HasOutput, TypeOK, Conns, NoConn
<1>9. QED  BY <1>3, <1>4, <1>5, <1>6, <1>7, <1>8

\* A step that completes waiting requests: they leave the wait maps and are
\* put into the response list, or lost to it, and nothing else is.
CompletesWaiting ==
  /\ waiting' \in [Conns -> SUBSET Reqs]
  /\ rsp' \subseteq Reqs /\ lost' \subseteq Reqs
  /\ \A c \in Conns : waiting'[c] \subseteq waiting[c]
  /\ rsp \subseteq rsp' /\ lost \subseteq lost' /\ rsp' \cap lost' = {}
  /\ \A c \in Conns : waiting[c] \ waiting'[c] \subseteq rsp' \cup lost'
  /\ \A r \in (rsp' \cup lost') \ (rsp \cup lost) :
       \E c \in Conns : r \in waiting[c] \ waiting'[c]

LEMMA CompletionPreserves ==
  ASSUME IndInv, CompletesWaiting,
         UNCHANGED <<queue, route, seqIdx, done>>,
         \A c \in Conns : Resending(c)' = Resending(c)
  PROVE  Routed' /\ IdsHandedOut' /\ SentInOrder' /\ FinishedOnce' /\ NoneForgotten'
<1> USE DEF IndInv, CompletesWaiting
<1>1. \A c \in Conns : /\ Queued(c)' = Queued(c)
                       /\ Held(c) = Queued(c) \cup Resending(c) \cup waiting[c]
                       /\ Held(c)' = Queued(c) \cup Resending(c) \cup waiting'[c]
                       /\ Held(c)' \subseteq Held(c)
  BY DEF Held, Queued
<1>2. Routed' /\ IdsHandedOut' /\ SentInOrder'
  BY <1>1 DEF Routed, IdsHandedOut, SentInOrder
<1>3. \A c \in Conns : /\ waiting[c] \cap Queued(c) = {}
                       /\ waiting[c] \cap Resending(c) = {}
  <2>1. \A c \in Conns : \A r \in waiting[c] : r \in Nat /\ ~(r < r)
    BY DEF TypeOK, Reqs
  <2>2. \A c \in Conns : waiting[c] \cap Resending(c) = {}
    BY DEF CloseStages, Resending
  <2>3. QED  BY <2>1, <2>2 DEF SentInOrder
<1>4. ASSUME NEW r \in (rsp' \cup lost') \ (rsp \cup lost)
      PROVE  /\ r \in Accepted' /\ r \notin done
             /\ \A c \in Conns : r \notin Held(c)'
  <2>1. PICK d \in Conns : r \in waiting[d] \ waiting'[d]
    OBVIOUS
  <2>2. r \in Held(d) /\ route[r] = d /\ r \notin Held(d)'
    BY <2>1, <1>1, <1>3 DEF Routed
  <2>3. \A c \in Conns : r \notin Held(c)'
    BY <2>2, <1>1 DEF Routed
  <2>4. r \in Accepted' /\ r \notin done
    BY <2>1, <2>2 DEF Accepted, FinishedOnce, Finished, TypeOK, Conns, NoConn
  <2>5. QED  BY <2>3, <2>4
<1>5. FinishedOnce'
  BY <1>1, <1>4 DEF FinishedOnce, Finished, Accepted
<1>6. NoneForgotten'
  BY <1>1 DEF NoneForgotten, Finished
<1>7. QED  BY <1>2, <1>5, <1>6

LEMMA NetLoopCheckCompletes ==
  ASSUME IndInv, NEW S \in SUBSET Conns, NetLoopCheck(S)
  PROVE  /\ CompletesWaiting
         /\ nulls' \in [Conns -> SUBSET Nat]
         /\ \A c \in Conns : nulls'[c] \subseteq nulls[c]
<1> DEFINE expired(c) == {r \in waiting[c] : TimedOut(age[r])}
           all == UNION {expired(c) : c \in S}
<1> USE DEF IndInv
<1>1. /\ waiting' = [c \in Conns |-> IF c \in S THEN waiting[c] \ expired(c)
                                                 ELSE waiting[c]]
      /\ nulls' = [c \in Conns |-> IF c \in S THEN {} ELSE nulls[c]]
  BY DEF NetLoopCheck
<1>2. PICK put \in SUBSET all : rsp' = rsp \cup put /\ lost' = lost \cup (all \ put)
  BY DEF NetLoopCheck, PutResponses
<1>3. \A c \in S : expired(c) = waiting[c] \ waiting'[c]
  BY <1>1
<1>4. \A r \in all : /\ r \in Reqs
                     /\ r \notin rsp /\ r \notin lost
                     /\ \E c \in Conns : r \in waiting[c] \ waiting'[c]
  <2>1. \A r \in all : \E c \in S : r \in expired(c)
    OBVIOUS
  <2>2. \A c \in S : \A r \in waiting[c] : r \in Reqs /\ r \notin rsp /\ r \notin lost
    BY DEF TypeOK, FinishedOnce, Finished, Held
  <2>3. QED  BY <2>1, <2>2, <1>3
<1>5. \A c \in Conns : waiting[c] \ waiting'[c] \subseteq all
  BY <1>1
<1>6. waiting' \in [Conns -> SUBSET Reqs] /\ \A c \in Conns : waiting'[c] \subseteq waiting[c]
  BY <1>1 DEF TypeOK
<1>7. nulls' \in [Conns -> SUBSET Nat] /\ \A c \in Conns : nulls'[c] \subseteq nulls[c]
  BY <1>1 DEF TypeOK
<1>8. rsp \cap lost = {} /\ rsp \subseteq Reqs /\ lost \subseteq Reqs
  BY DEF TypeOK, FinishedOnce
<1>9. /\ rsp \subseteq rsp' /\ lost \subseteq lost' /\ rsp' \cap lost' = {}
      /\ rsp' \subseteq Reqs /\ lost' \subseteq Reqs
      /\ \A c \in Conns : waiting[c] \ waiting'[c] \subseteq rsp' \cup lost'
  <2> HIDE DEF all
  <2> QED  BY <1>2, <1>4, <1>5, <1>8
<1>10. \A r \in (rsp' \cup lost') \ (rsp \cup lost) :
         \E c \in Conns : r \in waiting[c] \ waiting'[c]
  <2> HIDE DEF all
  <2> QED  BY <1>2, <1>4
<1>11. QED  BY <1>6, <1>7, <1>9, <1>10 DEF CompletesWaiting

LEMMA LoopCheckInv == IndInv /\ LoopCheck => IndInv'
<1> SUFFICES ASSUME IndInv, LoopCheck PROVE IndInv'
  OBVIOUS
<1> USE DEF IndInv, LoopCheck, InLoop, business, close, messages
<1>1. /\ CompletesWaiting /\ nulls' \in [Conns -> SUBSET Nat]
      /\ \A c \in Conns : nulls'[c] \subseteq nulls[c]
  BY NetLoopCheckCompletes
<1>2. Routed' /\ IdsHandedOut' /\ SentInOrder' /\ FinishedOnce' /\ NoneForgotten'
  BY <1>1, CompletionPreserves DEF Resending
<1>3. TypeOK'
  BY <1>1 DEF TypeOK, CompletesWaiting
<1>4. CloseStages' /\ HandshakeFresh'
  BY <1>1 DEF CloseStages, HandshakeFresh
<1>5. HandshakeAhead'
  BY <1>1 DEF HandshakeAhead, CompletesWaiting, Resending
<1>6. OutputNoticed'
  BY DEF OutputNoticed, HasOutput
<1>7. QED  BY <1>2, <1>3, <1>4, <1>5, <1>6

LEMMA ReadResponseInv ==
  ASSUME IndInv, NEW c \in Conns, ReadResponse(c)
  PROVE  IndInv'
<1> USE DEF IndInv, InLoop, business, close
<1>1. PICK r \in inflight[c] :
        /\ inflight' = [inflight EXCEPT ![c] = @ \ {r}]
        /\ IF WireId(r) \in waiting[c]
             THEN /\ waiting' = [waiting EXCEPT ![c] = @ \ {WireId(r)}]
                  /\ answer' = [answer EXCEPT ![WireId(r)] = r]
                  /\ PutResponses({WireId(r)})
                  /\ UNCHANGED <<nulls, startStatus>>
             ELSE /\ nulls' = [nulls EXCEPT ![c] = @ \cup {WireId(r)}]
                  /\ startStatus' \in IF r = HS THEN Results ELSE {startStatus}
                  /\ UNCHANGED <<waiting, answer, rsp, lost>>
  BY DEF ReadResponse
<1>2. /\ InLoop /\ c \notin dead
      /\ UNCHANGED <<business, queue, dataFlag, sending, wantWrite, dead, close,
                     age, first, faults>>
  BY DEF ReadResponse
<1>3. r \in Msgs /\ WireId(r) \in Nat
  <2>1. r \in Msgs /\ r \in Nat
    BY DEF TypeOK, Msgs, Reqs, HS
  <2>2. WireId(r) \in Nat
    BY <2>1, ConstantsAssumption DEF WireId
  <2>3. QED  BY <2>1, <2>2
<1>4. CompletesWaiting
  <2>1. CASE WireId(r) \in waiting[c]
    <3>1. PICK put \in SUBSET {WireId(r)} :
            rsp' = rsp \cup put /\ lost' = lost \cup ({WireId(r)} \ put)
      BY <1>1, <2>1 DEF PutResponses
    <3>2. WireId(r) \in Reqs /\ WireId(r) \notin rsp /\ WireId(r) \notin lost
      BY <2>1 DEF TypeOK, FinishedOnce, Finished, Held
    <3>3. waiting' = [waiting EXCEPT ![c] = @ \ {WireId(r)}]
      BY <1>1, <2>1
    <3>4. rsp \cap lost = {} /\ rsp \subseteq Reqs /\ lost \subseteq Reqs
          /\ waiting \in [Conns -> SUBSET Reqs]
      BY DEF TypeOK, FinishedOnce
    <3>5. QED  BY <3>1, <3>2, <3>3, <3>4, <2>1 DEF CompletesWaiting
  <2>2. CASE WireId(r) \notin waiting[c]
    BY <1>1, <2>2 DEF CompletesWaiting, TypeOK, FinishedOnce
  <2>3. QED  BY <2>1, <2>2
<1>5. Routed' /\ IdsHandedOut' /\ SentInOrder' /\ FinishedOnce' /\ NoneForgotten'
  BY <1>2, <1>4, CompletionPreserves DEF Resending
<1>6. TypeOK'
  <2>1. nulls' \in [Conns -> SUBSET Nat]
    <3>1. nulls \in [Conns -> SUBSET Nat]
      BY DEF TypeOK
    <3>2. nulls' = nulls \/ nulls' = [nulls EXCEPT ![c] = nulls[c] \cup {WireId(r)}]
      BY <1>1
    <3>3. nulls[c] \cup {WireId(r)} \in SUBSET Nat
      BY <3>1, <1>3
    <3>4. QED  BY <3>1, <3>2, <3>3
  <2>2. answer' \in [Reqs -> Msgs \cup {NoMsg}]
    BY <1>1, <1>3 DEF TypeOK
  <2>3. startStatus' \in {"Init", "Success", "VersionFailed"}
    BY <1>1, ConstantsAssumption DEF TypeOK
  <2>4. inflight' \in [Conns -> SUBSET Msgs]
    BY <1>1 DEF TypeOK
  <2>5. QED  BY <1>2, <1>4, <2>1, <2>2, <2>3, <2>4 DEF TypeOK, CompletesWaiting
<1>7. CloseStages'
  BY <1>2 DEF CloseStages
<1>8. HandshakeAhead'
  BY <1>2, <1>4 DEF HandshakeAhead, CompletesWaiting, Resending
<1>9. HandshakeFresh'
  <2>1. HS \notin Range(queue[c])
    BY DEF HandshakeFresh
  <2>2. \A d \in Conns : d # c => nulls'[d] = nulls[d] /\ inflight'[d] = inflight[d]
    BY <1>1 DEF TypeOK
  <2>3. QED  BY <1>2, <2>1, <2>2 DEF HandshakeFresh
<1>10. OutputNoticed'
  BY <1>2 DEF OutputNoticed, HasOutput
<1>11. QED  BY <1>5, <1>6, <1>7, <1>8, <1>9, <1>10

\* GetNextSendingRequest: what the connections hold stays the same, a request
\* only moves from the head of the queue to the wait map.
LEMMA TakeNextPreserves ==
  ASSUME IndInv, NEW c \in Conns, HasOutput(c), TakeNext(c), phase = "loop",
         sending' \in {[sending EXCEPT ![c] = NoMsg],
                       [sending EXCEPT ![c] = Current(c)]},
         \/ inflight' = [inflight EXCEPT ![c] = @ \cup {Current(c)}]
         \/ UNCHANGED inflight,
         wantWrite[c],
         UNCHANGED <<business, dataFlag, rsp, startStatus, wantWrite, dead,
                     close, messages, faults, lost>>
  PROVE  IndInv'
<1> USE DEF IndInv, business, close, messages
<1>1. resend = {} /\ closing = NoConn /\ (\A d \in Conns : Resending(d) = {} /\ Resending(d)' = {})
  BY DEF CloseStages, Resending
<1>2. Current(c) \in Msgs
  <2>1. CASE sending[c] # NoMsg
    BY <2>1 DEF TypeOK, Current
  <2>2. CASE sending[c] = NoMsg
    BY <2>2, TailElements DEF TypeOK, Current, HasOutput
  <2>3. QED  BY <2>1, <2>2
<1>3. sending' \in [Conns -> Msgs \cup {NoMsg}] /\ inflight' \in [Conns -> SUBSET Msgs]
  <2>1. sending' \in [Conns -> Msgs \cup {NoMsg}]
    BY <1>2 DEF TypeOK
  <2>2. inflight \in [Conns -> SUBSET Msgs] /\ inflight[c] \cup {Current(c)} \in SUBSET Msgs
    BY <1>2 DEF TypeOK
  <2>3. QED  BY <2>1, <2>2
<1>4. CASE sending[c] # NoMsg
  <2>1. UNCHANGED <<queue, waiting, nulls, first>>
    BY <1>4 DEF TakeNext
  <2>2. TypeOK'
    BY <1>3, <2>1 DEF TypeOK
  <2>3. Routed' /\ IdsHandedOut' /\ SentInOrder'
    BY <2>1, ContentsUnchanged
  <2>4. FinishedOnce' /\ NoneForgotten'
    BY <2>1, HeldUnchanged DEF FinishedOnce, Finished, Accepted, NoneForgotten
  <2>5. CloseStages'
    BY <2>1, <1>1 DEF CloseStages
  <2>6. \A i \in DOMAIN queue[c] : queue[c][i] # HS
    BY <1>4 DEF HandshakeAhead
  <2>7. HS \notin Range(queue[c])
    BY <2>6 DEF Range
  <2>8. HandshakeAhead'
    BY <2>1, <2>6, <1>1 DEF HandshakeAhead, TypeOK
  <2>9. HandshakeFresh'
    BY <2>1, <2>7 DEF HandshakeFresh, TypeOK
  <2>10. OutputNoticed'
    BY <2>1 DEF OutputNoticed, HasOutput, TypeOK
  <2>11. QED  BY <2>2, <2>3, <2>4, <2>5, <2>8, <2>9, <2>10
<1>5. CASE sending[c] = NoMsg
  <2> DEFINE m == Head(queue[c])
  <2>1. /\ queue[c] # <<>> /\ Current(c) = m
        /\ queue' = [queue EXCEPT ![c] = Tail(queue[c])]
        /\ m = HS => UNCHANGED <<waiting, nulls>>
        /\ m # HS => /\ waiting' = [waiting EXCEPT ![c] = @ \cup {m}]
                     /\ nulls' = [nulls EXCEPT ![c] = @ \ {m}]
        /\ first' = IF first[c] = NoMsg THEN [first EXCEPT ![c] = m] ELSE first
    BY <1>5 DEF TakeNext, HasOutput, Current
  <2>2. /\ Len(queue[c]) \in Nat \ {0} /\ m \in Msgs /\ m = queue[c][1]
        /\ Tail(queue[c]) \in Seq(Msgs)
        /\ Len(Tail(queue[c])) = Len(queue[c]) - 1
        /\ \A i \in 1 .. Len(queue[c]) - 1 : Tail(queue[c])[i] = queue[c][i + 1]
        /\ Range(queue[c]) = {m} \cup Range(Tail(queue[c]))
    BY <2>1, TailElements DEF TypeOK
  <2>3. \A i \in 1 .. Len(Tail(queue[c])) : Tail(queue[c])[i] # HS
    <3>1. \A i \in 2 .. Len(queue[c]) : queue[c][i] # HS
      BY <2>2 DEF HandshakeAhead
    <3>2. \A i \in 1 .. Len(queue[c]) - 1 : i + 1 \in 2 .. Len(queue[c])
      BY <2>2
    <3> QED  BY <2>2, <3>1, <3>2
  <2>4. HS \notin Range(Tail(queue[c]))
    BY <2>2, <2>3 DEF Range
  <2> HIDE DEF m
  <2>5. TypeOK'
    <3>1. queue' \in [Conns -> Seq(Msgs)] /\ \A d \in Conns : Len(queue'[d]) <= SendCap
      BY <2>1, <2>2, ConstantsAssumption DEF TypeOK
    <3>2. waiting' \in [Conns -> SUBSET Reqs] /\ nulls' \in [Conns -> SUBSET Nat]
      <4>1. waiting \in [Conns -> SUBSET Reqs] /\ nulls \in [Conns -> SUBSET Nat]
        BY DEF TypeOK
      <4>2. m # HS => waiting[c] \cup {m} \in SUBSET Reqs
        BY <4>1, <2>2 DEF Msgs
      <4>3. QED  BY <2>1, <4>1, <4>2
    <3>3. first' \in [Conns -> Msgs \cup {NoMsg}]
      BY <2>1, <2>2 DEF TypeOK
    <3>4. QED  BY <3>1, <3>2, <3>3, <1>3 DEF TypeOK
  <2>6. \A d \in Conns : d # c => /\ queue'[d] = queue[d] /\ waiting'[d] = waiting[d]
                                /\ nulls'[d] = nulls[d] /\ inflight'[d] = inflight[d]
                                /\ sending'[d] = sending[d]
    BY <2>1 DEF TypeOK
  <2>7. /\ queue'[c] = Tail(queue[c])
        /\ waiting'[c] = IF m = HS THEN waiting[c] ELSE waiting[c] \cup {m}
    BY <2>1 DEF TypeOK
  <2>8. /\ Queued(c)' = Range(Tail(queue[c]))
        /\ Queued(c) = (Queued(c)' \cup {m}) \ {HS}
    BY <2>2, <2>4, <2>7 DEF Queued
  <2>9. \A d \in Conns : Held(d)' = Held(d)
    BY <2>6, <2>7, <2>8, <1>1, <2>4 DEF Held, Queued
  <2>10. Routed' /\ IdsHandedOut' /\ FinishedOnce' /\ NoneForgotten'
    BY <2>9 DEF Routed, IdsHandedOut, FinishedOnce, Finished, Accepted, NoneForgotten
  <2>11. CloseStages'
    BY <1>1 DEF CloseStages
  <2>12. SentInOrder'
    <3>1. ASSUME NEW i \in DOMAIN Tail(queue[c]), NEW j \in DOMAIN Tail(queue[c]), i < j
          PROVE  Tail(queue[c])[i] < Tail(queue[c])[j]
      <4>1. /\ i + 1 \in DOMAIN queue[c] /\ j + 1 \in DOMAIN queue[c]
            /\ Tail(queue[c])[i] = queue[c][i + 1] /\ Tail(queue[c])[j] = queue[c][j + 1]
            /\ i + 1 < j + 1 /\ queue[c][i + 1] # HS /\ queue[c][j + 1] # HS
        BY <3>1, <2>2, <2>3 DEF TypeOK
      <4>2. QED  BY <4>1 DEF SentInOrder
    <3>2. ASSUME m # HS, NEW q \in Range(Tail(queue[c]))  PROVE m < q
      <4>1. PICK j \in 1 .. Len(Tail(queue[c])) : q = Tail(queue[c])[j]
        BY <2>2 DEF Range
      <4>2. /\ 1 \in DOMAIN queue[c] /\ j + 1 \in DOMAIN queue[c] /\ 1 < j + 1
            /\ q = queue[c][j + 1] /\ queue[c][j + 1] # HS
        BY <4>1, <2>2, <2>3 DEF TypeOK
      <4>3. QED  BY <4>2, <2>2, <3>2 DEF SentInOrder
    <3>3. ASSUME NEW old \in waiting[c], NEW q \in Range(Tail(queue[c]))  PROVE old < q
      BY <2>4, <2>8 DEF SentInOrder
    <3>4. ASSUME NEW d \in Conns, d # c
          PROVE  /\ Queued(d)' = Queued(d) /\ queue'[d] = queue[d] /\ waiting'[d] = waiting[d]
      BY <3>4, <2>6 DEF Queued
    <3>5. ASSUME NEW old \in waiting'[c], NEW q \in Queued(c)'  PROVE old < q
      BY <3>2, <3>3, <2>7, <2>8
    <3>6. ASSUME NEW d \in Conns
          PROVE  /\ \A i, j \in DOMAIN queue'[d] :
                      i < j /\ queue'[d][i] # HS /\ queue'[d][j] # HS
                        => queue'[d][i] < queue'[d][j]
                 /\ \A old \in waiting'[d] : \A q \in Queued(d)' : old < q
      <4>1. CASE d = c
        BY <4>1, <3>1, <3>5, <2>7
      <4>2. CASE d # c
        BY <4>2, <3>4 DEF SentInOrder
      <4>3. QED  BY <4>1, <4>2
    <3>7. QED  BY <3>6, <1>1 DEF SentInOrder
  <2>13. HandshakeAhead'
    <3>1. \A i \in DOMAIN queue'[c] : queue'[c][i] # HS
      BY <2>2, <2>3, <2>7
    <3>2. \A d \in Conns : d # c =>
            /\ queue'[d] = queue[d] /\ waiting'[d] = waiting[d] /\ sending'[d] = sending[d]
      BY <2>6
    <3>3. QED  BY <3>1, <3>2, <1>1 DEF HandshakeAhead
  <2>14. HandshakeFresh'
    BY <2>4, <2>6, <2>7 DEF HandshakeFresh
  <2>15. OutputNoticed'
    BY <2>6 DEF OutputNoticed, HasOutput
  <2>16. QED  BY <2>5, <2>10, <2>11, <2>12, <2>13, <2>14, <2>15
<1>6. QED  BY <1>4, <1>5

LEMMA WriteWholeInv ==
  ASSUME IndInv, NEW c \in Conns, WriteWhole(c)
  PROVE  IndInv'
BY TakeNextPreserves DEF WriteWhole, SentWhole, InLoop

LEMMA WritePartInv ==
  ASSUME IndInv, NEW c \in Conns, WritePart(c)
  PROVE  IndInv'
BY TakeNextPreserves DEF WritePart, InLoop

\* A new request has the largest id so far and goes to the end of a queue.
LEMMA SendInv ==
  ASSUME IndInv, NEW c \in Conns, Send(c)
  PROVE  IndInv'
<1> USE DEF IndInv, perConn, close, server
<1> DEFINE r == seqIdx + 1
<1>1. /\ seqIdx < MaxId /\ seqIdx' = r
      /\ UNCHANGED <<ready, done, rsp, startStatus, perConn, close, answer, server>>
  BY DEF Send
<1>2. r \in Reqs /\ r \in Msgs /\ r # HS /\ seqIdx \in Nat /\ r > seqIdx
  BY <1>1, ConstantsAssumption DEF IdsHandedOut, TypeOK, Reqs, Msgs, HS
<1>3. route[r] = NoConn
  BY <1>2 DEF IdsHandedOut, TypeOK, Reqs
<1>4. \A d \in Conns : \A h \in Held(d) : h \in Reqs /\ h < r /\ h # r
  <2>1. \A d \in Conns : \A h \in Held(d) : h \in Reqs /\ route[h] # NoConn
    <3>1. \A d \in Conns : Range(queue[d]) \subseteq Msgs
      BY DEF TypeOK, Range
    <3>2. \A d \in Conns : Held(d) \subseteq Reqs
      BY <3>1 DEF Held, Queued, Resending, TypeOK, Msgs
    <3>3. QED  BY <3>2 DEF Routed, Conns, NoConn
  <2>2. QED  BY <2>1, <1>2 DEF IdsHandedOut, Reqs
<1>5. CASE Room(c)
  <2>1. /\ route' = [route EXCEPT ![r] = c]
        /\ age' = [age EXCEPT ![r] = 0]
        /\ queue' = [queue EXCEPT ![c] = Append(queue[c], r)]
        /\ dataFlag' = [dataFlag EXCEPT ![c] = TRUE]
    BY <1>5 DEF Send, RaiseFlag
  <2> DEFINE q == Append(queue[c], r)
  <2>2. /\ q \in Seq(Msgs) /\ Len(q) = Len(queue[c]) + 1
        /\ \A i \in 1 .. Len(queue[c]) : q[i] = queue[c][i]
        /\ q[Len(queue[c]) + 1] = r
        /\ Range(q) = Range(queue[c]) \cup {r}
    <3>1. queue[c] \in Seq(Msgs)
      BY DEF TypeOK
    <3>2. QED  BY <3>1, <1>2, AppendElements
  <2>3. queue'[c] = q /\ \A d \in Conns : d # c => queue'[d] = queue[d]
    BY <2>1 DEF TypeOK
  <2> HIDE DEF q, r
  <2>4. TypeOK'
    <3>1. queue' \in [Conns -> Seq(Msgs)]
      BY <2>1, <2>2, <2>3 DEF TypeOK, q
    <3>2. \A d \in Conns : Len(queue'[d]) <= SendCap
      <4>1. Len(queue[c]) \in Nat /\ Len(queue[c]) < SendCap
        BY <1>5 DEF Room, TypeOK
      <4>2. QED  BY <4>1, <2>2, <2>3, ConstantsAssumption DEF TypeOK
    <3>3. route' \in [Reqs -> Conns \cup {NoConn}] /\ age' \in [Reqs -> Ages]
      BY <2>1, <1>2, ConstantsAssumption DEF TypeOK, Ages
    <3>4. seqIdx' \in HS .. MaxId \cup {HS} /\ dataFlag' \in [Conns -> BOOLEAN]
      BY <1>1, <1>2, <2>1, ConstantsAssumption DEF TypeOK, HS, r
    <3>5. QED  BY <3>1, <3>2, <3>3, <3>4, <1>1 DEF TypeOK
  <2>5. /\ Held(c)' = Held(c) \cup {r} /\ Queued(c)' = Queued(c) \cup {r}
        /\ \A d \in Conns : Resending(d)' = Resending(d)
        /\ \A d \in Conns : d # c => Held(d)' = Held(d) /\ Queued(d)' = Queued(d)
    BY <1>1, <1>2, <2>2, <2>3 DEF Held, Queued, Resending
  <2>6. route'[r] = c /\ \A h \in Reqs : h # r => route'[h] = route[h]
    BY <2>1, <1>2 DEF TypeOK
  <2>7. Routed'
    <3>1. \A h \in Held(c)' : route'[h] = c
      BY <2>5, <2>6, <1>4 DEF Routed
    <3>2. \A d \in Conns : d # c => \A h \in Held(d)' : route'[h] = d
      BY <2>5, <2>6, <1>4 DEF Routed
    <3>3. QED  BY <3>1, <3>2 DEF Routed
  <2>8. IdsHandedOut'
    BY <1>1, <1>2, <2>6 DEF IdsHandedOut, Reqs, r, HS
  <2>9. r \notin Finished
    BY <1>3 DEF FinishedOnce, Accepted
  <2>10. FinishedOnce'
    <3>1. Finished' = Finished
      BY <1>1 DEF Finished
    <3>2. Accepted \subseteq Accepted'
      BY <2>6, <1>3 DEF Accepted
    <3>3. QED  BY <3>1, <3>2, <2>5, <2>9, <1>1 DEF FinishedOnce
  <2>11. NoneForgotten'
    BY <2>5, <2>6, <1>1 DEF NoneForgotten, Finished
  <2>12. CloseStages'
    <3>1. \A d \in Conns : HS \in Range(queue'[d]) <=> HS \in Range(queue[d])
      BY <2>2, <2>3, <1>2
    <3>2. phase \in {"resend", "crashed"} => closing \in Conns
      BY DEF CloseStages, TypeOK
    <3>3. QED  BY <3>1, <3>2, <1>1 DEF CloseStages
  <2>13. SentInOrder'
    <3>1. ASSUME NEW i \in DOMAIN q, NEW j \in DOMAIN q, i < j, q[i] # HS, q[j] # HS
          PROVE  q[i] < q[j]
      <4>1. Len(queue[c]) \in Nat /\ DOMAIN q = 1 .. Len(queue[c]) + 1
            /\ DOMAIN queue[c] = 1 .. Len(queue[c])
        BY <2>2 DEF TypeOK
      <4>2. i \in DOMAIN queue[c] /\ q[i] = queue[c][i]
        BY <3>1, <4>1, <2>2
      <4>3. CASE j \in DOMAIN queue[c]
        BY <4>1, <4>2, <4>3, <3>1, <2>2 DEF SentInOrder
      <4>4. CASE j = Len(queue[c]) + 1
        BY <4>2, <4>4, <3>1, <2>2, <1>4 DEF Held, Queued, Range
      <4>5. QED  BY <4>1, <4>3, <4>4
    <3>2. ASSUME NEW d \in Conns
          PROVE  /\ \A i, j \in DOMAIN queue'[d] :
                      i < j /\ queue'[d][i] # HS /\ queue'[d][j] # HS
                        => queue'[d][i] < queue'[d][j]
                 /\ \A old \in waiting[d] \cup Resending(d) :
                      \A x \in Queued(d)' : old < x
      <4>1. CASE d = c
        <5>1. \A old \in waiting[c] \cup Resending(c) : old < r
          BY <1>4 DEF Held
        <5>2. QED  BY <4>1, <3>1, <5>1, <2>3, <2>5 DEF SentInOrder
      <4>2. CASE d # c
        BY <4>2, <2>3, <2>5 DEF SentInOrder
      <4>3. QED  BY <4>1, <4>2
    <3>3. QED  BY <3>2, <2>5, <1>1 DEF SentInOrder
  <2>14. HandshakeAhead'
    <3>1. ASSUME NEW i \in DOMAIN q, q[i] = HS  PROVE i \in DOMAIN queue[c] /\ queue[c][i] = HS
      <4>1. Len(queue[c]) \in Nat /\ DOMAIN q = 1 .. Len(queue[c]) + 1
            /\ DOMAIN queue[c] = 1 .. Len(queue[c])
        BY <2>2 DEF TypeOK
      <4>2. i # Len(queue[c]) + 1
        BY <3>1, <2>2, <1>2
      <4>3. QED  BY <3>1, <4>1, <4>2, <2>2
    <3>2. QED  BY <3>1, <2>3, <2>5, <1>1 DEF HandshakeAhead
  <2>15. HandshakeFresh'
    BY <2>2, <2>3, <1>1, <1>2 DEF HandshakeFresh
  <2>16. OutputNoticed'
    BY <2>1, <2>3, <1>1 DEF OutputNoticed, HasOutput, TypeOK
  <2>17. QED  BY <2>4, <2>7, <2>8, <2>10, <2>11, <2>12, <2>13, <2>14, <2>15, <2>16
<1>6. CASE ~ Room(c)
  <2>1. UNCHANGED <<route, age, queue, dataFlag>>
    BY <1>6 DEF Send
  <2> HIDE DEF r
  <2>2. TypeOK'
    BY <2>1, <1>1, <1>2, ConstantsAssumption DEF TypeOK, HS, r
  <2>3. Routed' /\ SentInOrder' /\ IdsHandedOut'
    <3>1. Routed' /\ SentInOrder'
      BY <2>1, <1>1, HeldUnchanged DEF Routed, SentInOrder
    <3>2. IdsHandedOut'
      BY <2>1, <1>1, <1>2 DEF IdsHandedOut, r, Reqs, HS
    <3>3. QED  BY <3>1, <3>2
  <2>4. FinishedOnce' /\ NoneForgotten'
    BY <2>1, <1>1, HeldUnchanged DEF FinishedOnce, Finished, Accepted, NoneForgotten
  <2>5. CloseStages' /\ HandshakeFresh'
    BY <2>1, <1>1 DEF CloseStages, HandshakeFresh
  <2>6. HandshakeAhead' /\ OutputNoticed'
    BY <2>1, <1>1, HeldUnchanged DEF HandshakeAhead, OutputNoticed, HasOutput
  <2>7. QED  BY <2>2, <2>3, <2>4, <2>5, <2>6
<1>7. QED  BY <1>5, <1>6

LEMMA ReconnectFailsInv == IndInv /\ ReconnectFails => IndInv'
<1> SUFFICES ASSUME IndInv, ReconnectFails PROVE IndInv'
  OBVIOUS
<1> USE DEF IndInv, business, messages
<1>1. /\ phase = "connect" /\ closing \in Conns /\ resend = {} /\ resend' = {}
      /\ sending' = [sending EXCEPT ![closing] = NoMsg]
      /\ UNCHANGED <<business, queue, dataFlag, startStatus, wantWrite,
                     lastNull, messages, inflight, first, faults>>
  BY DEF ReconnectFails, CloseStages, TypeOK
<1>2. /\ CompletesWaiting /\ nulls' \in [Conns -> SUBSET Nat]
      /\ \A c \in Conns : nulls'[c] \subseteq nulls[c]
  <2>1. CASE tries + 1 < MaxTries
    BY <2>1 DEF ReconnectFails, CompletesWaiting, TypeOK, FinishedOnce
  <2>2. CASE ~ (tries + 1 < MaxTries)
    <3>1. NetLoopCheck({closing})
      BY <2>2 DEF ReconnectFails
    <3>2. QED  BY <3>1, <1>1, NetLoopCheckCompletes
  <2>3. QED  BY <2>1, <2>2
<1>3. \A c \in Conns : Resending(c) = {} /\ Resending(c)' = {}
  BY <1>1 DEF Resending
<1>4. Routed' /\ IdsHandedOut' /\ SentInOrder' /\ FinishedOnce' /\ NoneForgotten'
  BY <1>1, <1>2, <1>3, CompletionPreserves
<1>5. /\ tries' \in Nat /\ rounds' \in Nat
      /\ \/ UNCHANGED <<dead, closing, phase>>
         \/ dead' = dead \cup {closing} /\ closing' = NoConn /\ phase' = "loop"
  BY DEF ReconnectFails, TypeOK
<1>6. sending' \in [Conns -> Msgs \cup {NoMsg}]
  BY <1>1 DEF TypeOK
<1>7. TypeOK'
  BY <1>1, <1>2, <1>5, <1>6 DEF TypeOK, CompletesWaiting
<1>8. CloseStages'
  BY <1>1, <1>5, NoConnIsNone DEF CloseStages, TypeOK
<1>9. HandshakeAhead'
  BY <1>1, <1>2, <1>3 DEF HandshakeAhead, CompletesWaiting, TypeOK
<1>10. HandshakeFresh'
  BY <1>1, <1>2 DEF HandshakeFresh
<1>11. OutputNoticed'
  BY <1>1, <1>5 DEF OutputNoticed, HasOutput, TypeOK
<1>12. QED  BY <1>4, <1>7, <1>8, <1>9, <1>10, <1>11

\* The requests of the wait map become the requests to send again.
LEMMA ReconnectOkInv == IndInv /\ ReconnectOk => IndInv'
<1> SUFFICES ASSUME IndInv, ReconnectOk PROVE IndInv'
  OBVIOUS
<1> USE DEF IndInv, business, shared
<1>1. /\ phase = "connect" /\ closing \in Conns /\ resend = {}
      /\ closing # NoConn /\ inflight[closing] = {}
      /\ sending' = [sending EXCEPT ![closing] = NoMsg]
      /\ wantWrite' = [wantWrite EXCEPT ![closing] = TRUE]
      /\ first' = [first EXCEPT ![closing] = NoMsg]
      /\ tries' = 0 /\ rounds' = 0
      /\ UNCHANGED <<business, shared, dead, answer, inflight, faults, lost>>
  BY DEF ReconnectOk, CloseStages, TypeOK, Conns, NoConn
<1>2. \A c \in Conns : Resending(c) = {} /\ Queued(c)' = Queued(c)
  BY <1>1 DEF Resending, Queued
<1>3. CASE waiting[closing] = {} /\ nulls[closing] = {}
  <2>1. /\ closing' = NoConn /\ phase' = "loop"
        /\ UNCHANGED <<waiting, nulls, resend, lastNull, age>>
    BY <1>3 DEF ReconnectOk
  <2>2. \A c \in Conns : Resending(c)' = {} /\ Held(c)' = Held(c)
    BY <1>1, <1>2, <2>1 DEF Resending, Held
  <2>3. TypeOK'
    BY <1>1, <2>1 DEF TypeOK
  <2>4. Routed' /\ IdsHandedOut' /\ SentInOrder'
    BY <1>1, <1>2, <2>1, <2>2 DEF Routed, IdsHandedOut, SentInOrder
  <2>5. FinishedOnce' /\ NoneForgotten'
    BY <1>1, <2>2 DEF FinishedOnce, Finished, Accepted, NoneForgotten
  <2>6. CloseStages'
    BY <1>1, <2>1, NoConnIsNone DEF CloseStages, TypeOK
  <2>7. HandshakeAhead' /\ HandshakeFresh'
    BY <1>1, <1>2, <2>1, <2>2 DEF HandshakeAhead, HandshakeFresh, TypeOK
  <2>8. OutputNoticed'
    BY <1>1, <2>1 DEF OutputNoticed, HasOutput, TypeOK
  <2>9. QED  BY <2>3, <2>4, <2>5, <2>6, <2>7, <2>8
<1>4. CASE ~ (waiting[closing] = {} /\ nulls[closing] = {})
  <2>1. /\ phase' = "resend" /\ closing' = closing
        /\ resend' = waiting[closing]
        /\ waiting' = [waiting EXCEPT ![closing] = {}]
        /\ nulls' = [nulls EXCEPT ![closing] = {}]
        /\ age' = [r \in Reqs |-> IF r \in waiting[closing] THEN 0 ELSE age[r]]
        /\ lastNull' \in BOOLEAN
    BY <1>4 DEF ReconnectOk, CollectWaiting, LastIsNull
  <2>2. /\ waiting'[closing] = {} /\ nulls'[closing] = {}
        /\ \A c \in Conns : c # closing => waiting'[c] = waiting[c] /\ nulls'[c] = nulls[c]
    <3>1. waiting \in [Conns -> SUBSET Reqs] /\ nulls \in [Conns -> SUBSET Nat]
      BY DEF TypeOK
    <3>2. QED  BY <3>1, <2>1, <1>1
  <2>3. \A c \in Conns : Resending(c)' = IF c = closing THEN waiting[c] ELSE {}
    BY <2>1 DEF Resending
  <2>4. \A c \in Conns : Held(c)' = Held(c)
    BY <1>2, <2>2, <2>3 DEF Held
  <2>5. TypeOK'
    <3>1. waiting' \in [Conns -> SUBSET Reqs] /\ nulls' \in [Conns -> SUBSET Nat]
      BY <2>1 DEF TypeOK
    <3>2. age' \in [Reqs -> Ages] /\ resend' \subseteq Reqs
      BY <1>1, <2>1, ConstantsAssumption DEF TypeOK, Ages
    <3>3. sending' \in [Conns -> Msgs \cup {NoMsg}] /\ first' \in [Conns -> Msgs \cup {NoMsg}]
          /\ wantWrite' \in [Conns -> BOOLEAN]
      BY <1>1 DEF TypeOK
    <3>4. QED  BY <3>1, <3>2, <3>3, <1>1, <2>1 DEF TypeOK
  <2>6. Routed' /\ IdsHandedOut'
    BY <1>1, <2>4 DEF Routed, IdsHandedOut
  <2>7. SentInOrder'
    BY <1>1, <1>2, <2>2, <2>3 DEF SentInOrder
  <2>8. FinishedOnce' /\ NoneForgotten'
    BY <1>1, <2>4 DEF FinishedOnce, Finished, Accepted, NoneForgotten
  <2>9. HS \notin Range(queue[closing])
    <3>1. ASSUME HS \in Range(queue[closing])  PROVE waiting[closing] = {} /\ nulls[closing] = {}
      <4>1. PICK i \in DOMAIN queue[closing] : queue[closing][i] = HS
        BY <3>1 DEF Range
      <4>2. QED  BY <3>1, <4>1, <1>1 DEF HandshakeAhead, HandshakeFresh
    <3>2. QED  BY <3>1, <1>4
  <2>10. CloseStages'
    BY <1>1, <2>1, <2>2, <2>9 DEF CloseStages, TypeOK
  <2>11. HandshakeAhead'
    <3>1. \A i \in DOMAIN queue[closing] : queue[closing][i] # HS
      BY <2>9 DEF Range
    <3>2. QED  BY <3>1, <1>1, <2>2, <2>3 DEF HandshakeAhead, TypeOK
  <2>12. HandshakeFresh'
    BY <1>1, <2>2 DEF HandshakeFresh
  <2>13. OutputNoticed'
    BY <1>1, <2>1 DEF OutputNoticed, HasOutput, TypeOK
  <2>14. QED  BY <2>5, <2>6, <2>7, <2>8, <2>10, <2>11, <2>12, <2>13
<1>5. QED  BY <1>3, <1>4

\* The largest of the requests to send again goes in front of the queue.
LEMMA RequeueOneInv == IndInv /\ RequeueOne => IndInv'
<1> SUFFICES ASSUME IndInv, RequeueOne PROVE IndInv'
  OBVIOUS
<1> USE DEF IndInv, business, perConn, messages
<1>1. PICK r \in resend :
        /\ \A s \in resend \ {r} : clientMsgCompare(r, s)
        /\ resend' = resend \ {r}
        /\ IF Room(closing) THEN PutPre(closing, r) /\ UNCHANGED lost
                            ELSE lost' = lost \cup {r} /\ UNCHANGED queue
  BY DEF RequeueOne
<1>2. /\ phase = "resend" /\ closing \in Conns /\ closing # NoConn
      /\ UNCHANGED <<business, dataFlag, rsp, startStatus, perConn, closing,
                     tries, rounds, lastNull, messages, inflight, first, faults>>
      /\ phase' \in {"resend", "crashed"}
      /\ waiting[closing] = {} /\ nulls[closing] = {} /\ inflight[closing] = {}
      /\ sending[closing] = NoMsg /\ HS \notin Range(queue[closing])
  BY NoConnIsNone DEF RequeueOne, CloseStages, TypeOK
<1>3. r \in Reqs /\ r \in Msgs /\ r # HS /\ r \in Nat
  BY DEF TypeOK, Msgs, Reqs, HS
<1>4. \A c \in Conns : /\ Resending(c) = IF c = closing THEN resend ELSE {}
                       /\ Resending(c)' = IF c = closing THEN resend \ {r} ELSE {}
  BY <1>1, <1>2 DEF Resending
<1>5. \A s \in resend \ {r} : s < r
  BY <1>1, <1>3 DEF clientMsgCompare, TypeOK, Reqs
<1>6. /\ r \in Held(closing) /\ route[r] = closing /\ r \notin Finished
      /\ \A q \in Queued(closing) : r < q
  BY <1>2, <1>4 DEF Held, Routed, FinishedOnce, SentInOrder
<1>7. CASE Room(closing)
  <2> DEFINE q == <<r>> \o queue[closing]
  <2>1. queue' = [queue EXCEPT ![closing] = q] /\ UNCHANGED lost
    BY <1>1, <1>7 DEF PutPre
  <2>2. /\ q \in Seq(Msgs) /\ Len(q) = Len(queue[closing]) + 1 /\ q[1] = r
        /\ \A i \in 2 .. Len(queue[closing]) + 1 : q[i] = queue[closing][i - 1]
        /\ Range(q) = {r} \cup Range(queue[closing])
    <3>1. queue[closing] \in Seq(Msgs)
      BY <1>2 DEF TypeOK
    <3>2. QED  BY <3>1, <1>3, FrontElements
  <2> HIDE DEF q
  <2>3. queue'[closing] = q /\ \A c \in Conns : c # closing => queue'[c] = queue[c]
    <3>1. queue \in [Conns -> Seq(Msgs)]
      BY DEF TypeOK
    <3>2. QED  BY <3>1, <2>1, <1>2
  <2>4. TypeOK'
    <3>1. queue' \in [Conns -> Seq(Msgs)]
      BY <2>1, <2>2, <1>2 DEF TypeOK
    <3>2. \A c \in Conns : Len(queue'[c]) <= SendCap
      <4>1. Len(queue[closing]) \in Nat /\ Len(queue[closing]) < SendCap
        BY <1>2, <1>7 DEF Room, TypeOK
      <4>2. \A c \in Conns : Len(queue[c]) <= SendCap
        BY DEF TypeOK
      <4>3. Len(q) <= SendCap
        BY <4>1, <2>2, ConstantsAssumption
      <4>4. QED  BY <4>2, <4>3, <2>3
    <3>3. QED  BY <3>1, <3>2, <2>1, <1>1, <1>2 DEF TypeOK
  <2>5. /\ Queued(closing)' = Queued(closing) \cup {r}
        /\ \A c \in Conns : c # closing => Queued(c)' = Queued(c)
    BY <2>2, <2>3, <1>3, <1>2 DEF Queued
  <2>6. \A c \in Conns : Held(c)' = Held(c)
    BY <2>5, <1>2, <1>4 DEF Held
  <2>7. Routed' /\ IdsHandedOut' /\ FinishedOnce' /\ NoneForgotten'
    BY <2>1, <2>6, <1>2 DEF Routed, IdsHandedOut, FinishedOnce, Finished, Accepted, NoneForgotten
  <2>8. HS \notin Range(q) /\ \A i \in DOMAIN q : q[i] # HS
    BY <2>2, <1>2, <1>3 DEF Range
  <2>9. CloseStages'
    BY <2>3, <2>8, <1>2 DEF CloseStages
  <2>10. HandshakeAhead' /\ HandshakeFresh'
    BY <2>3, <2>8, <1>2, <1>4 DEF HandshakeAhead, HandshakeFresh
  <2>11. OutputNoticed'
    BY <2>3, <1>2 DEF OutputNoticed, HasOutput
  <2>12. SentInOrder'
    <3>1. Len(queue[closing]) \in Nat /\ DOMAIN q = 1 .. Len(queue[closing]) + 1
          /\ DOMAIN queue[closing] = 1 .. Len(queue[closing])
      BY <2>2, <1>2 DEF TypeOK
    <3>2. ASSUME NEW i \in DOMAIN q, NEW j \in DOMAIN q, i < j
          PROVE  q[i] < q[j]
      <4>1. /\ j - 1 \in DOMAIN queue[closing] /\ q[j] = queue[closing][j - 1]
            /\ queue[closing][j - 1] # HS
        BY <3>1, <3>2, <2>2, <2>8
      <4>2. CASE i = 1
        BY <4>1, <4>2, <2>2, <1>6 DEF Queued, Range
      <4>3. CASE i # 1
        <5>1. /\ i - 1 \in DOMAIN queue[closing] /\ q[i] = queue[closing][i - 1]
              /\ queue[closing][i - 1] # HS /\ i - 1 < j - 1
          BY <3>1, <3>2, <4>3, <2>2, <2>8
        <5>2. QED  BY <4>1, <5>1, <1>2 DEF SentInOrder
      <4>4. QED  BY <4>2, <4>3
    <3>3. ASSUME NEW old \in resend \ {r}, NEW x \in Queued(closing)'  PROVE old < x
      BY <2>5, <1>2, <1>4, <1>5 DEF SentInOrder
    <3>4. ASSUME NEW c \in Conns
          PROVE  /\ \A i, j \in DOMAIN queue'[c] :
                      i < j /\ queue'[c][i] # HS /\ queue'[c][j] # HS
                        => queue'[c][i] < queue'[c][j]
                 /\ \A old \in waiting'[c] \cup Resending(c)' :
                      \A x \in Queued(c)' : old < x
      <4>1. CASE c = closing
        BY <4>1, <3>2, <3>3, <2>3, <1>2, <1>4
      <4>2. CASE c # closing
        BY <4>2, <2>3, <2>5, <1>2, <1>4 DEF SentInOrder
      <4>3. QED  BY <4>1, <4>2
    <3>5. QED  BY <3>4 DEF SentInOrder
  <2>13. QED  BY <2>4, <2>7, <2>9, <2>10, <2>11, <2>12
<1>8. CASE ~ Room(closing)
  <2>1. lost' = lost \cup {r} /\ UNCHANGED queue
    BY <1>1, <1>8
  <2>2. \A c \in Conns : Queued(c)' = Queued(c)
    BY <2>1 DEF Queued
  <2>3. Held(closing) \ Held(closing)' = {r} /\ \A c \in Conns : Held(c)' \subseteq Held(c)
    <3>1. r \notin Queued(closing)
      BY <1>3, <1>6 DEF Reqs
    <3>2. QED  BY <3>1, <2>2, <1>2, <1>4 DEF Held
  <2>4. \A c \in Conns : c # closing => Held(c)' = Held(c)
    BY <2>2, <1>2, <1>4 DEF Held
  <2>5. TypeOK'
    BY <2>1, <1>1, <1>2, <1>3 DEF TypeOK
  <2>6. Routed' /\ IdsHandedOut'
    BY <2>3, <1>2 DEF Routed, IdsHandedOut
  <2>7. Finished' = Finished \cup {r}
    BY <2>1, <1>2 DEF Finished
  <2>8. r \in Accepted /\ Accepted' = Accepted
    BY <1>2, <1>3, <1>6 DEF Accepted
  <2>9. \A c \in Conns : r \notin Held(c)'
    BY <2>3, <1>2, <1>6 DEF Routed
  <2>10. FinishedOnce'
    BY <2>1, <2>3, <2>7, <2>8, <2>9, <1>2, <1>6 DEF FinishedOnce, Finished
  <2>11. NoneForgotten'
    BY <2>3, <2>4, <2>7, <1>2 DEF NoneForgotten
  <2>12. SentInOrder'
    BY <2>1, <2>2, <1>2, <1>4 DEF SentInOrder
  <2>13. CloseStages' /\ HandshakeFresh' /\ OutputNoticed'
    BY <2>1, <1>2 DEF CloseStages, HandshakeFresh, OutputNoticed, HasOutput
  <2>14. HandshakeAhead'
    BY <2>1, <1>2, <1>4 DEF HandshakeAhead
  <2>15. QED  BY <2>5, <2>6, <2>10, <2>11, <2>12, <2>13, <2>14
<1>9. QED  BY <1>7, <1>8

\* The handshake goes in front of a queue that holds none, on a connection
\* nothing was sent on or read from.
LEMMA SendHandShakeMsgInv == IndInv /\ SendHandShakeMsg => IndInv'
<1> SUFFICES ASSUME IndInv, SendHandShakeMsg PROVE IndInv'
  OBVIOUS
<1> USE DEF IndInv, business, messages, server
<1> DEFINE c == closing
<1>1. /\ phase = "resend" /\ c \in Conns /\ c # NoConn /\ resend = {}
      /\ closing' = NoConn /\ phase' = "loop" /\ lastNull' = FALSE
      /\ wantWrite' = [wantWrite EXCEPT ![c] = TRUE]
      /\ UNCHANGED <<business, rsp, startStatus, sending, waiting, nulls, dead,
                     tries, rounds, resend, messages, server>>
      /\ waiting[c] = {} /\ nulls[c] = {} /\ inflight[c] = {}
      /\ sending[c] = NoMsg /\ HS \notin Range(queue[c])
  BY NoConnIsNone DEF SendHandShakeMsg, CloseStages, TypeOK
<1>2. \A d \in Conns : Resending(d) = {} /\ Resending(d)' = {}
  BY <1>1 DEF Resending
<1>3. \/ /\ Room(c) /\ queue' = [queue EXCEPT ![c] = <<HS>> \o queue[c]]
         /\ dataFlag' = [dataFlag EXCEPT ![c] = TRUE]
      \/ UNCHANGED <<queue, dataFlag>>
  BY DEF SendHandShakeMsg, PutPre
<1>4. CASE UNCHANGED <<queue, dataFlag>>
  <2>1. \A d \in Conns : Held(d)' = Held(d) /\ Queued(d)' = Queued(d)
    BY <1>1, <1>2, <1>4 DEF Held, Queued
  <2>2. TypeOK'
    BY <1>1, <1>4 DEF TypeOK
  <2>3. Routed' /\ IdsHandedOut' /\ SentInOrder'
    BY <2>1, <1>1, <1>2, <1>4 DEF Routed, IdsHandedOut, SentInOrder
  <2>4. FinishedOnce' /\ NoneForgotten'
    BY <2>1, <1>1 DEF FinishedOnce, Finished, Accepted, NoneForgotten
  <2>5. CloseStages'
    BY <1>1, <1>4, NoConnIsNone DEF CloseStages, TypeOK
  <2>6. HandshakeAhead' /\ HandshakeFresh'
    BY <1>1, <1>2, <1>4 DEF HandshakeAhead, HandshakeFresh
  <2>7. OutputNoticed'
    BY <1>1, <1>4 DEF OutputNoticed, HasOutput, TypeOK
  <2>8. QED  BY <2>2, <2>3, <2>4, <2>5, <2>6, <2>7
<1>5. CASE /\ Room(c) /\ queue' = [queue EXCEPT ![c] = <<HS>> \o queue[c]]
           /\ dataFlag' = [dataFlag EXCEPT ![c] = TRUE]
  <2> DEFINE q == <<HS>> \o queue[c]
  <2>1. /\ q \in Seq(Msgs) /\ Len(q) = Len(queue[c]) + 1 /\ q[1] = HS
        /\ \A i \in 2 .. Len(queue[c]) + 1 : q[i] = queue[c][i - 1]
        /\ Range(q) = {HS} \cup Range(queue[c])
    <3>1. queue[c] \in Seq(Msgs) /\ HS \in Msgs
      BY <1>1 DEF TypeOK, Msgs
    <3>2. QED  BY <3>1, FrontElements
  <2>2. queue' = [queue EXCEPT ![c] = q]
    BY <1>5
  <2> HIDE DEF q
  <2>3. queue'[c] = q /\ \A d \in Conns : d # c => queue'[d] = queue[d]
    <3>1. queue \in [Conns -> Seq(Msgs)]
      BY DEF TypeOK
    <3>2. QED  BY <3>1, <2>2, <1>1
  <2>4. TypeOK'
    <3>1. queue' \in [Conns -> Seq(Msgs)]
      BY <2>2, <2>1, <1>1 DEF TypeOK
    <3>2. \A d \in Conns : Len(queue'[d]) <= SendCap
      <4>1. Len(queue[c]) \in Nat /\ Len(queue[c]) < SendCap
        BY <1>1, <1>5 DEF Room, TypeOK
      <4>2. \A d \in Conns : Len(queue[d]) <= SendCap
        BY DEF TypeOK
      <4>3. Len(q) <= SendCap
        BY <4>1, <2>1, ConstantsAssumption
      <4>4. QED  BY <4>2, <4>3, <2>3
    <3>3. QED  BY <3>1, <3>2, <1>1, <1>5 DEF TypeOK
  <2>5. \A d \in Conns : Queued(d)' = Queued(d)
    BY <2>1, <2>3 DEF Queued
  <2>6. \A d \in Conns : Held(d)' = Held(d)
    BY <2>5, <1>1, <1>2 DEF Held
  <2>7. Routed' /\ IdsHandedOut' /\ FinishedOnce' /\ NoneForgotten'
    BY <2>6, <1>1 DEF Routed, IdsHandedOut, FinishedOnce, Finished, Accepted, NoneForgotten
  <2>8. CloseStages'
    BY <1>1, NoConnIsNone DEF CloseStages, TypeOK
  <2>9. Len(queue[c]) \in Nat /\ DOMAIN q = 1 .. Len(queue[c]) + 1
        /\ DOMAIN queue[c] = 1 .. Len(queue[c])
    BY <2>1, <1>1 DEF TypeOK
  <2>10. ASSUME NEW i \in DOMAIN q, i # 1
         PROVE  i - 1 \in DOMAIN queue[c] /\ q[i] = queue[c][i - 1] /\ q[i] # HS
    BY <2>10, <2>9, <2>1, <1>1 DEF Range
  <2>11. HandshakeAhead'
    BY <2>3, <2>10, <1>1, <1>2 DEF HandshakeAhead
  <2>12. HandshakeFresh'
    BY <2>3, <1>1 DEF HandshakeFresh
  <2>13. OutputNoticed'
    <3>1. wantWrite'[c] /\ \A d \in Conns : d # c =>
            wantWrite'[d] = wantWrite[d] /\ dataFlag'[d] = dataFlag[d]
      BY <1>1, <1>5 DEF TypeOK
    <3>2. QED  BY <3>1, <2>3, <1>1 DEF OutputNoticed, HasOutput
  <2>14. SentInOrder'
    <3>1. ASSUME NEW i \in DOMAIN q, NEW j \in DOMAIN q, i < j, q[i] # HS
          PROVE  q[i] < q[j]
      <4>1. i # 1 /\ j # 1 /\ i - 1 < j - 1
        BY <3>1, <2>1, <2>9
      <4>2. QED  BY <4>1, <2>10, <1>1 DEF SentInOrder
    <3>2. ASSUME NEW d \in Conns
          PROVE  \A i, j \in DOMAIN queue'[d] :
                   i < j /\ queue'[d][i] # HS /\ queue'[d][j] # HS
                     => queue'[d][i] < queue'[d][j]
      <4>1. CASE d = c
        BY <4>1, <3>1, <2>3
      <4>2. CASE d # c
        BY <4>2, <2>3 DEF SentInOrder
      <4>3. QED  BY <4>1, <4>2
    <3>3. QED  BY <3>2, <2>5, <1>1, <1>2 DEF SentInOrder
  <2>15. QED  BY <2>4, <2>7, <2>8, <2>11, <2>12, <2>13, <2>14
<1>6. QED  BY <1>3, <1>4, <1>5

-----------------------------------------------------------------------------
(* The theorems.                                                           *)

LEMMA NextInv == IndInv /\ [Next]_vars => IndInv'
<1> SUFFICES ASSUME IndInv, [Next]_vars PROVE IndInv'
  OBVIOUS
<1>1. CASE UNCHANGED vars
  <2> USE <1>1 DEF vars, business, shared, perConn, close, messages, server, IndInv
  <2>1. TypeOK'
    BY DEF TypeOK
  <2>2. Routed' /\ IdsHandedOut' /\ SentInOrder'
    BY ContentsUnchanged
  <2>3. FinishedOnce' /\ NoneForgotten'
    BY HeldUnchanged DEF FinishedOnce, Finished, Accepted, NoneForgotten
  <2>4. CloseStages' /\ HandshakeFresh'
    BY DEF CloseStages, HandshakeFresh
  <2>5. HandshakeAhead' /\ OutputNoticed'
    BY HeldUnchanged DEF HandshakeAhead, OutputNoticed, HasOutput
  <2>6. QED  BY <2>1, <2>2, <2>3, <2>4, <2>5
<1>2. CASE InitReturns
  BY <1>2, InitReturnsInv
<1>3. CASE OnUpdate
  BY <1>3, OnUpdateInv
<1>4. CASE SignalCB
  BY <1>4, SignalCBInv
<1>5. CASE LoopCheck
  BY <1>5, LoopCheckInv
<1>6. CASE Tick
  BY <1>6, TickInv
<1>7. CASE ClockSetBack
  BY <1>7, ClockSetBackInv
<1>8. CASE ReconnectFails
  BY <1>8, ReconnectFailsInv
<1>9. CASE ReconnectOk
  BY <1>9, ReconnectOkInv
<1>10. CASE RequeueOne
  BY <1>10, RequeueOneInv
<1>11. CASE SendHandShakeMsg
  BY <1>11, SendHandShakeMsgInv
<1>0. CASE Crashed
  BY <1>0, <1>1 DEF Crashed
<1>12. ASSUME NEW c \in Conns,
              Send(c) \/ WriteIdle(c) \/ WriteWhole(c) \/ WritePart(c)
                \/ ReadResponse(c) \/ ReadClosed(c)
       PROVE  IndInv'
  BY <1>12, SendInv, WriteIdleInv, WriteWholeInv, WritePartInv, ReadResponseInv, ReadClosedInv
<1>13. QED
  BY <1>0, <1>1, <1>2, <1>3, <1>4, <1>5, <1>6, <1>7, <1>8, <1>9, <1>10, <1>11, <1>12 DEF Next

LEMMA SpecInv == Spec => []IndInv
BY InitInv, NextInv, PTL DEF Spec

\* Every variable keeps its type and no send queue outgrows its capacity.
THEOREM TypesHold == Spec => []TypeOK
<1>1. IndInv => TypeOK
  BY DEF IndInv
<1>2. QED  BY <1>1, SpecInv, PTL

\* No request is in two places of the client, however sends, answers,
\* timeouts and reconnections interleave.
THEOREM OnePlaceHolds == Spec => []OnePlace
<1>1. ASSUME IndInv PROVE OnePlace
  <2> USE <1>1 DEF IndInv
  <2>1. ASSUME NEW c \in Conns, NEW i \in DOMAIN queue[c], NEW j \in DOMAIN queue[c],
               queue[c][i] = queue[c][j], queue[c][i] # HS
        PROVE  i = j
    <3>1. i \in Int /\ j \in Int /\ queue[c][i] \in Nat
      BY DEF TypeOK, Msgs, Reqs, HS
    <3>2. ~ (i < j) /\ ~ (j < i)
      BY <3>1, <2>1 DEF SentInOrder
    <3>3. QED  BY <3>1, <3>2
  <2>2. ASSUME NEW c \in Conns
        PROVE  /\ Queued(c) \cap waiting[c] = {} /\ Queued(c) \cap Resending(c) = {}
               /\ Resending(c) \cap waiting[c] = {} /\ Held(c) \cap Finished = {}
    <3>1. \A r \in waiting[c] \cup Resending(c) : r \in Nat /\ ~ (r < r)
      BY DEF TypeOK, Resending, Reqs
    <3>2. Resending(c) \cap waiting[c] = {}
      BY DEF CloseStages, Resending
    <3>3. QED  BY <3>1, <3>2 DEF SentInOrder, FinishedOnce
  <2>3. ASSUME NEW c \in Conns, NEW d \in Conns, c # d  PROVE Held(c) \cap Held(d) = {}
    BY <2>3 DEF Routed
  <2>4. QED  BY <2>1, <2>2, <2>3 DEF OnePlace, FinishedOnce
<1>2. QED  BY <1>1, SpecInv, PTL

\* No accepted request is forgotten by the client.
THEOREM NoneForgottenHolds == Spec => []NoneForgotten
<1>1. IndInv => NoneForgotten
  BY DEF IndInv
<1>2. QED  BY <1>1, SpecInv, PTL

\* Requests are sent, and sent again after a reconnection, oldest first.
THEOREM SentInOrderHolds == Spec => []SentInOrder
<1>1. IndInv => SentInOrder
  BY DEF IndInv
<1>2. QED  BY <1>1, SpecInv, PTL

\* A queued handshake goes out before anything else on its connection.
THEOREM HandshakeAheadHolds == Spec => []HandshakeAhead
<1>1. IndInv => HandshakeAhead
  BY DEF IndInv
<1>2. QED  BY <1>1, SpecInv, PTL

\* A live connection never has output that nothing will make it write.
THEOREM OutputNoticedHolds == Spec => []OutputNoticed
<1>1. IndInv => OutputNoticed
  BY DEF IndInv
<1>2. QED  BY <1>1, SpecInv, PTL

-----------------------------------------------------------------------------
(* The refinement.                                                         *)

\* An accepted request that is not finished is held, and only such requests
\* are: the state of a request can be told from its outcome alone.
Outcome ==
  [r \in Reqs |-> IF r \in done THEN "returned"
                  ELSE IF r \in rsp THEN "completed"
                  ELSE IF r \in lost THEN "dropped"
                  ELSE IF r \in Accepted THEN "pending" ELSE "new"]

SameState == ServiceState = Outcome

LEMMA StateIsOutcome == IndInv => SameState
<1> SUFFICES ASSUME IndInv PROVE ServiceState = Outcome
  BY DEF SameState
<1>1. ASSUME NEW r \in Reqs, r \notin Finished
      PROVE  (\E c \in Conns : r \in Held(c)) <=> r \in Accepted
  BY <1>1, NoConnIsNone DEF IndInv, Routed, NoneForgotten, Accepted, TypeOK
<1>2. rsp \cap done = {}
  BY DEF IndInv, FinishedOnce
<1>3. QED  BY <1>1, <1>2 DEF ServiceState, Outcome, Finished

LEMMA StateIsOutcomeNext == IndInv' => SameState'
BY StateIsOutcome, PTL

LEMMA ServiceInit == Init => Service!Init
<1> SUFFICES ASSUME Init PROVE Service!Init
  OBVIOUS
<1>1. Accepted = {} /\ ServiceState = Outcome
  BY InitInv, StateIsOutcome DEF SameState, Init, Accepted
<1>2. Outcome = [r \in Reqs |-> "new"]
  BY <1>1 DEF Init, Outcome
<1>3. QED  BY <1>1, <1>2 DEF Service!Init

\* A step that completes waiting requests is a Complete of the service.
LEMMA CompletionIsComplete ==
  ASSUME IndInv, IndInv', CompletesWaiting, UNCHANGED <<route, done>>
  PROVE  Service!Complete(rsp' \ rsp, lost' \ lost)
<1> DEFINE S == rsp' \ rsp
           D == lost' \ lost
<1>0. ServiceState = Outcome /\ ServiceState' = Outcome'
  BY StateIsOutcome, StateIsOutcomeNext DEF SameState
<1> USE <1>0 DEF IndInv, CompletesWaiting
<1>1. \A r \in S \cup D : r \in Accepted /\ r \notin Finished
  <2>1. \A c \in Conns : \A r \in waiting[c] : r \in Reqs /\ r \in Held(c) /\ route[r] = c
    BY DEF TypeOK, Held, Routed
  <2>2. \A r \in S \cup D : r \in (rsp' \cup lost') \ (rsp \cup lost)
    <3>1. ASSUME NEW r \in S  PROVE r \notin lost
      OBVIOUS
    <3>2. ASSUME NEW r \in D  PROVE r \notin rsp
      OBVIOUS
    <3>3. QED  BY <3>1, <3>2
  <2>3. QED  BY <2>1, <2>2, NoConnIsNone DEF FinishedOnce, Accepted
<1>2. S \cap D = {} /\ S \subseteq Reqs /\ D \subseteq Reqs
  OBVIOUS
<1>3. \A r \in S \cup D : ServiceState[r] = "pending"
  BY <1>1, <1>2 DEF Outcome, Finished
<1>4. Accepted' = Accepted
  BY DEF Accepted
<1>5. ASSUME NEW r \in Reqs
      PROVE  ServiceState'[r] = IF r \in S THEN "completed"
                                ELSE IF r \in D THEN "dropped" ELSE ServiceState[r]
  <2>1. CASE r \in S
    BY <2>1, <1>1 DEF Outcome, Finished
  <2>2. CASE r \in D
    BY <2>2, <1>1 DEF Outcome, Finished
  <2>3. CASE r \notin S \cup D
    BY <2>3, <1>4 DEF Outcome
  <2>4. QED  BY <2>1, <2>2, <2>3
<1>6. ServiceState' = [r \in Reqs |-> IF r \in S THEN "completed"
                                      ELSE IF r \in D THEN "dropped" ELSE ServiceState[r]]
  BY <1>5 DEF Outcome
<1>7. QED  BY <1>2, <1>3, <1>6 DEF Service!Complete

LEMMA ReadResponseCompletes ==
  ASSUME IndInv, NEW c \in Conns, ReadResponse(c)
  PROVE  CompletesWaiting
<1> USE DEF IndInv
<1>1. PICK r \in inflight[c] :
        IF WireId(r) \in waiting[c]
          THEN /\ waiting' = [waiting EXCEPT ![c] = @ \ {WireId(r)}]
               /\ PutResponses({WireId(r)})
          ELSE UNCHANGED <<waiting, rsp, lost>>
  BY DEF ReadResponse
<1>2. rsp \cap lost = {} /\ rsp \subseteq Reqs /\ lost \subseteq Reqs
      /\ waiting \in [Conns -> SUBSET Reqs]
  BY DEF TypeOK, FinishedOnce
<1>3. CASE WireId(r) \in waiting[c]
  <2>1. PICK put \in SUBSET {WireId(r)} :
          rsp' = rsp \cup put /\ lost' = lost \cup ({WireId(r)} \ put)
    BY <1>1, <1>3 DEF PutResponses
  <2>2. WireId(r) \in Reqs /\ WireId(r) \notin rsp /\ WireId(r) \notin lost
    BY <1>3 DEF TypeOK, FinishedOnce, Finished, Held
  <2>3. QED  BY <1>1, <1>2, <1>3, <2>1, <2>2 DEF CompletesWaiting
<1>4. CASE WireId(r) \notin waiting[c]
  BY <1>1, <1>2, <1>4 DEF CompletesWaiting
<1>5. QED  BY <1>3, <1>4

LEMMA ServiceStep == IndInv /\ [Next]_vars => [Service!Next]_ServiceState
<1> SUFFICES ASSUME IndInv, [Next]_vars PROVE [Service!Next]_ServiceState
  OBVIOUS
<1>0. IndInv' /\ ServiceState = Outcome /\ ServiceState' = Outcome'
  BY NextInv, StateIsOutcome, StateIsOutcomeNext DEF SameState
<1> USE <1>0 DEF IndInv
<1>1. ASSUME UNCHANGED <<done, rsp, lost, route>>  PROVE UNCHANGED ServiceState
  BY <1>1 DEF Outcome, Accepted
<1>2. ASSUME CompletesWaiting, UNCHANGED <<route, done>>  PROVE Service!Next
  <2>1. rsp' \ rsp \in SUBSET Reqs /\ lost' \ lost \in SUBSET Reqs
    BY <1>2 DEF CompletesWaiting
  <2>2. QED  BY <1>2, <2>1, CompletionIsComplete DEF Service!Next
<1>3. CASE OnUpdate
  <2>1. PICK r \in rsp : rsp' = rsp \ {r} /\ done' = done \cup {r}
    BY <1>3 DEF OnUpdate
  <2>2. UNCHANGED <<lost, route>> /\ r \in Reqs /\ r \notin done /\ r \notin lost
    BY <1>3, <2>1 DEF OnUpdate, server, TypeOK, FinishedOnce
  <2>3. ServiceState[r] = "completed"
    BY <2>2 DEF Outcome
  <2>4. ServiceState' = [s \in Reqs |-> IF s \in {r} THEN "returned" ELSE ServiceState[s]]
    BY <2>1, <2>2 DEF Outcome, Accepted
  <2>5. Service!Return(r)
    BY <2>3, <2>4 DEF Service!Return, Service!Move
  <2>6. QED  BY <2>2, <2>5 DEF Service!Next
<1>4. CASE LoopCheck
  <2>1. CompletesWaiting /\ UNCHANGED <<route, done>>
    BY <1>4, NetLoopCheckCompletes DEF LoopCheck, business
  <2>2. QED  BY <2>1, <1>2
<1>5. CASE ReconnectFails
  <2>1. CASE tries + 1 < MaxTries
    BY <1>5, <2>1, <1>1 DEF ReconnectFails, business
  <2>2. CASE ~ (tries + 1 < MaxTries)
    <3>1. NetLoopCheck({closing}) /\ closing \in Conns /\ UNCHANGED <<route, done>>
      BY <1>5, <2>2 DEF ReconnectFails, business, CloseStages, TypeOK
    <3>2. QED  BY <3>1, <1>2, NetLoopCheckCompletes
  <2>3. QED  BY <2>1, <2>2
<1>6. CASE RequeueOne
  <2>1. PICK r \in resend : UNCHANGED lost \/ lost' = lost \cup {r}
    BY <1>6 DEF RequeueOne
  <2>2. UNCHANGED <<done, rsp, route>> /\ closing \in Conns
    BY <1>6 DEF RequeueOne, business, CloseStages, TypeOK
  <2>3. CASE UNCHANGED lost
    BY <2>2, <2>3, <1>1
  <2>4. CASE lost' = lost \cup {r}
    <3>1. r \in Held(closing) /\ r \in Reqs
      BY DEF Held, Resending, TypeOK
    <3>2. r \in Accepted /\ r \notin Finished
      BY <3>1, <2>2, NoConnIsNone DEF Routed, FinishedOnce, Accepted
    <3>3. ServiceState[r] = "pending"
      BY <3>1, <3>2 DEF Outcome, Finished
    <3>4. ServiceState' = [s \in Reqs |-> IF s \in {} THEN "completed"
                                          ELSE IF s \in {r} THEN "dropped" ELSE ServiceState[s]]
      BY <2>2, <2>4, <3>2 DEF Outcome, Accepted, Finished
    <3>5. Service!Complete({}, {r})
      BY <3>3, <3>4 DEF Service!Complete
    <3>6. QED  BY <3>1, <3>5 DEF Service!Next
  <2>5. QED  BY <2>1, <2>3, <2>4
<1>7. ASSUME NEW c \in Conns, Send(c)  PROVE [Service!Next]_ServiceState
  <2>1. UNCHANGED <<done, rsp, lost>>
    BY <1>7 DEF Send, server
  <2>2. CASE Room(c)
    <3>1. route' = [route EXCEPT ![seqIdx + 1] = c]
      BY <1>7, <2>2 DEF Send
    <3>2. seqIdx + 1 \in Reqs /\ route[seqIdx + 1] = NoConn
      BY <1>7, ConstantsAssumption DEF Send, IdsHandedOut, TypeOK, Reqs, HS
    <3> DEFINE r == seqIdx + 1
    <3> HIDE DEF r
    <3>3. r \in Reqs /\ route[r] = NoConn /\ route' = [route EXCEPT ![r] = c]
      BY <3>1, <3>2 DEF r
    <3>4. r \notin Accepted /\ Accepted' = Accepted \cup {r}
      BY <3>3, NoConnIsNone DEF Accepted, TypeOK
    <3>5. ServiceState[r] = "new"
      BY <3>3, <3>4 DEF Outcome, FinishedOnce, Finished
    <3>6. ServiceState' = [s \in Reqs |-> IF s \in {r} THEN "pending" ELSE ServiceState[s]]
      BY <3>3, <3>4, <2>1 DEF Outcome, FinishedOnce, Finished
    <3>7. Service!Accept(r)
      BY <3>5, <3>6 DEF Service!Accept, Service!Move
    <3>8. QED  BY <3>3, <3>7 DEF Service!Next
  <2>3. CASE ~ Room(c)
    BY <1>7, <2>1, <2>3, <1>1 DEF Send
  <2>4. QED  BY <2>2, <2>3
<1>8. ASSUME NEW c \in Conns, ReadResponse(c)  PROVE [Service!Next]_ServiceState
  <2>1. CompletesWaiting /\ UNCHANGED <<route, done>>
    BY <1>8, ReadResponseCompletes DEF ReadResponse, business
  <2>2. QED  BY <2>1, <1>2
<1>9. ASSUME InitReturns \/ SignalCB \/ Tick \/ ClockSetBack \/ ReconnectOk
               \/ SendHandShakeMsg
      PROVE  UNCHANGED <<done, rsp, lost, route>>
  BY <1>9 DEF InitReturns, SignalCB, Tick, ClockSetBack, ReconnectOk, SendHandShakeMsg,
     business, shared, server
<1>10. ASSUME NEW c \in Conns, WriteIdle(c) \/ WriteWhole(c) \/ WritePart(c) \/ ReadClosed(c)
       PROVE  UNCHANGED <<done, rsp, lost, route>>
  BY <1>10 DEF WriteIdle, WriteWhole, WritePart, ReadClosed, business, shared, server
<1>11. CASE UNCHANGED vars
  BY <1>11, <1>1 DEF vars, business, shared, server
<1>12. QED
  BY <1>1, <1>3, <1>4, <1>5, <1>6, <1>7, <1>8, <1>9, <1>10, <1>11 DEF Next, Crashed

\* The client keeps its promise to the coroutines: a request is completed
\* at most once and handed back at most once.
THEOREM ImplementsService == Spec => ServiceSpec
BY ServiceInit, ServiceStep, SpecInv, PTL DEF Spec, ServiceSpec, Service!Spec

-----------------------------------------------------------------------------
(* Answers.                                                                *)

LEMMA WireIdRange == \A r \in Nat : WireId(r) \in Nat /\ WireId(r) < WireIds
BY ConstantsAssumption DEF WireId

\* Steps other than reading a response leave the answers alone.
LEMMA AnswerUnchanged ==
  ASSUME [Next]_vars, ~ \E c \in Conns : ReadResponse(c)
  PROVE  UNCHANGED answer
BY DEF Next, Crashed, vars, InitReturns, OnUpdate, SignalCB, LoopCheck, Tick, ClockSetBack,
   ReconnectFails, ReconnectOk, RequeueOne, SendHandShakeMsg, Send, WriteIdle, WriteWhole,
   WritePart, ReadClosed, messages

\* The response that completes a request carries its id.
LEMMA AnswerStep ==
  ASSUME IndInv, NEW c \in Conns, ReadResponse(c)
  PROVE  \/ UNCHANGED answer
         \/ \E r \in inflight[c] : /\ r \in Nat /\ WireId(r) \in waiting[c]
                                  /\ answer' = [answer EXCEPT ![WireId(r)] = r]
                                  /\ WireId(r) \in Finished'
<1>1. \A r \in inflight[c] : r \in Nat
  <2>1. inflight[c] \subseteq Msgs
    BY DEF IndInv, TypeOK
  <2>2. Msgs \subseteq Nat
    BY ConstantsAssumption DEF Msgs, Reqs, HS
  <2>3. QED  BY <2>1, <2>2
<1>2. PICK r \in inflight[c] :
         \/ UNCHANGED answer
         \/ /\ WireId(r) \in waiting[c]
            /\ answer' = [answer EXCEPT ![WireId(r)] = r]
            /\ PutResponses({WireId(r)})
  BY DEF ReadResponse
<1>3. PutResponses({WireId(r)}) => WireId(r) \in rsp' \cup lost'
  BY DEF PutResponses
<1>4. QED  BY <1>1, <1>2, <1>3 DEF Finished

\* A request is completed by a response that carries its id, or by none, for
\* every width of the id in a header.
AnsweredById == \A r \in Reqs : answer[r] # NoMsg => answer[r] % WireIds = r

LEMMA AnsweredByIdHolds == Spec => []AnsweredById
<1>1. Init => AnsweredById
  BY DEF Init, AnsweredById
<1>2. IndInv /\ AnsweredById /\ [Next]_vars => AnsweredById'
  <2> SUFFICES ASSUME IndInv, AnsweredById, [Next]_vars PROVE AnsweredById'
    OBVIOUS
  <2>1. CASE UNCHANGED answer
    BY <2>1 DEF AnsweredById
  <2>2. ASSUME NEW r \in Nat, answer' = [answer EXCEPT ![WireId(r)] = r]
        PROVE  AnsweredById'
    <3>1. answer \in [Reqs -> Msgs \cup {NoMsg}]
      BY DEF IndInv, TypeOK
    <3>2. ASSUME NEW s \in Reqs, answer'[s] # NoMsg PROVE answer'[s] % WireIds = s
      BY <2>2, <3>1, <3>2 DEF AnsweredById, WireId
    <3>3. QED  BY <3>2 DEF AnsweredById
  <2>3. QED  BY <2>1, <2>2, AnswerStep, AnswerUnchanged
<1>3. QED  BY <1>1, <1>2, SpecInv, PTL DEF Spec

\* A request whose id does not fit into the header is never answered: from the
\* WireIds-th id on (the 2^24th in the code), requests only time out.
LateUnanswered == \A r \in Reqs : r >= WireIds => answer[r] = NoMsg

THEOREM LateUnansweredHolds == Spec => []LateUnanswered
<1>1. IndInv /\ AnsweredById => LateUnanswered
  <2> SUFFICES ASSUME IndInv, AnsweredById, NEW r \in Reqs, r >= WireIds, answer[r] # NoMsg
               PROVE  FALSE
    BY DEF LateUnanswered
  <2>1. answer[r] \in Nat /\ r \in Nat
    BY ConstantsAssumption DEF IndInv, TypeOK, Msgs, Reqs, HS
  <2>2. WireId(answer[r]) = r
    BY DEF AnsweredById, WireId
  <2>3. QED  BY <2>1, <2>2, WireIdRange, ConstantsAssumption
<1>2. QED  BY <1>1, SpecInv, AnsweredByIdHolds, PTL

\* No request is waited for, on a connection, for so long that the id of a later
\* one the server has there looks like its id in a header: fewer than WireIds
\* (2^24 in the code) were handed out since.
IdsClose == \A c \in Conns : \A r \in inflight[c], s \in waiting[c] : r - s < WireIds

LEMMA Quotient ==
  ASSUME NEW n \in Nat, NEW w \in Nat \ {0}, n - (n % w) < w
  PROVE  n % w = n
<1> DEFINE q == n \div w
<1>1. n = w * q + (n % w) /\ q \in Nat /\ n % w \in Nat
  OBVIOUS
<1>2. w * q < w
  BY <1>1
<1> HIDE DEF q
<1>3. q >= 1 => w * q >= w
  BY <1>1
<1>4. q = 0
  BY <1>1, <1>2, <1>3
<1>5. QED  BY <1>1, <1>4

\* A response finds a waiting request by its own id only.
LEMMA WireIdSame ==
  ASSUME IndInv, IdsClose, NEW c \in Conns, NEW r \in inflight[c], WireId(r) \in waiting[c]
  PROVE  WireId(r) = r
<1>1. r \in Nat
  <2>1. inflight[c] \subseteq Msgs /\ Msgs \subseteq Nat
    BY ConstantsAssumption DEF IndInv, TypeOK, Msgs, Reqs, HS
  <2>2. QED  BY <2>1
<1>2. r - (r % WireIds) < WireIds
  BY DEF IdsClose, WireId
<1>3. QED  BY <1>1, <1>2, Quotient, ConstantsAssumption DEF WireId

\* As long as the ids a connection has to tell apart lie closer than a header can
\* tell, a request is completed by the response to itself, never to another one.
OwnAnswer == \A r \in Reqs : answer[r] \in {NoMsg, r}

THEOREM OwnAnswerHolds == Spec /\ []IdsClose => []OwnAnswer
<1>1. Init => OwnAnswer
  BY DEF Init, OwnAnswer
<1>2. IndInv /\ IdsClose /\ OwnAnswer /\ [Next]_vars => OwnAnswer'
  <2> SUFFICES ASSUME IndInv, IdsClose, OwnAnswer, [Next]_vars PROVE OwnAnswer'
    OBVIOUS
  <2>1. CASE UNCHANGED answer
    BY <2>1 DEF OwnAnswer
  <2>2. ASSUME NEW c \in Conns, ReadResponse(c)  PROVE OwnAnswer'
    <3>1. CASE UNCHANGED answer
      BY <2>1, <3>1
    <3>2. ASSUME NEW r \in inflight[c], WireId(r) \in waiting[c],
                 answer' = [answer EXCEPT ![WireId(r)] = r]
          PROVE  OwnAnswer'
      <4>1. answer' = [answer EXCEPT ![r] = r]
        BY <3>2, WireIdSame
      <4>2. answer \in [Reqs -> Msgs \cup {NoMsg}]
        BY DEF IndInv, TypeOK
      <4>3. QED  BY <4>1, <4>2 DEF OwnAnswer
    <3>3. QED  BY <2>2, <3>1, <3>2, AnswerStep
  <2>3. QED  BY <2>1, <2>2, AnswerUnchanged
<1>3. QED  BY <1>1, <1>2, SpecInv, PTL DEF Spec

-----------------------------------------------------------------------------
(* What the server has.                                                    *)

\* What the server has not answered, and the message that is half sent, are
\* waited for or finished, and they are not the same.
SentKnown ==
  \A c \in Conns : /\ inflight[c] \ {HS} \subseteq waiting[c] \cup Finished
                   /\ sending[c] \in {NoMsg, HS} \cup waiting[c] \cup Finished
                   /\ sending[c] \notin inflight[c]

LEMMA CompletionKeepsSentKnown ==
  ASSUME IndInv, SentKnown, CompletesWaiting, UNCHANGED done,
         NEW c \in Conns,
         inflight'[c] \subseteq inflight[c],
         sending'[c] = sending[c] \/ sending'[c] = NoMsg
  PROVE  /\ inflight'[c] \ {HS} \subseteq waiting'[c] \cup Finished'
         /\ sending'[c] \in {NoMsg, HS} \cup waiting'[c] \cup Finished'
         /\ sending'[c] \notin inflight'[c]
<1>1. waiting[c] \cup Finished \subseteq waiting'[c] \cup Finished'
  BY DEF CompletesWaiting, Finished
<1>2. NoMsg \notin inflight[c]
  <2>1. inflight[c] \subseteq Msgs
    BY DEF IndInv, TypeOK
  <2>2. NoMsg \notin Msgs
    BY DEF Msgs, Reqs, HS, NoMsg
  <2>3. QED  BY <2>1, <2>2
<1>3. QED  BY <1>1, <1>2 DEF SentKnown

LEMMA SentKnownWrite ==
  ASSUME IndInv, SentKnown, NEW c \in Conns, HasOutput(c), TakeNext(c),
         phase = "loop", UNCHANGED <<rsp, done, lost>>,
         \/ /\ sending' = [sending EXCEPT ![c] = NoMsg]
            /\ \/ inflight' = [inflight EXCEPT ![c] = @ \cup {Current(c)}]
               \/ UNCHANGED inflight
         \/ sending' = [sending EXCEPT ![c] = Current(c)] /\ UNCHANGED inflight
  PROVE  SentKnown'
<1> USE DEF IndInv
<1>1. Finished' = Finished
  BY DEF Finished
<1>2. /\ sending \in [Conns -> Msgs \cup {NoMsg}] /\ inflight \in [Conns -> SUBSET Msgs]
      /\ waiting \in [Conns -> SUBSET Reqs] /\ NoMsg \notin Msgs
      /\ Current(c) # NoMsg => NoMsg # Current(c)
  BY DEF TypeOK, Msgs, Reqs, HS, NoMsg
<1>3. /\ Current(c) \in {HS} \cup waiting'[c] \cup Finished
      /\ Current(c) \notin inflight[c]
      /\ waiting[c] \subseteq waiting'[c]
      /\ \A d \in Conns : d # c => waiting'[d] = waiting[d]
  <2>1. CASE sending[c] # NoMsg
    BY <2>1 DEF TakeNext, Current, SentKnown
  <2>2. CASE sending[c] = NoMsg
    <3>1. /\ queue[c] # <<>> /\ Current(c) = Head(queue[c])
          /\ \/ Head(queue[c]) = HS /\ UNCHANGED waiting
             \/ waiting' = [waiting EXCEPT ![c] = @ \cup {Head(queue[c])}]
      BY <2>2 DEF TakeNext, HasOutput, Current
    <3>2. Current(c) \in Range(queue[c])
      <4>1. queue[c] \in Seq(Msgs)
        BY DEF TypeOK
      <4>2. QED  BY <3>1, <4>1, TailElements
    <3>3. CASE Current(c) = HS
      BY <3>1, <3>2, <3>3, <1>2 DEF HandshakeFresh
    <3>4. CASE Current(c) # HS
      <4>1. Current(c) \in Queued(c) /\ Current(c) \in Held(c)
        BY <3>2, <3>4 DEF Queued, Held
      <4>2. Current(c) \in Reqs /\ Current(c) \notin Finished
        BY <4>1 DEF FinishedOnce, TypeOK, Held, Resending, Routed, Queued, Range, Msgs
      <4>3. Current(c) \notin waiting[c]
        <5>1. ~ (Current(c) < Current(c))
          BY <4>2 DEF Reqs
        <5>2. QED  BY <4>1, <5>1 DEF SentInOrder
      <4>4. QED  BY <3>1, <3>4, <4>2, <4>3, <1>2 DEF SentKnown
    <3>5. QED  BY <3>3, <3>4
  <2>3. QED  BY <2>1, <2>2
<1>4. ASSUME NEW d \in Conns
      PROVE  /\ inflight'[d] \ {HS} \subseteq waiting'[d] \cup Finished'
             /\ sending'[d] \in {NoMsg, HS} \cup waiting'[d] \cup Finished'
             /\ sending'[d] \notin inflight'[d]
  <2>1. CASE d = c
    <3>1. /\ sending'[c] \in {NoMsg, Current(c)}
          /\ inflight'[c] \subseteq inflight[c] \cup {Current(c)}
          /\ sending'[c] = Current(c) /\ Current(c) # NoMsg => inflight'[c] = inflight[c]
          /\ inflight'[c] \subseteq Msgs \cup {Current(c)}
      BY <1>2
    <3>2. Current(c) # NoMsg
      <4>1. CASE sending[c] # NoMsg
        BY <4>1 DEF Current
      <4>2. CASE sending[c] = NoMsg
        <5>1. queue[c] \in Seq(Msgs) /\ queue[c] # <<>> /\ Current(c) = Head(queue[c])
          BY <4>2 DEF TypeOK, HasOutput, Current
        <5>2. QED  BY <5>1, <1>2, TailElements
      <4>3. QED  BY <4>1, <4>2
    <3>3. inflight[c] \ {HS} \subseteq waiting'[c] \cup Finished'
      BY <1>1, <1>3 DEF SentKnown
    <3>4. QED  BY <2>1, <3>1, <3>2, <3>3, <1>1, <1>2, <1>3
  <2>2. CASE d # c
    <3>1. sending'[d] = sending[d] /\ inflight'[d] = inflight[d] /\ waiting'[d] = waiting[d]
      BY <2>2, <1>2, <1>3
    <3>2. QED  BY <3>1, <1>1 DEF SentKnown
  <2>3. QED  BY <2>1, <2>2
<1>5. QED  BY <1>4 DEF SentKnown

LEMMA SentKnownNext == IndInv /\ SentKnown /\ [Next]_vars => SentKnown'
<1> SUFFICES ASSUME IndInv, SentKnown, [Next]_vars PROVE SentKnown'
  OBVIOUS
<1>1. CASE /\ UNCHANGED <<waiting, inflight, sending>>
           /\ Finished \subseteq Finished'
  BY <1>1 DEF SentKnown
<1>2. CASE UNCHANGED vars \/ InitReturns \/ SignalCB \/ Tick \/ ClockSetBack
             \/ SendHandShakeMsg
  BY <1>1, <1>2 DEF vars, business, shared, perConn, close, messages, server, InitReturns,
     SignalCB, Tick, ClockSetBack, SendHandShakeMsg, Finished
<1>3. CASE OnUpdate
  BY <1>1, <1>3 DEF OnUpdate, perConn, server, Finished
<1>4. CASE RequeueOne
  BY <1>1, <1>4 DEF RequeueOne, business, perConn, Finished
<1>5. ASSUME NEW c \in Conns, Send(c) \/ WriteIdle(c)  PROVE SentKnown'
  BY <1>1, <1>5 DEF Send, WriteIdle, business, shared, perConn, server, Finished
<1>6. CASE LoopCheck
  <2>1. CompletesWaiting /\ UNCHANGED <<done, sending, inflight>>
    BY <1>6, NetLoopCheckCompletes DEF LoopCheck, business
  <2>2. QED  BY <2>1, CompletionKeepsSentKnown DEF SentKnown
<1>7. ASSUME NEW c \in Conns, ReadResponse(c)  PROVE SentKnown'
  <2>1. CompletesWaiting
    BY <1>7, ReadResponseCompletes
  <2>2. /\ UNCHANGED <<done, sending>>
        /\ \A d \in Conns : inflight'[d] \subseteq inflight[d]
    BY <1>7 DEF ReadResponse, business, IndInv, TypeOK
  <2>3. QED  BY <2>1, <2>2, CompletionKeepsSentKnown DEF SentKnown
<1>8. CASE ReconnectFails
  <2>1. /\ closing \in Conns /\ inflight[closing] = {}
        /\ sending' = [sending EXCEPT ![closing] = NoMsg]
        /\ UNCHANGED <<done, inflight>>
    BY <1>8 DEF ReconnectFails, IndInv, CloseStages, TypeOK, business
  <2>2. CompletesWaiting
    <3>1. CASE tries + 1 < MaxTries
      BY <1>8, <3>1 DEF ReconnectFails, CompletesWaiting, IndInv, TypeOK, FinishedOnce
    <3>2. CASE ~ (tries + 1 < MaxTries)
      <4>1. NetLoopCheck({closing})
        BY <1>8, <3>2 DEF ReconnectFails
      <4>2. QED  BY <4>1, <2>1, NetLoopCheckCompletes
    <3>3. QED  BY <3>1, <3>2
  <2>3. \A d \in Conns : sending'[d] = sending[d] \/ sending'[d] = NoMsg
    BY <2>1 DEF IndInv, TypeOK
  <2>4. QED  BY <2>1, <2>2, <2>3, CompletionKeepsSentKnown DEF SentKnown
<1>9. CASE ReconnectOk
  <2>1. /\ closing \in Conns /\ inflight[closing] = {}
        /\ sending' = [sending EXCEPT ![closing] = NoMsg]
        /\ UNCHANGED <<done, rsp, lost, inflight>>
        /\ \/ UNCHANGED waiting
           \/ waiting' = [waiting EXCEPT ![closing] = {}]
    BY <1>9 DEF ReconnectOk, CollectWaiting, IndInv, CloseStages, TypeOK, business, shared
  <2>2. /\ sending'[closing] = NoMsg
        /\ \A d \in Conns : d # closing => sending'[d] = sending[d] /\ waiting'[d] = waiting[d]
    BY <2>1 DEF IndInv, TypeOK
  <2>3. Finished' = Finished
    BY <2>1 DEF Finished
  <2>4. QED  BY <2>1, <2>2, <2>3 DEF SentKnown
<1>10. ASSUME NEW c \in Conns, ReadClosed(c)  PROVE SentKnown'
  <2>1. /\ UNCHANGED <<done, rsp, lost, sending, waiting>>
        /\ inflight' = [inflight EXCEPT ![c] = {}]
    BY <1>10 DEF ReadClosed, business, shared
  <2>2. \A d \in Conns : inflight'[d] \subseteq inflight[d]
    BY <2>1 DEF IndInv, TypeOK
  <2>3. QED  BY <2>1, <2>2 DEF SentKnown, Finished
<1>11. ASSUME NEW c \in Conns, WriteWhole(c)  PROVE SentKnown'
  BY <1>11, SentKnownWrite DEF WriteWhole, SentWhole, InLoop, business
<1>12. ASSUME NEW c \in Conns, WritePart(c)  PROVE SentKnown'
  BY <1>12, SentKnownWrite DEF WritePart, InLoop, business
<1>13. QED
  BY <1>2, <1>3, <1>4, <1>5, <1>6, <1>7, <1>8, <1>9, <1>10, <1>11, <1>12 DEF Next, Crashed

\* What the server has received and not answered is not sent to it again on
\* the same connection.
THEOREM NotSentTwiceHolds == Spec => []NotSentTwice
<1>1. Init => SentKnown
  BY DEF Init, SentKnown, NoMsg
<1>2. ASSUME IndInv, SentKnown  PROVE NotSentTwice
  <2>1. ASSUME NEW c \in Conns
        PROVE  inflight[c] \cap (Range(queue[c]) \cup Resending(c)) = {}
    <3>1. HS \in inflight[c] => HS \notin Range(queue[c]) /\ HS \notin Resending(c)
      BY <1>2 DEF IndInv, HandshakeFresh, Resending, TypeOK, HS, Reqs
    <3>2. (waiting[c] \cup Finished) \cap (Queued(c) \cup Resending(c)) = {}
      <4>1. \A r \in waiting[c] : r \in Nat /\ ~ (r < r)
        BY <1>2 DEF IndInv, TypeOK, Reqs
      <4>2. Resending(c) \cap waiting[c] = {}
        BY <1>2 DEF IndInv, CloseStages, Resending
      <4>3. QED  BY <1>2, <4>1, <4>2 DEF IndInv, SentInOrder, FinishedOnce, Held
    <3>3. QED  BY <1>2, <3>1, <3>2 DEF SentKnown, Queued
  <2>2. QED  BY <1>2, <2>1 DEF NotSentTwice, SentKnown
<1>3. QED  BY <1>1, <1>2, SpecInv, SentKnownNext, PTL DEF Spec

-----------------------------------------------------------------------------
(* The order in which the server receives requests.                        *)

\* What the server has, and then what is half sent, is older than all that is
\* still queued, also when it has timed out since.
SentAhead ==
  \A c \in Conns :
    /\ \A r \in inflight[c] \ {HS} : \A q \in Queued(c) : r < q
    /\ sending[c] \in Reqs => /\ \A r \in inflight[c] \ {HS} : r < sending[c]
                              /\ \A q \in Queued(c) : sending[c] < q

\* Nothing is sent on a connection, nor becomes half sent.
LEMMA SentAheadKept ==
  ASSUME SentAhead, \A c \in Conns : /\ inflight'[c] \subseteq inflight[c]
                                     /\ sending'[c] \in {sending[c], NoMsg}
                                     /\ Queued(c)' \subseteq Queued(c)
  PROVE  SentAhead'
BY DEF SentAhead, Reqs, NoMsg

\* Ids the connection has sent, and not had answered, were handed out.
LEMMA SentIds ==
  ASSUME IndInv, SentKnown, NEW c \in Conns, NEW r \in Reqs, r \in inflight[c] \cup {sending[c]}
  PROVE  r <= seqIdx
<1>1. r \in waiting[c] \cup Finished
  BY DEF SentKnown, Reqs, HS, NoMsg
<1>2. route[r] # NoConn
  BY <1>1, NoConnIsNone DEF IndInv, Routed, Held, FinishedOnce, Accepted
<1>3. QED  BY <1>2 DEF IndInv, IdsHandedOut

\* A new request is younger than everything.
LEMMA SendAhead ==
  ASSUME IndInv, SentKnown, SentAhead, NEW c \in Conns, Send(c)
  PROVE  SentAhead'
<1>1. UNCHANGED <<inflight, sending>>
  BY DEF Send, perConn, server
<1>2. ASSUME NEW d \in Conns, NEW q \in Queued(d)', q \notin Queued(d)  PROVE q = seqIdx + 1
  <2>1. Room(c) /\ queue' = [queue EXCEPT ![c] = Append(@, seqIdx + 1)]
    BY <1>2 DEF Send, Queued
  <2>2. queue \in [Conns -> Seq(Msgs)] /\ seqIdx + 1 \in Msgs
    BY ConstantsAssumption DEF Send, IndInv, TypeOK, Msgs, Reqs, HS
  <2>3. d = c /\ q \in Range(Append(queue[c], seqIdx + 1))
    BY <1>2, <2>1, <2>2 DEF Queued
  <2>4. QED  BY <1>2, <2>2, <2>3, AppendElements DEF Queued
<1>3. seqIdx \in Nat
  BY ConstantsAssumption DEF IndInv, TypeOK, HS
<1>4. \A d \in Conns : \A r \in inflight[d] \ {HS} : r \in Reqs
  BY DEF IndInv, TypeOK, Msgs
<1>5. \A r \in Reqs : r \in Nat
  BY DEF Reqs
<1>6. \A d \in Conns : \A r \in Reqs : r \in inflight[d] \cup {sending[d]} => r < seqIdx + 1
  BY <1>3, <1>5, SentIds
<1>7. QED  BY <1>1, <1>2, <1>4, <1>6 DEF SentAhead

\* The message a connection writes goes ahead of what is left in its queue.
LEMMA CurrentAhead ==
  ASSUME IndInv, SentAhead, NEW c \in Conns, HasOutput(c), TakeNext(c)
  PROVE  /\ Queued(c)' \subseteq Queued(c)
         /\ \A d \in Conns : d # c => Queued(d)' = Queued(d)
         /\ Current(c) # HS => /\ \A q \in Queued(c)' : Current(c) < q
                               /\ \A r \in inflight[c] \ {HS} : r < Current(c)
<1>1. queue \in [Conns -> Seq(Msgs)] /\ sending \in [Conns -> Msgs \cup {NoMsg}]
  BY DEF IndInv, TypeOK
<1>2. CASE sending[c] # NoMsg
  <2>1. queue' = queue /\ Current(c) = sending[c]
    BY <1>2 DEF TakeNext, Current
  <2>2. Current(c) # HS => sending[c] \in Reqs
    BY <1>1, <1>2, <2>1 DEF Msgs
  <2>3. QED  BY <2>1, <2>2 DEF SentAhead, Queued
<1>3. CASE sending[c] = NoMsg
  <2>1. queue' = [queue EXCEPT ![c] = Tail(@)] /\ Current(c) = Head(queue[c]) /\ queue[c] # <<>>
    BY <1>3 DEF TakeNext, Current, HasOutput
  <2>2. /\ queue'[c] = Tail(queue[c]) /\ \A d \in Conns : d # c => queue'[d] = queue[d]
        /\ queue[c] \in Seq(Msgs)
    BY <1>1, <2>1
  <2>3. Range(queue[c]) = {Current(c)} \cup Range(Tail(queue[c]))
    BY <2>1, <2>2, TailElements
  <2>4. ASSUME Current(c) # HS, NEW q \in Queued(c)'  PROVE Current(c) < q
    <3>1. q \in Range(Tail(queue[c])) /\ q # HS /\ Tail(queue[c]) \in Seq(Msgs)
      BY <2>1, <2>2, <2>4, TailElements DEF Queued
    <3>2. PICK i \in 1 .. Len(Tail(queue[c])) : q = Tail(queue[c])[i]
      BY <3>1 DEF Range
    <3>3. /\ i + 1 \in 1 .. Len(queue[c]) /\ 1 \in 1 .. Len(queue[c]) /\ 1 < i + 1
          /\ queue[c][i + 1] = q /\ queue[c][1] = Current(c)
      BY <2>1, <2>2, <3>2, TailElements
    <3>4. QED  BY <2>2, <2>4, <3>1, <3>3 DEF IndInv, SentInOrder
  <2>5. Current(c) # HS => Current(c) \in Queued(c)
    BY <2>3 DEF Queued
  <2>6. QED  BY <2>2, <2>3, <2>4, <2>5 DEF SentAhead, Queued
<1>4. QED  BY <1>2, <1>3

LEMMA WriteAhead ==
  ASSUME IndInv, SentAhead, NEW c \in Conns, HasOutput(c), TakeNext(c),
         \/ /\ sending' = [sending EXCEPT ![c] = NoMsg]
            /\ \/ inflight' = [inflight EXCEPT ![c] = @ \cup {Current(c)}]
               \/ UNCHANGED inflight
         \/ sending' = [sending EXCEPT ![c] = Current(c)] /\ UNCHANGED inflight
  PROVE  SentAhead'
<1>1. sending \in [Conns -> Msgs \cup {NoMsg}] /\ inflight \in [Conns -> SUBSET Msgs]
  BY DEF IndInv, TypeOK
<1>2. NoMsg \notin Reqs /\ HS \notin Reqs
  BY DEF Reqs, HS, NoMsg
<1>3. SUFFICES ASSUME NEW d \in Conns
               PROVE  /\ \A r \in inflight'[d] \ {HS} : \A q \in Queued(d)' : r < q
                      /\ sending'[d] \in Reqs => /\ \A r \in inflight'[d] \ {HS} : r < sending'[d]
                                                 /\ \A q \in Queued(d)' : sending'[d] < q
  BY DEF SentAhead
<1>4. CASE d # c
  <2>1. sending'[d] = sending[d] /\ inflight'[d] = inflight[d] /\ Queued(d)' = Queued(d)
    BY <1>1, <1>4, CurrentAhead
  <2>2. QED  BY <2>1 DEF SentAhead
<1>5. CASE d = c
  <2>1. /\ \A r \in inflight[c] \ {HS} : \A q \in Queued(c)' : r < q
        /\ Current(c) # HS => /\ \A q \in Queued(c)' : Current(c) < q
                              /\ \A r \in inflight[c] \ {HS} : r < Current(c)
    BY CurrentAhead DEF SentAhead
  <2>2. \/ /\ sending'[c] = NoMsg
           /\ inflight'[c] \subseteq inflight[c] \cup {Current(c)}
        \/ sending'[c] = Current(c) /\ inflight'[c] = inflight[c]
    BY <1>1
  <2>3. QED  BY <1>2, <1>5, <2>1, <2>2
<1>6. QED  BY <1>4, <1>5

\* Nothing is sent or received on the connection that Close puts requests back to.
LEMMA CloseAhead ==
  ASSUME IndInv, SentAhead, RequeueOne \/ SendHandShakeMsg
  PROVE  SentAhead'
<1>1. /\ closing \in Conns /\ inflight[closing] = {} /\ sending[closing] = NoMsg
      /\ UNCHANGED <<inflight, sending>> /\ NoMsg \notin Reqs
  BY DEF RequeueOne, SendHandShakeMsg, perConn, server, IndInv, CloseStages, TypeOK, NoMsg, Reqs
<1>2. \A c \in Conns : c # closing => queue'[c] = queue[c]
  BY DEF RequeueOne, SendHandShakeMsg, PutPre, IndInv, TypeOK
<1>3. QED  BY <1>1, <1>2 DEF SentAhead, Queued

LEMMA SentAheadNext == IndInv /\ SentKnown /\ SentAhead /\ [Next]_vars => SentAhead'
<1> SUFFICES ASSUME IndInv, SentKnown, SentAhead, [Next]_vars PROVE SentAhead'
  OBVIOUS
<1>1. CASE UNCHANGED <<queue, sending, inflight>>
  BY <1>1, SentAheadKept DEF Queued
<1>2. CASE \/ InitReturns \/ OnUpdate \/ SignalCB \/ LoopCheck \/ Tick \/ ClockSetBack
           \/ UNCHANGED vars \/ \E c \in Conns : WriteIdle(c)
  BY <1>1, <1>2 DEF InitReturns, OnUpdate, SignalCB, LoopCheck, Tick, ClockSetBack, WriteIdle,
     vars, shared, perConn, server
<1>3. CASE ReconnectFails \/ ReconnectOk
  <2>1. /\ UNCHANGED <<queue, inflight>>
        /\ sending' = [sending EXCEPT ![closing] = NoMsg]
    BY <1>3 DEF ReconnectFails, ReconnectOk, shared
  <2>2. \A c \in Conns : sending'[c] \in {sending[c], NoMsg}
    BY <2>1 DEF IndInv, TypeOK
  <2>3. QED  BY <2>1, <2>2, SentAheadKept DEF Queued
<1>4. ASSUME NEW c \in Conns, ReadResponse(c) \/ ReadClosed(c)  PROVE SentAhead'
  <2>1. /\ UNCHANGED <<queue, sending>>
        /\ \E S : inflight' = [inflight EXCEPT ![c] = @ \ S]
    <3>1. CASE ReadResponse(c)
      BY <3>1 DEF ReadResponse
    <3>2. CASE ReadClosed(c)
      <4>1. inflight' = [inflight EXCEPT ![c] = @ \ inflight[c]] /\ UNCHANGED <<queue, sending>>
        BY <3>2 DEF ReadClosed, shared
      <4>2. QED  BY <4>1
    <3>3. QED  BY <1>4, <3>1, <3>2
  <2>2. \A d \in Conns : inflight'[d] \subseteq inflight[d]
    BY <2>1 DEF IndInv, TypeOK
  <2>3. QED  BY <2>1, <2>2, SentAheadKept DEF Queued
<1>5. ASSUME NEW c \in Conns, WriteWhole(c) \/ WritePart(c)  PROVE SentAhead'
  BY <1>5, WriteAhead DEF WriteWhole, WritePart, SentWhole
<1>6. QED  BY <1>2, <1>3, <1>4, <1>5, SendAhead, CloseAhead DEF Next, Crashed

LEMMA SpecSent == Spec => [](IndInv /\ SentKnown /\ SentAhead)
<1>1. Init => SentKnown /\ SentAhead
  BY DEF Init, SentKnown, SentAhead, NoMsg, Reqs
<1>2. QED  BY <1>1, SpecInv, SentKnownNext, SentAheadNext, PTL DEF Spec

\* On a connection the server receives requests oldest first, those that are sent
\* again among them: none overtakes an earlier one of its connection.
THEOREM ReceivedInOrderHolds == Spec => ReceivedInOrder
<1>1. IndInv /\ SentAhead /\ [Next]_vars => ArrivesLast
  <2> SUFFICES ASSUME IndInv, SentAhead, [Next]_vars, NEW c \in Conns, NEW r \in inflight[c] \ {HS},
                      NEW s \in inflight'[c] \ (inflight[c] \cup {HS})
               PROVE  r < s
    BY DEF ArrivesLast
  <2>1. inflight \in [Conns -> SUBSET Msgs]
    BY DEF IndInv, TypeOK
  <2>2. PICK d \in Conns : WriteWhole(d)
    BY <2>1 DEF Next, Crashed, vars, InitReturns, OnUpdate, SignalCB, LoopCheck, Tick, ClockSetBack,
       ReconnectFails, ReconnectOk, RequeueOne, SendHandShakeMsg, Send, WriteIdle, WritePart,
       ReadResponse, ReadClosed, server
  <2>3. d = c /\ s = Current(c)
    BY <2>1, <2>2 DEF WriteWhole
  <2>4. QED  BY <2>2, <2>3, CurrentAhead DEF WriteWhole
<1>2. QED  BY <1>1, SpecSent, PTL DEF Spec, ReceivedInOrder

-----------------------------------------------------------------------------
(* What a half-sent message meets.                                         *)

\* Only what is finished has been answered.
AnsweredFinished == \A r \in Reqs : answer[r] # NoMsg => r \in Finished

LEMMA FinishedGrows == IndInv /\ [Next]_vars => Finished \subseteq Finished'
<1> SUFFICES ASSUME IndInv, [Next]_vars PROVE Finished \subseteq Finished'
  OBVIOUS
<1>1. CASE LoopCheck
  BY <1>1, NetLoopCheckCompletes DEF LoopCheck, CompletesWaiting, Finished, business
<1>2. ASSUME NEW c \in Conns, ReadResponse(c)  PROVE Finished \subseteq Finished'
  BY <1>2, ReadResponseCompletes DEF ReadResponse, CompletesWaiting, Finished, business
<1>3. CASE ReconnectFails
  <2>1. \/ UNCHANGED <<rsp, lost, done>>
        \/ NetLoopCheck({closing}) /\ UNCHANGED done
    BY <1>3 DEF ReconnectFails, business
  <2>2. closing \in Conns
    BY <1>3 DEF ReconnectFails, IndInv, CloseStages, TypeOK
  <2>3. QED  BY <2>1, <2>2, NetLoopCheckCompletes DEF CompletesWaiting, Finished
<1>4. QED
  BY <1>1, <1>2, <1>3 DEF Next, Crashed, vars, InitReturns, OnUpdate, SignalCB, Tick, ClockSetBack,
     ReconnectOk, RequeueOne, SendHandShakeMsg, Send, WriteIdle, WriteWhole, WritePart,
     ReadClosed, business, shared, server, Finished

LEMMA AnsweredFinishedNext ==
  IndInv /\ AnsweredFinished /\ [Next]_vars => AnsweredFinished'
<1> SUFFICES ASSUME IndInv, AnsweredFinished, [Next]_vars PROVE AnsweredFinished'
  OBVIOUS
<1>1. CASE UNCHANGED answer
  BY <1>1, FinishedGrows DEF AnsweredFinished
<1>2. ASSUME NEW r \in Nat, answer' = [answer EXCEPT ![WireId(r)] = r], WireId(r) \in Finished'
      PROVE  AnsweredFinished'
  <2>1. answer \in [Reqs -> Msgs \cup {NoMsg}]
    BY DEF IndInv, TypeOK
  <2>2. QED  BY <1>2, <2>1, FinishedGrows DEF AnsweredFinished
<1>3. QED  BY <1>1, <1>2, AnswerStep, AnswerUnchanged

\* A message is not half sent unless it was before, or it was queued.
LEMMA SendingFrom ==
  ASSUME IndInv, [Next]_vars, NEW c \in Conns, sending'[c] \in Reqs
  PROVE  \/ sending'[c] = sending[c]
         \/ UNCHANGED answer /\ sending'[c] \in Queued(c)
<1> USE DEF IndInv
<1>1. CASE UNCHANGED sending
  BY <1>1
<1>2. ASSUME NEW d \in Conns, sending' = [sending EXCEPT ![d] = NoMsg]  PROVE sending'[c] = sending[c]
  BY <1>2 DEF TypeOK, Reqs, NoMsg
<1>3. ASSUME NEW d \in Conns, WritePart(d)
      PROVE  \/ sending'[c] = sending[c]
             \/ UNCHANGED answer /\ sending'[c] \in Queued(c)
  <2>1. sending' = [sending EXCEPT ![d] = Current(d)] /\ HasOutput(d) /\ UNCHANGED answer
    BY <1>3 DEF WritePart, messages
  <2>2. CASE d # c \/ sending[d] # NoMsg
    BY <2>1, <2>2 DEF TypeOK, Current
  <2>3. CASE d = c /\ sending[d] = NoMsg
    <3>1. queue[c] \in Seq(Msgs) /\ queue[c] # <<>> /\ sending'[c] = Head(queue[c])
      BY <2>1, <2>3 DEF TypeOK, HasOutput, Current
    <3>2. sending'[c] \in Range(queue[c]) /\ sending'[c] # HS
      BY <3>1, TailElements DEF Reqs, HS
    <3>3. QED  BY <2>1, <3>2 DEF Queued
  <2>4. QED  BY <2>2, <2>3
<1>4. CASE ReconnectFails \/ ReconnectOk
  <2>1. closing \in Conns /\ sending' = [sending EXCEPT ![closing] = NoMsg]
    BY <1>4 DEF ReconnectFails, ReconnectOk, CloseStages, TypeOK
  <2>2. QED  BY <2>1, <1>2
<1>5. ASSUME NEW d \in Conns, WriteWhole(d)  PROVE sending'[c] = sending[c]
  BY <1>5, <1>2 DEF WriteWhole, SentWhole
<1>6. QED
  BY <1>1, <1>3, <1>4, <1>5 DEF Next, Crashed, vars, InitReturns, OnUpdate, SignalCB, LoopCheck, Tick,
     ClockSetBack, RequeueOne, SendHandShakeMsg, Send, WriteIdle, ReadResponse, ReadClosed,
     perConn

\* The only thing that completes a half-sent message is the timeout check: no
\* response is read for it.
THEOREM HalfSentUnansweredHolds == Spec /\ []IdsClose => []HalfSentUnanswered
<1>1. Init => SentKnown /\ AnsweredFinished /\ HalfSentUnanswered
  BY DEF Init, SentKnown, AnsweredFinished, HalfSentUnanswered, NoMsg, Reqs
<1>2. ASSUME IndInv, IdsClose, SentKnown, AnsweredFinished, HalfSentUnanswered, [Next]_vars
      PROVE  HalfSentUnanswered'
  <2> SUFFICES ASSUME NEW c \in Conns, sending'[c] \in Reqs
               PROVE  answer'[sending'[c]] = NoMsg
    BY DEF HalfSentUnanswered
  <2>1. CASE UNCHANGED answer /\ sending'[c] \in Queued(c)
    <3>1. sending'[c] \notin Finished
      BY <2>1, <1>2 DEF IndInv, FinishedOnce, Held
    <3>2. QED  BY <2>1, <3>1, <1>2 DEF AnsweredFinished
  <2>2. CASE sending'[c] = sending[c]
    <3>1. answer[sending[c]] = NoMsg
      BY <2>2, <1>2 DEF HalfSentUnanswered
    <3>2. CASE UNCHANGED answer
      BY <2>2, <3>1, <3>2
    <3>3. ASSUME NEW d \in Conns, NEW r \in inflight[d], WireId(r) \in waiting[d],
                 answer' = [answer EXCEPT ![WireId(r)] = r]
          PROVE  answer'[sending[c]] = NoMsg
      <4>1. r \in waiting[d] /\ answer' = [answer EXCEPT ![r] = r] /\ r \in Reqs
        BY <3>3, <1>2, WireIdSame DEF IndInv, TypeOK
      <4>2. sending[c] # r
        <5>1. CASE c = d
          BY <5>1, <3>3, <1>2 DEF SentKnown
        <5>2. CASE c # d
          <6>1. r \notin waiting[c] /\ r \notin Finished /\ r \notin {NoMsg, HS}
            BY <5>2, <4>1, <1>2 DEF IndInv, Routed, FinishedOnce, Held, Reqs, HS, NoMsg
          <6>2. QED  BY <6>1, <1>2 DEF SentKnown
        <5>3. QED  BY <5>1, <5>2
      <4>3. QED  BY <4>1, <4>2, <3>1, <1>2 DEF IndInv, TypeOK
    <3>4. QED  BY <1>2, <2>2, <3>2, <3>3, AnswerStep, AnswerUnchanged
  <2>3. QED  BY <1>2, <2>1, <2>2, SendingFrom
<1>3. QED
  BY <1>1, <1>2, SpecInv, SentKnownNext, AnsweredFinishedNext, PTL DEF Spec

-----------------------------------------------------------------------------
(* Why a message is freed while Write uses it.                             *)

\* A message that is half sent is never older than TT when the timeouts are
\* checked, nor is its stamp ahead of the clock.
HalfSentInTime == \A c \in Conns : sending[c] \in Reqs => ~ TimedOut(age[sending[c]])

HalfSentAwaited == \A c \in Conns : sending[c] \in {NoMsg, HS} \cup waiting[c]

LEMMA AwaitedKept ==
  ASSUME HalfSentAwaited, NEW c \in Conns, sending'[c] \in {sending[c], NoMsg},
         sending[c] \in waiting[c] => sending[c] \in waiting'[c]
  PROVE  sending'[c] \in {NoMsg, HS} \cup waiting'[c]
BY DEF HalfSentAwaited

LEMMA AwaitedWrite ==
  ASSUME IndInv, HalfSentAwaited, NEW c \in Conns, HasOutput(c), TakeNext(c),
         \/ sending' = [sending EXCEPT ![c] = NoMsg]
         \/ sending' = [sending EXCEPT ![c] = Current(c)]
  PROVE  HalfSentAwaited'
<1>1. /\ sending \in [Conns -> Msgs \cup {NoMsg}] /\ waiting \in [Conns -> SUBSET Reqs]
  BY DEF IndInv, TypeOK
<1>2. /\ \A d \in Conns : d # c => sending'[d] = sending[d] /\ waiting'[d] = waiting[d]
      /\ waiting[c] \subseteq waiting'[c]
      /\ sending'[c] \in {NoMsg, Current(c)}
  BY <1>1 DEF TakeNext
<1>3. Current(c) \in {NoMsg, HS} \cup waiting'[c]
  <2>1. CASE sending[c] # NoMsg
    BY <1>2, <2>1 DEF Current, HalfSentAwaited
  <2>2. CASE sending[c] = NoMsg
    BY <1>1, <2>2 DEF Current, TakeNext
  <2>3. QED  BY <2>1, <2>2
<1>4. QED  BY <1>2, <1>3 DEF HalfSentAwaited

LEMMA AwaitedCheck ==
  ASSUME IndInv, HalfSentAwaited, HalfSentInTime, LoopCheck
  PROVE  HalfSentAwaited'
<1>1. /\ UNCHANGED sending
      /\ \A c \in Conns : waiting'[c] = waiting[c] \ {r \in waiting[c] : TimedOut(age[r])}
  BY DEF LoopCheck, NetLoopCheck
<1>2. \A c \in Conns : waiting[c] \subseteq Reqs
  BY DEF IndInv, TypeOK
<1>3. QED  BY <1>1, <1>2 DEF HalfSentAwaited, HalfSentInTime

LEMMA AwaitedResponse ==
  ASSUME IndInv, IdsClose, SentKnown, HalfSentAwaited, NEW c \in Conns, ReadResponse(c)
  PROVE  HalfSentAwaited'
<1>1. waiting \in [Conns -> SUBSET Reqs] /\ inflight[c] \subseteq Msgs /\ UNCHANGED sending
  BY DEF ReadResponse, IndInv, TypeOK
<1>2. PICK r \in inflight[c] : \/ UNCHANGED waiting
                               \/ /\ WireId(r) \in waiting[c]
                                  /\ waiting' = [waiting EXCEPT ![c] = @ \ {WireId(r)}]
  BY DEF ReadResponse
<1>3. (WireId(r) \in waiting[c] => WireId(r) = r) /\ sending[c] # r
  BY WireIdSame DEF SentKnown
<1>4. \A d \in Conns : sending[d] \in waiting[d] => sending[d] \in waiting'[d]
  BY <1>1, <1>2, <1>3
<1>5. QED  BY <1>1, <1>4 DEF HalfSentAwaited

LEMMA AwaitedClose ==
  ASSUME IndInv, HalfSentAwaited, ReconnectFails \/ ReconnectOk
  PROVE  HalfSentAwaited'
<1>1. closing \in Conns /\ sending' = [sending EXCEPT ![closing] = NoMsg]
  BY DEF ReconnectFails, ReconnectOk, IndInv, CloseStages, TypeOK
<1>2. \A c \in Conns : c # closing => waiting'[c] = waiting[c]
  <2>1. CASE ReconnectFails
    BY <2>1 DEF ReconnectFails, NetLoopCheck, IndInv, TypeOK
  <2>2. CASE ReconnectOk
    BY <2>2 DEF ReconnectOk, CollectWaiting, IndInv, TypeOK
  <2>3. QED  BY <2>1, <2>2
<1>3. QED  BY <1>1, <1>2 DEF HalfSentAwaited, IndInv, TypeOK

LEMMA AwaitedNext ==
  IndInv /\ IdsClose /\ SentKnown /\ HalfSentAwaited /\ HalfSentInTime /\ [Next]_vars
    => HalfSentAwaited'
<1> SUFFICES ASSUME IndInv, IdsClose, SentKnown, HalfSentAwaited, HalfSentInTime, [Next]_vars
             PROVE  HalfSentAwaited'
  OBVIOUS
<1>1. CASE UNCHANGED <<sending, waiting>>
  BY <1>1 DEF HalfSentAwaited
<1>2. ASSUME NEW c \in Conns, WriteWhole(c) \/ WritePart(c)  PROVE HalfSentAwaited'
  BY <1>2, AwaitedWrite DEF WriteWhole, WritePart, SentWhole
<1>3. ASSUME NEW c \in Conns, ReadResponse(c)  PROVE HalfSentAwaited'
  BY <1>3, AwaitedResponse
<1>4. QED
  BY <1>1, <1>2, <1>3, AwaitedCheck, AwaitedClose DEF Next, Crashed, vars, InitReturns, OnUpdate, SignalCB,
     Tick, ClockSetBack, RequeueOne, SendHandShakeMsg, Send, WriteIdle, ReadClosed, perConn

\* A message is handed back while it is half sent for one reason only: the
\* timeout check, on a request that is half sent for longer than TT or whose
\* stamp lies ahead of the clock.  Without that, Write uses no freed message.
THEOREM FreedByTimeoutOnly == Spec /\ []IdsClose /\ []HalfSentInTime => []FreedUnused
<1>1. Init => SentKnown /\ HalfSentAwaited
  BY DEF Init, SentKnown, HalfSentAwaited, NoMsg
<1>2. IndInv /\ HalfSentAwaited => FreedUnused
  <2>1. ASSUME IndInv PROVE rsp \cup done \subseteq Reqs /\ NoMsg \notin Reqs /\ HS \notin Reqs
    BY <2>1 DEF IndInv, TypeOK, Reqs, HS, NoMsg
  <2>2. QED
    BY <2>1 DEF FreedUnused, HalfSentAwaited, IndInv, FinishedOnce, Held, Finished
<1>3. QED  BY <1>1, <1>2, SpecInv, SentKnownNext, AwaitedNext, PTL DEF Spec

-----------------------------------------------------------------------------
(* The handshake.                                                          *)

\* What Close would have to guarantee: a reconnected connection still has its
\* first handshake queued, or something in its wait map, so that
\* DoAfterReconnect does not return at once; and the handshake finds room.
HandshakeDue ==
  /\ ReconnectOk =>
       \/ waiting[closing] # {} \/ nulls[closing] # {}
       \/ queue[closing] # <<>> /\ Head(queue[closing]) = HS
  /\ SendHandShakeMsg => Room(closing)

\* A connection on which nothing was written has the handshake in front.
HandshakeNext ==
  \A c \in Conns \ (dead \cup {closing}) :
    first[c] = NoMsg => queue[c] # <<>> /\ Head(queue[c]) = HS

LEMMA HandshakeNextStep ==
  ASSUME IndInv, HandshakeFirst, HandshakeNext, [Next]_vars, HandshakeDue
  PROVE  HandshakeFirst' /\ HandshakeNext'
<1> USE DEF IndInv
<1>1. CASE UNCHANGED <<first, dead, closing, queue>>
  BY <1>1 DEF HandshakeFirst, HandshakeNext
<1>2. CASE UNCHANGED vars \/ InitReturns \/ SignalCB \/ Tick \/ ClockSetBack \/ OnUpdate \/ LoopCheck
  BY <1>1, <1>2 DEF vars, business, shared, perConn, close, server, InitReturns, SignalCB,
     Tick, ClockSetBack, OnUpdate, LoopCheck
<1>3. ASSUME NEW c \in Conns, WriteIdle(c) \/ ReadResponse(c)  PROVE HandshakeFirst' /\ HandshakeNext'
  BY <1>1, <1>3 DEF WriteIdle, ReadResponse, shared, close, server
<1>4. ASSUME NEW c \in Conns, Send(c)  PROVE HandshakeFirst' /\ HandshakeNext'
  <2>1. UNCHANGED <<first, dead, closing>>
    BY <1>4 DEF Send, perConn, close, server
  <2>2. ASSUME NEW d \in Conns, queue[d] # <<>>, Head(queue[d]) = HS
        PROVE  queue'[d] # <<>> /\ Head(queue'[d]) = HS
    <3>1. queue[d] \in Seq(Msgs) /\ queue \in [Conns -> Seq(Msgs)]
      BY DEF TypeOK
    <3>2. \/ queue'[d] = queue[d]
          \/ seqIdx + 1 \in Msgs /\ queue'[d] = Append(queue[d], seqIdx + 1)
      <4>1. seqIdx + 1 \in Msgs
        BY <1>4, ConstantsAssumption DEF Send, TypeOK, Msgs, Reqs, HS
      <4>2. QED  BY <1>4, <4>1, <3>1 DEF Send
    <3>3. QED  BY <2>2, <3>1, <3>2
  <2>3. QED  BY <2>1, <2>2 DEF HandshakeFirst, HandshakeNext
<1>5. ASSUME NEW c \in Conns, WriteWhole(c) \/ WritePart(c)
      PROVE  HandshakeFirst' /\ HandshakeNext'
  <2>1. /\ TakeNext(c) /\ HasOutput(c) /\ UNCHANGED <<dead, closing>>
        /\ c \notin dead /\ closing = NoConn
    BY <1>5 DEF WriteWhole, WritePart, close, InLoop, CloseStages
  <2>2. CASE sending[c] # NoMsg
    BY <1>1, <2>1, <2>2 DEF TakeNext
  <2>3. CASE sending[c] = NoMsg
    <3>1. /\ queue' = [queue EXCEPT ![c] = Tail(@)]
          /\ first' = IF first[c] = NoMsg
                        THEN [first EXCEPT ![c] = Head(queue[c])] ELSE first
      BY <2>1, <2>3 DEF TakeNext
    <3>2. c \in Conns \ (dead \cup {closing})
      BY <2>1, NoConnIsNone
    <3>3. first'[c] = IF first[c] = NoMsg THEN HS ELSE first[c]
      BY <3>1, <3>2 DEF HandshakeNext, TypeOK
    <3>4. \A d \in Conns : d # c => first'[d] = first[d] /\ queue'[d] = queue[d]
      BY <3>1 DEF TypeOK
    <3>5. HandshakeFirst'
      BY <3>3, <3>4 DEF HandshakeFirst
    <3>6. first'[c] # NoMsg
      BY <3>3 DEF HS, NoMsg
    <3>7. HandshakeNext'
      BY <2>1, <3>4, <3>6 DEF HandshakeNext
    <3>8. QED  BY <3>5, <3>7
  <2>4. QED  BY <2>2, <2>3
<1>6. ASSUME NEW c \in Conns, ReadClosed(c)  PROVE HandshakeFirst' /\ HandshakeNext'
  <2>1. closing = NoConn
    BY <1>6 DEF ReadClosed, InLoop, CloseStages
  <2>2. QED  BY <1>6, <2>1, NoConnIsNone DEF ReadClosed, shared, HandshakeFirst, HandshakeNext
<1>7. CASE ReconnectFails
  BY <1>7 DEF ReconnectFails, HandshakeFirst, HandshakeNext
<1>8. CASE ReconnectOk
  <2>1. closing \in Conns /\ queue' = queue /\ dead' = dead
        /\ first' = [first EXCEPT ![closing] = NoMsg] /\ first'[closing] = NoMsg
    BY <1>8 DEF ReconnectOk, shared, CloseStages, TypeOK
  <2>2. \A c \in Conns : c # closing => first'[c] = first[c]
    BY <2>1 DEF TypeOK
  <2>3. closing' # closing => (queue[closing] # <<>> /\ Head(queue[closing]) = HS)
    <3>1. \/ waiting[closing] # {} \/ nulls[closing] # {}
          \/ queue[closing] # <<>> /\ Head(queue[closing]) = HS
      BY <1>8 DEF HandshakeDue
    <3>2. (waiting[closing] # {} \/ nulls[closing] # {}) => closing' = closing
      BY <1>8 DEF ReconnectOk
    <3>3. QED  BY <3>1, <3>2
  <2>4. QED  BY <2>1, <2>2, <2>3 DEF HandshakeFirst, HandshakeNext
<1>9. CASE RequeueOne
  <2>1. UNCHANGED <<first, dead, closing>> /\ closing \in Conns
    BY <1>9 DEF RequeueOne, perConn, CloseStages, TypeOK
  <2>2. \A c \in Conns : c # closing => queue'[c] = queue[c]
    BY <1>9 DEF RequeueOne, PutPre, TypeOK
  <2>3. QED  BY <2>1, <2>2 DEF HandshakeFirst, HandshakeNext
<1>10. CASE SendHandShakeMsg
  <2>1. UNCHANGED <<first, dead>> /\ closing \in Conns
        /\ queue' = [queue EXCEPT ![closing] = <<HS>> \o @]
    BY <1>10 DEF SendHandShakeMsg, server, CloseStages, TypeOK, HandshakeDue, PutPre
  <2>2. queue'[closing] # <<>> /\ Head(queue'[closing]) = HS
    <3>1. queue[closing] \in Seq(Msgs) /\ HS \in Msgs
      BY <2>1 DEF TypeOK, Msgs
    <3>2. queue'[closing] = <<HS>> \o queue[closing]
      BY <2>1 DEF TypeOK
    <3>3. QED  BY <3>1, <3>2
  <2>3. \A c \in Conns : c # closing => queue'[c] = queue[c]
    BY <2>1 DEF TypeOK
  <2>4. QED  BY <2>1, <2>2, <2>3 DEF HandshakeFirst, HandshakeNext
<1>11. QED
  BY <1>2, <1>3, <1>4, <1>5, <1>6, <1>7, <1>8, <1>9, <1>10 DEF Next, Crashed

\* A request goes first on a connection for two reasons only: after a
\* reconnection that found nothing in the wait map, or that found the queue full
\* when the handshake was due.  Without them the handshake is always first.
THEOREM HandshakeLostTwoWays == Spec /\ [][HandshakeDue]_vars => []HandshakeFirst
<1>1. Init => HandshakeFirst /\ HandshakeNext
  BY DEF Init, HandshakeFirst, HandshakeNext
<1>2. IndInv /\ HandshakeFirst /\ HandshakeNext /\ [Next]_vars /\ [HandshakeDue]_vars
        => HandshakeFirst' /\ HandshakeNext'
  <2>1. CASE HandshakeDue
    BY <2>1, HandshakeNextStep
  <2>2. CASE UNCHANGED vars
    BY <2>2 DEF vars, HandshakeFirst, HandshakeNext, server, perConn, close, shared
  <2>3. QED  BY <2>1, <2>2
<1>3. QED  BY <1>1, <1>2, SpecInv, PTL DEF Spec

-----------------------------------------------------------------------------
(* The crash.                                                              *)

\* A reconnection finds a request to send again beside a null entry, which may
\* then be the last entry of the map.
NoNullBeside == ReconnectOk => waiting[closing] = {} \/ nulls[closing] = {}

\* No message is put back after a null entry was the last.
LastKnown == lastNull => resend = {}

\* DoAfterReconnect crashes for one reason only: beside a waiting request there
\* is a null entry, which a late answer or that to the handshake left in the map
\* since the last timeout check.  Without that the client never crashes there.
THEOREM CrashByNullEntryOnly == Spec /\ [][NoNullBeside]_vars => []Alive
<1>1. Init => Alive /\ LastKnown
  BY DEF Init, Alive, LastKnown
<1>2. IndInv /\ Alive /\ LastKnown /\ [Next]_vars /\ [NoNullBeside]_vars
        => Alive' /\ LastKnown'
  <2> SUFFICES ASSUME IndInv, Alive, LastKnown, [Next]_vars, [NoNullBeside]_vars
               PROVE  Alive' /\ LastKnown'
    OBVIOUS
  <2>1. CASE UNCHANGED <<phase, lastNull, resend>>
    BY <2>1 DEF Alive, LastKnown
  <2>2. CASE ReconnectOk
    <3>1. Alive'
      BY <2>2 DEF ReconnectOk, Alive
    <3>2. CASE UNCHANGED <<resend, lastNull>>
      BY <3>1, <3>2 DEF LastKnown
    <3>3. CASE resend' = waiting[closing] /\ lastNull' \in LastIsNull(closing)
      <4>1. waiting[closing] = {} \/ nulls[closing] = {}
        <5>1. phase' # phase
          BY <2>2 DEF ReconnectOk
        <5>2. QED  BY <2>2, <5>1 DEF NoNullBeside, vars, close
      <4>2. QED  BY <3>1, <3>3, <4>1 DEF LastKnown, LastIsNull
    <3>4. QED  BY <2>2, <3>2, <3>3 DEF ReconnectOk, CollectWaiting
  <2>3. CASE RequeueOne
    BY <2>3 DEF RequeueOne, Alive, LastKnown
  <2>4. CASE SendHandShakeMsg \/ ReconnectFails \/ \E c \in Conns : ReadClosed(c)
    BY <2>4 DEF SendHandShakeMsg, ReconnectFails, ReadClosed, Alive, LastKnown
  <2>5. QED
    BY <2>1, <2>2, <2>3, <2>4 DEF Next, Crashed, vars, close, InitReturns, OnUpdate, SignalCB,
       LoopCheck, Tick, ClockSetBack, Send, WriteIdle, WriteWhole, WritePart, ReadResponse
<1>3. QED  BY <1>1, <1>2, SpecInv, PTL DEF Spec

-----------------------------------------------------------------------------
(* The signalling.                                                         *)

\* The variables of OutputSignal.
Pending == {c \in Conns : HasOutput(c)}
Flags == {c \in Conns : dataFlag[c]}
Watch == {c \in Conns : wantWrite[c]}
Coarse == <<Pending, Flags, Watch, closing, dead>>

LEMMA CoarseVars ==
  /\ UNCHANGED Coarse => UNCHANGED Signal!vars
  /\ UNCHANGED <<queue, sending, dataFlag, wantWrite, closing, dead>> => UNCHANGED Coarse
<1>1. UNCHANGED Coarse => UNCHANGED Signal!vars
  BY DEF Signal!vars, Coarse, Pending, Flags, Watch
<1>2. UNCHANGED <<queue, sending, dataFlag, wantWrite, closing, dead>> => UNCHANGED Coarse
  BY DEF Coarse, Pending, Flags, Watch, HasOutput
<1>3. QED  BY <1>1, <1>2

LEMMA QuietIsQuiet ==
  ASSUME \/ InitReturns \/ OnUpdate \/ LoopCheck \/ Tick \/ ClockSetBack \/ UNCHANGED vars
         \/ \E c \in Conns : ReadResponse(c)
  PROVE  UNCHANGED Coarse
<1>1. UNCHANGED <<queue, sending, dataFlag, wantWrite, closing, dead>>
  BY DEF InitReturns, OnUpdate, LoopCheck, Tick, ClockSetBack, ReadResponse, vars, shared,
     perConn, close
<1>2. QED  BY <1>1, CoarseVars

LEMMA SendIsProduce ==
  ASSUME IndInv, NEW c \in Conns, Send(c)
  PROVE  Signal!Produce(c) \/ UNCHANGED Coarse
<1>1. UNCHANGED <<sending, wantWrite, closing, dead>>
  BY DEF Send, perConn, close
<1>2. CASE Room(c)
  <2>1. /\ queue' = [queue EXCEPT ![c] = Append(@, seqIdx + 1)]
        /\ dataFlag' = [dataFlag EXCEPT ![c] = TRUE]
    BY <1>2 DEF Send, RaiseFlag
  <2>2. \A d \in Conns : HasOutput(d)' <=> HasOutput(d) \/ d = c
    <3>1. queue'[c] # <<>>
      BY <2>1 DEF IndInv, TypeOK
    <3>2. \A d \in Conns : d # c => queue'[d] = queue[d]
      BY <2>1 DEF IndInv, TypeOK
    <3>3. QED  BY <1>1, <3>1, <3>2 DEF HasOutput
  <2>3. Pending' = Pending \cup {c}
    BY <2>2 DEF Pending
  <2>4. Flags' = Flags \cup {c}
    BY <2>1 DEF Flags, IndInv, TypeOK
  <2>5. Watch' = Watch
    BY <1>1 DEF Watch
  <2>6. QED  BY <1>1, <2>3, <2>4, <2>5 DEF Signal!Produce, Pending, Flags, Watch
<1>3. CASE ~ Room(c)
  BY <1>1, <1>3, CoarseVars DEF Send
<1>4. QED  BY <1>2, <1>3

LEMMA SignalIsNotice ==
  ASSUME IndInv, SignalCB
  PROVE  \E S \in SUBSET Conns : Signal!Notice(S)
<1>0. PICK S \in SUBSET Conns : S = Flags
  BY DEF Flags
<1>1. /\ closing = NoConn /\ dataFlag' = [c \in Conns |-> FALSE]
      /\ wantWrite' = [c \in Conns |-> wantWrite[c] \/ (dataFlag[c] /\ c \notin dead)]
      /\ UNCHANGED <<queue, sending, closing, dead>>
  BY DEF SignalCB, InLoop, close, IndInv, CloseStages
<1>2. Watch' = Watch \cup (Flags \ dead) /\ Flags' = {} /\ Pending' = Pending
  BY <1>1 DEF Watch, Flags, Pending, HasOutput
<1>3. Flags # {}
  BY DEF SignalCB, Flags
<1>4. Signal!Notice(S)
  BY <1>0, <1>1, <1>2, <1>3 DEF Signal!Notice, Signal!InLoop, Watch, Flags, Pending
<1>5. QED  BY <1>4

LEMMA WriteIsSend ==
  ASSUME IndInv, NEW c \in Conns, WriteIdle(c) \/ WriteWhole(c) \/ WritePart(c)
  PROVE  Signal!SendLast(c) \/ Signal!Rest(c) \/ UNCHANGED Coarse
<1>1. /\ closing = NoConn /\ c \in Watch
      /\ UNCHANGED <<dataFlag, closing, dead>>
  BY DEF WriteIdle, WriteWhole, WritePart, InLoop, shared, close, IndInv, CloseStages, Watch
<1>2. CASE WriteIdle(c)
  <2>1. /\ UNCHANGED <<queue, sending>> /\ ~ HasOutput(c)
        /\ wantWrite' = [wantWrite EXCEPT ![c] = FALSE]
    BY <1>2 DEF WriteIdle, shared, HasOutput
  <2>2. Watch' = Watch \ {c} /\ Pending' = Pending /\ Flags' = Flags /\ c \notin Pending
    BY <1>1, <2>1 DEF Watch, Pending, Flags, HasOutput, IndInv, TypeOK
  <2>3. QED  BY <1>1, <2>2 DEF Signal!Rest, Signal!InLoop, Watch, Flags, Pending
<1>3. CASE WriteWhole(c) \/ WritePart(c)
  <2>1. /\ UNCHANGED wantWrite /\ HasOutput(c)
        /\ queue' = queue \/ queue' = [queue EXCEPT ![c] = Tail(@)]
        /\ \E m : sending' = [sending EXCEPT ![c] = m]
    BY <1>3 DEF WriteWhole, WritePart, TakeNext, SentWhole
  <2>2. \A d \in Conns : d # c => (HasOutput(d)' <=> HasOutput(d))
    BY <2>1 DEF HasOutput, IndInv, TypeOK
  <2>3. Pending' = Pending \/ Pending' = Pending \ {c}
    BY <2>1, <2>2 DEF Pending
  <2>4. Watch' = Watch /\ Flags' = Flags /\ c \in Pending
    BY <1>1, <2>1 DEF Watch, Flags, Pending
  <2>5. QED
    BY <1>1, <2>3, <2>4 DEF Coarse, Signal!SendLast, Signal!InLoop, Watch, Flags, Pending
<1>4. QED  BY <1>2, <1>3

LEMMA LossIsLose == ASSUME IndInv, NEW c \in Conns, ReadClosed(c) PROVE Signal!Lose(c)
<1>1. /\ closing = NoConn /\ closing' = c /\ c \notin dead
      /\ wantWrite' = [wantWrite EXCEPT ![c] = FALSE]
      /\ UNCHANGED <<queue, sending, dataFlag, dead>>
  BY DEF ReadClosed, InLoop, shared, IndInv, CloseStages
<1>2. Watch' = Watch \ {c} /\ Pending' = Pending /\ Flags' = Flags
  BY <1>1 DEF Watch, Pending, Flags, HasOutput, IndInv, TypeOK
<1>3. QED  BY <1>1, <1>2 DEF Signal!Lose, Signal!InLoop, Watch, Flags, Pending

LEMMA FailureIsRetry ==
  ASSUME IndInv, ReconnectFails
  PROVE  Signal!Retry \/ Signal!GiveUp
<1>1. /\ closing \in Conns /\ closing # NoConn
      /\ sending' = [sending EXCEPT ![closing] = NoMsg]
      /\ UNCHANGED <<queue, dataFlag, wantWrite>>
      /\ \/ UNCHANGED <<dead, closing>>
         \/ dead' = dead \cup {closing} /\ closing' = NoConn
  BY NoConnIsNone DEF ReconnectFails, IndInv, CloseStages, TypeOK
<1>2. \A d \in Conns : /\ d # closing => (HasOutput(d)' <=> HasOutput(d))
                       /\ HasOutput(d)' => HasOutput(d)
  BY <1>1 DEF HasOutput, IndInv, TypeOK
<1>3. /\ Pending \ {closing} \subseteq Pending' /\ Pending' \subseteq Pending
      /\ Watch' = Watch /\ Flags' = Flags
  BY <1>1, <1>2 DEF Pending, Watch, Flags
<1>4. QED
  BY <1>1, <1>3 DEF Signal!Retry, Signal!GiveUp, Signal!Forgets, Signal!InLoop, Watch, Flags,
     Pending

LEMMA ReturnIsRemake ==
  ASSUME IndInv, ReconnectOk \/ RequeueOne \/ SendHandShakeMsg
  PROVE  Signal!Remake
<1>1. closing \in Conns /\ closing # NoConn /\ dead' = dead
  BY NoConnIsNone DEF ReconnectOk, RequeueOne, SendHandShakeMsg, perConn, IndInv, CloseStages,
     TypeOK
<1>2. /\ \A d \in Conns : d # closing =>
           /\ queue'[d] = queue[d] /\ sending'[d] = sending[d]
           /\ dataFlag'[d] = dataFlag[d] /\ wantWrite'[d] = wantWrite[d]
      /\ dataFlag[closing] => dataFlag'[closing]
      /\ wantWrite[closing] => wantWrite'[closing]
      /\ closing' = closing \/ (closing' = NoConn /\ wantWrite'[closing])
  <2>1. CASE ReconnectOk
    BY <2>1, <1>1 DEF ReconnectOk, shared, IndInv, TypeOK
  <2>2. CASE RequeueOne
    BY <2>2, <1>1 DEF RequeueOne, PutPre, perConn, IndInv, TypeOK
  <2>3. CASE SendHandShakeMsg
    BY <2>3, <1>1 DEF SendHandShakeMsg, PutPre, IndInv, TypeOK
  <2>4. QED  BY <2>1, <2>2, <2>3
<1>3. Pending \ {closing} \subseteq Pending' /\ Pending' \subseteq Pending \cup {closing}
  BY <1>2 DEF Pending, HasOutput
<1>4. Flags \subseteq Flags' /\ Flags' \subseteq Flags \cup {closing}
  BY <1>2 DEF Flags
<1>5. /\ Watch \subseteq Watch' /\ Watch' \subseteq Watch \cup {closing}
      /\ closing' = closing \/ (closing' = NoConn /\ closing \in Watch')
  BY <1>1, <1>2 DEF Watch
<1>6. QED
  BY <1>1, <1>3, <1>4, <1>5 DEF Signal!Remake, Signal!InLoop, Pending, Flags, Watch

LEMMA SignalInit == Init => Signal!Init
<1> SUFFICES ASSUME Init PROVE Signal!Init
  OBVIOUS
<1>1. Flags = Conns /\ Watch = Conns /\ Pending \subseteq Conns /\ closing = NoConn /\ dead = {}
  BY DEF Init, Flags, Watch, Pending
<1>2. QED  BY <1>1 DEF Signal!Init, Flags, Watch, Pending

LEMMA SignalStep == IndInv /\ [Next]_vars => [Signal!Next]_(Signal!vars)
<1> SUFFICES ASSUME IndInv, [Next]_vars PROVE Signal!Next \/ UNCHANGED Coarse
  BY CoarseVars
<1>1. CASE \/ InitReturns \/ OnUpdate \/ LoopCheck \/ Tick \/ ClockSetBack \/ UNCHANGED vars
           \/ \E c \in Conns : ReadResponse(c)
  BY <1>1, QuietIsQuiet
<1>2. CASE SignalCB
  BY <1>2, SignalIsNotice DEF Signal!Next
<1>3. ASSUME NEW c \in Conns,
             Send(c) \/ WriteIdle(c) \/ WriteWhole(c) \/ WritePart(c) \/ ReadClosed(c)
      PROVE  Signal!Next \/ UNCHANGED Coarse
  BY <1>3, SendIsProduce, WriteIsSend, LossIsLose DEF Signal!Next
<1>4. CASE ReconnectFails \/ ReconnectOk \/ RequeueOne \/ SendHandShakeMsg
  BY <1>4, FailureIsRetry, ReturnIsRemake DEF Signal!Next
<1>5. QED  BY <1>1, <1>2, <1>3, <1>4 DEF Next, Crashed

\* With a queue, a half-sent message and the stages of Close, the connections
\* signal as OutputSignal says, which the single accesses of Wakeup do as well.
THEOREM ImplementsSignal == Spec => SignalSpec
BY SignalInit, SignalStep, SpecInv, PTL DEF Spec, SignalSpec, Signal!Spec

-----------------------------------------------------------------------------
(* Requests on their way.                                                  *)

\* On a connection that Close is not working on, a queued request keeps its
\* place or comes closer to the head, until it is sent and waited for; what is
\* waited for stays so until it is finished.
Forward(c) ==
  /\ \A i \in DOMAIN queue[c] :
       \/ \E j \in DOMAIN queue'[c] : j <= i /\ queue'[c][j] = queue[c][i]
       \/ queue[c][i] \in {HS} \cup waiting'[c]
  /\ waiting[c] \subseteq waiting'[c] \cup Finished'
OnlyForward == \A c \in Conns : c # closing => Forward(c)
OnTheWay == [][OnlyForward]_vars

LEMMA QueueKept ==
  ASSUME IndInv, NEW c \in Conns, queue'[c] = queue[c],
         waiting[c] \subseteq waiting'[c] \cup Finished'
  PROVE  Forward(c)
<1>1. queue[c] \in Seq(Msgs)
  BY DEF IndInv, TypeOK
<1>2. \A i \in DOMAIN queue[c] : i \in Nat /\ i <= i
  BY <1>1
<1>3. QED  BY <1>2 DEF Forward

LEMMA CompletesForward ==
  ASSUME IndInv, CompletesWaiting, NEW c \in Conns, queue'[c] = queue[c]
  PROVE  Forward(c)
BY QueueKept DEF CompletesWaiting, Finished

LEMMA SendForward ==
  ASSUME IndInv, NEW d \in Conns, Send(d), NEW c \in Conns
  PROVE  Forward(c)
<1>1. queue \in [Conns -> Seq(Msgs)] /\ waiting' = waiting
  BY DEF Send, perConn, IndInv, TypeOK
<1>2. CASE queue'[c] = queue[c]
  BY <1>1, <1>2, QueueKept
<1>3. CASE queue'[c] # queue[c]
  <2>1. queue'[c] = Append(queue[c], seqIdx + 1)
    BY <1>1, <1>3 DEF Send
  <2>2. seqIdx + 1 \in Msgs
    BY ConstantsAssumption DEF Send, IndInv, TypeOK, Msgs, Reqs, HS
  <2>3. /\ Len(queue'[c]) = Len(queue[c]) + 1 /\ queue'[c] \in Seq(Msgs)
        /\ \A i \in 1 .. Len(queue[c]) : queue'[c][i] = queue[c][i]
    BY <1>1, <2>1, <2>2, AppendElements
  <2>4. ASSUME NEW i \in DOMAIN queue[c]
        PROVE  i \in DOMAIN queue'[c] /\ i <= i /\ queue'[c][i] = queue[c][i]
    BY <1>1, <2>3
  <2>5. QED  BY <1>1, <2>4 DEF Forward
<1>4. QED  BY <1>2, <1>3

LEMMA TakeForward ==
  ASSUME IndInv, NEW d \in Conns, HasOutput(d), TakeNext(d), NEW c \in Conns
  PROVE  Forward(c)
<1>1. queue \in [Conns -> Seq(Msgs)] /\ waiting \in [Conns -> SUBSET Reqs]
  BY DEF IndInv, TypeOK
<1>2. waiting[c] \subseteq waiting'[c]
  BY <1>1 DEF TakeNext
<1>3. CASE queue'[c] = queue[c]
  BY <1>2, <1>3, QueueKept
<1>4. CASE queue'[c] # queue[c]
  <2>1. /\ c = d /\ queue[c] # <<>> /\ queue'[c] = Tail(queue[c])
        /\ Head(queue[c]) \in {HS} \cup waiting'[c]
    BY <1>1, <1>4 DEF TakeNext, HasOutput
  <2>2. /\ Len(queue[c]) \in Nat \ {0} /\ Head(queue[c]) = queue[c][1]
        /\ queue'[c] \in Seq(Msgs) /\ Len(queue'[c]) = Len(queue[c]) - 1
        /\ \A i \in 1 .. Len(queue[c]) - 1 : queue'[c][i] = queue[c][i + 1]
    BY <1>1, <2>1, TailElements
  <2>3. ASSUME NEW i \in DOMAIN queue[c], i # 1
        PROVE  i - 1 \in DOMAIN queue'[c] /\ i - 1 <= i /\ queue'[c][i - 1] = queue[c][i]
    <3>1. DOMAIN queue[c] = 1 .. Len(queue[c]) /\ DOMAIN queue'[c] = 1 .. Len(queue[c]) - 1
      BY <1>1, <2>2
    <3>2. i - 1 \in 1 .. Len(queue[c]) - 1 /\ i - 1 <= i /\ (i - 1) + 1 = i
      BY <2>2, <2>3, <3>1
    <3>3. queue'[c][i - 1] = queue[c][(i - 1) + 1]
      BY <2>2, <3>2
    <3>4. QED  BY <3>1, <3>2, <3>3
  <2>4. QED  BY <1>2, <2>1, <2>2, <2>3 DEF Forward
<1>5. QED  BY <1>3, <1>4

LEMMA CloseForward ==
  ASSUME IndInv, ReconnectFails \/ ReconnectOk \/ RequeueOne \/ SendHandShakeMsg,
         NEW c \in Conns, c # closing
  PROVE  Forward(c)
<1>1. queue \in [Conns -> Seq(Msgs)] /\ waiting \in [Conns -> SUBSET Reqs] /\ closing \in Conns
  BY DEF ReconnectFails, ReconnectOk, RequeueOne, SendHandShakeMsg, IndInv, TypeOK, CloseStages
<1>2. queue'[c] = queue[c]
  BY <1>1 DEF ReconnectFails, ReconnectOk, RequeueOne, SendHandShakeMsg, PutPre, shared
<1>3. waiting'[c] = waiting[c]
  BY <1>1 DEF ReconnectFails, ReconnectOk, RequeueOne, SendHandShakeMsg, NetLoopCheck,
     CollectWaiting, perConn
<1>4. QED  BY <1>2, <1>3, QueueKept

\* A request comes back to its connection's queue, or further from its head,
\* only while Close works on that connection: neither later requests, nor the
\* timeout check, nor losses of other connections set it back.
THEOREM OnTheWayHolds == Spec => OnTheWay
<1>1. IndInv /\ [Next]_vars => [OnlyForward]_vars
  <2> SUFFICES ASSUME IndInv, [Next]_vars, NEW c \in Conns, c # closing, vars' # vars
               PROVE  Forward(c)
    BY DEF OnlyForward
  <2>1. CASE UNCHANGED <<queue, waiting>>
    BY <2>1, QueueKept
  <2>2. ASSUME NEW d \in Conns, WriteWhole(d) \/ WritePart(d)  PROVE Forward(c)
    BY <2>2, TakeForward DEF WriteWhole, WritePart
  <2>3. ASSUME NEW d \in Conns, ReadResponse(d)  PROVE Forward(c)
    BY <2>3, ReadResponseCompletes, CompletesForward DEF ReadResponse
  <2>4. CASE LoopCheck
    BY <2>4, NetLoopCheckCompletes, CompletesForward DEF LoopCheck
  <2>5. CASE InitReturns \/ OnUpdate \/ SignalCB \/ Tick \/ ClockSetBack
    BY <2>1, <2>5 DEF InitReturns, OnUpdate, SignalCB, Tick, ClockSetBack, shared, perConn
  <2>6. ASSUME NEW d \in Conns, WriteIdle(d) \/ ReadClosed(d)  PROVE Forward(c)
    BY <2>1, <2>6 DEF WriteIdle, ReadClosed, shared
  <2>7. QED
    BY <2>2, <2>3, <2>4, <2>5, <2>6, SendForward, CloseForward DEF Next, Crashed
<1>2. QED  BY <1>1, SpecInv, PTL DEF Spec, OnTheWay
=============================================================================
