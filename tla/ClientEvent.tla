---------------------------- MODULE ClientEvent ----------------------------
(***************************************************************************)
(* The connections of a GORM client and the requests that travel on them:  *)
(* GORM_ClientEvent (src/src/gorm_client_event.cc) driven by the loop of   *)
(* the network thread (src/src/gorm_client_thread.cc), with the business   *)
(* thread sending requests and collecting answers.                         *)
(*                                                                         *)
(* A request is its cbId.  Ids are handed out in sending order; id HS is   *)
(* the handshake message, one static object shared by all connections.     *)
(* The send queue is a deque here (SSQueue models the ring behind it), the *)
(* response list a set, and the server a set of whole requests received    *)
(* and not yet answered: it answers in any order and at any time.          *)
(***************************************************************************)
EXTENDS Integers, Sequences, FiniteSets, Functions

CONSTANTS
  ConnNum,    \* connections the client opens (conn-num)
  MaxId,      \* last request id of a behaviour (bound)
  SendCap,    \* capacity of a send queue (GORM_EVENT_SENDING_CHANNEL_BUFF)
  RspCap,     \* capacity of the response list
  WireIds,    \* number of ids the 3 id bytes of a message header tell apart
  TT,         \* answer timeout of NetLoopCheck, in ticks (3000 ms)
  MaxTries,   \* reconnection attempts between two timeout checks (10000)
  MaxRounds,  \* rounds of attempts before Close gives up (6000)
  MaxFaults,  \* connection losses and changes of the clock of a behaviour (bound)
  Results     \* start states the server's answers to handshakes lead to

ASSUME ConstantsAssumption ==
  /\ ConnNum \in Nat \ {0}
  /\ MaxId \in Nat \ {0}
  /\ SendCap \in Nat \ {0}
  /\ RspCap \in Nat \ {0}
  /\ WireIds \in Nat \ {0}
  /\ TT \in Nat
  /\ MaxTries \in Nat \ {0}
  /\ MaxRounds \in Nat \ {0}
  /\ MaxFaults \in Nat
  /\ Results \subseteq {"Success", "VersionFailed"}

Conns == 0 .. ConnNum - 1
NoConn == ConnNum
HS == 1                      \* the handshake takes the first id
Reqs == 2 .. MaxId           \* requests of the business thread
Msgs == {HS} \cup Reqs
NoMsg == 0                   \* nullptr

VARIABLES
  \* business thread
  ready,      \* GORM_Wrap::Init returned GORM_OK
  seqIdx,     \* last id handed out
  route,      \* request -> connection it was accepted on (coid_ % connNum)
  done,       \* requests handed back to their coroutine and deleted
  \* shared by the two threads
  queue,      \* connection -> waitSendingChannel
  dataFlag,   \* connection -> dataFlag
  rsp,        \* responseMsgList
  startStatus,
  \* network thread, per connection
  sending,    \* sendingRequest
  waiting,    \* keys of clientWaitRspMsgMap with a message
  nulls,      \* keys of clientWaitRspMsgMap with nullptr
  wantWrite,  \* EPOLLOUT is set in the event mask
  dead,       \* connections Close gave up on: fd 0, CLOSED
  \* network thread, progress of Close
  closing,    \* connection Close is running for
  phase,      \* where the network thread is: its loop, a stage of Close, or dead
  tries,      \* i of the two loops of Close
  rounds,     \* j of the two loops of Close
  resend,     \* tmpSortV: requests not yet put back by DoAfterReconnect
  lastNull,   \* clientMsg of DoAfterReconnect, the last entry seen, is nullptr
  \* messages
  age,        \* ticks since requestTMS, up to TT + 1, or -1: it lies ahead
  answer,     \* request -> id of the response it was completed with
  \* the other end
  inflight,   \* connection -> requests the server has and has not answered
  first,      \* connection -> first message written since connect
  faults,     \* connection losses and changes of the clock so far
  lost        \* requests a full queue swallowed

business == <<ready, seqIdx, route, done>>
shared   == <<queue, dataFlag, rsp, startStatus>>
perConn  == <<sending, waiting, nulls, wantWrite, dead>>
close    == <<closing, phase, tries, rounds, resend, lastNull>>
messages == <<age, answer>>
server   == <<inflight, first, faults, lost>>
vars == <<business, shared, perConn, close, messages, server>>

Accepted == {r \in Reqs : route[r] # NoConn}
Queued(c) == Range(queue[c]) \ {HS}
Resending(c) == IF closing = c THEN resend ELSE {}

\* Put and PutPre of a send queue succeed.
RoomOffByOne(c) == Len(queue[c]) <= SendCap
Room(c) == Len(queue[c]) < SendCap

Init ==
  /\ ready = FALSE
  /\ seqIdx = HS
  /\ route = [r \in Reqs |-> NoConn]
  /\ done = {}
  /\ queue = [c \in Conns |-> <<HS>>]
  /\ dataFlag = [c \in Conns |-> TRUE]
  /\ rsp = {}
  /\ startStatus = "Init"
  /\ sending = [c \in Conns |-> NoMsg]
  /\ waiting = [c \in Conns |-> {}]
  /\ nulls = [c \in Conns |-> {}]
  /\ wantWrite = [c \in Conns |-> TRUE]
  /\ dead = {}
  /\ closing = NoConn
  /\ phase = "loop"
  /\ tries = 0
  /\ rounds = 0
  /\ resend = {} /\ lastNull = FALSE
  /\ age = [r \in Reqs |-> 0]
  /\ answer = [r \in Reqs |-> NoMsg]
  /\ inflight = [c \in Conns |-> {}]
  /\ first = [c \in Conns |-> NoMsg]
  /\ faults = 0
  /\ lost = {}

-----------------------------------------------------------------------------
(* The business thread.                                                    *)

\* Neither thread outlives a crash of the process.
Alive == phase # "crashed"

\* GORM_Wrap::Init sees that a handshake succeeded and returns.
InitReturns ==
  /\ Alive /\ ~ready /\ startStatus = "Success"
  /\ ready' = TRUE
  /\ UNCHANGED <<seqIdx, route, done, shared, perConn, close, messages, server>>

\* SendRequest raises the flag SignalCB looks at.
RaiseFlagForgotten(c) == UNCHANGED dataFlag
RaiseFlag(c) == dataFlag' = [dataFlag EXCEPT ![c] = TRUE]

\* A coroutine packs a request and sends it on the connection its id selects.
\* A full queue refuses it; the coroutine gets GORM_NO_MORE_SEND_CHANNEL.
Send(c) ==
  /\ Alive /\ ready /\ seqIdx < MaxId
  /\ seqIdx' = seqIdx + 1
  /\ IF Room(c)
       THEN /\ route' = [route EXCEPT ![seqIdx + 1] = c]
            /\ age' = [age EXCEPT ![seqIdx + 1] = 0]
            /\ queue' = [queue EXCEPT ![c] = Append(@, seqIdx + 1)]
            /\ RaiseFlag(c)
       ELSE UNCHANGED <<route, age, queue, dataFlag>>
  /\ UNCHANGED <<ready, done, rsp, startStatus, perConn, close, answer, server>>

\* OnUpdate takes an answered request and resumes its coroutine, which
\* deletes the message.
OnUpdate ==
  /\ Alive /\ ready
  /\ \E r \in rsp : /\ rsp' = rsp \ {r}
                    /\ done' = done \cup {r}
                    /\ age' = [age EXCEPT ![r] = 0]
  /\ UNCHANGED <<ready, seqIdx, route, queue, dataFlag, startStatus,
                 perConn, close, answer, server>>

-----------------------------------------------------------------------------
(* The loop of the network thread.                                         *)

InLoop == phase = "loop"

\* SignalCB: connections whose flag is set get write interest.  AddEvent does
\* nothing for a connection without a descriptor.
SignalCB ==
  /\ InLoop /\ \E c \in Conns : dataFlag[c]
  /\ dataFlag' = [c \in Conns |-> FALSE]
  /\ wantWrite' = [c \in Conns |-> wantWrite[c] \/ (dataFlag[c] /\ c \notin dead)]
  /\ UNCHANGED <<business, queue, rsp, startStatus, sending, waiting, nulls,
                 dead, close, messages, server>>

\* EPOLLOUT on a connection with nothing to send.
WriteIdle(c) ==
  /\ InLoop /\ c \notin dead /\ wantWrite[c]
  /\ sending[c] = NoMsg /\ queue[c] = <<>>
  /\ wantWrite' = [wantWrite EXCEPT ![c] = FALSE]
  /\ UNCHANGED <<business, shared, sending, waiting, nulls, dead, close,
                 messages, server>>

\* GetNextSendingRequest: the message to write, taken from the queue unless
\* one is half sent.  A request enters the wait map when its sending starts.
TakeNext(c) ==
  IF sending[c] # NoMsg
    THEN UNCHANGED <<queue, waiting, nulls, first>>
    ELSE /\ queue' = [queue EXCEPT ![c] = Tail(@)]
         /\ IF Head(queue[c]) = HS
              THEN UNCHANGED <<waiting, nulls>>
              ELSE /\ waiting' = [waiting EXCEPT ![c] = @ \cup {Head(queue[c])}]
                   /\ nulls' = [nulls EXCEPT ![c] = @ \ {Head(queue[c])}]
         /\ first' = IF first[c] = NoMsg
                       THEN [first EXCEPT ![c] = Head(queue[c])] ELSE first

Current(c) == IF sending[c] # NoMsg THEN sending[c] ELSE Head(queue[c])

HasOutput(c) == sending[c] # NoMsg \/ queue[c] # <<>>

\* The message is out, and sendingRequest is reset.
SentWholeKept(c) == sending' = [sending EXCEPT ![c] = Current(c)]
SentWhole(c) == sending' = [sending EXCEPT ![c] = NoMsg]

\* EPOLLOUT, and write takes the rest of the message: the server has it all.
\* A message that was deleted while half sent need not arrive as a request.
WriteWhole(c) ==
  /\ InLoop /\ c \notin dead /\ wantWrite[c] /\ HasOutput(c)
  /\ TakeNext(c)
  /\ SentWhole(c)
  /\ \/ inflight' = [inflight EXCEPT ![c] = @ \cup {Current(c)}]
     \/ Current(c) \in done /\ UNCHANGED inflight
  /\ UNCHANGED <<business, dataFlag, rsp, startStatus, wantWrite, dead, close,
                 messages, faults, lost>>

\* EPOLLOUT, and write takes a part of the message, or nothing, or fails.
WritePart(c) ==
  /\ InLoop /\ c \notin dead /\ wantWrite[c] /\ HasOutput(c)
  /\ TakeNext(c)
  /\ sending' = [sending EXCEPT ![c] = Current(c)]
  /\ UNCHANGED <<business, dataFlag, rsp, startStatus, wantWrite, dead, close,
                 messages, inflight, faults, lost>>

\* PutResponseToList for the requests of S: those the list has no room for
\* are dropped, since the result of Put is ignored.
PutResponses(S) ==
  \E put \in SUBSET S :
    /\ Cardinality(put) = IF Cardinality(rsp) + Cardinality(S) <= RspCap
                            THEN Cardinality(S) ELSE RspCap - Cardinality(rsp)
    /\ rsp' = rsp \cup put
    /\ lost' = lost \cup (S \ put)

\* The id a response header carries, decoded from 3 bytes.
WireId(r) == r % WireIds

\* EPOLLIN with the whole response to r.  The header carries the id modulo
\* WireIds, and looking up an id that is not waiting leaves a null entry.
ReadResponse(c) ==
  /\ InLoop /\ c \notin dead
  /\ \E r \in inflight[c] : LET cbID == WireId(r) IN
       /\ inflight' = [inflight EXCEPT ![c] = @ \ {r}]
       /\ IF cbID \in waiting[c]
            THEN /\ waiting' = [waiting EXCEPT ![c] = @ \ {cbID}]
                 /\ answer' = [answer EXCEPT ![cbID] = r]
                 /\ PutResponses({cbID})
                 /\ UNCHANGED <<nulls, startStatus>>
            ELSE /\ nulls' = [nulls EXCEPT ![c] = @ \cup {cbID}]
                 /\ startStatus' \in IF r = HS THEN Results
                                               ELSE {startStatus}
                 /\ UNCHANGED <<waiting, answer, rsp, lost>>
  /\ UNCHANGED <<business, queue, dataFlag, sending, wantWrite, dead, close,
                 age, first, faults>>

\* now - requestTMS > TT, in 64 unsigned bits: a stamp that lies ahead of the
\* clock is as far away as can be.
Ages == -1 .. TT + 1
TimedOut(a) == a > TT \/ a < 0

\* NetLoopCheck on the connections of S: null entries are erased, requests
\* older than TT are answered with GORM_REQEUST_TT.
NetLoopCheck(S) ==
  LET expired(c) == {r \in waiting[c] : TimedOut(age[r])} IN
  /\ waiting' = [c \in Conns |-> IF c \in S THEN waiting[c] \ expired(c)
                                            ELSE waiting[c]]
  /\ nulls' = [c \in Conns |-> IF c \in S THEN {} ELSE nulls[c]]
  /\ PutResponses(UNION {expired(c) : c \in S})

LoopCheck ==
  /\ InLoop
  /\ NetLoopCheck(Conns)
  /\ UNCHANGED <<business, queue, dataFlag, startStatus, sending, wantWrite,
                 dead, close, messages, inflight, first, faults>>

-----------------------------------------------------------------------------
(* Close: entered when Read meets the end of the connection.  It keeps the *)
(* network thread until the connection is back or is given up.             *)

ReadClosed(c) ==
  /\ InLoop /\ c \notin dead /\ faults < MaxFaults
  /\ faults' = faults + 1
  /\ closing' = c /\ phase' = "connect"
  /\ wantWrite' = [wantWrite EXCEPT ![c] = FALSE]
  /\ inflight' = [inflight EXCEPT ![c] = {}]
  /\ UNCHANGED <<business, shared, sending, waiting, nulls, dead, tries, rounds,
                 resend, lastNull, messages, first, lost>>

\* Reconnect forgets the half-sent message and the bytes read; then connect
\* fails.  After MaxTries failures the timeouts are checked, and after
\* MaxRounds such rounds Close returns with the connection still closed.
ReconnectFails ==
  /\ phase = "connect"
  /\ sending' = [sending EXCEPT ![closing] = NoMsg]
  /\ IF tries + 1 < MaxTries
       THEN /\ tries' = tries + 1
            /\ UNCHANGED <<waiting, nulls, rsp, lost, rounds, dead, closing, phase>>
       ELSE /\ tries' = 0
            /\ NetLoopCheck({closing})
            /\ IF rounds + 1 < MaxRounds
                 THEN /\ rounds' = rounds + 1
                      /\ UNCHANGED <<dead, closing, phase>>
                 ELSE /\ rounds' = 0
                      /\ dead' = dead \cup {closing}
                      /\ closing' = NoConn /\ phase' = "loop"
  /\ UNCHANGED <<business, queue, dataFlag, startStatus, wantWrite, resend,
                 lastNull, messages, inflight, first, faults>>

\* DoAfterReconnect collects the requests of the wait map and clears it.
CollectWithoutClear ==
  /\ resend' = waiting[closing]
  /\ UNCHANGED <<waiting, nulls>>
ClearWithoutCollect ==
  /\ resend' = {}
  /\ waiting' = [waiting EXCEPT ![closing] = {}]
  /\ nulls' = [nulls EXCEPT ![closing] = {}]
CollectWaiting ==
  /\ resend' = waiting[closing]
  /\ waiting' = [waiting EXCEPT ![closing] = {}]
  /\ nulls' = [nulls EXCEPT ![closing] = {}]

\* Whether the last entry the loop over the wait map sees is a null one: any
\* entry may be the last of an unordered map.
LastIsNull(c) == {FALSE : r \in waiting[c]} \cup {TRUE : i \in nulls[c]}

\* connect succeeds; DoAfterReconnect starts to send the requests of the wait
\* map again, and does nothing at all if the map is empty.
ReconnectOk ==
  /\ phase = "connect"
  /\ sending' = [sending EXCEPT ![closing] = NoMsg]
  /\ wantWrite' = [wantWrite EXCEPT ![closing] = TRUE]
  /\ first' = [first EXCEPT ![closing] = NoMsg]
  /\ IF waiting[closing] = {} /\ nulls[closing] = {}
       THEN /\ closing' = NoConn /\ phase' = "loop"
            /\ UNCHANGED <<waiting, nulls, resend, lastNull, age>>
       ELSE /\ phase' = "resend"
            /\ CollectWaiting
            /\ lastNull' \in LastIsNull(closing)
            /\ age' = [r \in Reqs |-> IF r \in waiting[closing] THEN 0 ELSE age[r]]
            /\ UNCHANGED closing
  /\ tries' = 0 /\ rounds' = 0
  /\ UNCHANGED <<business, shared, dead, answer, inflight, faults,
                 lost>>

\* clientMsgCompare: the order of the resend loop.
CompareAscending(a, b) == a < b
clientMsgCompare(a, b) == a > b

\* PutPre: to the front of the queue.
PutPreAtEnd(c, m) == queue' = [queue EXCEPT ![c] = Append(@, m)]
PutPre(c, m) == queue' = [queue EXCEPT ![c] = <<m>> \o @]

\* One turn of the resend loop: the largest id left goes to the front of the
\* queue, or is forgotten when the queue is full.  Either way the log prints the
\* id of the last entry seen before: where there was no message, this is the end.
RequeueOne ==
  /\ phase = "resend"
  /\ \E r \in resend :
       /\ \A s \in resend \ {r} : clientMsgCompare(r, s)
       /\ resend' = resend \ {r}
       /\ IF Room(closing)
            THEN /\ PutPre(closing, r)
                 /\ UNCHANGED lost
            ELSE /\ lost' = lost \cup {r}
                 /\ UNCHANGED queue
  /\ phase' = IF lastNull THEN "crashed" ELSE phase
  /\ UNCHANGED <<business, dataFlag, rsp, startStatus, perConn, closing,
                 tries, rounds, lastNull, messages, inflight, first, faults>>

\* Nothing follows a crash.
Crashed == ~Alive /\ UNCHANGED vars

\* The resend loop is over: SendHandShakeMsg puts the handshake in front of
\* everything, if the queue has room, and the network loop goes on.
SendHandShakeMsg ==
  /\ phase = "resend" /\ resend = {}
  /\ IF Room(closing)
       THEN /\ PutPre(closing, HS)
            /\ dataFlag' = [dataFlag EXCEPT ![closing] = TRUE]
       ELSE UNCHANGED <<queue, dataFlag>>
  /\ wantWrite' = [wantWrite EXCEPT ![closing] = TRUE]
  /\ closing' = NoConn /\ phase' = "loop" /\ lastNull' = FALSE
  /\ UNCHANGED <<business, rsp, startStatus, sending, waiting, nulls, dead,
                 tries, rounds, resend, messages, server>>

-----------------------------------------------------------------------------
\* Requests whose stamp can still be read.
Stamped == Accepted \ (rsp \cup done \cup lost)

\* The ages there may be when one that was x is now in step[x].
Restamped(step) ==
  {a \in [Reqs -> Ages] : \A r \in Reqs :
     a[r] \in IF r \in Stamped THEN step[age[r]] ELSE {age[r]}}

\* Time passes; a stamp that lies ahead may still do so.
Older == [x \in Ages |-> IF x > TT THEN {x} ELSE IF x < 0 THEN {x, 0} ELSE {x + 1}]
Tick ==
  /\ Alive
  /\ \E r \in Stamped : age[r] <= TT
  /\ age' \in Restamped(Older)
  /\ UNCHANGED <<business, shared, perConn, close, answer, server>>

\* Stamps are of the wall clock (GORM_GetNowMS), which may be set back by d: a
\* request gets younger, or its stamp comes to lie ahead.  How much older than
\* TT one was is not known.
YoungerBy(d) ==
  [x \in Ages |-> IF x > TT THEN x - d .. x ELSE {IF x < d THEN -1 ELSE x - d}]
ClockSetBack ==
  /\ Alive /\ faults < MaxFaults /\ faults' = faults + 1
  /\ \E d \in 1 .. TT + 1 : age' \in Restamped(YoungerBy(d))
  /\ UNCHANGED <<business, shared, perConn, close, answer, inflight, first, lost>>

Next ==
  \/ InitReturns \/ OnUpdate \/ SignalCB \/ LoopCheck \/ Tick \/ ClockSetBack
  \/ ReconnectFails \/ ReconnectOk \/ RequeueOne \/ SendHandShakeMsg
  \/ Crashed
  \/ \E c \in Conns : \/ Send(c) \/ WriteIdle(c) \/ WriteWhole(c)
                      \/ WritePart(c) \/ ReadResponse(c) \/ ReadClosed(c)

Spec == Init /\ [][Next]_vars

\* Fairness of the two threads: the business thread polls Init and calls
\* OnUpdate once per frame, the network thread runs its loop for ever, and
\* time passes.
ThreadsFair ==
  /\ WF_vars(InitReturns) /\ WF_vars(OnUpdate) /\ WF_vars(Tick)
  /\ WF_vars(SignalCB) /\ WF_vars(LoopCheck)
  /\ WF_vars(ReconnectOk \/ ReconnectFails)
  /\ WF_vars(RequeueOne) /\ WF_vars(SendHandShakeMsg)

\* Fairness of the other end: it keeps taking what is written to it.  It need
\* not answer.
ServerFair == \A c \in Conns : WF_vars(WriteWhole(c))

FairSpec == Spec /\ ThreadsFair /\ ServerFair

-----------------------------------------------------------------------------
(* Properties.                                                             *)

\* Every variable keeps its type, and no queue outgrows its capacity.
TypeOK ==
  /\ ready \in BOOLEAN
  /\ seqIdx \in HS .. MaxId \cup {HS}
  /\ route \in [Reqs -> Conns \cup {NoConn}]
  /\ done \subseteq Reqs
  /\ queue \in [Conns -> Seq(Msgs)]
  /\ \A c \in Conns : Len(queue[c]) <= SendCap
  /\ dataFlag \in [Conns -> BOOLEAN]
  /\ rsp \subseteq Reqs
  /\ startStatus \in {"Init", "Success", "VersionFailed"}
  /\ sending \in [Conns -> Msgs \cup {NoMsg}]
  /\ waiting \in [Conns -> SUBSET Reqs]
  /\ nulls \in [Conns -> SUBSET Nat]
  /\ wantWrite \in [Conns -> BOOLEAN]
  /\ dead \subseteq Conns
  /\ closing \in Conns \cup {NoConn}
  /\ phase \in {"loop", "connect", "resend", "crashed"} /\ lastNull \in BOOLEAN
  /\ tries \in Nat /\ rounds \in Nat
  /\ resend \subseteq Reqs
  /\ age \in [Reqs -> Ages]
  /\ answer \in [Reqs -> Msgs \cup {NoMsg}]
  /\ inflight \in [Conns -> SUBSET Msgs]
  /\ first \in [Conns -> Msgs \cup {NoMsg}]
  /\ faults \in Nat
  /\ lost \subseteq Reqs

\* A connection holds a request in its queue, in the list it is about to send
\* again, or in its wait map.
Held(c) == Queued(c) \cup Resending(c) \cup waiting[c]
Finished == rsp \cup done \cup lost

\* No request is in two places, whatever the queue, the reconnection, the
\* timeout check and the answers do to it: were it in two, it would be
\* deleted twice, or sent again after its coroutine was resumed.
OnePlace ==
  /\ \A c \in Conns :
       /\ \A i, j \in DOMAIN queue[c] :
            queue[c][i] = queue[c][j] /\ queue[c][i] # HS => i = j
       /\ Queued(c) \cap waiting[c] = {}
       /\ Queued(c) \cap Resending(c) = {}
       /\ Resending(c) \cap waiting[c] = {}
       /\ Held(c) \cap Finished = {}
  /\ \A c, d \in Conns : c # d => Held(c) \cap Held(d) = {}
  /\ rsp \cap done = {} /\ rsp \cap lost = {} /\ done \cap lost = {}

\* No accepted request is forgotten: it is held by the connection its
\* coroutine was routed to, or finished, or known to have met a full queue.
NoneForgotten ==
  \A c \in Conns : \A r \in Reqs : route[r] = c => r \in Held(c) \cup Finished

\* Requests leave a connection in the order they were made, before and after
\* a reconnection (DoAfterReconnect sorts for that): the queue is ordered by
\* id and everything sent or about to be put back is older than all of it.
SentInOrder ==
  \A c \in Conns :
    /\ \A i, j \in DOMAIN queue[c] :
         i < j /\ queue[c][i] # HS /\ queue[c][j] # HS => queue[c][i] < queue[c][j]
    /\ \A old \in waiting[c] \cup Resending(c) : \A q \in Queued(c) : old < q

\* A handshake that is still queued is the next message to be written, and
\* nothing is half sent or unanswered on its connection.
HandshakeAhead ==
  \A c \in Conns : \A i \in DOMAIN queue[c] :
    queue[c][i] = HS => /\ i = 1 /\ waiting[c] = {} /\ Resending(c) = {}
                        /\ sending[c] = NoMsg

\* What arrives on a connection is younger than all that arrived on it before
\* and is not answered, also than what has timed out since: on a connection no
\* request overtakes an earlier one, those that are sent again among them.
ArrivesLast ==
  \A c \in Conns : \A r \in inflight[c] \ {HS} :
    \A s \in inflight'[c] \ (inflight[c] \cup {HS}) : r < s
ReceivedInOrder == [][ArrivesLast]_vars

\* A message that is half sent has not been answered: only the timeout check
\* can complete it, and hand it back, while Write still uses it.
HalfSentUnanswered ==
  \A c \in Conns : sending[c] \in Reqs => answer[sending[c]] = NoMsg

\* What the server has received on a connection and not answered yet is not
\* sent on that connection again, whatever timeouts and losses of other
\* connections do meanwhile, and its connection waits for the answer unless
\* the request is finished: a request reaches the server a second time only
\* after the loss of a connection, when nobody can tell whether it was executed.
NotSentTwice ==
  \A c \in Conns :
    /\ inflight[c] \cap (Range(queue[c]) \cup Resending(c) \cup {sending[c]}) = {}
    /\ inflight[c] \ {HS} \subseteq waiting[c] \cup Finished

\* Every accepted request comes back to its coroutine, answered or timed
\* out, unless the client gave up on its connection or crashed.
Answered ==
  \A r \in Reqs :
    r \in Accepted ~> r \in done \/ route[r] \in dead \/ ~Alive

\* What has become of a request, as RequestService tells it.
ServiceState ==
  [r \in Reqs |-> IF r \in rsp THEN "completed"
                  ELSE IF r \in done THEN "returned"
                  ELSE IF r \in lost THEN "dropped"
                  ELSE IF \E c \in Conns : r \in Held(c) THEN "pending" ELSE "new"]

Service == INSTANCE RequestService WITH Request <- Reqs, state <- ServiceState

\* The connections implement the promise made to the coroutines: whatever
\* happens to them, a request is completed once and handed back once, and one
\* that is neither is held by a connection.
ServiceSpec == Service!Spec

\* Write interest and flags move as OutputSignal says, with the queue and the
\* half-sent message as the output: none is stranded, also while a connection
\* is made again.  Wakeup implements it too, one access to memory at a time.
Signal == INSTANCE OutputSignal
  WITH pending <- {c \in Conns : HasOutput(c)},
       flag <- {c \in Conns : dataFlag[c]},
       watching <- {c \in Conns : wantWrite[c]},
       away <- closing
SignalSpec == Signal!Spec

\* Statements of the repository's comments that the code does not keep.

\* The first message a server sees on a connection is the handshake: without
\* one it refuses requests (GORM_NEED_HAND_SHAKE).
HandshakeFirst == \A c \in Conns : first[c] \in {NoMsg, HS}

\* A message handed back to the business thread, which frees it, is no longer
\* used by the network thread.
FreedUnused == \A c \in Conns : sending[c] \notin rsp \cup done
=============================================================================
