# A verification of the GORM C++ client

`src/` is the client library of a GORM server: business coroutines send requests
to the server over a few TCP connections and are resumed with the answers. This
directory holds TLA+ models of it, TLC runs of them, and TLAPS proofs.

File references: `CE` = `src/src/gorm_client_event.cc`, `CEH` = `src/include/gorm_client_event.h`,
`CT`/`CTH` = `gorm_client_thread.cc`/`.h`; others by name.

## The system

Two threads. The **business thread** runs the coroutines: each packs a
`GORM_ClientMsg`, sends it and yields; once per frame `GORM_Wrap::OnUpdate` takes
answered messages and resumes their coroutines, which delete them. The **network
thread** runs `GORM_ClientThread::Work`: `epoll_wait`, the events, a timeout check,
a look at a flag.

| Component | State | Operations | Shared with |
|---|---|---|---|
| `GORM_ClientEvent`, one per connection | send queue, half-sent message, map of requests waiting for a response, read buffer, event mask, `dataFlag` | `SendRequest`, `Write`, `Read`, `NetLoopCheck`, `Close` (reconnects, for up to a week, inside the event) | business thread (queue, flag), network thread (the rest) |
| `GORM_SSQueue` | ring, two `uint64` indices, a count, a mutex | `Put`, `PutPre`, `Take`, batch `Take` | both threads |
| `GORM_SignalEvent` and flags | pipe, its flag and mutex, flag of the thread | `Single`, `Read`, `SignalCB` | both threads |
| `GORM_Epoll` / `GORM_Event` | descriptors, event masks, registrations, reported events | wait, dispatch, add and remove interest, close | network thread; numbers of descriptors with the whole process |
| `GORM_ClientThread(Pool)`, `GORM_Wrap` | start status, response list | create the thread, `Init`, `OnUpdate` | both threads |
| `GORM_MemPool` | free lists of size classes, kept descriptors | `GetData`, `ReAlloc`, `Release` | one thread per pool |
| message headers, `GORM_FieldsOpt`, configuration | chars, bit set, settings | encode, decode, add, delete, read | pure data |

Hard behaviours: the lock-free signalling of new requests; a request that moves
between queue, wait map and response list while a connection is lost, made again
or given up, and while its timeout runs out; framing in one moving buffer; indices
that wrap; startup, where two threads communicate by one status word; descriptors whose
numbers are reused while events of a batch are still to be handled; buffers that go
through lists and other hands. PROJECT.json lists them as hazards, each with the line
where it bites.

## The modules

| Module | Models | Properties |
|---|---|---|
| `ClientEvent` | all connections of a client with their requests | 11, and 2 statements of comments the code does not keep (`HandshakeFirst`, `FreedUnused`) |
| `RequestService` | the abstract promise: a request is accepted, completed once, handed back once | implemented by `ClientEvent` |
| `OutputSignal` | the abstract signalling: output, flag and write interest of a connection | implemented by `ClientEvent` and by `Wakeup` |
| `SSQueue` | the ring, with wrapping indices | agreement of the counters |
| `Deque` | the abstract bounded deque | implemented by `SSQueue` |
| `Wakeup` | flags, pipe, mutex and event mask, one step per access, through the loss of connections | no lost wakeup |
| `ReadBuffer` | `Read` and its buffer | framing, and a statement of a comment that fails |
| `ResponseStream` | the abstract stream: responses come out whole, in order, once | implemented by `ReadBuffer` |
| `EventLoop` | the network thread's descriptors, masks and registrations, and the kernel's side of them | masks agree with the kernel, no descriptor leaked or taken |
| `MemPool`, `MCMemPool` | the memory pool, its classes, lists and descriptors | one owner, nothing lost |
| `ClientStart` | the configuration and `GORM_Wrap::Init` against the starting network thread | results of Init |
| `MsgHeader` | the headers of requests and responses, char by char | theorems only |
| `FieldsOpt` | `GORM_FieldsOpt`, the columns of a request | theorems only |
| `ClientEventProofs`, `WakeupProofs`, `SSQueueProofs`, `MemPoolProofs`, `ReadBufferProofs`, `EventLoopProofs`, `ClientStartProofs`, `MessageProofs` | theorems; the last is about `MsgHeader` and `FieldsOpt` | |

How they fit: `ClientEvent` is the whole; each of the others opens one thing that it takes
as given. `SSQueue` is behind its sequence `queue`, `Wakeup` behind its one-step flag,
`ReadBuffer` behind the whole responses of `ReadResponse`, `EventLoop` behind `wantWrite`, `phase`
and the right of a connection to be called, `MsgHeader` behind `WireId`, `ClientStart` before
its first state. `ClientEvent` implements `RequestService`, `SSQueue` implements `Deque` and `ReadBuffer`
implements `ResponseStream` by refinement mappings. `ClientEvent` and `Wakeup` both implement `OutputSignal`: that
is where the flag that one takes for a single step and the accesses to memory and pipe of the other
meet, and what keeps output from being stranded is proved of it alone. `Wakeup` has, besides the signalling, as much
of a connection's loss as changes the flags and masks: the two meet in the blocking `Close`.

**ClientEvent.** A request is its `cbId`; ids are handed out in order (`seqIdx`) and
id `HS` is the handshake, one static object. `queue`, `sending`, `waiting`,
`wantWrite`, `dataFlag` are the members of the connection; `nulls` are the null
entries that `clientWaitRspMsgMap[cbId]` creates for unknown ids, which decide
whether `DoAfterReconnect` does anything, and whether it survives: its resend loop prints the id of
`clientMsg`, the last entry of the map it saw (CE:92, CE:95), and if that is a null one (`lastNull`; any entry may be
the last of an unordered map) the first turn of the loop is the end of the process (`phase` becomes `"crashed"`).
The log macros are of a library that is not in the repository and are taken to evaluate their arguments. Actions of the business thread are
`InitReturns`, `Send`, `OnUpdate`; of the network thread `SignalCB`, `WriteIdle`,
`WriteWhole`, `WritePart`, `ReadResponse`, `LoopCheck`, `ReadClosed`. While `Close`
runs (`phase` is not `"loop"`) only the business thread and the stages of Close
(`ReconnectFails`, `ReconnectOk`, `RequeueOne`, `SendHandShakeMsg`) can move: that is
the blocking of the network thread. The resend loop is one action per turn, since
the business thread may fill the queue between two turns. The server is a set of
whole requests that it may answer in any order, at any time, or never.
`age` is the difference between the clock and a request's stamp. The clock is the wall clock
(`GORM_GetNowMS`), so besides `Tick` there is `ClockSetBack`: a request gets younger, or its stamp
comes to lie ahead (age -1). The code subtracts without sign (CE:219), so `TimedOut` holds of
such a request at once. Losses of connections and changes of the clock are counted together, in `faults`.
The wakeup is coarse here (setting the flag and writing the queue is one step, as in
`OutputSignal`); `Wakeup` does the same in single accesses, and `SSQueue` is what the sequence in `queue` stands for.

**Wakeup.** `PutRequest`, `SetConnFlag`, `SetThreadFlag`, `CheckFlag`, `Lock`, `Recheck`,
`MarkPipe`, `WriteByte` are the accesses of `SendRequest` and `Single` in order; the
network thread's side has as many. Queues are counters (`put`, `sent`). The signal event
copies `sharedSelf`, which may still be null (CT:36); `hasThread` says whether it was, and without it
`ClearPipeFlag` calls no `SignalCB`. The server may close connections (`ReportClosed`): `ReadClosed` is
the event, after which the network thread stays in `Close` until `Reconnect` and `DoAfterReconnect`, which
puts any number of the requests taken back into the queue, or `GiveUp`. Which of them those are
is `ClientEvent`'s business. For `OutputSignal` a flag is up from the step that queues the request,
although the sender raises it one step later (`Raised`), and a connection is watched from the
step that lowers its flag, although its mask changes later, until Write finds nothing (`Watching`).

**SSQueue.** Mutex-protected operations are single actions. Indices live modulo
`IdxMod` (2^64 in the code). A failed Put changes nothing and is no action.

**ReadBuffer.** A byte is its position in the stream, so that a response handed on can be
compared with the one that was sent. `BeginReadNextMsg` moves or reallocates;
`RecvNothing` (0 bytes, also for a length of 0) and `RecvFails` (the server reset the connection) call
`Close`, which with the reconnection behind it is one step. A new buffer's contents are
`NoByte`, and the capacity after a reallocation is the message length (no size
class of the pool is above 1 MB, which is the first capacity). `ToInt` is the assignment of the unsigned
length to the int `needReadLen` (CE:373): from `Half` (2^31) on it is negative, passes both tests and counts as
whole at once, and `OneRspFinishRead` moves the read position backwards. What Read then takes for a response
depends on old bytes, maybe on bytes outside the buffer; the model stops there (`at` is `"astray"`), and its
properties speak of what comes before.

**EventLoop.** `fd`, `status` and `mask` are members of the events; `open`, `reg` and `refused` are the
kernel's: a new descriptor gets the lowest free number, closing one drops its registration,
an ADD of what is registered and a MOD of what is not are refused. `OthersOpen` and
`OthersClose` are the rest of the process, so that the number of a closed connection goes to
somebody else before it reconnects. Which connection has something to read or to send is
a choice. `todo` is the loop of `GORM_ClientThread::Init`, `tries` and `rounds` are the two loops of
`Close`; a reconnection inside a batch of events leaves the rest of the batch (`active`) to
be handled by stored pointers, as in the code. Two assumptions: numbers start above 0
(the code takes 0 for "none"), and the kernel refuses an operation for its state only, never
for lack of memory.

**MemPool.** Each operation is one step, since a pool belongs to one thread. Descriptors
are model values, `data` gives the buffer of each, `free` and `meta` are the two kinds of list, `alive`
those that were allocated and not deleted. Operators on a pool return the pool a call leaves
behind, which is how `ReAlloc` and `Grow` are composed of `Release` and `GetData`. `ReAlloc` compares the
size that is asked for with the size in use, not with the capacity; the model does the same.

**MsgHeader, FieldsOpt.** Operators without state. Chars are signed and an integer stored
into one loses what is above eight bits. A field set is the set of its bits with `used`, the
number of chars in use.

**ClientStart.** `Configure` reads the file: it fails, or the number of connections is clamped.
`StartWork` and `ShareSelf` are the two halves of `StartWork`: the
thread runs before `sharedSelf` is set, and `Crash` is what `GORM_ClientEvent::Init`
does then with the null pointer.

## The runs

| Run | Bounds | Shows |
|---|---|---|
| `ClientEvent_one` | 1 connection, 3 requests, queue of 2, 2 faults, 2x2 reconnect attempts | nine properties with refused sends, failing resends, a full response list, a clock set back, ids cut by the header (4 of them, so that the last request's is), and crashes; 759,346 states |
| `ClientEvent_two` | 2 connections, 2 requests, 1 fault | no response for a half-sent message, and liveness; 466,422 states |
| `SSQueue_ring` | 4 slots, 8 index values, batches of up to 5 | refinement of `Deque`; both indices wrap both ways |
| `Wakeup` | 2 senders, 2 connections, 1 request on each, 1 closing by the server of any of them | safety of signalling, refinement of `OutputSignal`, and delivery, through the loss of connections and with either outcome of the race for `sharedSelf`; 963,568 states |
| `ReadBuffer` | buffer of 6, responses of 2, 5, 7 (larger than the buffer), 9 (too large) and 12 (negative as an int, with `Half` 10), 3 of them, 1 close | refinement of `ResponseStream`; every cut of the stream by recv; 292,605 states |
| `ClientStart` | 3 connections, 4 polls, 2 losses, `conn-num` missing, 0, 2 or 5 | results of Init; 8,854 states |
| `EventLoop` | 2 connections, 5 descriptors beside 0, 2 events per wait, 2x2 attempts | registrations and descriptors, and the return to the wait; 124,384 states |
| `MCMemPool` | 2 users, 5 descriptors, classes of 2 and 4, sizes 2 to 5, lists of 1 | every list is met empty and full, a size above all classes, `ReAlloc` that gets its own buffer back; 3,050 states |

Why the bounds are enough: each limit (queue, list, pipe, buffer, polls, rounds) is
small enough to be reached in the run (the time limit `TT` too: one tick, or none), and each property relates at most two
requests or two connections, two of which are there. The third request of
`ClientEvent_one` is what meets the full queue during a resend. Five descriptors are the three
that the thread always has (epoll and both ends of the pipe) and two more for two
connections, so that one taken by the rest of the process makes `socket` fail. What holds only
within bounds is then proved without them (below).

Runs that expect a violation, each against a comment of the source:

| Run | Statement | What the code does |
|---|---|---|
| `ClientEvent_handshake` | `HandshakeFirst` | after a reconnection with an empty wait map (CE:66) no handshake is sent and a request goes first |
| `ClientEvent_freed` | `FreedUnused` | a request that times out while half sent (CE:222) is handed back and freed while `Write` uses it |
| `SSQueue_uneven` | `DequeSpec` | the send queue's 10240 slots do not divide 2^64: in front of slot 0 comes slot 4095 |
| `ReadBuffer_full` | `ClosedOnlyByServer` | responses that end exactly at the end of the buffer make the next `recv` ask for 0 bytes; the result 0 is read as the end of the connection, which is closed |

Each of the four has a theorem that says what exactly breaks it, by proving the statement without
that (below): `HandshakeLostTwoWays`, `FreedByTimeoutOnly`, `RingIsDequeWhileApart` with
`SlotsClash`, `CloseCauseHolds` with `ShortStreamStaysOpen`.

### Fairness

`ThreadsFair`: the frame loop calls `OnUpdate`, the network thread's loop has no exit
(CT:76), so each of its steps that stays enabled is taken; the clock ticks.
`ServerFair` (the server keeps taking bytes) is not the code's to give: `Answered`
is checked with it. A request in the send queue has no timeout, so behind a server that
reads nothing it waits for ever; nor does anything come back after a crash. The server never has to
answer, nor a connection to succeed. In `Wakeup` the senders and the network
thread are weakly fair, and `Timeout` of `epoll_wait` is not: delivery does not rest on
the 20 ms poll. A reconnection need not succeed; that `Close` ends one way or the other is what
`ComesBack` of `EventLoop` checks. In `EventLoop` the network thread's steps are weakly fair as a whole: it runs
whenever it can, and its attempts to connect may all fail. In `ReadBuffer` strong fairness of `RecvBytes` says that bytes sent do
arrive, while `recv` may find nothing in between. In `ClientStart` connecting need
never end; the caller's polling must go on.

## The proofs

Checked by TLAPS for all values of the constants that satisfy the named assumptions.

- `ClientEventProofs`: `TypesHold`, `OnePlaceHolds`, `NoneForgottenHolds`,
  `SentInOrderHolds`, `HandshakeAheadHolds`, `OutputNoticedHolds`, `NotSentTwiceHolds`,
  `ImplementsService`, `ImplementsSignal`, and those of the list below. One invariant `IndInv` carries them
  all. Besides the properties it says: what a connection holds was routed to it
  (`Routed`); ids above `seqIdx` are nowhere (`IdsHandedOut`); what is finished is finished
  in one way and held nowhere (`FinishedOnce`); which variables each stage of Close leaves
  empty (`CloseStages`: in particular the wait map is empty while the resend list is
  not); a handshake is queued once (`HandshakeFresh`). `OnePlace` is not inductive alone:
  that the request put back is not in the queue already needs the stages of Close,
  and that two connections never hold one request needs the route. The order of
  the queue needs that everything to be put back is older than all that is queued.
  Each action has a lemma; the timeout check and the answers share
  `CompletionPreserves`. The refinement maps a request to its place; `StateIsOutcome`
  shows under `IndInv` that "held" is "accepted and not finished". `NotSentTwice` needs besides
  that what the server has and what is half sent differ, and are waited for or finished
  (`SentKnown`).
  - Answers: requests from the `WireIds`-th on are never answered (`LateUnansweredHolds`). The others
    have their own answer, as long as `IdsClose` holds: while a request waits, fewer than `WireIds` (2^24) ids are
    handed out before one the server has on the same connection (`OwnAnswerHolds`). Without that, a request
    that waits with id r is completed by the response to r + `WireIds`.
  - Half-sent messages, as long as `IdsClose` holds: no response completes one (`HalfSentUnansweredHolds`), since it is
    not among what the server has and what is queued is not finished. If moreover no half-sent request
    times out, `Write` uses no message that was handed back (`FreedByTimeoutOnly`; its invariant is that a half-sent
    request is still waited for). This is about `Write`: `PutResponseToList` reads `cbId` and `requestTMS` of every
    request for the log after it put it on the list (CE:241), where the business thread may already have it; no property covers that.
  - Crash: `DoAfterReconnect` crashes the client only if a reconnection finds a null entry beside a waiting
    request (`CrashByNullEntryOnly`).
  - Order: on a connection the server receives requests oldest first, those sent again among them
    (`ReceivedInOrderHolds`). `SentInOrder` does not give it, since a request that timed out is in no wait map
    any longer; `SentAhead` says that all the server has, and then what is half sent, is older than
    what is queued.
  - Progress: on a connection that Close is not working on, a queued request keeps its place or comes
    closer to the head, and what is waited for stays so until it is finished (`OnTheWayHolds`): later requests, the
    timeout check and losses of other connections set nothing back.
  - Handshake: with every reconnection finding something in the wait map, and room in the queue
    for the handshake (`HandshakeDue`), `HandshakeFirst` holds (`HandshakeLostTwoWays`).
  - Signalling: `ImplementsSignal` maps the queue and the half-sent message to output, and Close to
    the steps in which its connection is away.
- `WakeupProofs`: `TypesHold`, `OneByteHolds`, `FlagTellsTruthHolds`, `NoLostWakeupHolds`, for any
  number of senders, connections and losses. The strengthening is `QueueWatched`: whenever a
  queue has a request, its connection is watched for writing or about to be (`Watched`), or its
  flag is up, or about to be, and somebody will look at it (`Flagged`, `Alarm`). Since the signal
  event may never call `SignalCB`, the alarm is the flag of the thread, with the thread bound to
  come to its check before it sleeps (`Awake`). The mutex clause (`MutexHeld`) is what makes at
  most one byte be written. `ImplementsSignal` needs besides what the network thread knows of the
  connection it works on (`Known`): a flag that SignalCB saw is up until it is lowered, what was
  reported is watched. `NoneStrandedHolds` then follows from `OutputSignal` alone: output is watched
  or its flag is up. `TurnEndsHolds`: each step of the network thread brings it closer to its wait, and
  no sender gives it more to do, in the lexicographic order of closed connections left, events left,
  place in the loop, connections SignalCB has left.
- `SSQueueProofs`: `IndicesAgreeHolds` for every size, and `RingIsDeque`: if the size divides
  the number of index values, the ring implements the deque. The lemmas below are
  about remainders (`ModMod`, `ModDiffers`, `PlusPlus`, `SlotsDiffer`): that two places closer
  than the ring is long are different slots is what breaks in `SSQueue_uneven`. How much of it breaks
  is `RingIsDequeWhileApart`, for every size: the ring is a deque as long as `Apart` holds of the
  read index and the count, that is, the items do not lie across the wrap of the index or are at most
  `IdxMod % TOTALNUM`; where that fails two places share a slot (`SlotsClash`). For the send queue this
  is 4096 of 10240, so it is a deque with up to 4096 messages (`ShortRingIsDeque`) or away from the wrap, which it comes
  to when `PutPre` takes the index below 0.

- `MemPoolProofs`: `TypesHold`, `OneOwnerHolds`, `NothingLostHolds`, `ListedWholeHolds`, `FitsHolds`, for any
  users, descriptors, classes and limits. The invariant is `Sound(p, H)`, what a pool `p` keeps
  while the descriptors `H` are in use: lists without repetition that share nothing with each
  other or with `H`, whole buffers in the lists, bare descriptors among those kept.
  Each call takes one sound pool to another with the set in use changed by what it
  hands out or takes back, so a composed call (`ReAlloc`, `Grow`) needs no invariant of its own;
  `StepSound` collects them.
- `ReadBufferProofs`: `TypesHold`, `InStepHolds`, `RoomForRestHolds`, `NothingLeftBehindHolds`, and
  `StreamSpecHolds`: for every buffer size, limit and set of lengths `ReadBuffer` implements
  `ResponseStream` until a length becomes negative. That takes a response of 2^31 bytes or more
  (`AstrayCauseHolds`); if there is none, it implements `ResponseStream` without exception (`ReadsTheStream`), also
  when responses are refused as too long. `InStep` is not inductive: one must know that a length that was read is that of
  the next response (`Begun`), that a position where a response starts belongs to one response
  only (`Increasing`), and that outside the parsing loop there is less than a response (`Parsed`).
  `CloseCauseHolds`: the client closes a connection that the server keeps open in two cases only, both
  with a buffer full to its last byte: at most a length's bytes of a next response in it, or a
  response that was refused. Before a first buffer has been sent neither can be
  (`ShortStreamStaysOpen`).
- `EventLoopProofs`: `TypesHold`, `MaskIsRegistrationHolds`, `InterestAcceptedHolds`, `ListeningHolds`,
  `NoLeakHolds`, `OwnDescriptorsHolds`, for any number of connections, descriptors and attempts. The
  invariant says what each `phase` leaves open: a connection is `Alive` or `Off`, but for the one
  being connected (`Stage`, `Settled`), and what the signal event has by then (`SignalStage`).
  `TurnEndsHolds`: the start, a batch of events and every Close end, since each step of the network
  thread leaves less to do, and nobody else adds to it: connections to start, events, bits of the
  present event, stages, rounds, attempts, in this lexicographic order.
- `ClientStartProofs`: `TypesHold`, `OkMeansRunningHolds`, `FailureToldHolds`. The status tells where the
  thread is (`StatusTells`), and once Init has returned its result still does (`ResultTells`).
- `MessageProofs`, on `MsgHeader`: a length arrives as it was sent (`LengthArrives`); an id arrives
  modulo 2^24 (`IdArrives`: what `WireIds` of `ClientEvent` stands for); filling in the id of a packed
  request leaves the rest (`SeqIdOnly`); the command of a response is never 1001 (`NoUpgradeCommand`:
  the upgrade branch is dead, so no module has an action for it). They rest on one lemma on
  chars (`CharBits`) and one on remainders (`Digits`).
  On `FieldsOpt`: the two ways of reading a set agree (`SameFields`); what is filled with
  `AddField`, and deleted only when it is there, is read completely (`WholeIsSent`, `WholeKept`). The
  others say what the code does where it does less: `AddField(iIdx, iMode)` counts one char
  too few (`ModeFallsShort`), a copy does not know its length (`CopyCuts`), deleting an absent
  column adds it (`DelFlips`), assignment stops at the first empty char (`AssignStops`).

Only model-checked: liveness (`Answered`, `Delivered`, `EveryResponse`, `InitReturns`, `ComesBack`), since the
prover does not do fairness. The safety half of `ComesBack` is proved, and of `Delivered` as far as the network thread goes: under `TurnEndsHolds` the network
thread can only fail to come back by not being run (with finitely many connections its order has no
infinite descent). Of `Answered`, `OnTheWayHolds` is a part. Every safety property and every refinement of a passing run is also proved, `DequeSpec` and
`HalfSentUnanswered` under the conditions named above.

## Not modelled

Stop: it is unreachable, as the pool and its thread hold a shared pointer to each other
(`gorm_thread_pool.cc`) and the wrapper's own Stop is empty. The upgrade command, which cannot
be received (`NoUpgradeCommand`). Requests that want no callback (`needCBFlag`): every request
of `ClientEvent` wants one. Dead code: batch `OnUpdate`, the multi-threaded send channels, `ConnectCheck`,
`DoSendv`, `CreateAndListen`. Windows; the hash function, which nothing calls; logging, error texts,
YAML itself, the code generator and generated code; the coroutine manager, which is not in
the repository. The pool of message objects (`GORM_Queue`) and the reuse of a message: who takes
messages from it, gives them back and resets them is generated code; the ring itself is `SSQueue`'s
`Put` and `Take` without their lock. Memory that the kernel refuses to `epoll_ctl`, descriptor 0, and
negative coroutine ids are hazards without a model, each with its reason in PROJECT.json.

Facts met on the way that have no run: `request-tt` and `main` of the configuration are
read and never used (`gorm_client_conf.cc`; CE:219 has 3000 ms fixed); `coid_ % connNum` is
negative for a negative id (CTH:31); a full response list drops the answer (CE:237); once ids
pass 2^24 a response does not find its request, which then times out (`IdArrives`); the
result of `epoll_ctl` is ignored by all callers but the signal event; a reconnection that finds a waiting
request in the wait map and sees a null entry last crashes the client (CE:92, CE:95); `PutResponseToList` reads a request it
has already given away (CE:241); a response of 2^31 bytes or more passes for a small one (CE:373).

## Plan

In this order, most important first; (done) marks what exists.

1. `ClientEvent` with `RequestService`, `SSQueue` with `Deque`, `Wakeup`, `ReadBuffer`,
   `ClientStart` (done), and the proofs above (done).
2. `MemPool` with its proofs, `EventLoop`, `MsgHeader` and `FieldsOpt` with theirs (done).
3. `ReadBufferProofs` with `ResponseStream`, `EventLoopProofs`, `ClientStartProofs` (done).
4. Composition: connection losses inside `Wakeup`, a changing clock inside `ClientEvent`, and
   `OutputSignal`, which both implement (done).
5. What exactly breaks the four statements that fail, and the ends of the network thread's turns,
   as theorems (done).
6. A reading of `epoll_ctl` that may fail for memory, in `EventLoop`: `Listening` then fails, as the
   code ignores the result; worth a run once the code handles it.
7. Left: a measure for the whole way of a request, from its acceptance to its completion, over all
   connections and the attempts of Close: `OnTheWay` and `TurnEnds` are its parts. With it only
   fairness would be left of `Answered`.
