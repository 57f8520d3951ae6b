------------------------------ MODULE ClientStart ------------------------------
(***************************************************************************)
(* How a client starts: GORM_Wrap::Init (src/src/gorm_wrap.cc) reads the   *)
(* configuration (gorm_client_conf.cc), creates the network thread and     *)
(* polls its start status, while the thread connects (gorm_client_thread.  *)
(* cc) and the answers to the handshakes decide the status                 *)
(* (gorm_client_event.cc).                                                 *)
(***************************************************************************)
EXTENDS Integers

CONSTANTS
  GORM_MAX_CONN_NUM,   \* most connections of a client (128)
  ConnNums,   \* values a file may give conn-num
  MaxPolls,   \* polls of Init (60 * 100)
  MaxLosses   \* connections lost before their handshake is answered (bound)

ASSUME StartAssumption ==
  /\ {MaxPolls, MaxLosses} \subseteq Nat /\ MaxPolls > 0
  /\ GORM_MAX_CONN_NUM \in Nat \ {0} /\ ConnNums \subseteq Int

VARIABLES
  mainAt,       \* calling thread: "config", "create", "share", "poll",
                \* "returned", "gone"
  polls,        \* i of the polling loop
  result,       \* what Init returned
  connNum,      \* connections to open
  sharedSelf,   \* StartWork has set sharedSelf of the thread
  threadAt,     \* network thread: "none", "init", "connect", "loop", "ended"
  startStatus,
  shake,        \* connection -> its handshake
  losses        \* connections lost so far

caller == <<mainAt, polls, result>>
thread == <<threadAt, startStatus, shake, losses>>
vars == <<caller, connNum, sharedSelf, thread>>

NoResult == "none"
Conns == 1 .. GORM_MAX_CONN_NUM     \* clientList
Opened == 1 .. connNum

\* Where a handshake is: not made, in the send queue, written, answered, or
\* gone with the connection it was written to.
Stages == {"none", "queued", "written", "accepted", "refused", "gone"}

Init ==
  /\ mainAt = "config" /\ polls = 0 /\ result = NoResult
  /\ connNum = GORM_MAX_CONN_NUM /\ sharedSelf = FALSE
  /\ threadAt = "none" /\ startStatus = "Init"
  /\ shake = [c \in Conns |-> "none"]
  /\ losses = 0

-----------------------------------------------------------------------------
(* The calling thread.                                                     *)

Returns(r) == mainAt' = "returned" /\ result' = r

\* The configuration file: whether it can be parsed, its list of servers, and
\* its conn-num if it has one.
Files == [parsed : BOOLEAN, servers : {"none", "incomplete", "complete"},
          connNums : {{}} \cup {{n} : n \in ConnNums}]

ClampZeroPasses(n) == IF n > GORM_MAX_CONN_NUM THEN GORM_MAX_CONN_NUM ELSE n
Clamp(n) ==
  IF n <= 0 THEN 1 ELSE IF n > GORM_MAX_CONN_NUM THEN GORM_MAX_CONN_NUM ELSE n

\* GORM_ClientConfig::Init wants at least one server, each with its host and
\* port, and keeps the number of connections within the list of them.
Configure(file) ==
  /\ mainAt = "config"
  /\ IF ~file.parsed \/ file.servers # "complete"
       THEN Returns("Error") /\ UNCHANGED connNum
       ELSE /\ mainAt' = "create" /\ UNCHANGED result
            /\ connNum' \in IF file.connNums = {} THEN {connNum}
                                                ELSE {Clamp(n) : n \in file.connNums}
  /\ UNCHANGED <<polls, sharedSelf, thread>>

\* StartWork creates the system thread, which runs from here on, or cannot
\* create it, ...
StartWork ==
  /\ mainAt = "create"
  /\ \/ mainAt' = "share" /\ threadAt' = "init" /\ UNCHANGED result
     \/ Returns("Error") /\ UNCHANGED threadAt
  /\ UNCHANGED <<polls, connNum, sharedSelf, startStatus, shake, losses>>

\* ... and then tells the thread object who it is.
ShareSelf ==
  /\ mainAt = "share" /\ mainAt' = "poll"
  /\ sharedSelf' = TRUE
  /\ UNCHANGED <<polls, result, connNum, thread>>

\* What Init returns for a status other than Init.
ResultForgetsFailed(status) ==
  IF status = "VersionFailed" THEN "VersionNotMatch" ELSE "Ok"
Result(status) ==
  CASE status = "Failed" -> "ConnFailed"
    [] status = "VersionFailed" -> "VersionNotMatch"
    [] status = "Success" -> "Ok"

\* One turn of the polling loop.  After the last one a status that is still
\* Init is reported as GORM_VERSION_NOT_MATCH.
PollForEver ==
  /\ mainAt = "poll"
  /\ IF startStatus = "Init" THEN UNCHANGED <<mainAt, result>>
                             ELSE Returns(Result(startStatus))
  /\ UNCHANGED <<polls, connNum, sharedSelf, thread>>
PollOnceMore ==
  /\ mainAt = "poll"
  /\ IF startStatus # "Init"
       THEN Returns(Result(startStatus)) /\ UNCHANGED polls
       ELSE /\ polls' = polls + 1
            /\ IF polls = MaxPolls THEN Returns("VersionNotMatch")
                                   ELSE UNCHANGED <<mainAt, result>>
  /\ UNCHANGED <<connNum, sharedSelf, thread>>
Poll ==
  /\ mainAt = "poll"
  /\ IF startStatus # "Init"
       THEN Returns(Result(startStatus)) /\ UNCHANGED polls
       ELSE /\ polls' = polls + 1
            /\ IF polls' = MaxPolls THEN Returns("VersionNotMatch")
                                    ELSE UNCHANGED <<mainAt, result>>
  /\ UNCHANGED <<connNum, sharedSelf, thread>>

-----------------------------------------------------------------------------
(* The network thread.                                                     *)

\* Init creates the epoll and the signal event, or fails.
InitThread ==
  /\ threadAt = "init"
  /\ \/ threadAt' = "connect" /\ UNCHANGED startStatus
     \/ threadAt' = "ended" /\ startStatus' = "Failed"
  /\ UNCHANGED <<caller, connNum, sharedSelf, shake, losses>>

\* The next connection is made and its handshake queued.  GORM_ClientEvent::
\* Init takes its buffer from the pool of sharedSelf, which is a null pointer
\* as long as the caller has not set it: the process dies.
Crash ==
  /\ mainAt' = "gone" /\ threadAt' = "ended"
  /\ UNCHANGED <<polls, result, connNum, sharedSelf, startStatus, shake, losses>>

Connect(c) ==
  /\ threadAt = "connect" /\ shake[c] = "none"
  /\ IF ~sharedSelf
       THEN Crash
       ELSE /\ shake' = [shake EXCEPT ![c] = "queued"]
            /\ UNCHANGED <<caller, connNum, sharedSelf, threadAt, startStatus, losses>>

\* A connection cannot be made: Work sets the status and returns.
ConnectFailsButRuns(c) ==
  /\ threadAt = "connect" /\ shake[c] = "none"
  /\ IF ~sharedSelf THEN Crash
       ELSE threadAt' = "loop" /\ UNCHANGED <<caller, connNum, sharedSelf, startStatus, shake, losses>>
ConnectFails(c) ==
  /\ threadAt = "connect" /\ shake[c] = "none"
  /\ IF ~sharedSelf
       THEN Crash
       ELSE /\ threadAt' = "ended" /\ startStatus' = "Failed"
            /\ UNCHANGED <<caller, connNum, sharedSelf, shake, losses>>

\* Every connection is made: Work enters its loop.
EnterLoop ==
  /\ threadAt = "connect" /\ \A c \in Opened : shake[c] # "none"
  /\ threadAt' = "loop"
  /\ UNCHANGED <<caller, connNum, sharedSelf, startStatus, shake, losses>>

WriteHandShake(c) ==
  /\ threadAt = "loop" /\ shake[c] = "queued"
  /\ shake' = [shake EXCEPT ![c] = "written"]
  /\ UNCHANGED <<caller, connNum, sharedSelf, threadAt, startStatus, losses>>

\* HandShakeResult: each answer overwrites the status.
HandShakeResult(c) ==
  /\ threadAt = "loop" /\ shake[c] = "written"
  /\ \/ /\ startStatus' = "Success"
        /\ shake' = [shake EXCEPT ![c] = "accepted"]
     \/ /\ startStatus' = "VersionFailed"
        /\ shake' = [shake EXCEPT ![c] = "refused"]
  /\ UNCHANGED <<caller, connNum, sharedSelf, threadAt, losses>>

\* A connection is lost and made again.  DoAfterReconnect repeats the
\* handshake only if the wait map is not empty: no request waits yet, but the
\* answer to a handshake leaves a null entry until the next LoopCheck.  A
\* handshake that was written and not answered is not repeated.
Lose(c) ==
  /\ threadAt = "loop" /\ losses < MaxLosses
  /\ losses' = losses + 1
  /\ \E stage \in {"queued", "gone"} :
       /\ stage = "queued" => shake[c] \in {"queued", "accepted", "refused"}
       /\ stage = "gone" => shake[c] # "queued"
       /\ shake' = [shake EXCEPT ![c] = stage]
  /\ UNCHANGED <<caller, connNum, sharedSelf, threadAt, startStatus>>

Next ==
  \/ StartWork \/ ShareSelf \/ Poll \/ InitThread \/ EnterLoop
  \/ \E file \in Files : Configure(file)
  \/ \E c \in Opened : \/ Connect(c) \/ ConnectFails(c) \/ WriteHandShake(c)
                      \/ HandShakeResult(c) \/ Lose(c)

Spec == Init /\ [][Next]_vars

\* The calling thread keeps running, and so does the loop of the network
\* thread; connecting may take for ever.
FairSpec ==
  /\ Spec
  /\ WF_vars(\E file \in Files : Configure(file)) /\ WF_vars(StartWork)
  /\ WF_vars(ShareSelf) /\ WF_vars(Poll)
  /\ \A c \in Conns : WF_vars(c \in Opened /\ WriteHandShake(c))

-----------------------------------------------------------------------------
(* Properties.                                                             *)

TypeOK ==
  /\ mainAt \in {"config", "create", "share", "poll", "returned", "gone"}
  /\ polls \in 0 .. MaxPolls
  /\ result \in {NoResult, "Ok", "Error", "ConnFailed", "VersionNotMatch"}
  /\ connNum \in Conns /\ sharedSelf \in BOOLEAN
  /\ threadAt \in {"none", "init", "connect", "loop", "ended"}
  /\ startStatus \in {"Init", "Failed", "Success", "VersionFailed"}
  /\ shake \in [Conns -> Stages] /\ losses \in 0 .. MaxLosses

\* When Init returns success the network thread is in its loop and every
\* connection has been made and has had its handshake queued, although Init
\* sees the status only, which any connection sets: requests can be sent.
OkMeansRunning ==
  result = "Ok" => threadAt = "loop" /\ \A c \in Opened : shake[c] # "none"

\* A failed connection is told: Init returns GORM_CONN_FAILED for a thread
\* that ended, unless it had stopped polling before.
FailureTold ==
  mainAt = "returned" /\ threadAt = "ended" /\ polls < MaxPolls =>
    result = "ConnFailed"

\* Init comes back in bounded time, whatever the server does, unless the
\* process dies.
InitReturns == <>(mainAt \in {"returned", "gone"})
=============================================================================
