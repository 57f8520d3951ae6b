-------------------------- MODULE ClientStartProofs --------------------------
(***************************************************************************)
(* Proofs about ClientStart, for any number of connections, polls and      *)
(* losses: what Init of the client returns is true of its thread.          *)
(***************************************************************************)
EXTENDS ClientStart, TLAPS

-----------------------------------------------------------------------------
(* The inductive invariant.                                                *)

Made(c) == shake[c] # "none"

\* The status that the thread leaves tells where the thread is.
StatusTells ==
  /\ mainAt \in {"config", "create"} => threadAt = "none"
  /\ threadAt = "none" => mainAt \in {"config", "create", "returned"}
  /\ threadAt \notin {"none", "ended"} /\ ~sharedSelf => mainAt = "share"
  /\ mainAt = "gone" => threadAt = "ended"
  /\ threadAt = "loop" => \A c \in Opened : Made(c)
  /\ startStatus \in {"Success", "VersionFailed"} => threadAt = "loop"
  /\ threadAt = "ended" /\ mainAt # "gone" => startStatus = "Failed"
  /\ startStatus = "Failed" => threadAt = "ended"

\* What Init has returned was taken from the status, which then stays.
ResultTells ==
  /\ mainAt = "returned" <=> result # NoResult
  /\ result = "Ok" => threadAt = "loop"
  /\ result = "Error" => threadAt = "none"
  /\ mainAt = "returned" /\ polls < MaxPolls /\ result # "ConnFailed"
       => threadAt \in {"none", "loop"}

\* The polls are counted while Init polls.
PollsBelow == mainAt # "returned" => polls < MaxPolls

IndInv == TypeOK /\ StatusTells /\ ResultTells /\ PollsBelow

-----------------------------------------------------------------------------

LEMMA Numbers ==
  MaxPolls \in Nat /\ MaxPolls > 0 /\ MaxLosses \in Nat /\ GORM_MAX_CONN_NUM \in Nat \ {0}
BY StartAssumption

\* The number of connections of a file fits into the list of them.
LEMMA ClampFits == \A n \in Int : Clamp(n) \in Conns
BY Numbers DEF Clamp, Conns

LEMMA InitInv == Init => IndInv
<1> USE Numbers DEF Init
<1>1. Init => TypeOK
  <2> SUFFICES ASSUME Init PROVE TypeOK
    OBVIOUS
  <2>1. shake \in [Conns -> Stages]
    BY DEF Stages
  <2>2. connNum \in Conns /\ polls \in 0 .. MaxPolls /\ losses \in 0 .. MaxLosses
    BY DEF Conns
  <2>3. QED  BY <2>1, <2>2 DEF TypeOK
<1>2. Init => StatusTells /\ ResultTells /\ PollsBelow
  BY DEF StatusTells, ResultTells, PollsBelow, NoResult
<1>3. QED  BY <1>1, <1>2 DEF IndInv

LEMMA TypeStep == ASSUME TypeOK, PollsBelow, [Next]_vars PROVE TypeOK'
<1> USE Numbers DEF TypeOK
<1>1. ASSUME NEW file \in Files, Configure(file) PROVE TypeOK'
  <2>1. \A n \in file.connNums : Clamp(n) \in Conns
    <3>1. file.connNums \subseteq Int
      BY StartAssumption DEF Files
    <3>2. QED  BY <3>1, ClampFits
  <2>2. connNum' \in Conns
    BY <1>1, <2>1 DEF Configure
  <2>3. QED  BY <1>1, <2>2 DEF Configure, Returns, thread
<1>2. CASE StartWork \/ ShareSelf \/ InitThread \/ EnterLoop
  BY <1>2 DEF StartWork, ShareSelf, InitThread, EnterLoop, Returns, caller, thread
<1>3. CASE Poll
  <2>1. Result(startStatus) \in {"Ok", "ConnFailed", "VersionNotMatch"} \/ startStatus = "Init"
    BY DEF Result
  <2>2. polls' \in 0 .. MaxPolls
    BY <1>3 DEF Poll, Returns, PollsBelow
  <2>3. QED  BY <1>3, <2>1, <2>2 DEF Poll, Returns, thread
<1>4. ASSUME NEW c \in Opened,
             Connect(c) \/ ConnectFails(c) \/ WriteHandShake(c) \/ HandShakeResult(c) \/ Lose(c)
      PROVE  TypeOK'
  <2>1. shake' \in [Conns -> Stages]
    BY <1>4 DEF Connect, ConnectFails, WriteHandShake, HandShakeResult, Lose, Crash, Stages
  <2>2. losses' \in 0 .. MaxLosses
    BY <1>4 DEF Connect, ConnectFails, WriteHandShake, HandShakeResult, Lose, Crash
  <2>3. QED
    BY <1>4, <2>1, <2>2
       DEF Connect, ConnectFails, WriteHandShake, HandShakeResult, Lose, Crash, caller
<1>5. CASE UNCHANGED vars
  BY <1>5 DEF vars, caller, thread
<1>6. QED  BY <1>1, <1>2, <1>3, <1>4, <1>5 DEF Next

LEMMA NextInv == IndInv /\ [Next]_vars => IndInv'
<1> SUFFICES ASSUME IndInv, [Next]_vars PROVE IndInv'
  OBVIOUS
<1>1. TypeOK'
  BY TypeStep DEF IndInv
<1> USE Numbers DEF IndInv
<1>2. StatusTells' /\ ResultTells' /\ PollsBelow'
  <2> USE DEF StatusTells, ResultTells, PollsBelow, Opened, Made, NoResult
  <2>1. ASSUME NEW file \in Files, Configure(file)
        PROVE  StatusTells' /\ ResultTells' /\ PollsBelow'
    BY <2>1 DEF Configure, Returns, thread, TypeOK
  <2>2. CASE StartWork
    BY <2>2 DEF StartWork, Returns, TypeOK
  <2>3. CASE ShareSelf
    BY <2>3 DEF ShareSelf, thread, TypeOK
  <2>4. CASE Poll
    <3>1. CASE startStatus # "Init"
      <4>1. /\ mainAt = "poll" /\ mainAt' = "returned" /\ result' = Result(startStatus)
            /\ UNCHANGED <<polls, connNum, sharedSelf, thread>>
        BY <2>4, <3>1 DEF Poll, Returns
      <4>2. CASE startStatus = "Failed"
        BY <4>1, <4>2 DEF Result, thread
      <4>3. CASE startStatus = "Success"
        BY <4>1, <4>3 DEF Result, thread
      <4>4. CASE startStatus = "VersionFailed"
        BY <4>1, <4>4 DEF Result, thread
      <4>5. QED  BY <3>1, <4>2, <4>3, <4>4 DEF TypeOK
    <3>2. CASE startStatus = "Init"
      BY <2>4, <3>2 DEF Poll, Returns, thread, TypeOK
    <3>3. QED  BY <3>1, <3>2
  <2>5. CASE InitThread
    BY <2>5 DEF InitThread, caller, TypeOK
  <2>6. CASE EnterLoop
    BY <2>6 DEF EnterLoop, caller, TypeOK
  <2>7. ASSUME NEW c \in Opened,
               Connect(c) \/ ConnectFails(c) \/ WriteHandShake(c) \/ HandShakeResult(c) \/ Lose(c)
        PROVE  StatusTells' /\ ResultTells' /\ PollsBelow'
    <3>1. CASE Connect(c)
      BY <2>7, <3>1 DEF Connect, Crash, caller, TypeOK
    <3>2. CASE ConnectFails(c)
      BY <2>7, <3>2 DEF ConnectFails, Crash, caller, TypeOK
    <3>3. CASE WriteHandShake(c) \/ HandShakeResult(c) \/ Lose(c)
      <4>1. /\ threadAt = "loop" /\ UNCHANGED <<caller, connNum, sharedSelf, threadAt>>
            /\ startStatus' \in {startStatus, "Success", "VersionFailed"}
        BY <3>3 DEF WriteHandShake, HandShakeResult, Lose
      <4>2. PICK stage \in Stages \ {"none"} : shake' = [shake EXCEPT ![c] = stage]
        BY <3>3 DEF WriteHandShake, HandShakeResult, Lose, Stages
      <4>3. \A d \in Opened : d \in Conns /\ shake[d] # "none"
        BY <4>1 DEF TypeOK, Conns
      <4>4. \A d \in Opened : shake'[d] # "none"
        BY <4>2, <4>3 DEF TypeOK
      <4>5. QED  BY <4>1, <4>4 DEF caller
    <3>4. QED  BY <2>7, <3>1, <3>2, <3>3
  <2>8. CASE UNCHANGED vars
    BY <2>8 DEF vars, caller, thread
  <2>9. QED  BY <2>1, <2>2, <2>3, <2>4, <2>5, <2>6, <2>7, <2>8 DEF Next
<1>3. QED  BY <1>1, <1>2

LEMMA SpecInv == Spec => []IndInv
BY InitInv, NextInv, PTL DEF Spec

\* Types of the start of the client, for any number of connections.
THEOREM TypesHold == Spec => []TypeOK
BY SpecInv, PTL DEF IndInv

\* Success means that the network thread is in its loop, with every
\* connection made.
THEOREM OkMeansRunningHolds == Spec => []OkMeansRunning
<1>1. IndInv => OkMeansRunning
  BY DEF IndInv, StatusTells, ResultTells, OkMeansRunning, Made
<1>2. QED  BY <1>1, SpecInv, PTL

\* A thread that ended is told as a failed connection, unless Init had
\* stopped polling.
THEOREM FailureToldHolds == Spec => []FailureTold
<1>1. IndInv => FailureTold
  BY DEF IndInv, ResultTells, FailureTold
<1>2. QED  BY <1>1, SpecInv, PTL
=============================================================================
