----------------------------- MODULE WakeupProofs -----------------------------
(***************************************************************************)
(* Proofs about Wakeup, for any number of business threads and             *)
(* connections: one byte at most, a truthful flag, and no lost wakeup.     *)
(***************************************************************************)
EXTENDS Wakeup, TLAPS

\* One sender is inside the mutex, and it found the flag of the pipe clear.
MutexHeld ==
  /\ \A s \in Senders : spc[s] \in {"recheck", "mark", "write"} <=> s \in mtx
  /\ \A s, t \in mtx : s = t
  /\ \A s \in Senders : spc[s] = "mark" => ~ pipeFlag

\* A reported pipe has its byte, and a drained one gets none until its flag
\* is clear.  A connection is read once in a batch of events.
DrainedOnce ==
  /\ Pipe \in active => pipe > 0
  /\ npc = "clearPipeFlag" => pipe = 0 /\ \A s \in Senders : spc[s] # "write"
  /\ npc = "connect" => now \notin closed

\* The network thread watches c for writing and is not about to stop, or is
\* about to start, be it by a new connection.
Watched(c) ==
  \/ c \in wantWrite /\ ~ (npc = "delWrite" /\ now = c)
  \/ npc \in {"addWrite", "connect"} /\ now = c

\* The network thread will come to the check of threadFlag in Work before it
\* sleeps with nothing in the pipe.
Awake ==
  \/ pipe > 0 \/ \E s \in Senders : spc[s] # "idle"
  \/ npc \in {"events", "clearPipeFlag", "delWrite", "clearThreadFlag", "connect", "resend"}
  \/ npc \in {"signal", "clearConnFlag", "addWrite"} /\ back = "events"

\* The network thread is going to look at the flag of c, whether or not the
\* signal event calls SignalCB: a sender is about to raise the flag of the
\* thread, or it is raised, or SignalCB has c before it.
Alarm(c) ==
  \/ \E s \in Senders : spc[s] \in {"connFlag", "threadFlag"}
  \/ threadFlag /\ Awake
  \/ npc \in {"signal", "clearConnFlag", "addWrite"} /\ c \in todo
  \/ npc = "clearConnFlag" /\ now = c

\* The flag of c is up, or is about to be, and will be looked at.
Flagged(c) ==
  /\ connFlag[c] \/ \E s \in Senders : spc[s] = "connFlag" /\ target[s] = c
  /\ Alarm(c)

QueueWatched ==
  \A c \in Conns \ dead : sent[c] < put[c] => Watched(c) \/ Flagged(c)

IndInv == TypeOK /\ MutexHeld /\ OneByte /\ FlagTellsTruth /\ DrainedOnce /\ QueueWatched

LEMMA InitInv == Init => IndInv
<1> SUFFICES ASSUME Init PROVE IndInv
  OBVIOUS
<1>1. target = [s \in Senders |-> NoConn] /\ now = NoConn
  BY DEF Init
<1>2. \A d \in Conns : put[d] = 0 /\ sent[d] = 0
  BY DEF Init
<1>3. \A s \in Senders : spc[s] = "idle"
  BY DEF Init
<1>4. TypeOK
  <2>1. put \in [Conns -> 0 .. MaxPut] /\ sent \in [Conns -> Nat]
    BY WakeupAssumption DEF Init
  <2>2. target \in [Senders -> Conns \cup {NoConn}] /\ now \in Conns \cup {NoConn}
    BY <1>1
  <2>3. spc \in [Senders -> {"idle", "connFlag", "threadFlag", "check", "lock",
                             "recheck", "mark", "write"}]
    BY DEF Init
  <2>4. /\ connFlag \in [Conns -> BOOLEAN] /\ threadFlag \in BOOLEAN
        /\ pipe \in Nat /\ pipeFlag \in BOOLEAN /\ mtx \subseteq Senders
        /\ hasThread \in BOOLEAN
    BY DEF Init
  <2>5. /\ wantWrite \subseteq Conns /\ active \subseteq {Pipe} \cup Conns
        /\ todo \subseteq Conns /\ npc = "wait" /\ back = "wait"
        /\ closed \subseteq Conns \ dead /\ dead \subseteq Conns /\ drops \in 0 .. MaxDrops
    BY WakeupAssumption DEF Init
  <2>6. \A d \in Conns : sent[d] <= put[d]
    BY <1>2
  <2>7. QED  BY <1>3, <2>1, <2>2, <2>3, <2>4, <2>5, <2>6 DEF TypeOK
<1>5. MutexHeld /\ OneByte /\ FlagTellsTruth /\ DrainedOnce
  BY <1>3 DEF Init, MutexHeld, OneByte, FlagTellsTruth, Signalling, DrainedOnce
<1>6. QueueWatched
  BY <1>2 DEF QueueWatched
<1>7. QED  BY <1>4, <1>5, <1>6 DEF IndInv

LEMMA PutRequestInv ==
  ASSUME IndInv, NEW s \in Senders, PutRequest(s)
  PROVE  IndInv'
<1>1. TypeOK'
  BY WakeupAssumption DEF PutRequest, Goto, IndInv, TypeOK, queues, flags, signal, sender, network, losses
<1>2. MutexHeld'
  BY DEF PutRequest, Goto, IndInv, TypeOK, MutexHeld, FlagTellsTruth, Signalling, queues, flags, signal, sender, network, losses
<1>3. OneByte'
  BY WakeupAssumption DEF PutRequest, Goto, IndInv, TypeOK, MutexHeld, OneByte, FlagTellsTruth, Signalling, queues, flags, signal, sender, network, losses
<1>4. FlagTellsTruth'
  BY WakeupAssumption DEF PutRequest, Goto, IndInv, TypeOK, MutexHeld, OneByte, FlagTellsTruth, Signalling, DrainedOnce, queues, flags, signal, sender, network, losses
<1>5. DrainedOnce'
  BY WakeupAssumption DEF PutRequest, Goto, IndInv, TypeOK, MutexHeld, OneByte, FlagTellsTruth, Signalling, DrainedOnce, queues, flags, signal, sender, network, losses
<1>6. QueueWatched'
  BY WakeupAssumption DEF PutRequest, Goto, IndInv, TypeOK, FlagTellsTruth, OneByte, Signalling, QueueWatched, Watched, Flagged, Alarm, Awake, queues, flags, signal, sender, network, losses
<1>7. QED  BY <1>1, <1>2, <1>3, <1>4, <1>5, <1>6 DEF IndInv

LEMMA SetConnFlagInv ==
  ASSUME IndInv, NEW s \in Senders, SetConnFlag(s)
  PROVE  IndInv'
<1>1. TypeOK'
  BY WakeupAssumption DEF SetConnFlag, Goto, IndInv, TypeOK, queues, flags, signal, sender, network, losses
<1>2. MutexHeld'
  BY DEF SetConnFlag, Goto, IndInv, TypeOK, MutexHeld, FlagTellsTruth, Signalling, queues, flags, signal, sender, network, losses
<1>3. OneByte'
  BY WakeupAssumption DEF SetConnFlag, Goto, IndInv, TypeOK, MutexHeld, OneByte, FlagTellsTruth, Signalling, queues, flags, signal, sender, network, losses
<1>4. FlagTellsTruth'
  BY WakeupAssumption DEF SetConnFlag, Goto, IndInv, TypeOK, MutexHeld, OneByte, FlagTellsTruth, Signalling, DrainedOnce, queues, flags, signal, sender, network, losses
<1>5. DrainedOnce'
  BY WakeupAssumption DEF SetConnFlag, Goto, IndInv, TypeOK, MutexHeld, OneByte, FlagTellsTruth, Signalling, DrainedOnce, queues, flags, signal, sender, network, losses
<1>6. QueueWatched'
  BY WakeupAssumption DEF SetConnFlag, Goto, IndInv, TypeOK, FlagTellsTruth, OneByte, Signalling, QueueWatched, Watched, Flagged, Alarm, Awake, queues, flags, signal, sender, network, losses
<1>7. QED  BY <1>1, <1>2, <1>3, <1>4, <1>5, <1>6 DEF IndInv

LEMMA SetThreadFlagInv ==
  ASSUME IndInv, NEW s \in Senders, SetThreadFlag(s)
  PROVE  IndInv'
<1>1. TypeOK'
  BY WakeupAssumption DEF SetThreadFlag, Goto, IndInv, TypeOK, queues, flags, signal, sender, network, losses
<1>2. MutexHeld'
  BY DEF SetThreadFlag, Goto, IndInv, TypeOK, MutexHeld, FlagTellsTruth, Signalling, queues, flags, signal, sender, network, losses
<1>3. OneByte'
  BY WakeupAssumption DEF SetThreadFlag, Goto, IndInv, TypeOK, MutexHeld, OneByte, FlagTellsTruth, Signalling, queues, flags, signal, sender, network, losses
<1>4. FlagTellsTruth'
  BY WakeupAssumption DEF SetThreadFlag, Goto, IndInv, TypeOK, MutexHeld, OneByte, FlagTellsTruth, Signalling, DrainedOnce, queues, flags, signal, sender, network, losses
<1>5. DrainedOnce'
  BY WakeupAssumption DEF SetThreadFlag, Goto, IndInv, TypeOK, MutexHeld, OneByte, FlagTellsTruth, Signalling, DrainedOnce, queues, flags, signal, sender, network, losses
<1>6. QueueWatched'
  BY WakeupAssumption DEF SetThreadFlag, Goto, IndInv, TypeOK, FlagTellsTruth, OneByte, Signalling, QueueWatched, Watched, Flagged, Alarm, Awake, queues, flags, signal, sender, network, losses
<1>7. QED  BY <1>1, <1>2, <1>3, <1>4, <1>5, <1>6 DEF IndInv

LEMMA CheckFlagInv ==
  ASSUME IndInv, NEW s \in Senders, CheckFlag(s)
  PROVE  IndInv'
<1>1. TypeOK'
  BY WakeupAssumption DEF CheckFlag, Goto, IndInv, TypeOK, queues, flags, signal, sender, network, losses
<1>2. MutexHeld'
  BY DEF CheckFlag, Goto, IndInv, TypeOK, MutexHeld, FlagTellsTruth, Signalling, queues, flags, signal, sender, network, losses
<1>3. OneByte'
  BY WakeupAssumption DEF CheckFlag, Goto, IndInv, TypeOK, MutexHeld, OneByte, FlagTellsTruth, Signalling, queues, flags, signal, sender, network, losses
<1>4. FlagTellsTruth'
  BY WakeupAssumption DEF CheckFlag, Goto, IndInv, TypeOK, MutexHeld, OneByte, FlagTellsTruth, Signalling, DrainedOnce, queues, flags, signal, sender, network, losses
<1>5. DrainedOnce'
  BY WakeupAssumption DEF CheckFlag, Goto, IndInv, TypeOK, MutexHeld, OneByte, FlagTellsTruth, Signalling, DrainedOnce, queues, flags, signal, sender, network, losses
<1>6. QueueWatched'
  BY WakeupAssumption DEF CheckFlag, Goto, IndInv, TypeOK, FlagTellsTruth, OneByte, Signalling, QueueWatched, Watched, Flagged, Alarm, Awake, queues, flags, signal, sender, network, losses
<1>7. QED  BY <1>1, <1>2, <1>3, <1>4, <1>5, <1>6 DEF IndInv

LEMMA LockInv ==
  ASSUME IndInv, NEW s \in Senders, Lock(s)
  PROVE  IndInv'
<1>1. TypeOK'
  BY WakeupAssumption DEF Lock, Goto, IndInv, TypeOK, queues, flags, signal, sender, network, losses
<1>2. MutexHeld'
  BY DEF Lock, Goto, IndInv, TypeOK, MutexHeld, FlagTellsTruth, Signalling, queues, flags, signal, sender, network, losses
<1>3. OneByte'
  BY WakeupAssumption DEF Lock, Goto, IndInv, TypeOK, MutexHeld, OneByte, FlagTellsTruth, Signalling, queues, flags, signal, sender, network, losses
<1>4. FlagTellsTruth'
  BY WakeupAssumption DEF Lock, Goto, IndInv, TypeOK, MutexHeld, OneByte, FlagTellsTruth, Signalling, DrainedOnce, queues, flags, signal, sender, network, losses
<1>5. DrainedOnce'
  BY WakeupAssumption DEF Lock, Goto, IndInv, TypeOK, MutexHeld, OneByte, FlagTellsTruth, Signalling, DrainedOnce, queues, flags, signal, sender, network, losses
<1>6. QueueWatched'
  BY WakeupAssumption DEF Lock, Goto, IndInv, TypeOK, FlagTellsTruth, OneByte, Signalling, QueueWatched, Watched, Flagged, Alarm, Awake, queues, flags, signal, sender, network, losses
<1>7. QED  BY <1>1, <1>2, <1>3, <1>4, <1>5, <1>6 DEF IndInv

LEMMA RecheckInv ==
  ASSUME IndInv, NEW s \in Senders, Recheck(s)
  PROVE  IndInv'
<1>1. TypeOK'
  BY WakeupAssumption DEF Recheck, Goto, IndInv, TypeOK, queues, flags, signal, sender, network, losses
<1>2. MutexHeld'
  BY DEF Recheck, Goto, IndInv, TypeOK, MutexHeld, FlagTellsTruth, Signalling, queues, flags, signal, sender, network, losses
<1>3. OneByte'
  BY WakeupAssumption DEF Recheck, Goto, IndInv, TypeOK, MutexHeld, OneByte, FlagTellsTruth, Signalling, queues, flags, signal, sender, network, losses
<1>4. FlagTellsTruth'
  BY WakeupAssumption DEF Recheck, Goto, IndInv, TypeOK, MutexHeld, OneByte, FlagTellsTruth, Signalling, DrainedOnce, queues, flags, signal, sender, network, losses
<1>5. DrainedOnce'
  BY WakeupAssumption DEF Recheck, Goto, IndInv, TypeOK, MutexHeld, OneByte, FlagTellsTruth, Signalling, DrainedOnce, queues, flags, signal, sender, network, losses
<1>6. QueueWatched'
  BY WakeupAssumption DEF Recheck, Goto, IndInv, TypeOK, FlagTellsTruth, OneByte, Signalling, QueueWatched, Watched, Flagged, Alarm, Awake, queues, flags, signal, sender, network, losses
<1>7. QED  BY <1>1, <1>2, <1>3, <1>4, <1>5, <1>6 DEF IndInv

LEMMA MarkPipeInv ==
  ASSUME IndInv, NEW s \in Senders, MarkPipe(s)
  PROVE  IndInv'
<1>1. TypeOK'
  BY WakeupAssumption DEF MarkPipe, Goto, IndInv, TypeOK, queues, flags, signal, sender, network, losses
<1>2. MutexHeld'
  BY DEF MarkPipe, Goto, IndInv, TypeOK, MutexHeld, FlagTellsTruth, Signalling, queues, flags, signal, sender, network, losses
<1>3. OneByte'
  BY WakeupAssumption DEF MarkPipe, Goto, IndInv, TypeOK, MutexHeld, OneByte, FlagTellsTruth, Signalling, queues, flags, signal, sender, network, losses
<1>4. FlagTellsTruth'
  BY WakeupAssumption DEF MarkPipe, Goto, IndInv, TypeOK, MutexHeld, OneByte, FlagTellsTruth, Signalling, DrainedOnce, queues, flags, signal, sender, network, losses
<1>5. DrainedOnce'
  BY WakeupAssumption DEF MarkPipe, Goto, IndInv, TypeOK, MutexHeld, OneByte, FlagTellsTruth, Signalling, DrainedOnce, queues, flags, signal, sender, network, losses
<1>6. QueueWatched'
  BY WakeupAssumption DEF MarkPipe, Goto, IndInv, TypeOK, FlagTellsTruth, OneByte, Signalling, QueueWatched, Watched, Flagged, Alarm, Awake, queues, flags, signal, sender, network, losses
<1>7. QED  BY <1>1, <1>2, <1>3, <1>4, <1>5, <1>6 DEF IndInv

LEMMA WriteByteInv ==
  ASSUME IndInv, NEW s \in Senders, WriteByte(s)
  PROVE  IndInv'
<1>1. TypeOK'
  BY WakeupAssumption DEF WriteByte, Goto, IndInv, TypeOK, queues, flags, signal, sender, network, losses
<1>2. MutexHeld'
  BY DEF WriteByte, Goto, IndInv, TypeOK, MutexHeld, FlagTellsTruth, Signalling, queues, flags, signal, sender, network, losses
<1>3. OneByte'
  BY WakeupAssumption DEF WriteByte, Goto, IndInv, TypeOK, MutexHeld, OneByte, FlagTellsTruth, Signalling, queues, flags, signal, sender, network, losses
<1>4. FlagTellsTruth'
  BY WakeupAssumption DEF WriteByte, Goto, IndInv, TypeOK, MutexHeld, OneByte, FlagTellsTruth, Signalling, DrainedOnce, queues, flags, signal, sender, network, losses
<1>5. DrainedOnce'
  BY WakeupAssumption DEF WriteByte, Goto, IndInv, TypeOK, MutexHeld, OneByte, FlagTellsTruth, Signalling, DrainedOnce, queues, flags, signal, sender, network, losses
<1>6. QueueWatched'
  BY WakeupAssumption DEF WriteByte, Goto, IndInv, TypeOK, FlagTellsTruth, OneByte, Signalling, QueueWatched, Watched, Flagged, Alarm, Awake, queues, flags, signal, sender, network, losses
<1>7. QED  BY <1>1, <1>2, <1>3, <1>4, <1>5, <1>6 DEF IndInv

LEMMA WakeInv ==
  ASSUME IndInv, Wake
  PROVE  IndInv'
<1>1. TypeOK'
  BY WakeupAssumption DEF Wake, Proceed, Ready, ReportClosed, IndInv, TypeOK, queues, flags, signal, sender, network, losses
<1>2. MutexHeld'
  BY DEF Wake, Proceed, Ready, ReportClosed, IndInv, TypeOK, MutexHeld, FlagTellsTruth, Signalling, queues, flags, signal, sender, network, losses
<1>3. OneByte'
  BY WakeupAssumption DEF Wake, Proceed, Ready, ReportClosed, IndInv, TypeOK, MutexHeld, OneByte, FlagTellsTruth, Signalling, queues, flags, signal, sender, network, losses
<1>4. FlagTellsTruth'
  BY WakeupAssumption DEF Wake, Proceed, Ready, ReportClosed, IndInv, TypeOK, MutexHeld, OneByte, FlagTellsTruth, Signalling, DrainedOnce, queues, flags, signal, sender, network, losses
<1>5. DrainedOnce'
  BY WakeupAssumption DEF Wake, Proceed, Ready, ReportClosed, IndInv, TypeOK, MutexHeld, OneByte, FlagTellsTruth, Signalling, DrainedOnce, queues, flags, signal, sender, network, losses
<1>6. QueueWatched'
  BY WakeupAssumption DEF Wake, Proceed, Ready, ReportClosed, IndInv, TypeOK, FlagTellsTruth, OneByte, Signalling, QueueWatched, Watched, Flagged, Alarm, Awake, queues, flags, signal, sender, network, losses
<1>7. QED  BY <1>1, <1>2, <1>3, <1>4, <1>5, <1>6 DEF IndInv

LEMMA TimeoutInv ==
  ASSUME IndInv, Timeout
  PROVE  IndInv'
<1>1. TypeOK'
  BY WakeupAssumption DEF Timeout, Proceed, Ready, ReportClosed, IndInv, TypeOK, queues, flags, signal, sender, network, losses
<1>2. MutexHeld'
  BY DEF Timeout, Proceed, Ready, ReportClosed, IndInv, TypeOK, MutexHeld, FlagTellsTruth, Signalling, queues, flags, signal, sender, network, losses
<1>3. OneByte'
  BY WakeupAssumption DEF Timeout, Proceed, Ready, ReportClosed, IndInv, TypeOK, MutexHeld, OneByte, FlagTellsTruth, Signalling, queues, flags, signal, sender, network, losses
<1>4. FlagTellsTruth'
  BY WakeupAssumption DEF Timeout, Proceed, Ready, ReportClosed, IndInv, TypeOK, MutexHeld, OneByte, FlagTellsTruth, Signalling, DrainedOnce, queues, flags, signal, sender, network, losses
<1>5. DrainedOnce'
  BY WakeupAssumption DEF Timeout, Proceed, Ready, ReportClosed, IndInv, TypeOK, MutexHeld, OneByte, FlagTellsTruth, Signalling, DrainedOnce, queues, flags, signal, sender, network, losses
<1>6. QueueWatched'
  BY WakeupAssumption DEF Timeout, Proceed, Ready, ReportClosed, IndInv, TypeOK, FlagTellsTruth, OneByte, Signalling, QueueWatched, Watched, Flagged, Alarm, Awake, queues, flags, signal, sender, network, losses
<1>7. QED  BY <1>1, <1>2, <1>3, <1>4, <1>5, <1>6 DEF IndInv

LEMMA ReadPipeInv ==
  ASSUME IndInv, ReadPipe
  PROVE  IndInv'
<1>1. TypeOK'
  BY WakeupAssumption DEF ReadPipe, Proceed, IndInv, TypeOK, queues, flags, signal, sender, network, losses
<1>2. MutexHeld'
  BY DEF ReadPipe, Proceed, IndInv, TypeOK, MutexHeld, FlagTellsTruth, Signalling, queues, flags, signal, sender, network, losses
<1>3. OneByte'
  BY WakeupAssumption DEF ReadPipe, Proceed, IndInv, TypeOK, MutexHeld, OneByte, FlagTellsTruth, Signalling, queues, flags, signal, sender, network, losses
<1>4. FlagTellsTruth'
  BY WakeupAssumption DEF ReadPipe, Proceed, IndInv, TypeOK, MutexHeld, OneByte, FlagTellsTruth, Signalling, DrainedOnce, queues, flags, signal, sender, network, losses
<1>5. DrainedOnce'
  BY WakeupAssumption DEF ReadPipe, Proceed, IndInv, TypeOK, MutexHeld, OneByte, FlagTellsTruth, Signalling, DrainedOnce, queues, flags, signal, sender, network, losses
<1>6. QueueWatched'
  BY WakeupAssumption DEF ReadPipe, Proceed, IndInv, TypeOK, FlagTellsTruth, OneByte, Signalling, QueueWatched, Watched, Flagged, Alarm, Awake, queues, flags, signal, sender, network, losses
<1>7. QED  BY <1>1, <1>2, <1>3, <1>4, <1>5, <1>6 DEF IndInv

LEMMA ClearPipeFlagInv ==
  ASSUME IndInv, ClearPipeFlag
  PROVE  IndInv'
<1>1. TypeOK'
  BY WakeupAssumption DEF ClearPipeFlag, NotifyThread, Proceed, CallSignalCB, IndInv, TypeOK, queues, flags, signal, sender, network, losses
<1>2. MutexHeld'
  BY DEF ClearPipeFlag, NotifyThread, Proceed, CallSignalCB, IndInv, TypeOK, MutexHeld, FlagTellsTruth, Signalling, queues, flags, signal, sender, network, losses
<1>3. OneByte'
  BY WakeupAssumption DEF ClearPipeFlag, NotifyThread, Proceed, CallSignalCB, IndInv, TypeOK, MutexHeld, OneByte, FlagTellsTruth, Signalling, queues, flags, signal, sender, network, losses
<1>4. FlagTellsTruth'
  BY WakeupAssumption DEF ClearPipeFlag, NotifyThread, Proceed, CallSignalCB, IndInv, TypeOK, MutexHeld, OneByte, FlagTellsTruth, Signalling, DrainedOnce, queues, flags, signal, sender, network, losses
<1>5. DrainedOnce'
  BY WakeupAssumption DEF ClearPipeFlag, NotifyThread, Proceed, CallSignalCB, IndInv, TypeOK, MutexHeld, OneByte, FlagTellsTruth, Signalling, DrainedOnce, queues, flags, signal, sender, network, losses
<1>6. QueueWatched'
  BY WakeupAssumption DEF ClearPipeFlag, NotifyThread, Proceed, CallSignalCB, IndInv, TypeOK, FlagTellsTruth, OneByte, Signalling, QueueWatched, Watched, Flagged, Alarm, Awake, queues, flags, signal, sender, network, losses
<1>7. QED  BY <1>1, <1>2, <1>3, <1>4, <1>5, <1>6 DEF IndInv

LEMMA TestConnFlagInv ==
  ASSUME IndInv, TestConnFlag
  PROVE  IndInv'
<1>1. TypeOK'
  BY WakeupAssumption DEF TestConnFlag, Proceed, IndInv, TypeOK, queues, flags, signal, sender, network, losses
<1>2. MutexHeld'
  BY DEF TestConnFlag, Proceed, IndInv, TypeOK, MutexHeld, FlagTellsTruth, Signalling, queues, flags, signal, sender, network, losses
<1>3. OneByte'
  BY WakeupAssumption DEF TestConnFlag, Proceed, IndInv, TypeOK, MutexHeld, OneByte, FlagTellsTruth, Signalling, queues, flags, signal, sender, network, losses
<1>4. FlagTellsTruth'
  BY WakeupAssumption DEF TestConnFlag, Proceed, IndInv, TypeOK, MutexHeld, OneByte, FlagTellsTruth, Signalling, DrainedOnce, queues, flags, signal, sender, network, losses
<1>5. DrainedOnce'
  BY WakeupAssumption DEF TestConnFlag, Proceed, IndInv, TypeOK, MutexHeld, OneByte, FlagTellsTruth, Signalling, DrainedOnce, queues, flags, signal, sender, network, losses
<1>6. QueueWatched'
  BY WakeupAssumption DEF TestConnFlag, Proceed, IndInv, TypeOK, FlagTellsTruth, OneByte, Signalling, QueueWatched, Watched, Flagged, Alarm, Awake, queues, flags, signal, sender, network, losses
<1>7. QED  BY <1>1, <1>2, <1>3, <1>4, <1>5, <1>6 DEF IndInv

LEMMA ClearConnFlagInv ==
  ASSUME IndInv, ClearConnFlag
  PROVE  IndInv'
<1>1. TypeOK'
  BY WakeupAssumption DEF ClearConnFlag, Proceed, IndInv, TypeOK, queues, flags, signal, sender, network, losses
<1>2. MutexHeld'
  BY DEF ClearConnFlag, Proceed, IndInv, TypeOK, MutexHeld, FlagTellsTruth, Signalling, queues, flags, signal, sender, network, losses
<1>3. OneByte'
  BY WakeupAssumption DEF ClearConnFlag, Proceed, IndInv, TypeOK, MutexHeld, OneByte, FlagTellsTruth, Signalling, queues, flags, signal, sender, network, losses
<1>4. FlagTellsTruth'
  BY WakeupAssumption DEF ClearConnFlag, Proceed, IndInv, TypeOK, MutexHeld, OneByte, FlagTellsTruth, Signalling, DrainedOnce, queues, flags, signal, sender, network, losses
<1>5. DrainedOnce'
  BY WakeupAssumption DEF ClearConnFlag, Proceed, IndInv, TypeOK, MutexHeld, OneByte, FlagTellsTruth, Signalling, DrainedOnce, queues, flags, signal, sender, network, losses
<1>6. QueueWatched'
  BY WakeupAssumption DEF ClearConnFlag, Proceed, IndInv, TypeOK, FlagTellsTruth, OneByte, Signalling, QueueWatched, Watched, Flagged, Alarm, Awake, queues, flags, signal, sender, network, losses
<1>7. QED  BY <1>1, <1>2, <1>3, <1>4, <1>5, <1>6 DEF IndInv

LEMMA AddEventWriteInv ==
  ASSUME IndInv, AddEventWrite
  PROVE  IndInv'
<1>1. TypeOK'
  BY WakeupAssumption DEF AddEventWrite, Proceed, IndInv, TypeOK, queues, flags, signal, sender, network, losses
<1>2. MutexHeld'
  BY DEF AddEventWrite, Proceed, IndInv, TypeOK, MutexHeld, FlagTellsTruth, Signalling, queues, flags, signal, sender, network, losses
<1>3. OneByte'
  BY WakeupAssumption DEF AddEventWrite, Proceed, IndInv, TypeOK, MutexHeld, OneByte, FlagTellsTruth, Signalling, queues, flags, signal, sender, network, losses
<1>4. FlagTellsTruth'
  BY WakeupAssumption DEF AddEventWrite, Proceed, IndInv, TypeOK, MutexHeld, OneByte, FlagTellsTruth, Signalling, DrainedOnce, queues, flags, signal, sender, network, losses
<1>5. DrainedOnce'
  BY WakeupAssumption DEF AddEventWrite, Proceed, IndInv, TypeOK, MutexHeld, OneByte, FlagTellsTruth, Signalling, DrainedOnce, queues, flags, signal, sender, network, losses
<1>6. QueueWatched'
  BY WakeupAssumption DEF AddEventWrite, Proceed, IndInv, TypeOK, FlagTellsTruth, OneByte, Signalling, QueueWatched, Watched, Flagged, Alarm, Awake, queues, flags, signal, sender, network, losses
<1>7. QED  BY <1>1, <1>2, <1>3, <1>4, <1>5, <1>6 DEF IndInv

LEMMA SignalDoneInv ==
  ASSUME IndInv, SignalDone
  PROVE  IndInv'
<1>1. TypeOK'
  BY WakeupAssumption DEF SignalDone, Proceed, IndInv, TypeOK, queues, flags, signal, sender, network, losses
<1>2. MutexHeld'
  BY DEF SignalDone, Proceed, IndInv, TypeOK, MutexHeld, FlagTellsTruth, Signalling, queues, flags, signal, sender, network, losses
<1>3. OneByte'
  BY WakeupAssumption DEF SignalDone, Proceed, IndInv, TypeOK, MutexHeld, OneByte, FlagTellsTruth, Signalling, queues, flags, signal, sender, network, losses
<1>4. FlagTellsTruth'
  BY WakeupAssumption DEF SignalDone, Proceed, IndInv, TypeOK, MutexHeld, OneByte, FlagTellsTruth, Signalling, DrainedOnce, queues, flags, signal, sender, network, losses
<1>5. DrainedOnce'
  BY WakeupAssumption DEF SignalDone, Proceed, IndInv, TypeOK, MutexHeld, OneByte, FlagTellsTruth, Signalling, DrainedOnce, queues, flags, signal, sender, network, losses
<1>6. QueueWatched'
  BY WakeupAssumption DEF SignalDone, Proceed, IndInv, TypeOK, FlagTellsTruth, OneByte, Signalling, QueueWatched, Watched, Flagged, Alarm, Awake, queues, flags, signal, sender, network, losses
<1>7. QED  BY <1>1, <1>2, <1>3, <1>4, <1>5, <1>6 DEF IndInv

LEMMA WriteTakesInv ==
  ASSUME IndInv, NEW c \in Conns, WriteTakes(c)
  PROVE  IndInv'
<1>1. TypeOK'
  BY WakeupAssumption DEF WriteTakes, Proceed, IndInv, TypeOK, queues, flags, signal, sender, network, losses
<1>2. MutexHeld'
  BY DEF WriteTakes, Proceed, IndInv, TypeOK, MutexHeld, FlagTellsTruth, Signalling, queues, flags, signal, sender, network, losses
<1>3. OneByte'
  BY WakeupAssumption DEF WriteTakes, Proceed, IndInv, TypeOK, MutexHeld, OneByte, FlagTellsTruth, Signalling, queues, flags, signal, sender, network, losses
<1>4. FlagTellsTruth'
  BY WakeupAssumption DEF WriteTakes, Proceed, IndInv, TypeOK, MutexHeld, OneByte, FlagTellsTruth, Signalling, DrainedOnce, queues, flags, signal, sender, network, losses
<1>5. DrainedOnce'
  BY WakeupAssumption DEF WriteTakes, Proceed, IndInv, TypeOK, MutexHeld, OneByte, FlagTellsTruth, Signalling, DrainedOnce, queues, flags, signal, sender, network, losses
<1>6. QueueWatched'
  BY WakeupAssumption DEF WriteTakes, Proceed, IndInv, TypeOK, FlagTellsTruth, OneByte, Signalling, QueueWatched, Watched, Flagged, Alarm, Awake, queues, flags, signal, sender, network, losses
<1>7. QED  BY <1>1, <1>2, <1>3, <1>4, <1>5, <1>6 DEF IndInv

LEMMA DelEventWriteInv ==
  ASSUME IndInv, DelEventWrite
  PROVE  IndInv'
<1>1. TypeOK'
  BY WakeupAssumption DEF DelEventWrite, Proceed, IndInv, TypeOK, queues, flags, signal, sender, network, losses
<1>2. MutexHeld'
  BY DEF DelEventWrite, Proceed, IndInv, TypeOK, MutexHeld, FlagTellsTruth, Signalling, queues, flags, signal, sender, network, losses
<1>3. OneByte'
  BY WakeupAssumption DEF DelEventWrite, Proceed, IndInv, TypeOK, MutexHeld, OneByte, FlagTellsTruth, Signalling, queues, flags, signal, sender, network, losses
<1>4. FlagTellsTruth'
  BY WakeupAssumption DEF DelEventWrite, Proceed, IndInv, TypeOK, MutexHeld, OneByte, FlagTellsTruth, Signalling, DrainedOnce, queues, flags, signal, sender, network, losses
<1>5. DrainedOnce'
  BY WakeupAssumption DEF DelEventWrite, Proceed, IndInv, TypeOK, MutexHeld, OneByte, FlagTellsTruth, Signalling, DrainedOnce, queues, flags, signal, sender, network, losses
<1>6. QueueWatched'
  BY WakeupAssumption DEF DelEventWrite, Proceed, IndInv, TypeOK, FlagTellsTruth, OneByte, Signalling, QueueWatched, Watched, Flagged, Alarm, Awake, queues, flags, signal, sender, network, losses
<1>7. QED  BY <1>1, <1>2, <1>3, <1>4, <1>5, <1>6 DEF IndInv

LEMMA ReconnectInv ==
  ASSUME IndInv, Reconnect
  PROVE  IndInv'
<1>1. TypeOK'
  BY WakeupAssumption DEF Reconnect, Proceed, IndInv, TypeOK, queues, flags, signal, sender, network, losses
<1>2. MutexHeld'
  BY DEF Reconnect, Proceed, IndInv, TypeOK, MutexHeld, FlagTellsTruth, Signalling, queues, flags, signal, sender, network, losses
<1>3. OneByte'
  BY WakeupAssumption DEF Reconnect, Proceed, IndInv, TypeOK, MutexHeld, OneByte, FlagTellsTruth, Signalling, queues, flags, signal, sender, network, losses
<1>4. FlagTellsTruth'
  BY WakeupAssumption DEF Reconnect, Proceed, IndInv, TypeOK, MutexHeld, OneByte, FlagTellsTruth, Signalling, DrainedOnce, queues, flags, signal, sender, network, losses
<1>5. DrainedOnce'
  BY WakeupAssumption DEF Reconnect, Proceed, IndInv, TypeOK, MutexHeld, OneByte, FlagTellsTruth, Signalling, DrainedOnce, queues, flags, signal, sender, network, losses
<1>6. QueueWatched'
  BY WakeupAssumption DEF Reconnect, Proceed, IndInv, TypeOK, FlagTellsTruth, OneByte, Signalling, QueueWatched, Watched, Flagged, Alarm, Awake, queues, flags, signal, sender, network, losses
<1>7. QED  BY <1>1, <1>2, <1>3, <1>4, <1>5, <1>6 DEF IndInv

LEMMA DoAfterReconnectInv ==
  ASSUME IndInv, DoAfterReconnect
  PROVE  IndInv'
<1>1. TypeOK'
  <2>1. /\ sent' \in [Conns -> Nat] /\ \A c \in Conns : sent'[c] <= sent[c]
    BY DEF DoAfterReconnect, Proceed, IndInv, TypeOK
  <2>2. put' = put /\ \A c \in Conns : sent'[c] <= put[c]
    BY <2>1 DEF DoAfterReconnect, IndInv, TypeOK
  <2>3. QED
    BY <2>1, <2>2 DEF DoAfterReconnect, Proceed, IndInv, TypeOK, queues, flags, signal, sender, network, losses
<1>2. MutexHeld'
  BY DEF DoAfterReconnect, Proceed, IndInv, TypeOK, MutexHeld, FlagTellsTruth, Signalling, queues, flags, signal, sender, network, losses
<1>3. OneByte'
  BY WakeupAssumption DEF DoAfterReconnect, Proceed, IndInv, TypeOK, MutexHeld, OneByte, FlagTellsTruth, Signalling, queues, flags, signal, sender, network, losses
<1>4. FlagTellsTruth'
  BY WakeupAssumption DEF DoAfterReconnect, Proceed, IndInv, TypeOK, MutexHeld, OneByte, FlagTellsTruth, Signalling, DrainedOnce, queues, flags, signal, sender, network, losses
<1>5. DrainedOnce'
  BY WakeupAssumption DEF DoAfterReconnect, Proceed, IndInv, TypeOK, MutexHeld, OneByte, FlagTellsTruth, Signalling, DrainedOnce, queues, flags, signal, sender, network, losses
<1>6. QueueWatched'
  BY WakeupAssumption DEF DoAfterReconnect, Proceed, IndInv, TypeOK, FlagTellsTruth, OneByte, Signalling, QueueWatched, Watched, Flagged, Alarm, Awake, queues, flags, signal, sender, network, losses
<1>7. QED  BY <1>1, <1>2, <1>3, <1>4, <1>5, <1>6 DEF IndInv

LEMMA GiveUpInv ==
  ASSUME IndInv, GiveUp
  PROVE  IndInv'
<1>1. TypeOK'
  BY WakeupAssumption DEF GiveUp, Proceed, IndInv, TypeOK, DrainedOnce, queues, flags, signal, sender, network, losses
<1>2. MutexHeld'
  BY DEF GiveUp, Proceed, IndInv, TypeOK, MutexHeld, FlagTellsTruth, Signalling, queues, flags, signal, sender, network, losses
<1>3. OneByte'
  BY WakeupAssumption DEF GiveUp, Proceed, IndInv, TypeOK, MutexHeld, OneByte, FlagTellsTruth, Signalling, queues, flags, signal, sender, network, losses
<1>4. FlagTellsTruth'
  BY WakeupAssumption DEF GiveUp, Proceed, IndInv, TypeOK, MutexHeld, OneByte, FlagTellsTruth, Signalling, DrainedOnce, queues, flags, signal, sender, network, losses
<1>5. DrainedOnce'
  BY WakeupAssumption DEF GiveUp, Proceed, IndInv, TypeOK, MutexHeld, OneByte, FlagTellsTruth, Signalling, DrainedOnce, queues, flags, signal, sender, network, losses
<1>6. QueueWatched'
  BY WakeupAssumption DEF GiveUp, Proceed, IndInv, TypeOK, FlagTellsTruth, OneByte, Signalling, QueueWatched, Watched, Flagged, Alarm, Awake, queues, flags, signal, sender, network, losses
<1>7. QED  BY <1>1, <1>2, <1>3, <1>4, <1>5, <1>6 DEF IndInv

LEMMA ReadClosedInv ==
  ASSUME IndInv, NEW c \in Conns, ReadClosed(c)
  PROVE  IndInv'
<1>1. TypeOK'
  BY WakeupAssumption DEF ReadClosed, Proceed, IndInv, TypeOK, queues, flags, signal, sender, network, losses
<1>2. MutexHeld'
  BY DEF ReadClosed, Proceed, IndInv, TypeOK, MutexHeld, FlagTellsTruth, Signalling, queues, flags, signal, sender, network, losses
<1>3. OneByte'
  BY WakeupAssumption DEF ReadClosed, Proceed, IndInv, TypeOK, MutexHeld, OneByte, FlagTellsTruth, Signalling, queues, flags, signal, sender, network, losses
<1>4. FlagTellsTruth'
  BY WakeupAssumption DEF ReadClosed, Proceed, IndInv, TypeOK, MutexHeld, OneByte, FlagTellsTruth, Signalling, DrainedOnce, queues, flags, signal, sender, network, losses
<1>5. DrainedOnce'
  BY WakeupAssumption DEF ReadClosed, Proceed, IndInv, TypeOK, MutexHeld, OneByte, FlagTellsTruth, Signalling, DrainedOnce, queues, flags, signal, sender, network, losses
<1>6. QueueWatched'
  BY WakeupAssumption DEF ReadClosed, Proceed, IndInv, TypeOK, FlagTellsTruth, OneByte, Signalling, QueueWatched, Watched, Flagged, Alarm, Awake, queues, flags, signal, sender, network, losses
<1>7. QED  BY <1>1, <1>2, <1>3, <1>4, <1>5, <1>6 DEF IndInv

LEMMA TestThreadFlagInv ==
  ASSUME IndInv, TestThreadFlag
  PROVE  IndInv'
<1>1. TypeOK'
  BY WakeupAssumption DEF TestThreadFlag, Proceed, IndInv, TypeOK, queues, flags, signal, sender, network, losses
<1>2. MutexHeld'
  BY DEF TestThreadFlag, Proceed, IndInv, TypeOK, MutexHeld, FlagTellsTruth, Signalling, queues, flags, signal, sender, network, losses
<1>3. OneByte'
  BY WakeupAssumption DEF TestThreadFlag, Proceed, IndInv, TypeOK, MutexHeld, OneByte, FlagTellsTruth, Signalling, queues, flags, signal, sender, network, losses
<1>4. FlagTellsTruth'
  BY WakeupAssumption DEF TestThreadFlag, Proceed, IndInv, TypeOK, MutexHeld, OneByte, FlagTellsTruth, Signalling, DrainedOnce, queues, flags, signal, sender, network, losses
<1>5. DrainedOnce'
  BY WakeupAssumption DEF TestThreadFlag, Proceed, IndInv, TypeOK, MutexHeld, OneByte, FlagTellsTruth, Signalling, DrainedOnce, queues, flags, signal, sender, network, losses
<1>6. QueueWatched'
  BY WakeupAssumption DEF TestThreadFlag, Proceed, IndInv, TypeOK, FlagTellsTruth, OneByte, Signalling, QueueWatched, Watched, Flagged, Alarm, Awake, queues, flags, signal, sender, network, losses
<1>7. QED  BY <1>1, <1>2, <1>3, <1>4, <1>5, <1>6 DEF IndInv

LEMMA ClearThreadFlagInv ==
  ASSUME IndInv, ClearThreadFlag
  PROVE  IndInv'
<1>1. TypeOK'
  BY WakeupAssumption DEF ClearThreadFlag, Proceed, CallSignalCB, IndInv, TypeOK, queues, flags, signal, sender, network, losses
<1>2. MutexHeld'
  BY DEF ClearThreadFlag, Proceed, CallSignalCB, IndInv, TypeOK, MutexHeld, FlagTellsTruth, Signalling, queues, flags, signal, sender, network, losses
<1>3. OneByte'
  BY WakeupAssumption DEF ClearThreadFlag, Proceed, CallSignalCB, IndInv, TypeOK, MutexHeld, OneByte, FlagTellsTruth, Signalling, queues, flags, signal, sender, network, losses
<1>4. FlagTellsTruth'
  BY WakeupAssumption DEF ClearThreadFlag, Proceed, CallSignalCB, IndInv, TypeOK, MutexHeld, OneByte, FlagTellsTruth, Signalling, DrainedOnce, queues, flags, signal, sender, network, losses
<1>5. DrainedOnce'
  BY WakeupAssumption DEF ClearThreadFlag, Proceed, CallSignalCB, IndInv, TypeOK, MutexHeld, OneByte, FlagTellsTruth, Signalling, DrainedOnce, queues, flags, signal, sender, network, losses
<1>6. QueueWatched'
  BY WakeupAssumption DEF ClearThreadFlag, Proceed, CallSignalCB, IndInv, TypeOK, FlagTellsTruth, OneByte, Signalling, QueueWatched, Watched, Flagged, Alarm, Awake, queues, flags, signal, sender, network, losses
<1>7. QED  BY <1>1, <1>2, <1>3, <1>4, <1>5, <1>6 DEF IndInv

LEMMA NextInv == IndInv /\ [Next]_vars => IndInv'
<1> SUFFICES ASSUME IndInv, [Next]_vars PROVE IndInv'
  OBVIOUS
<1>1. ASSUME NEW s \in Senders, PutRequest(s) \/ SendStep(s)  PROVE IndInv'
  BY <1>1, PutRequestInv, SetConnFlagInv, SetThreadFlagInv, CheckFlagInv, LockInv,
     RecheckInv, MarkPipeInv, WriteByteInv DEF SendStep
<1>2. CASE NetworkStep
  BY <1>2, WakeInv, ReadPipeInv, ClearPipeFlagInv, TestConnFlagInv, ClearConnFlagInv,
     AddEventWriteInv, SignalDoneInv, WriteTakesInv, DelEventWriteInv,
     ReconnectInv, DoAfterReconnectInv, GiveUpInv, ReadClosedInv,
     TestThreadFlagInv, ClearThreadFlagInv DEF NetworkStep
<1>3. CASE Timeout
  BY <1>3, TimeoutInv
<1>4. CASE UNCHANGED vars
  BY <1>4 DEF vars, queues, flags, signal, sender, network, losses, IndInv, TypeOK, MutexHeld,
     OneByte, FlagTellsTruth, Signalling, DrainedOnce, QueueWatched, Watched, Flagged, Alarm, Awake
<1>5. QED  BY <1>1, <1>2, <1>3, <1>4 DEF Next

LEMMA SpecInv == Spec => []IndInv
BY InitInv, NextInv, PTL DEF Spec

\* Every variable of the wakeup protocol keeps its type, and no connection
\* sends more requests than it was given.
THEOREM TypesHold == Spec => []TypeOK
BY SpecInv, PTL DEF IndInv

\* Single never leaves a second byte in the pipe, however many threads call
\* it and however Read interleaves with them.
THEOREM OneByteHolds == Spec => []OneByte
BY SpecInv, PTL DEF IndInv

\* m_iDataFlag says whether the pipe holds a byte, or one is about to be
\* written, or Read is about to clear it.
THEOREM FlagTellsTruthHolds == Spec => []FlagTellsTruth
BY SpecInv, PTL DEF IndInv

\* The network thread never goes to sleep on a request it does not watch the
\* socket for, so the wakeup does not lean on the timeout of epoll_wait.
THEOREM NoLostWakeupHolds == Spec => []NoLostWakeup
<1>1. IndInv => NoLostWakeup
  BY DEF IndInv, QueueWatched, Watched, Flagged, Alarm, Awake, NoLostWakeup
<1>2. QED  BY <1>1, SpecInv, PTL

-----------------------------------------------------------------------------
(* The one-step signalling.                                                *)

\* What the network thread knows of the connections it works on: a reported one
\* is watched, and so is one that was made again, but not yet one that was lost.
\* A flag that SignalCB saw is up until SignalCB lowers it.
Known ==
  /\ wantWrite \cap dead = {}
  /\ active \ {Pipe} \subseteq wantWrite
  /\ npc \in {"delWrite", "connect", "resend"} => now \notin active
  /\ npc \in {"connect", "resend"} => now \notin dead
  /\ npc = "connect" => now \notin wantWrite
  /\ npc = "resend" => now \in wantWrite
  /\ npc = "clearConnFlag" => connFlag[now]

LEMMA KnownInit == Init => Known
BY DEF Init, Known

LEMMA KnownNext == IndInv /\ Known /\ [Next]_vars => Known'
<1> SUFFICES ASSUME IndInv, Known, [Next]_vars PROVE Known'
  OBVIOUS
<1> USE DEF Known
<1>1. ASSUME NEW s \in Senders, PutRequest(s) \/ SendStep(s)  PROVE Known'
  <2>1. UNCHANGED <<network, losses>>
    BY <1>1 DEF PutRequest, SendStep, SetConnFlag, SetThreadFlag, CheckFlag, Lock, Recheck,
       MarkPipe, WriteByte
  <2>2. \A c \in Conns : connFlag[c] => connFlag'[c]
    BY <1>1 DEF PutRequest, SendStep, SetConnFlag, SetThreadFlag, CheckFlag, Lock, Recheck,
       MarkPipe, WriteByte, flags, Goto, IndInv, TypeOK
  <2>3. npc = "clearConnFlag" => now \in Conns
    BY DEF IndInv, TypeOK
  <2>4. QED  BY <2>1, <2>2, <2>3 DEF network, losses
<1>2. CASE Wake \/ Timeout
  BY <1>2 DEF Wake, Timeout, Proceed, Ready
<1>3. CASE ReadPipe \/ ClearPipeFlag \/ TestConnFlag \/ ClearConnFlag \/ SignalDone
  BY <1>3 DEF ReadPipe, ClearPipeFlag, NotifyThread, CallSignalCB, TestConnFlag, ClearConnFlag,
     SignalDone, Proceed, flags, losses, IndInv, TypeOK
<1>4. CASE TestThreadFlag \/ ClearThreadFlag \/ UNCHANGED vars
  BY <1>4 DEF TestThreadFlag, ClearThreadFlag, CallSignalCB, Proceed, vars, flags, network, losses
<1>5. CASE AddEventWrite
  BY <1>5 DEF AddEventWrite, Proceed, losses
<1>6. ASSUME NEW c \in Conns, WriteTakes(c)  PROVE Known'
  BY <1>6 DEF WriteTakes, losses
<1>7. CASE DelEventWrite
  BY <1>7 DEF DelEventWrite, Proceed, losses
<1>8. CASE Reconnect \/ DoAfterReconnect \/ GiveUp
  BY <1>8 DEF Reconnect, DoAfterReconnect, GiveUp, Proceed, losses
<1>9. ASSUME NEW c \in Conns, ReadClosed(c)  PROVE Known'
  <2>1. c \notin dead /\ c \notin active
    BY <1>9 DEF ReadClosed, IndInv, TypeOK
  <2>2. QED  BY <1>9, <2>1, WakeupAssumption DEF ReadClosed, Proceed
<1>10. QED
  BY <1>1, <1>2, <1>3, <1>4, <1>5, <1>6, <1>7, <1>8, <1>9 DEF Next, NetworkStep

LEMMA SpecKnown == Spec => [](IndInv /\ Known)
<1>1. Init => IndInv /\ Known
  BY InitInv, KnownInit
<1>2. IndInv /\ Known /\ [Next]_vars => (IndInv /\ Known)'
  BY NextInv, KnownNext
<1>3. QED  BY <1>1, <1>2, PTL DEF Spec

\* The variables of OutputSignal.
Pending == {c \in Conns : sent[c] < put[c]}
Flags == {c \in Conns : Raised(c)}
Watch == {c \in Conns : Watching(c)}
Coarse == <<Pending, Flags, Watch, Away, dead>>

\* Senders change what is pending and which flags are up, the network thread
\* does not see it.
LEMMA SenderWatch ==
  ASSUME UNCHANGED <<network, losses>>
  PROVE  UNCHANGED <<Watch, Away, dead>>
BY DEF network, losses, Watch, Watching, Away

LEMMA FlagsSame ==
  ASSUME UNCHANGED <<connFlag, target, spc>>
  PROVE  UNCHANGED Flags
BY DEF Flags, Raised

LEMMA PutIsProduce ==
  ASSUME IndInv, NEW s \in Senders, PutRequest(s)
  PROVE  \E c \in Conns : Signal!Produce(c)
<1>1. PICK c \in Conns : /\ put' = [put EXCEPT ![c] = @ + 1]
                        /\ target' = [target EXCEPT ![s] = c]
  BY DEF PutRequest
<1>2. /\ spc[s] = "idle" /\ spc' = [spc EXCEPT ![s] = "connFlag"]
      /\ sent' = sent /\ connFlag' = connFlag /\ UNCHANGED <<network, losses>>
  BY DEF PutRequest, Goto, flags
<1>3. Pending' = Pending \cup {c}
  BY <1>1, <1>2 DEF Pending, IndInv, TypeOK
<1>4. Flags' = Flags \cup {c}
  <2>1. \A d \in Conns : Raised(d)' <=> Raised(d) \/ d = c
    BY <1>1, <1>2 DEF Raised, IndInv, TypeOK
  <2>2. QED  BY <2>1 DEF Flags
<1>5. QED  BY <1>2, <1>3, <1>4, SenderWatch DEF Signal!Produce, Pending, Flags, Watch

LEMMA SendStepIsQuiet ==
  ASSUME IndInv, NEW s \in Senders, SendStep(s)
  PROVE  UNCHANGED Coarse
<1>1. UNCHANGED <<queues, network, losses>>
  BY DEF SendStep, SetConnFlag, SetThreadFlag, CheckFlag, Lock, Recheck, MarkPipe, WriteByte
<1>2. Flags' = Flags
  <2>1. CASE SetConnFlag(s)
    <3>1. /\ spc[s] = "connFlag" /\ spc' = [spc EXCEPT ![s] = "threadFlag"]
          /\ connFlag' = [connFlag EXCEPT ![target[s]] = TRUE]
          /\ target' = [target EXCEPT ![s] = NoConn]
      BY <2>1 DEF SetConnFlag, Goto
    <3>2. \A d \in Conns : Raised(d)' <=> Raised(d)
      BY <3>1 DEF Raised, IndInv, TypeOK
    <3>3. QED  BY <3>2 DEF Flags
  <2>2. CASE ~ SetConnFlag(s)
    <3>1. /\ UNCHANGED <<connFlag, target>> /\ spc[s] # "connFlag"
          /\ \E to \in {"idle", "check", "lock", "recheck", "mark", "write"} :
               spc' = [spc EXCEPT ![s] = to]
      BY <2>2 DEF SendStep, SetThreadFlag, CheckFlag, Lock, Recheck, MarkPipe, WriteByte,
         Goto, flags
    <3>2. \A d \in Conns : Raised(d)' <=> Raised(d)
      BY <3>1 DEF Raised, IndInv, TypeOK
    <3>3. QED  BY <3>2 DEF Flags
  <2>3. QED  BY <2>1, <2>2
<1>3. QED  BY <1>1, <1>2, SenderWatch DEF Coarse, Pending, queues

\* Steps of the network thread between what OutputSignal sees.
LEMMA NetworkIsQuiet ==
  ASSUME IndInv,
         \/ Wake \/ Timeout \/ ReadPipe \/ ClearPipeFlag \/ TestConnFlag \/ SignalDone
         \/ DelEventWrite \/ TestThreadFlag \/ ClearThreadFlag
         \/ AddEventWrite \/ UNCHANGED vars
  PROVE  UNCHANGED Coarse
<1>1. UNCHANGED <<put, sent, connFlag, target, spc, dead>>
  BY DEF Wake, Timeout, ReadPipe, ClearPipeFlag, TestConnFlag, SignalDone, DelEventWrite,
     TestThreadFlag, ClearThreadFlag, AddEventWrite, vars, queues, flags, sender, losses
<1>2. Away' = Away
  BY DEF Wake, Timeout, ReadPipe, ClearPipeFlag, NotifyThread, CallSignalCB, TestConnFlag,
     SignalDone, DelEventWrite, TestThreadFlag, ClearThreadFlag, AddEventWrite, Proceed, vars,
     network, Away, IndInv, TypeOK
<1>3. \A c \in Conns : Watching(c)' <=> Watching(c)
  <2>1. CASE DelEventWrite \/ AddEventWrite
    BY <2>1, <1>1, WakeupAssumption DEF DelEventWrite, AddEventWrite, Proceed, Watching,
       IndInv, TypeOK
  <2>2. CASE ~ (DelEventWrite \/ AddEventWrite)
    BY <2>2, <1>1 DEF Wake, Timeout, ReadPipe, ClearPipeFlag, NotifyThread, CallSignalCB,
       TestConnFlag, SignalDone, TestThreadFlag, ClearThreadFlag, Proceed, vars, network,
       Watching, IndInv, TypeOK
  <2>3. QED  BY <2>1, <2>2
<1>4. QED  BY <1>1, <1>2, <1>3, FlagsSame DEF Coarse, Pending, Watch

\* The flag is lowered, unless another sender is about to raise it.
LEMMA ClearIsNotice ==
  ASSUME IndInv, Known, ClearConnFlag
  PROVE  Signal!Notice({now})
<1>1. /\ npc = "clearConnFlag" /\ npc' = "addWrite" /\ now \in Conns /\ now' = now
      /\ connFlag' = [connFlag EXCEPT ![now] = FALSE]
      /\ UNCHANGED <<put, sent, target, spc, wantWrite, dead>>
  BY DEF ClearConnFlag, Proceed, queues, sender, losses, IndInv, TypeOK
<1>2. Away = NoConn /\ Away' = NoConn
  BY <1>1 DEF Away
<1>3. Pending' = Pending
  BY <1>1 DEF Pending
<1>4. \A c \in Conns : /\ Raised(c)' => Raised(c)
                       /\ c # now => (Raised(c)' <=> Raised(c))
  BY <1>1 DEF Raised, IndInv, TypeOK
<1>5. \A c \in Conns : Watching(c)' <=> Watching(c) \/ (c = now /\ c \notin dead)
  BY <1>1 DEF Watching
<1>6. Raised(now)
  BY <1>1 DEF Raised, Known
<1>7. Watch' = Watch \cup ({now} \ dead)
  BY <1>1, <1>5 DEF Watch
<1>8. {now} \subseteq Flags /\ Flags \ {now} \subseteq Flags' /\ Flags' \subseteq Flags
  BY <1>1, <1>4, <1>6 DEF Flags
<1>9. QED
  BY <1>1, <1>2, <1>3, <1>7, <1>8 DEF Signal!Notice, Signal!InLoop, Pending, Flags, Watch

LEMMA WriteSends ==
  ASSUME IndInv, Known, NEW c \in Conns, WriteTakes(c)
  PROVE  UNCHANGED Coarse \/ Signal!SendLast(c) \/ Signal!Rest(c)
<1>1. /\ npc = "events" /\ c \in active /\ c \in wantWrite
      /\ UNCHANGED <<put, connFlag, target, spc, wantWrite, dead>>
  BY WakeupAssumption DEF WriteTakes, flags, sender, losses, Known
<1>2. Flags' = Flags
  BY <1>1, FlagsSame
<1>3. Away = NoConn /\ c \in Watch
  BY <1>1 DEF Away, Watch, Watching
<1>4. CASE sent[c] < put[c] /\ sent' = [sent EXCEPT ![c] = @ + 1] /\ UNCHANGED <<npc, now>>
  <2>1. UNCHANGED <<Watch, Away>> /\ c \in Pending
    BY <1>1, <1>4 DEF Watch, Watching, Away, Pending
  <2>2. Pending' = Pending \/ Pending' = Pending \ {c}
    <3>1. \A d \in Conns : d # c => sent'[d] = sent[d]
      BY <1>4 DEF IndInv, TypeOK
    <3>2. QED  BY <1>1, <3>1, <2>1 DEF Pending
  <2>3. QED
    BY <1>1, <1>2, <1>3, <2>1, <2>2 DEF Coarse, Signal!SendLast, Signal!InLoop, Pending,
       Flags, Watch
<1>5. CASE sent[c] >= put[c] /\ npc' = "delWrite" /\ now' = c /\ UNCHANGED sent
  <2>1. Pending' = Pending /\ c \notin Pending
    BY <1>1, <1>5 DEF Pending, IndInv, TypeOK
  <2>2. Away' = NoConn
    BY <1>5 DEF Away
  <2>3. Watch' = Watch \ {c}
    BY <1>1, <1>5 DEF Watch, Watching
  <2>4. QED
    BY <1>1, <1>2, <1>3, <2>1, <2>2, <2>3 DEF Signal!Rest, Signal!InLoop, Pending, Flags, Watch
<1>6. CASE UNCHANGED <<npc, now, sent>>
  BY <1>1, <1>2, <1>6 DEF Coarse, Pending, Watch, Watching, Away
<1>7. QED  BY <1>4, <1>5, <1>6 DEF WriteTakes, IndInv, TypeOK

LEMMA LossIsLose ==
  ASSUME IndInv, NEW c \in Conns, ReadClosed(c)
  PROVE  Signal!Lose(c)
<1>1. /\ npc = "events" /\ npc' = "connect" /\ now' = c /\ c \notin dead
      /\ wantWrite' = wantWrite \ {c}
      /\ UNCHANGED <<put, sent, connFlag, target, spc, dead>>
  BY DEF ReadClosed, Proceed, queues, flags, sender, IndInv, TypeOK
<1>2. Away = NoConn /\ Away' = c
  BY <1>1 DEF Away
<1>3. Watch' = Watch \ {c}
  BY <1>1 DEF Watch, Watching
<1>4. Flags' = Flags /\ Pending' = Pending
  BY <1>1, FlagsSame DEF Pending
<1>5. QED  BY <1>1, <1>2, <1>3, <1>4 DEF Signal!Lose, Signal!InLoop, Pending, Flags, Watch

LEMMA ReconnectIsRemake ==
  ASSUME IndInv, Known, Reconnect \/ DoAfterReconnect
  PROVE  Signal!Remake
<1>1. /\ now \in Conns /\ Away = now /\ Away # NoConn /\ now \notin dead
      /\ UNCHANGED <<put, target, spc, dead>>
  BY WakeupAssumption DEF Reconnect, DoAfterReconnect, Proceed, queues, sender, losses, Away,
     IndInv, TypeOK, Known
<1>2. /\ \A d \in Conns : d # now => sent'[d] = sent[d] /\ connFlag'[d] = connFlag[d]
      /\ connFlag[now] => connFlag'[now]
      /\ wantWrite \subseteq wantWrite' /\ wantWrite' = wantWrite \cup {now}
      /\ npc \in {"connect", "resend"} /\ npc' \in {"resend", "events"}
  BY DEF Reconnect, DoAfterReconnect, Proceed, queues, flags, IndInv, TypeOK, Known
<1>3. Pending \ {now} \subseteq Pending' /\ Pending' \subseteq Pending \cup {now}
  BY <1>1, <1>2 DEF Pending
<1>4. Flags \subseteq Flags' /\ Flags' \subseteq Flags \cup {now}
  BY <1>1, <1>2 DEF Flags, Raised
<1>5. Watch \subseteq Watch' /\ Watch' \subseteq Watch \cup {now} /\ now \in Watch'
  BY <1>1, <1>2 DEF Watch, Watching
<1>6. Away' = now \/ Away' = NoConn
  BY DEF Reconnect, DoAfterReconnect, Proceed, Away
<1>7. QED
  BY <1>1, <1>3, <1>4, <1>5, <1>6 DEF Signal!Remake, Signal!InLoop, Pending, Flags, Watch

LEMMA GiveUpIsGiveUp ==
  ASSUME IndInv, GiveUp
  PROVE  Signal!GiveUp
<1>1. /\ npc = "connect" /\ npc' = "events" /\ Away = now /\ now \in Conns
      /\ Away # NoConn /\ Away' = NoConn /\ dead' = dead \cup {now}
      /\ UNCHANGED <<put, sent, connFlag, target, spc, wantWrite>>
  BY WakeupAssumption DEF GiveUp, Proceed, queues, flags, sender, Away, IndInv, TypeOK
<1>2. Watch' = Watch
  BY <1>1 DEF Watch, Watching
<1>3. Flags' = Flags /\ Pending' = Pending
  BY <1>1, FlagsSame DEF Pending
<1>4. QED
  BY <1>1, <1>2, <1>3 DEF Signal!GiveUp, Signal!InLoop, Signal!Forgets, Pending, Flags, Watch

LEMMA SignalInit == Init => Signal!Init
<1> SUFFICES ASSUME Init PROVE Signal!Init
  OBVIOUS
<1>1. /\ connFlag = [c \in Conns |-> TRUE] /\ wantWrite = Conns /\ npc = "wait" /\ dead = {}
  BY DEF Init
<1>2. Flags = Conns /\ Watch = Conns /\ Pending \subseteq Conns /\ Away = NoConn
  BY <1>1 DEF Flags, Raised, Watch, Watching, Pending, Away
<1>3. QED  BY <1>1, <1>2 DEF Signal!Init, Flags, Watch, Pending

LEMMA SignalStep == IndInv /\ Known /\ [Next]_vars => [Signal!Next]_(Signal!vars)
<1> SUFFICES ASSUME IndInv, Known, [Next]_vars PROVE Signal!Next \/ UNCHANGED Coarse
  BY DEF Signal!vars, Coarse, Pending, Flags, Watch
<1>1. ASSUME NEW s \in Senders, PutRequest(s)  PROVE Signal!Next
  BY <1>1, PutIsProduce DEF Signal!Next
<1>2. ASSUME NEW s \in Senders, SendStep(s)  PROVE UNCHANGED Coarse
  BY <1>2, SendStepIsQuiet
<1>3. CASE ClearConnFlag
  <2>1. {now} \in SUBSET Conns
    BY <1>3 DEF ClearConnFlag, Proceed, IndInv, TypeOK
  <2>2. Signal!Notice({now})
    BY <1>3, ClearIsNotice
  <2>3. QED  BY <2>1, <2>2 DEF Signal!Next
<1>4. ASSUME NEW c \in Conns, WriteTakes(c) \/ ReadClosed(c)
      PROVE  Signal!Next \/ UNCHANGED Coarse
  BY <1>4, WriteSends, LossIsLose DEF Signal!Next
<1>5. CASE Reconnect \/ DoAfterReconnect \/ GiveUp
  BY <1>5, ReconnectIsRemake, GiveUpIsGiveUp DEF Signal!Next
<1>6. CASE \/ Wake \/ Timeout \/ ReadPipe \/ ClearPipeFlag \/ TestConnFlag \/ SignalDone
           \/ DelEventWrite \/ TestThreadFlag \/ ClearThreadFlag
           \/ AddEventWrite \/ UNCHANGED vars
  BY <1>6, NetworkIsQuiet
<1>7. QED
  BY <1>1, <1>2, <1>3, <1>4, <1>5, <1>6 DEF Next, NetworkStep

\* Any number of senders and the network thread, one access to memory at a time,
\* do what ClientEvent takes a single step for: a request and its flag appear
\* together, and a flag is lowered together with the write interest it asks for.
THEOREM ImplementsSignal == Spec => SignalSpec
BY SignalInit, SignalStep, SpecKnown, PTL DEF Spec, SignalSpec, Signal!Spec

\* That is enough for no output to be stranded: nothing else of Wakeup is used.
THEOREM NoneStrandedHolds == SignalSpec => []Signal!NoneStranded
<1> DEFINE Safe == \A c \in Pending \ (dead \cup {Away}) : c \in Watch \cup Flags
<1>1. Signal!NoneStranded <=> Safe
  BY DEF Signal!NoneStranded, Pending, Flags, Watch
<1>2. Signal!Init => Safe
  BY DEF Signal!Init, Pending, Flags, Watch
<1>3. Safe /\ [Signal!Next]_(Signal!vars) => Safe'
  <2> SUFFICES ASSUME Safe, [Signal!Next]_(Signal!vars) PROVE Safe'
    OBVIOUS
  <2>1. ASSUME NEW c \in Conns, Signal!Produce(c)  PROVE Safe'
    <3>1. /\ Pending' = Pending \cup {c} /\ Flags' = Flags \cup {c}
          /\ UNCHANGED <<Watch, Away, dead>>
      BY <2>1 DEF Signal!Produce, Pending, Flags, Watch
    <3>2. QED  BY <3>1
  <2>2. ASSUME NEW c \in Conns, Signal!SendLast(c)  PROVE Safe'
    <3>1. Pending' = Pending \ {c} /\ UNCHANGED <<Flags, Watch, Away, dead>>
      BY <2>2 DEF Signal!SendLast, Pending, Flags, Watch
    <3>2. QED  BY <3>1
  <2>3. ASSUME NEW c \in Conns, Signal!Rest(c)  PROVE Safe'
    <3>1. /\ c \notin Pending /\ Watch' = Watch \ {c}
          /\ UNCHANGED <<Pending, Flags, Away, dead>>
      BY <2>3 DEF Signal!Rest, Pending, Flags, Watch
    <3>2. QED  BY <3>1
  <2>4. ASSUME NEW c \in Conns, Signal!Lose(c)  PROVE Safe'
    <3>1. /\ Away = NoConn /\ Away' = c /\ Watch' = Watch \ {c}
          /\ UNCHANGED <<Pending, Flags, dead>>
      BY <2>4 DEF Signal!Lose, Signal!InLoop, Pending, Flags, Watch
    <3>2. NoConn \notin Pending
      BY WakeupAssumption DEF Pending
    <3>3. QED  BY <3>1, <3>2
  <2>5. ASSUME NEW S \in SUBSET Conns, Signal!Notice(S)  PROVE Safe'
    <3>1. /\ Watch' = Watch \cup (S \ dead) /\ Flags \ S \subseteq Flags'
          /\ UNCHANGED <<Pending, Away, dead>>
      BY <2>5 DEF Signal!Notice, Pending, Flags, Watch
    <3>2. QED  BY <3>1
  <2>6. CASE Signal!Retry
    <3>1. Pending' \subseteq Pending /\ UNCHANGED <<Flags, Watch, Away, dead>>
      BY <2>6 DEF Signal!Retry, Signal!Forgets, Pending, Flags, Watch
    <3>2. QED  BY <3>1
  <2>7. CASE Signal!Remake
    <3>1. /\ Pending' \subseteq Pending \cup {Away} /\ Flags \subseteq Flags'
          /\ Watch \subseteq Watch' /\ dead' = dead
          /\ Away' = Away \/ (Away' = NoConn /\ Away \in Watch')
      BY <2>7 DEF Signal!Remake, Pending, Flags, Watch
    <3>2. QED  BY <3>1
  <2>8. CASE Signal!GiveUp
    <3>1. /\ Pending' \subseteq Pending /\ dead' = dead \cup {Away}
          /\ UNCHANGED <<Flags, Watch>>
      BY <2>8 DEF Signal!GiveUp, Signal!Forgets, Pending, Flags, Watch
    <3>2. QED  BY <3>1
  <2>9. CASE UNCHANGED Signal!vars
    <3>1. UNCHANGED Coarse
      BY <2>9 DEF Signal!vars, Coarse, Pending, Flags, Watch
    <3>2. QED  BY <3>1 DEF Coarse
  <2>10. QED
    BY <2>1, <2>2, <2>3, <2>4, <2>5, <2>6, <2>7, <2>8, <2>9 DEF Signal!Next
<1>4. QED  BY <1>1, <1>2, <1>3, PTL DEF SignalSpec, Signal!Spec

-----------------------------------------------------------------------------
(* How the network thread comes back to epoll_wait.                        *)

\* How far it is from there, once the events that are left are handled: within
\* an event, between two events, or at the flag of the thread.
InSignal == npc \in {"signal", "clearConnFlag", "addWrite"}
Distance ==
  CASE npc = "wait" -> 0
    [] InSignal /\ back = "wait" -> 1
    [] npc = "clearThreadFlag" -> 2
    [] npc = "events" -> 3
    [] InSignal /\ back = "events" -> 4
    [] npc \in {"clearPipeFlag", "delWrite", "resend"} -> 5
    [] npc = "connect" -> 6
AtConn == CASE npc = "clearConnFlag" -> 2 [] npc = "addWrite" -> 1 [] OTHER -> 0

Fewer(S, T) == S \subseteq T /\ S # T

\* Closer to the wait: an event less is left, or with the same events it is at
\* a later place of the loop, or SignalCB has a connection less to look at.
Closer ==
  \/ Fewer(closed', closed)
  \/ closed' = closed /\ Fewer(active', active)
  \/ UNCHANGED <<closed, active>> /\ Distance' < Distance
  \/ UNCHANGED <<closed, active>> /\ Distance' = Distance /\ Fewer(todo', todo)
  \/ UNCHANGED <<closed, active, todo>> /\ Distance' = Distance /\ AtConn' < AtConn

\* Every turn of the loop of the network thread ends, whatever senders do
\* meanwhile: each of its own steps brings it closer to the wait, and no step of
\* a sender gives it more to do.
TurnEnds ==
  [][npc # "wait" => IF NetworkStep THEN Closer
                     ELSE UNCHANGED <<closed, active, todo, npc, back>>]_vars

LEMMA NetworkCloser == IndInv /\ npc # "wait" /\ NetworkStep => Closer
<1> SUFFICES ASSUME IndInv, npc # "wait", NetworkStep PROVE Closer
  OBVIOUS
<1> USE DEF Closer, Fewer
<1>1. back \in {"wait", "events"}
  BY DEF IndInv, TypeOK
<1>2. ASSUME NEW c \in Conns, ReadClosed(c)  PROVE Closer
  BY <1>2 DEF ReadClosed
<1>3. CASE ReadPipe \/ \E c \in Conns : WriteTakes(c)
  BY <1>3 DEF ReadPipe, WriteTakes, losses
<1>4. CASE ClearPipeFlag
  BY <1>4 DEF ClearPipeFlag, NotifyThread, CallSignalCB, losses, Distance, InSignal
<1>5. CASE TestConnFlag
  BY <1>1, <1>5 DEF TestConnFlag, losses, Distance, InSignal
<1>6. CASE ClearConnFlag \/ AddEventWrite
  BY <1>1, <1>6 DEF ClearConnFlag, AddEventWrite, Proceed, losses, Distance, InSignal, AtConn
<1>7. CASE SignalDone
  BY <1>1, <1>7 DEF SignalDone, Proceed, losses, Distance, InSignal
<1>8. CASE DelEventWrite \/ Reconnect \/ DoAfterReconnect \/ GiveUp
  BY <1>8 DEF DelEventWrite, Reconnect, DoAfterReconnect, GiveUp, Proceed, losses, Distance,
     InSignal
<1>9. CASE TestThreadFlag \/ ClearThreadFlag
  BY <1>9 DEF TestThreadFlag, ClearThreadFlag, CallSignalCB, Proceed, losses, Distance, InSignal
<1>10. QED
  BY <1>2, <1>3, <1>4, <1>5, <1>6, <1>7, <1>8, <1>9 DEF NetworkStep, Wake, Proceed

\* The loop of the network thread has no turn without an end.
THEOREM TurnEndsHolds == Spec => TurnEnds
<1>1. IndInv /\ [Next]_vars /\ vars' # vars /\ npc # "wait" /\ ~ NetworkStep
        => UNCHANGED <<closed, active, todo, npc, back>>
  BY DEF Next, Timeout, Proceed, PutRequest, SendStep, SetConnFlag, SetThreadFlag, CheckFlag,
     Lock, Recheck, MarkPipe, WriteByte, network, losses
<1>2. IndInv /\ [Next]_vars
        => [npc # "wait" => IF NetworkStep THEN Closer
                            ELSE UNCHANGED <<closed, active, todo, npc, back>>]_vars
  BY <1>1, NetworkCloser
<1>3. QED  BY <1>2, SpecInv, PTL DEF Spec, TurnEnds
=============================================================================
