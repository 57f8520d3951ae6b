-------------------------------- MODULE Wakeup --------------------------------
(***************************************************************************)
(* How the network thread learns of new requests: the flag of each         *)
(* connection, the flag of the thread, and the pipe of GORM_SignalEvent    *)
(* (src/include/gorm_signal_event.h) with its own flag and mutex.  Every   *)
(* access to an atomic, the pipe or a queue is a step of its own.          *)
(*                                                                         *)
(* Requests are counted: sent[c] of the put[c] requests of connection c    *)
(* have been taken from its queue.  A socket is always writable here       *)
(* (ClientEvent has the ones that are not), but the server may close it:   *)
(* the network thread then reconnects inside the event, while requests go  *)
(* on being put and the pipe fills, or gives the connection up.            *)
(*                                                                         *)
(* The signal event copies the thread's sharedSelf when the network thread *)
(* initialises.  StartWork sets sharedSelf after it has started the thread *)
(* (src/src/gorm_thread_pool.cc:66-71), so the copy may be null for ever,  *)
(* and then Read of the signal event does not call SignalCB.               *)
(***************************************************************************)
EXTENDS Naturals

CONSTANTS
  Senders,   \* business threads
  Conns,     \* connections
  NoConn,    \* none of them
  Pipe,      \* the signal event, among the events of epoll_wait
  MaxPut,    \* requests a connection is given in a behaviour (bound)
  PipeCap,   \* bytes the pipe can hold
  MaxDrops   \* times the server closes connections in a behaviour (bound)

ASSUME WakeupAssumption ==
  /\ Pipe \notin Conns /\ NoConn \notin Conns
  /\ {MaxPut, MaxDrops} \subseteq Nat /\ PipeCap \in Nat \ {0}

VARIABLES
  put, sent,    \* waitSendingChannel of each connection, by counters
  connFlag,     \* dataFlag of each connection
  threadFlag,   \* dataFlag of the thread
  pipe,         \* bytes in the pipe
  pipeFlag,     \* m_iDataFlag
  mtx,          \* senders holding the mutex of the signal event
  hasThread,    \* m_pThread of the signal event is set
  target,       \* sender -> connection whose flag it is about to raise
  spc,          \* sender -> where it is in SendRequest
  wantWrite,    \* connections with EPOLLOUT in their event mask
  active,       \* events epoll_wait reported that are not processed yet: the
                \* pipe, and connections that can be written to
  closed,       \* connections reported as closed by the server, likewise
  drops,        \* times it has closed some
  dead,         \* connections Close gave up
  todo,         \* connections SignalCB has not looked at yet
  now,          \* connection the network thread works on, across steps
  npc,          \* where the network thread is in its loop
  back          \* where SignalCB returns to

queues  == <<put, sent>>
flags   == <<connFlag, threadFlag>>
signal  == <<pipe, pipeFlag, mtx>>
sender  == <<target, spc>>
network == <<wantWrite, active, todo, now, npc, back, hasThread>>
losses  == <<closed, drops, dead>>
vars == <<queues, flags, signal, sender, network, losses>>

Init ==
  /\ put = [c \in Conns |-> 0] /\ sent = [c \in Conns |-> 0]
  /\ connFlag = [c \in Conns |-> TRUE] /\ threadFlag = TRUE
  /\ pipe = 0 /\ pipeFlag = FALSE /\ mtx = {}
  /\ hasThread \in BOOLEAN
  /\ target = [s \in Senders |-> NoConn] /\ now = NoConn
  /\ spc = [s \in Senders |-> "idle"]
  /\ wantWrite = Conns
  /\ active = {} /\ todo = {}
  /\ npc = "wait" /\ back = "wait"
  /\ closed = {} /\ drops = 0 /\ dead = {}

-----------------------------------------------------------------------------
(* SendRequest of a business thread.                                       *)

Goto(s, from, to) == spc[s] = from /\ spc' = [spc EXCEPT ![s] = to]

\* The request is put into the queue of its connection.
PutRequest(s) ==
  /\ Goto(s, "idle", "connFlag")
  /\ \E c \in Conns : /\ put[c] < MaxPut
                      /\ put' = [put EXCEPT ![c] = @ + 1]
                      /\ target' = [target EXCEPT ![s] = c]
  /\ UNCHANGED <<sent, flags, signal, network, losses>>

SetConnFlagForgotten(s) ==
  /\ Goto(s, "connFlag", "threadFlag")
  /\ target' = [target EXCEPT ![s] = NoConn]
  /\ UNCHANGED <<queues, flags, signal, network, losses>>
SetConnFlag(s) ==
  /\ Goto(s, "connFlag", "threadFlag")
  /\ connFlag' = [connFlag EXCEPT ![target[s]] = TRUE]
  /\ target' = [target EXCEPT ![s] = NoConn]
  /\ UNCHANGED <<queues, threadFlag, signal, network, losses>>

SetThreadFlagForgotten(s) ==
  /\ Goto(s, "threadFlag", "check")
  /\ UNCHANGED <<queues, flags, signal, target, network, losses>>
SetThreadFlag(s) ==
  /\ Goto(s, "threadFlag", "check")
  /\ threadFlag' = TRUE
  /\ UNCHANGED <<queues, connFlag, signal, target, network, losses>>

\* Single returns at once when the pipe has data already.
CheckFlag(s) ==
  /\ Goto(s, "check", IF pipeFlag THEN "idle" ELSE "lock")
  /\ UNCHANGED <<queues, flags, signal, target, network, losses>>

Lock(s) ==
  /\ Goto(s, "lock", "recheck")
  /\ mtx = {} /\ mtx' = {s}
  /\ UNCHANGED <<queues, flags, pipe, pipeFlag, target, network, losses>>

\* The flag is looked at again under the mutex.
NoRecheck(s) ==
  /\ Goto(s, "recheck", "mark")
  /\ UNCHANGED <<queues, flags, signal, target, network, losses>>
Recheck(s) ==
  /\ Goto(s, "recheck", IF pipeFlag THEN "idle" ELSE "mark")
  /\ mtx' = IF pipeFlag THEN {} ELSE mtx
  /\ UNCHANGED <<queues, flags, pipe, pipeFlag, target, network, losses>>

MarkPipe(s) ==
  /\ Goto(s, "mark", "write")
  /\ pipeFlag' = TRUE
  /\ UNCHANGED <<queues, flags, pipe, mtx, target, network, losses>>

\* A full pipe takes nothing; Single gives up after 16 attempts.
WriteByte(s) ==
  /\ Goto(s, "write", "idle")
  /\ pipe' = IF pipe < PipeCap THEN pipe + 1 ELSE pipe
  /\ mtx' = {}
  /\ UNCHANGED <<queues, flags, pipeFlag, target, network, losses>>

-----------------------------------------------------------------------------
(* The loop of the network thread.                                         *)

Proceed(from, to) == npc = from /\ npc' = to

Ready == (IF pipe > 0 THEN {Pipe} ELSE {}) \cup wantWrite

\* Connections the server has closed are reported with the events.
ReportClosed ==
  \/ closed' = {} /\ UNCHANGED drops
  \/ /\ drops < MaxDrops /\ drops' = drops + 1
     /\ closed' \in SUBSET (Conns \ dead)

\* epoll_wait returns with the events that are ready.
Wake ==
  /\ Proceed("wait", "events")
  /\ Ready # {} /\ active' = Ready /\ ReportClosed
  /\ UNCHANGED <<queues, flags, signal, sender, wantWrite, todo, now, back,
                 hasThread, dead>>

\* epoll_wait returns after its timeout (20 ms), or for closed connections only.
Timeout ==
  /\ Proceed("wait", "events")
  /\ Ready = {} /\ ReportClosed
  /\ UNCHANGED <<queues, flags, signal, sender, wantWrite, active, todo, now,
                 back, hasThread, dead>>

\* ProcAllEvents: Read of the signal event drains the pipe, ...
ReadPipe ==
  /\ Proceed("events", "clearPipeFlag")
  /\ Pipe \in active /\ active' = active \ {Pipe}
  /\ pipe' = 0
  /\ UNCHANGED <<queues, flags, pipeFlag, mtx, sender, wantWrite, todo, now, back,
                 hasThread, losses>>

CallSignalCB(return) == npc' = "signal" /\ todo' = Conns /\ back' = return

\* ... clears its flag, and calls SignalCB if it knows its thread.
NotifyThread ==
  IF hasThread THEN CallSignalCB("events")
               ELSE npc' = "events" /\ UNCHANGED <<todo, back>>
ClearPipeFlagForgotten ==
  /\ npc = "clearPipeFlag"
  /\ NotifyThread
  /\ UNCHANGED <<queues, flags, signal, sender, wantWrite, active, now, hasThread, losses>>
ClearPipeFlag ==
  /\ npc = "clearPipeFlag"
  /\ pipeFlag' = FALSE
  /\ NotifyThread
  /\ UNCHANGED <<queues, flags, pipe, mtx, sender, wantWrite, active, now, hasThread, losses>>

\* SignalCB looks at the flag of a connection, clears it, and asks for write
\* interest.
TestConnFlag ==
  /\ npc = "signal"
  /\ \E c \in todo : /\ todo' = todo \ {c}
                     /\ IF connFlag[c] THEN npc' = "clearConnFlag" /\ now' = c
                                       ELSE UNCHANGED <<npc, now>>
  /\ UNCHANGED <<queues, flags, signal, sender, wantWrite, active, back, hasThread, losses>>

ClearConnFlag ==
  /\ Proceed("clearConnFlag", "addWrite")
  /\ connFlag' = [connFlag EXCEPT ![now] = FALSE]
  /\ UNCHANGED <<queues, threadFlag, signal, sender, wantWrite, active, todo, now,
                 back, hasThread, losses>>

\* AddEvent does nothing for a connection without a descriptor.
AddEventWrite ==
  /\ Proceed("addWrite", "signal")
  /\ wantWrite' = wantWrite \cup ({now} \ dead) /\ now' = NoConn
  /\ UNCHANGED <<queues, flags, signal, sender, active, todo, back,
                 hasThread, losses>>

SignalDone ==
  /\ Proceed("signal", back) /\ todo = {} /\ back' = "wait"
  /\ UNCHANGED <<queues, flags, signal, sender, wantWrite, active, todo, now,
                 hasThread, losses>>

\* ProcAllEvents: Write of a connection takes a request and sends it, or goes on
\* failing to send the one it had taken before the server closed, ...
WriteUnchecked(c) ==
  /\ npc = "events"
  /\ c \in active /\ active' = active \ {c}
  /\ sent' = [sent EXCEPT ![c] = @ + 1]
  /\ UNCHANGED <<put, flags, signal, sender, wantWrite, todo, now, npc, back,
                 hasThread, losses>>
WriteTakes(c) ==
  /\ npc = "events"
  /\ c \in active /\ active' = active \ {c}
  /\ \/ IF sent[c] < put[c]
          THEN sent' = [sent EXCEPT ![c] = @ + 1] /\ UNCHANGED <<npc, now>>
          ELSE npc' = "delWrite" /\ now' = c /\ UNCHANGED sent
     \/ c \in closed /\ UNCHANGED <<npc, now, sent>>
  /\ UNCHANGED <<put, flags, signal, sender, wantWrite, todo, back, hasThread, losses>>

\* ... or finds none and gives up its write interest.
DelEventWrite ==
  /\ Proceed("delWrite", "events")
  /\ wantWrite' = wantWrite \ {now} /\ now' = NoConn
  /\ UNCHANGED <<queues, flags, signal, sender, active, todo, back,
                 hasThread, losses>>

\* ProcAllEvents: Read of a connection meets its end.  Close drops the
\* descriptor with its event mask, and the network thread stays in it.
ReadClosed(c) ==
  /\ Proceed("events", "connect")
  /\ c \in closed \ active /\ now' = c
  /\ closed' = closed \ {c}
  /\ wantWrite' = wantWrite \ {c}
  /\ UNCHANGED <<queues, flags, signal, sender, active, todo, back, hasThread,
                 drops, dead>>

\* Reconnect succeeds and asks for read and write interest, ...
ReconnectReadOnly ==
  /\ Proceed("connect", "resend")
  /\ UNCHANGED <<queues, flags, signal, sender, wantWrite, active, todo, now, back,
                 hasThread, losses>>
Reconnect ==
  /\ Proceed("connect", "resend")
  /\ wantWrite' = wantWrite \cup {now}
  /\ UNCHANGED <<queues, flags, signal, sender, active, todo, now, back,
                 hasThread, losses>>

\* ... and DoAfterReconnect puts requests that had been taken back into the
\* queue, with a handshake before them, or finds none in the wait map; ...
DoAfterReconnect ==
  /\ Proceed("resend", "events")
  /\ \/ /\ \E n \in 0 .. sent[now] : sent' = [sent EXCEPT ![now] = n]
        /\ connFlag' = [connFlag EXCEPT ![now] = TRUE]
        /\ wantWrite' = wantWrite \cup {now}
     \/ UNCHANGED <<sent, connFlag, wantWrite>>
  /\ now' = NoConn
  /\ UNCHANGED <<put, threadFlag, signal, sender, active, todo, back,
                 hasThread, losses>>

\* ... or Close gives the connection up.
GiveUp ==
  /\ Proceed("connect", "events")
  /\ dead' = dead \cup {now} /\ now' = NoConn
  /\ UNCHANGED <<queues, flags, signal, sender, wantWrite, active, todo, back,
                 hasThread, closed, drops>>

\* After the events Work looks at the flag of the thread, clears it, and
\* calls SignalCB itself.
TestThreadFlag ==
  /\ Proceed("events", IF threadFlag THEN "clearThreadFlag" ELSE "wait")
  /\ active = {} /\ closed = {}
  /\ UNCHANGED <<queues, flags, signal, sender, wantWrite, active, todo, now,
                 back, hasThread, losses>>

ClearThreadFlag ==
  /\ npc = "clearThreadFlag"
  /\ threadFlag' = FALSE
  /\ CallSignalCB("wait")
  /\ UNCHANGED <<queues, connFlag, signal, sender, wantWrite, active, now, hasThread, losses>>

-----------------------------------------------------------------------------
SendStep(s) ==
  \/ SetConnFlag(s) \/ SetThreadFlag(s) \/ CheckFlag(s) \/ Lock(s)
  \/ Recheck(s) \/ MarkPipe(s) \/ WriteByte(s)

NetworkStep ==
  \/ Wake \/ ReadPipe \/ ClearPipeFlag
  \/ TestConnFlag \/ ClearConnFlag \/ AddEventWrite \/ SignalDone
  \/ DelEventWrite \/ TestThreadFlag \/ ClearThreadFlag
  \/ Reconnect \/ DoAfterReconnect \/ GiveUp
  \/ \E c \in Conns : WriteTakes(c) \/ ReadClosed(c)

Next ==
  \/ NetworkStep \/ Timeout
  \/ \E s \in Senders : PutRequest(s) \/ SendStep(s)

Spec == Init /\ [][Next]_vars

\* A sender finishes what it began, the network thread keeps running, and
\* epoll_wait reports what is ready.  No timeout need ever happen, nor any
\* reconnection succeed: Close ends after its rounds (ComesBack of EventLoop).
FairSpec ==
  /\ Spec
  /\ WF_vars(NetworkStep)
  /\ \A s \in Senders : WF_vars(SendStep(s))

-----------------------------------------------------------------------------
(* Properties.                                                             *)

TypeOK ==
  /\ put \in [Conns -> 0 .. MaxPut] /\ sent \in [Conns -> Nat]
  /\ \A c \in Conns : sent[c] <= put[c]
  /\ connFlag \in [Conns -> BOOLEAN] /\ threadFlag \in BOOLEAN
  /\ pipe \in Nat /\ pipeFlag \in BOOLEAN /\ mtx \subseteq Senders
  /\ hasThread \in BOOLEAN
  /\ target \in [Senders -> Conns \cup {NoConn}]
  /\ \A s \in Senders : spc[s] = "connFlag" => target[s] \in Conns
  /\ spc \in [Senders -> {"idle", "connFlag", "threadFlag", "check", "lock",
                          "recheck", "mark", "write"}]
  /\ wantWrite \subseteq Conns /\ active \subseteq {Pipe} \cup Conns
  /\ todo \subseteq Conns /\ now \in Conns \cup {NoConn}
  /\ npc \in {"clearConnFlag", "addWrite", "delWrite", "connect", "resend"} => now \in Conns
  /\ npc \in {"wait", "events", "clearPipeFlag", "signal", "clearConnFlag",
              "addWrite", "delWrite", "clearThreadFlag", "connect", "resend"}
  /\ closed \subseteq Conns \ dead /\ dead \subseteq Conns
  /\ drops \in 0 .. MaxDrops
  /\ back \in {"wait", "events"}

\* "There is data already, so nothing more is written": the pipe never holds
\* more than one byte, and one at most is on its way, whoever sends.
OneByte ==
  /\ pipe <= 1
  /\ \A s \in Senders : spc[s] = "write" => pipe = 0

\* The flag of the pipe is the truth about the pipe, but for the steps
\* between the two: it is set before the byte is written and cleared after
\* the byte is read, never the other way round.
Signalling == npc = "clearPipeFlag" \/ \E s \in Senders : spc[s] = "write"
FlagTellsTruth == pipeFlag <=> pipe > 0 \/ Signalling

\* No wakeup is lost: when the network thread is about to sleep with nothing
\* in the pipe, and no sender is halfway, every queued request is on a
\* connection epoll_wait watches for writing, or was given up, also when the
\* signal event never calls SignalCB: the flag of the thread is raised before the
\* byte is written, and Work looks at it after the events.  It does not matter
\* that a connection was closed and made again in between, with its mask gone
\* and requests put back.
NoLostWakeup ==
  (npc = "wait" /\ pipe = 0 /\ \A s \in Senders : spc[s] = "idle") =>
    \A c \in Conns \ dead : sent[c] < put[c] => c \in wantWrite

\* A flag is up for OutputSignal from the step that queues the request, although
\* the sender raises it later; a connection is watched from the step that lowers
\* its flag, although its mask is changed later, until Write finds nothing.
Raised(c) == connFlag[c] \/ \E s \in Senders : spc[s] = "connFlag" /\ target[s] = c
Watching(c) ==
  \/ c \in wantWrite /\ ~(npc = "delWrite" /\ now = c)
  \/ npc = "addWrite" /\ now = c /\ c \notin dead
Away == IF npc \in {"connect", "resend"} THEN now ELSE NoConn

\* The accesses of the senders and of the network thread, however they
\* interleave, come to what ClientEvent does in single steps.
Signal == INSTANCE OutputSignal
  WITH pending <- {c \in Conns : sent[c] < put[c]},
       flag <- {c \in Conns : Raised(c)},
       watching <- {c \in Conns : Watching(c)},
       away <- Away
SignalSpec == Signal!Spec

\* Every request is taken from its queue, and taken again after a reconnection
\* put it back, even if epoll_wait had no timeout and the signal event does not
\* know its thread, unless its connection is given up.
Delivered ==
  \A c \in Conns : \A n \in 1 .. MaxPut : put[c] >= n ~> sent[c] >= n \/ c \in dead
=============================================================================
