------------------------------ MODULE EventLoop ------------------------------
(***************************************************************************)
(* The event loop of the network thread: GORM_Epoll and GORM_Event         *)
(* (src/include/gorm_event.h, src/src/gorm_event.cc) with what the         *)
(* connections and the signal event do to descriptors and masks.           *)
(*                                                                         *)
(* The kernel's side is explicit: the open descriptors of the process, and *)
(* the registrations of epoll, each a descriptor with the event it points  *)
(* to.  A new descriptor gets the lowest free number, and the rest of the  *)
(* process opens and closes descriptors at any time.  Whether a connection *)
(* has something to send, or something to read, is a choice here           *)
(* (ClientEvent and ReadBuffer have the data).                             *)
(***************************************************************************)
EXTENDS Integers, FiniteSets

CONSTANTS
  Conns,      \* connections of the client
  Signal,     \* the signal event
  None,       \* no event
  MaxFd,      \* descriptors the process may have; 0 is not among them
  EventNum,   \* events one epoll_wait may report (1024)
  MaxTries,   \* reconnection attempts of a round of Close (10000)
  MaxRounds   \* rounds before Close gives up (6000)

ASSUME EventLoopAssumption ==
  /\ Signal \notin Conns /\ None \notin Conns \cup {Signal}
  /\ MaxFd \in Nat /\ EventNum \in Nat \ {0}
  /\ MaxTries \in Nat \ {0} /\ MaxRounds \in Nat \ {0}

Events == Conns \cup {Signal}
Fds == 1 .. MaxFd
NoFd == 0

R == "readable"   \* bits of m_iMask
W == "writable"
EPOLLIN == "EPOLLIN"
EPOLLOUT == "EPOLLOUT"

VARIABLES
  \* members of the events
  fd,        \* m_iFD
  status,    \* m_Status
  mask,      \* m_iMask
  \* the kernel
  open,      \* open descriptors of the process
  others,    \* those of the rest of the process
  kept,      \* the epoll descriptor and the write end of the pipe
  reg,       \* registrations of epoll
  refused,   \* operations epoll_ctl has refused
  \* the network thread
  phase,     \* where it is
  cur,       \* connection being connected
  todo,      \* connections Init has not started
  active,    \* m_aEpollEvents not processed yet
  now,       \* event ProcAllEvents is at
  tries,     \* i of the two loops of Close
  rounds     \* j of the two loops of Close

members == <<fd, status, mask>>
epoll   == <<reg, refused>>
files   == <<open, others, kept>>
batch   == <<active, now>>
count   == <<tries, rounds>>
vars == <<members, epoll, files, phase, cur, todo, batch, count>>

NoEvent == [ptr |-> None, events |-> {}]

Init ==
  /\ fd = [e \in Events |-> NoFd]
  /\ status = [e \in Events |-> "INIT"]
  /\ mask = [e \in Events |-> {}]
  /\ open = {} /\ others = {} /\ kept = {}
  /\ reg = {} /\ refused = {}
  /\ phase = "epoll"
  /\ cur = None /\ todo = Conns
  /\ active = {} /\ now = NoEvent
  /\ tries = 0 /\ rounds = 0

Free == Fds \ open
IsLowest(f) == f \in Free /\ \A g \in Free : f <= g

-----------------------------------------------------------------------------
(* epoll_ctl, as GORM_Epoll uses it.                                       *)

Registered(f) == \E r \in reg : r.fd = f

\* AddEvent sets EPOLLIN for either bit, DelEvent one event per bit.
AddedEvents(m) == (IF m # {} THEN {EPOLLIN} ELSE {}) \cup (IF W \in m THEN {EPOLLOUT} ELSE {})
LeftEvents(m) == (IF R \in m THEN {EPOLLIN} ELSE {}) \cup (IF W \in m THEN {EPOLLOUT} ELSE {})

\* An empty mask means that the descriptor is not registered yet.
AddOp(e) == IF mask[e] = {} THEN "ADD" ELSE "MOD"

\* AddEvent on each event of S: nothing for one without a descriptor.  The
\* kernel refuses to add what is registered and to change what is not.
AddEvent(S, bits) ==
  LET live == {e \in S : fd[e] # NoFd}
      ok == {e \in live : (AddOp(e) = "MOD") = Registered(fd[e])}
  IN /\ mask' = [e \in Events |-> IF e \in live THEN mask[e] \cup bits ELSE mask[e]]
     /\ reg' = {r \in reg : \A e \in ok : r.fd # fd[e]}
                 \cup {[fd |-> fd[e], ptr |-> e,
                        events |-> AddedEvents(mask[e] \cup bits)] : e \in ok}
     /\ refused' = refused \cup {AddOp(e) : e \in live \ ok}

\* DelEvent changes the registration, or deletes it with the last bit.
DelEventMaskOnly(e, bits) ==
  /\ mask' = [mask EXCEPT ![e] = @ \ bits]
  /\ UNCHANGED epoll
DelEvent(e, bits) ==
  LET left == mask[e] \ bits IN
  /\ mask' = [mask EXCEPT ![e] = left]
  /\ reg' = {r \in reg : r.fd # fd[e]}
              \cup (IF left # {} /\ Registered(fd[e])
                      THEN {[fd |-> fd[e], ptr |-> e, events |-> LeftEvents(left)]}
                      ELSE {})
  /\ refused' = IF Registered(fd[e]) THEN refused
                ELSE refused \cup {IF left # {} THEN "MOD" ELSE "DEL"}

\* Write finds nothing to send.
DelEventWriteDropsRead(e) == DelEvent(e, {R, W})
DelEventWrite(e) == DelEvent(e, {W})

\* GORM_Event::Close: the registration is deleted, the descriptor closed (the
\* kernel then drops a registration by itself) and forgotten.
EventCloseNoDelete(e) ==
  /\ status' = [status EXCEPT ![e] = "CLOSED"]
  /\ fd' = [fd EXCEPT ![e] = NoFd]
  /\ reg' = {r \in reg : r.fd # fd[e]}
  /\ open' = open \ {fd[e]}
  /\ UNCHANGED <<mask, refused>>
EventCloseKeepsFd(e) ==
  /\ status' = [status EXCEPT ![e] = "CLOSED"]
  /\ IF fd[e] = NoFd
       THEN UNCHANGED <<mask, epoll, open>>
       ELSE DelEvent(e, {R, W}) /\ open' = open \ {fd[e]}
  /\ UNCHANGED fd
EventClose(e) ==
  /\ status' = [status EXCEPT ![e] = "CLOSED"]
  /\ fd' = [fd EXCEPT ![e] = NoFd]
  /\ IF fd[e] = NoFd
       THEN UNCHANGED <<mask, epoll, open>>
       ELSE DelEvent(e, {R, W}) /\ open' = open \ {fd[e]}

-----------------------------------------------------------------------------
(* GORM_ClientThread::Init.                                                *)

\* GORM_Epoll::Init creates the epoll descriptor.
CreateEpoll ==
  /\ phase = "epoll"
  /\ \E f \in Fds : IsLowest(f) /\ open' = open \cup {f} /\ kept' = {f}
  /\ phase' = "pipe"
  /\ UNCHANGED <<members, epoll, others, cur, todo, batch, count>>

\* GORM_SignalEvent::Init: the event has the read end of the pipe.
CreatePipe ==
  /\ phase = "pipe"
  /\ \E f, g \in Free :
       /\ IsLowest(f) /\ f < g /\ \A h \in Free \ {f} : g <= h
       /\ fd' = [fd EXCEPT ![Signal] = f]
       /\ open' = open \cup {f, g}
       /\ kept' = kept \cup {g}
  /\ status' = [status EXCEPT ![Signal] = "CONNECTED"]
  /\ phase' = "watchPipe"
  /\ UNCHANGED <<mask, epoll, others, cur, todo, batch, count>>

WatchPipe ==
  /\ phase = "watchPipe"
  /\ AddEvent({Signal}, {R})
  /\ phase' = "start"
  /\ UNCHANGED <<fd, status, files, cur, todo, batch, count>>

\* No epoll descriptor or no pipe: the thread ends.
InitFails ==
  /\ phase \in {"epoll", "pipe"}
  /\ phase' = "ended"
  /\ UNCHANGED <<members, epoll, files, cur, todo, batch, count>>

StartNext ==
  /\ phase = "start"
  /\ IF todo = {} THEN phase' = "wait" /\ cur' = None
                  ELSE phase' = "connect" /\ cur' \in todo
  /\ UNCHANGED <<members, epoll, files, todo, batch, count>>

-----------------------------------------------------------------------------
(* Reconnect, called by Init and by the loop of GORM_ClientEvent::Close.   *)

Starting == todo # {}

\* A failure ends the thread if it is starting; Close closes what there is.
ReconnectFailed == phase' = IF Starting THEN "ended" ELSE "closeAgain"

\* socket fails: the member keeps its old value.
NoSocketStored == /\ fd' = [fd EXCEPT ![cur] = NoFd - 1]
                  /\ ReconnectFailed
                  /\ UNCHANGED <<status, open>>
NoSocket == /\ ReconnectFailed
            /\ UNCHANGED <<fd, status, open>>

\* SetNonBlocking, SetTcpNoDelay, SetTcpKeepAlive, SetLinger: any may fail.
SetOptions == ReconnectFailed \/ phase' = "register"

\* socket succeeds and the descriptor is stored at once; connect fails, or it
\* connects and the options are set.
SocketStoredLate ==
  \E f \in Fds : IsLowest(f) /\ open' = open \cup {f} /\
    \/ /\ status' = [status EXCEPT ![cur] = "CONNECTING"]
       /\ ReconnectFailed /\ UNCHANGED fd
    \/ /\ status' = [status EXCEPT ![cur] = "CONNECTED"]
       /\ fd' = [fd EXCEPT ![cur] = f]
       /\ SetOptions
Socket ==
  \E f \in Fds : IsLowest(f) /\ open' = open \cup {f} /\
                 fd' = [fd EXCEPT ![cur] = f] /\
    \/ /\ status' = [status EXCEPT ![cur] = "CONNECTING"]
       /\ ReconnectFailed
    \/ /\ status' = [status EXCEPT ![cur] = "CONNECTED"]
       /\ SetOptions

Reconnect ==
  /\ phase = "connect"
  /\ NoSocket \/ Socket
  /\ UNCHANGED <<mask, epoll, others, kept, cur, todo, batch, count>>

\* The end of Reconnect: AddEventRW.
Register ==
  /\ phase = "register"
  /\ AddEvent({cur}, {R, W})
  /\ phase' = "handshake"
  /\ tries' = 0 /\ rounds' = 0
  /\ UNCHANGED <<fd, status, files, cur, todo, batch>>

\* SendHandShakeMsg adds write interest; after a reconnection it is only
\* called if requests are sent again.
HandShake ==
  /\ phase = "handshake"
  /\ \/ AddEvent({cur}, {W})
     \/ ~Starting /\ UNCHANGED <<mask, epoll>>
  /\ IF Starting THEN phase' = "listen" /\ UNCHANGED cur
                 ELSE phase' = "dispatch" /\ cur' = None
  /\ UNCHANGED <<fd, status, files, todo, batch, count>>

\* The connection is started: AddEventRead, which sets the status too.
Listen ==
  /\ phase = "listen"
  /\ status' = [status EXCEPT ![cur] = "CONNECTED"]
  /\ AddEvent({cur}, {R})
  /\ todo' = todo \ {cur}
  /\ phase' = "start"
  /\ UNCHANGED <<fd, files, cur, batch, count>>

\* Close counts its attempts, and gives up after MaxRounds rounds of them.
CountTryForgotten ==
  phase' = "connect" /\ UNCHANGED <<cur, count>>
CountTry ==
  \/ /\ tries + 1 < MaxTries
     /\ tries' = tries + 1 /\ phase' = "connect"
     /\ UNCHANGED <<cur, rounds>>
  \/ /\ tries + 1 = MaxTries /\ rounds + 1 < MaxRounds
     /\ tries' = 0 /\ rounds' = rounds + 1 /\ phase' = "connect"
     /\ UNCHANGED cur
  \/ /\ tries + 1 = MaxTries /\ rounds + 1 = MaxRounds
     /\ tries' = 0 /\ rounds' = 0 /\ phase' = "dispatch" /\ cur' = None

\* An attempt failed: its descriptor is closed, and there is another.
CloseAgain ==
  /\ phase = "closeAgain"
  /\ EventClose(cur)
  /\ CountTry
  /\ UNCHANGED <<others, kept, todo, batch>>

-----------------------------------------------------------------------------
(* GORM_ClientThread::Work.                                                *)

\* epoll_wait reports some registrations with some of their events; one that
\* is reported for an error alone has none of these.  None are reported on a
\* timeout, a signal or a failure.
EventLoopProcess ==
  /\ phase = "wait"
  /\ \E ready \in SUBSET reg : \E seen \in [ready -> SUBSET {EPOLLIN, EPOLLOUT}] :
       /\ Cardinality(ready) <= EventNum
       /\ \A r \in ready : seen[r] \subseteq r.events
       /\ active' = {[ptr |-> r.ptr, events |-> seen[r]] : r \in ready}
  /\ phase' = "dispatch"
  /\ UNCHANGED <<members, epoll, files, cur, todo, now, count>>

ConnectOK(e) == status[e] \in {"CONNECTING", "CONNECTED"}
Idle == now.events # {} => ~ConnectOK(now.ptr)
Handle(e, event) == phase = "dispatch" /\ now.ptr = e /\ ConnectOK(e) /\ event \in now.events
Handled(event) == now' = IF now.events = {event} THEN NoEvent
                         ELSE [now EXCEPT !.events = @ \ {event}]

\* ProcAllEvents goes to the next event when the present one has nothing more
\* to handle or is no longer connected; the order is the kernel's.
NextEvent ==
  /\ phase = "dispatch" /\ Idle
  /\ \E a \in active : now' = a /\ active' = active \ {a}
  /\ UNCHANGED <<members, epoll, files, phase, cur, todo, count>>

\* Write, first: sends something, or finds nothing to send.
CallWrite(c) ==
  /\ Handle(c, EPOLLOUT)
  /\ Handled(EPOLLOUT)
  /\ DelEventWrite(c) \/ UNCHANGED <<mask, epoll>>
  /\ UNCHANGED <<fd, status, files, phase, cur, todo, active, count>>

\* Read, then: of a connection that is alive.
CallRead(c) ==
  /\ Handle(c, EPOLLIN) /\ EPOLLOUT \notin now.events
  /\ Handled(EPOLLIN)
  /\ UNCHANGED <<members, epoll, files, phase, cur, todo, active, count>>

\* Read meets the end of the connection or an error, and calls Close.
ReadClosed(c) ==
  /\ Handle(c, EPOLLIN) /\ EPOLLOUT \notin now.events
  /\ Handled(EPOLLIN)
  /\ EventClose(c)
  /\ phase' = "connect" /\ cur' = c
  /\ UNCHANGED <<others, kept, todo, active, count>>

\* SignalCB: connections whose flag is set get write interest.
SignalCB == \E flagged \in SUBSET Conns : AddEvent(flagged, {W})

\* Read of the signal event drains the pipe and calls SignalCB.
ReadSignal ==
  /\ Handle(Signal, EPOLLIN)
  /\ Handled(EPOLLIN)
  /\ SignalCB
  /\ UNCHANGED <<fd, status, files, phase, cur, todo, active, count>>

\* The end of a turn of the loop: SignalCB, if the thread's flag is set.
TurnDone ==
  /\ phase = "dispatch" /\ Idle /\ active = {}
  /\ SignalCB
  /\ now' = NoEvent
  /\ phase' = "wait"
  /\ UNCHANGED <<fd, status, files, cur, todo, active, count>>

-----------------------------------------------------------------------------
(* The rest of the process.                                                *)

OthersOpen ==
  /\ \E f \in Fds : IsLowest(f) /\ open' = open \cup {f} /\ others' = others \cup {f}
  /\ UNCHANGED <<members, epoll, kept, phase, cur, todo, batch, count>>

OthersClose ==
  /\ \E f \in others : open' = open \ {f} /\ others' = others \ {f}
  /\ UNCHANGED <<members, epoll, kept, phase, cur, todo, batch, count>>

NetworkThread ==
  \/ CreateEpoll \/ CreatePipe \/ WatchPipe \/ InitFails \/ StartNext
  \/ Reconnect \/ Register \/ HandShake \/ Listen \/ CloseAgain
  \/ EventLoopProcess \/ NextEvent \/ ReadSignal \/ TurnDone
  \/ \E c \in Conns : CallWrite(c) \/ CallRead(c) \/ ReadClosed(c)

Next == NetworkThread \/ OthersOpen \/ OthersClose

Spec == Init /\ [][Next]_vars /\ WF_vars(NetworkThread)

-----------------------------------------------------------------------------
(* Properties.                                                             *)

\* Every variable keeps its type: descriptors are open numbers or none.
TypeOK ==
  /\ fd \in [Events -> Fds \cup {NoFd}]
  /\ status \in [Events -> {"INIT", "CONNECTING", "CONNECTED", "CLOSED"}]
  /\ mask \in [Events -> SUBSET {R, W}]
  /\ open \subseteq Fds /\ others \subseteq Fds /\ kept \subseteq Fds
  /\ reg \subseteq [fd : Fds, ptr : Events, events : SUBSET {EPOLLIN, EPOLLOUT}]
  /\ refused \subseteq {"ADD", "MOD", "DEL"}
  /\ phase \in {"epoll", "pipe", "watchPipe", "start", "connect", "register",
                "handshake", "listen", "closeAgain", "wait", "dispatch", "ended"}
  /\ cur \in Conns \cup {None}
  /\ todo \subseteq Conns
  /\ active \subseteq [ptr : Events, events : SUBSET {EPOLLIN, EPOLLOUT}]
  /\ now \in [ptr : Events \cup {None}, events : SUBSET {EPOLLIN, EPOLLOUT}]
  /\ tries \in 0 .. MaxTries - 1 /\ rounds \in 0 .. MaxRounds - 1

\* The masks are the kernel's registrations, through closing, reusing a
\* descriptor's number, giving up and reconnecting: an event is registered,
\* under its own descriptor and for what its mask says, exactly if its mask
\* is not empty.  AddEvent chooses between ADD and MOD by that alone, and a
\* registration that outlives its event is called through a stale pointer.
MaskIsRegistration ==
  reg = {[fd |-> fd[e], ptr |-> e, events |-> LeftEvents(mask[e])] :
           e \in {d \in Events : mask[d] # {}}}

\* The kernel accepts every ADD and MOD: interest that is refused is lost,
\* since no caller of AddEvent but the signal event looks at its result.
InterestAccepted == refused \cap {"ADD", "MOD"} = {}

\* While the thread is in its loop, an event that counts as connected has a
\* descriptor that is registered for reading, so that its end is noticed,
\* and one that does not has no descriptor: handlers called by the status
\* never work on descriptor 0, and a connection given up is never called.
InLoop == phase \in {"wait", "dispatch"}
Listening ==
  InLoop => \A e \in Events : /\ ConnectOK(e) => fd[e] # NoFd /\ R \in mask[e]
                              /\ ~ConnectOK(e) => fd[e] = NoFd

\* No descriptor is leaked by an attempt that fails: every open descriptor
\* is remembered by an event or belongs to somebody else.
NoLeak == open \subseteq others \cup kept \cup {fd[e] : e \in Events}

\* No event uses or closes a descriptor that is not its own, although the
\* number of a closed one goes to whoever opens the next.
OwnDescriptors ==
  /\ others \cup kept \subseteq open
  /\ \A e \in Events : fd[e] # NoFd => fd[e] \in open \ (others \cup kept)
  /\ \A d, e \in Events : fd[d] = fd[e] /\ fd[d] # NoFd => d = e

\* Whatever the events of a batch do, and however often a reconnection
\* fails, the thread comes back to its wait, unless it never started.
ComesBack == phase # "wait" ~> phase \in {"wait", "ended"}
=============================================================================
