--------------------------- MODULE EventLoopProofs ----------------------------
(***************************************************************************)
(* Proofs about EventLoop, for any number of connections and descriptors:  *)
(* the masks are the kernel's registrations, no descriptor is leaked or    *)
(* taken from its owner, and the thread listens to every live connection.  *)
(***************************************************************************)
EXTENDS EventLoop, TLAPS

-----------------------------------------------------------------------------
(* The inductive invariant.                                                *)

\* An event is either alive and listened to, or off; only the connection that
\* is being connected is on its way between the two.
Alive(e) == fd[e] # NoFd /\ R \in mask[e] /\ status[e] = "CONNECTED"
Off(e) == fd[e] = NoFd /\ mask[e] = {} /\ status[e] \in {"INIT", "CLOSED"}
Opened(e) == fd[e] # NoFd /\ mask[e] = {} /\ status[e] = "CONNECTED"

Connecting == phase \in {"connect", "register", "handshake", "listen", "closeAgain"}

\* The connection being connected.
Stage ==
  /\ Connecting => cur \in Conns
  /\ Connecting /\ Starting => cur \in todo
  /\ InLoop \/ phase = "closeAgain" => todo = {}
  /\ phase = "connect" => Off(cur)
  /\ phase = "register" => Opened(cur)
  /\ phase \in {"handshake", "listen"} => Alive(cur)
  /\ phase = "closeAgain" => mask[cur] = {}

\* The other connections, and those that have not been started.
Settled ==
  phase # "ended" =>
    \A c \in Conns : ~(Connecting /\ c = cur) => /\ Alive(c) \/ Off(c)
                                                 /\ c \in todo => Off(c)

\* The signal event, and the descriptors of the start.
SignalStage ==
  /\ phase = "epoll" => kept = {}
  /\ phase \in {"epoll", "pipe"} => Off(Signal)
  /\ phase = "watchPipe" => Opened(Signal)
  /\ phase \notin {"epoll", "pipe", "watchPipe", "ended"} => Alive(Signal)

\* Only what has a descriptor has a mask.
MaskHasFd == \A e \in Events : mask[e] # {} => fd[e] # NoFd

Kernel == MaskIsRegistration /\ MaskHasFd /\ InterestAccepted
Files == OwnDescriptors /\ NoLeak /\ others \cap kept = {}
IndInv == TypeOK /\ Stage /\ Settled /\ SignalStage /\ Kernel /\ Files

-----------------------------------------------------------------------------
(* Facts about the constants and the masks.                                *)

LEMMA Constants ==
  /\ Signal \in Events /\ Signal \notin Conns /\ None \notin Events
  /\ Conns \subseteq Events /\ NoFd \notin Fds
  /\ \A e \in Events : e # Signal => e \in Conns
BY EventLoopAssumption DEF Events, Fds, NoFd

LEMMA Bits == R # W /\ EPOLLIN # EPOLLOUT
BY DEF R, W, EPOLLIN, EPOLLOUT

\* With the read bit set, AddEvent and DelEvent ask for the same events.
LEMMA AddedIsLeft ==
  ASSUME NEW m, R \in m
  PROVE  AddedEvents(m) = LeftEvents(m)
BY DEF AddedEvents, LeftEvents

Entry(e) == [fd |-> fd[e], ptr |-> e, events |-> LeftEvents(mask[e])]

\* The registrations, one by one.
LEMMA Entries ==
  MaskIsRegistration <=>
    \A r : r \in reg <=> \E e \in Events : mask[e] # {} /\ r = Entry(e)
BY DEF MaskIsRegistration, Entry

LEMMA OwnFd ==
  ASSUME OwnDescriptors, NEW d \in Events, NEW e \in Events, fd[d] = fd[e], fd[d] # NoFd
  PROVE  d = e
BY DEF OwnDescriptors

LEMMA RegisteredIff ==
  ASSUME MaskIsRegistration, MaskHasFd, OwnDescriptors, NEW e \in Events, fd[e] # NoFd
  PROVE  Registered(fd[e]) <=> mask[e] # {}
<1>1. ASSUME mask[e] # {} PROVE Registered(fd[e])
  <2>1. Entry(e) \in reg /\ Entry(e).fd = fd[e]
    BY <1>1, Entries DEF Entry
  <2>2. QED  BY <2>1 DEF Registered
<1>2. ASSUME Registered(fd[e]) PROVE mask[e] # {}
  <2>1. PICK r \in reg : r.fd = fd[e]
    BY <1>2 DEF Registered
  <2>2. PICK d \in Events : mask[d] # {} /\ r = Entry(d)
    BY <2>1, Entries
  <2>3. fd[d] = fd[e]
    BY <2>1, <2>2 DEF Entry
  <2>4. QED  BY <2>2, <2>3, OwnFd
<1>3. QED  BY <1>1, <1>2

-----------------------------------------------------------------------------
(* epoll_ctl.                                                              *)

\* AddEvent on events that read, or are to, is accepted and keeps the masks
\* and the registrations together.
LEMMA AddEventKernel ==
  ASSUME TypeOK, Kernel, OwnDescriptors, NEW S \in SUBSET Events,
         NEW bits \in SUBSET {R, W}, bits # {},
         \A e \in S : fd[e] # NoFd => R \in mask[e] \cup bits,
         AddEvent(S, bits), fd' = fd
  PROVE  /\ Kernel'
         /\ \A e \in Events : mask'[e] = IF e \in S /\ fd[e] # NoFd THEN mask[e] \cup bits ELSE mask[e]
<1> DEFINE live == {e \in S : fd[e] # NoFd}
<1> DEFINE ok == {e \in live : (AddOp(e) = "MOD") = Registered(fd[e])}
<1>1. ok = live
  <2>1. ASSUME NEW e \in live PROVE (AddOp(e) = "MOD") = Registered(fd[e])
    <3>1. Registered(fd[e]) <=> mask[e] # {}
      BY RegisteredIff DEF Kernel
    <3>2. AddOp(e) = "MOD" <=> mask[e] # {}
      BY DEF AddOp
    <3>3. Registered(fd[e]) \in BOOLEAN
      BY DEF Registered
    <3>4. QED  BY <3>1, <3>2, <3>3
  <2>2. QED  BY <2>1
<1>2. refused' = refused
  <2>1. refused' = refused \cup {AddOp(e) : e \in live \ ok}
    BY DEF AddEvent
  <2>2. QED  BY <1>1, <2>1
<1>3. reg' = {r \in reg : \A e \in live : r.fd # fd[e]}
               \cup {[fd |-> fd[e], ptr |-> e, events |-> AddedEvents(mask[e] \cup bits)] : e \in live}
  <2>1. reg' = {r \in reg : \A e \in ok : r.fd # fd[e]}
               \cup {[fd |-> fd[e], ptr |-> e, events |-> AddedEvents(mask[e] \cup bits)] : e \in ok}
    BY DEF AddEvent
  <2>2. QED  BY <1>1, <2>1
<1> HIDE DEF ok
<1>4. mask' = [e \in Events |-> IF e \in live THEN mask[e] \cup bits ELSE mask[e]]
  BY DEF AddEvent
<1>5. ASSUME NEW e \in live
      PROVE  /\ e \in Events /\ mask'[e] = mask[e] \cup bits /\ mask'[e] # {} /\ fd[e] # NoFd
             /\ AddedEvents(mask[e] \cup bits) = LeftEvents(mask'[e])
  BY <1>4, AddedIsLeft
<1>6. \A e \in Events : e \notin live => mask'[e] = mask[e]
  BY <1>4
<1> HIDE DEF live
<1>7. ASSUME NEW r \in reg' PROVE \E e \in Events : mask'[e] # {} /\ r = Entry(e)'
  <2>1. CASE r \in reg /\ \A e \in live : r.fd # fd[e]
    <3>1. PICK d \in Events : mask[d] # {} /\ r = Entry(d)
      BY <2>1, Entries DEF Kernel
    <3>2. d \notin live
      BY <2>1, <3>1 DEF Entry
    <3>3. r = Entry(d)' /\ mask'[d] # {}
      BY <1>6, <3>1, <3>2 DEF Entry
    <3>4. QED  BY <3>3
  <2>2. CASE \E e \in live :
               r = [fd |-> fd[e], ptr |-> e, events |-> AddedEvents(mask[e] \cup bits)]
    <3>1. PICK e \in live :
            r = [fd |-> fd[e], ptr |-> e, events |-> AddedEvents(mask[e] \cup bits)]
      BY <2>2
    <3>2. r = Entry(e)' /\ mask'[e] # {} /\ e \in Events
      BY <1>5, <3>1 DEF Entry
    <3>3. QED  BY <3>2
  <2>3. QED  BY <1>3, <2>1, <2>2
<1>8. ASSUME NEW d \in Events, mask'[d] # {} PROVE Entry(d)' \in reg'
  <2>1. CASE d \in live
    <3>1. Entry(d)' = [fd |-> fd[d], ptr |-> d, events |-> AddedEvents(mask[d] \cup bits)]
      BY <1>5, <2>1 DEF Entry
    <3>2. QED  BY <1>3, <2>1, <3>1
  <2>2. CASE d \notin live
    <3>1. mask'[d] = mask[d] /\ Entry(d)' = Entry(d)
      BY <1>6, <2>2 DEF Entry
    <3>2. Entry(d) \in reg
      BY <1>8, <3>1, Entries DEF Kernel
    <3>3. ASSUME NEW e \in live PROVE Entry(d).fd # fd[e]
      BY <1>5, <2>2, OwnFd DEF Entry
    <3>4. QED  BY <1>3, <3>1, <3>2, <3>3
  <2>3. QED  BY <2>1, <2>2
<1>9. MaskIsRegistration'
  <2>1. \A r : r \in reg' <=> \E e \in Events : mask'[e] # {} /\ r = Entry(e)'
    BY <1>7, <1>8
  <2>2. QED  BY <2>1 DEF MaskIsRegistration, Entry
<1>10. MaskHasFd'
  BY <1>5, <1>6 DEF MaskHasFd, Kernel
<1>11. QED
  BY <1>2, <1>4, <1>9, <1>10 DEF Kernel, InterestAccepted, live

\* DelEvent with the read bit left: the registration changes.
LEMMA DelWriteKernel ==
  ASSUME TypeOK, Kernel, OwnDescriptors, NEW c \in Events, Alive(c),
         DelEventWrite(c), fd' = fd
  PROVE  /\ Kernel'
         /\ mask'[c] = mask[c] \ {W} /\ R \in mask'[c]
         /\ \A e \in Events : e # c => mask'[e] = mask[e]
<1> DEFINE left == mask[c] \ {W}
<1>1. R \in left /\ left # {} /\ mask[c] # {} /\ fd[c] # NoFd
  BY Bits DEF Alive
<1>2. Registered(fd[c])
  BY <1>1, RegisteredIff DEF Kernel
<1>3. mask' = [mask EXCEPT ![c] = left]
  BY DEF DelEventWrite, DelEvent
<1>4. refused' = refused
  BY <1>2 DEF DelEventWrite, DelEvent
<1>5. reg' = {r \in reg : r.fd # fd[c]} \cup {[fd |-> fd[c], ptr |-> c, events |-> LeftEvents(left)]}
  BY <1>1, <1>2 DEF DelEventWrite, DelEvent
<1>6. mask'[c] = left /\ \A e \in Events : e # c => mask'[e] = mask[e]
  BY <1>3 DEF TypeOK
<1> HIDE DEF left
<1>7. ASSUME NEW r \in reg' PROVE \E e \in Events : mask'[e] # {} /\ r = Entry(e)'
  <2>1. CASE r \in reg /\ r.fd # fd[c]
    <3>1. PICK d \in Events : mask[d] # {} /\ r = Entry(d)
      BY <2>1, Entries DEF Kernel
    <3>2. d # c
      BY <2>1, <3>1 DEF Entry
    <3>3. r = Entry(d)' /\ mask'[d] # {}
      BY <1>6, <3>1, <3>2 DEF Entry
    <3>4. QED  BY <3>3
  <2>2. CASE r = [fd |-> fd[c], ptr |-> c, events |-> LeftEvents(left)]
    <3>1. r = Entry(c)' /\ mask'[c] # {}
      BY <1>1, <1>6, <2>2 DEF Entry
    <3>2. QED  BY <3>1
  <2>3. QED  BY <1>5, <2>1, <2>2
<1>8. ASSUME NEW d \in Events, mask'[d] # {} PROVE Entry(d)' \in reg'
  <2>1. CASE d = c
    <3>1. Entry(c)' = [fd |-> fd[c], ptr |-> c, events |-> LeftEvents(left)]
      BY <1>6 DEF Entry
    <3>2. QED  BY <1>5, <2>1, <3>1
  <2>2. CASE d # c
    <3>1. mask'[d] = mask[d] /\ Entry(d)' = Entry(d)
      BY <1>6, <2>2 DEF Entry
    <3>2. Entry(d) \in reg
      BY <1>8, <3>1, Entries DEF Kernel
    <3>3. Entry(d).fd # fd[c]
      BY <1>1, <2>2, OwnFd DEF Entry
    <3>4. QED  BY <1>5, <3>1, <3>2, <3>3
  <2>3. QED  BY <2>1, <2>2
<1>9. MaskIsRegistration'
  <2>1. \A r : r \in reg' <=> \E e \in Events : mask'[e] # {} /\ r = Entry(e)'
    BY <1>7, <1>8
  <2>2. QED  BY <2>1 DEF MaskIsRegistration, Entry
<1>10. MaskHasFd'
  BY <1>1, <1>6 DEF MaskHasFd, Kernel
<1>11. QED
  BY <1>1, <1>4, <1>6, <1>9, <1>10 DEF Kernel, InterestAccepted, left

\* Closing an event takes it off the kernel and gives up its descriptor, and
\* nothing else.
LEMMA CloseKernel ==
  ASSUME TypeOK, Kernel, Files, NEW c \in Events, EventClose(c),
         UNCHANGED <<others, kept>>
  PROVE  /\ Kernel' /\ Files'
         /\ fd'[c] = NoFd /\ mask'[c] = {} /\ status'[c] = "CLOSED"
         /\ \A e \in Events : e # c => fd'[e] = fd[e] /\ mask'[e] = mask[e] /\ status'[e] = status[e]
<1>1. /\ fd'[c] = NoFd /\ status'[c] = "CLOSED" /\ fd \in [Events -> Fds \cup {NoFd}]
      /\ \A e \in Events : e # c => fd'[e] = fd[e] /\ status'[e] = status[e]
      /\ fd' \in [Events -> Fds \cup {NoFd}]
  BY DEF EventClose, TypeOK
<1>2. CASE fd[c] = NoFd
  <2>1. UNCHANGED <<mask, epoll, open>> /\ mask[c] = {}
    BY <1>2 DEF EventClose, Kernel, MaskHasFd
  <2>2. \A e \in Events : fd'[e] = fd[e]
    BY <1>1, <1>2
  <2>3. Kernel'
    BY <2>1, <2>2 DEF Kernel, MaskIsRegistration, MaskHasFd, InterestAccepted, epoll
  <2>4. OwnDescriptors'
    BY <2>1, <2>2 DEF Files, OwnDescriptors
  <2>5. NoLeak'
    BY <2>1, <2>2 DEF Files, NoLeak
  <2>6. QED  BY <1>1, <2>1, <2>3, <2>4, <2>5 DEF Files
<1>3. CASE fd[c] # NoFd
  <2>1. DelEvent(c, {R, W}) /\ open' = open \ {fd[c]} /\ mask[c] \ {R, W} = {}
    BY <1>3 DEF EventClose, TypeOK
  <2>2. mask'[c] = {} /\ \A e \in Events : e # c => mask'[e] = mask[e]
    BY <2>1 DEF DelEvent, TypeOK
  <2>3. reg' = {r \in reg : r.fd # fd[c]}
    BY <2>1 DEF DelEvent
  <2>4. refused' \in {refused, refused \cup {"DEL"}}
    BY <2>1 DEF DelEvent
  <2>5. ASSUME NEW r \in reg' PROVE \E e \in Events : mask'[e] # {} /\ r = Entry(e)'
    <3>1. PICK d \in Events : mask[d] # {} /\ r = Entry(d)
      BY <2>3, Entries DEF Kernel
    <3>2. d # c
      BY <2>3, <3>1 DEF Entry
    <3>3. r = Entry(d)' /\ mask'[d] # {}
      BY <1>1, <2>2, <3>1, <3>2 DEF Entry
    <3>4. QED  BY <3>3
  <2>6. ASSUME NEW d \in Events, mask'[d] # {} PROVE Entry(d)' \in reg'
    <3>1. d # c
      BY <2>2, <2>6
    <3>2. mask'[d] = mask[d] /\ Entry(d)' = Entry(d)
      BY <1>1, <2>2, <3>1 DEF Entry
    <3>3. Entry(d) \in reg /\ Entry(d).fd # fd[c]
      BY <1>3, <2>6, <3>1, <3>2, Entries, OwnFd DEF Kernel, Files, Entry
    <3>4. QED  BY <2>3, <3>2, <3>3
  <2>7. MaskIsRegistration'
    <3>1. \A r : r \in reg' <=> \E e \in Events : mask'[e] # {} /\ r = Entry(e)'
      BY <2>5, <2>6
    <3>2. QED  BY <3>1 DEF MaskIsRegistration, Entry
  <2>8. MaskHasFd' /\ InterestAccepted'
    BY <1>1, <2>2, <2>4 DEF Kernel, MaskHasFd, InterestAccepted
  <2>9. OwnDescriptors'
    <3>1. fd[c] \notin others \cup kept
      BY <1>3 DEF Files, OwnDescriptors
    <3>2. (others \cup kept)' \subseteq open'
      BY <2>1, <3>1 DEF Files, OwnDescriptors
    <3>3. ASSUME NEW e \in Events, fd'[e] # NoFd PROVE fd'[e] \in open' \ (others' \cup kept')
      <4>1. e # c /\ fd'[e] = fd[e]
        BY <1>1, <3>3
      <4>2. fd[e] # fd[c]
        BY <1>3, <4>1, OwnFd DEF Files
      <4>3. QED  BY <2>1, <3>3, <4>1, <4>2 DEF Files, OwnDescriptors
    <3>4. \A d, e \in Events : fd'[d] = fd'[e] /\ fd'[d] # NoFd => d = e
      BY <1>1, OwnFd DEF Files
    <3>5. QED  BY <3>2, <3>3, <3>4 DEF OwnDescriptors
  <2>10. NoLeak'
    <3> SUFFICES ASSUME NEW f \in open' PROVE f \in others \cup kept \cup {fd'[e] : e \in Events}
      BY DEF NoLeak
    <3>1. f \in open /\ f # fd[c]
      BY <2>1
    <3>2. CASE f \in others \cup kept
      BY <3>2
    <3>3. CASE \E e \in Events : f = fd[e]
      BY <1>1, <3>1, <3>3
    <3>4. QED  BY <3>1, <3>2, <3>3 DEF Files, NoLeak
  <2>11. QED  BY <1>1, <2>2, <2>7, <2>8, <2>9, <2>10 DEF Kernel, Files
<1>4. QED  BY <1>2, <1>3

-----------------------------------------------------------------------------
(* Types.                                                                  *)

Records == [fd : Fds, ptr : Events, events : SUBSET {EPOLLIN, EPOLLOUT}]

LEMMA EventSets ==
  \A m : AddedEvents(m) \in SUBSET {EPOLLIN, EPOLLOUT} /\ LeftEvents(m) \in SUBSET {EPOLLIN, EPOLLOUT}
BY DEF AddedEvents, LeftEvents

LEMMA AddEventTypes ==
  ASSUME TypeOK, NEW S \in SUBSET Events, NEW bits \in SUBSET {R, W}, AddEvent(S, bits)
  PROVE  mask' \in [Events -> SUBSET {R, W}] /\ reg' \subseteq Records
         /\ refused' \subseteq {"ADD", "MOD", "DEL"}
<1> DEFINE live == {e \in S : fd[e] # NoFd}
<1> DEFINE ok == {e \in live : (AddOp(e) = "MOD") = Registered(fd[e])}
<1>1. /\ mask' = [e \in Events |-> IF e \in live THEN mask[e] \cup bits ELSE mask[e]]
      /\ reg' = {r \in reg : \A e \in ok : r.fd # fd[e]}
                 \cup {[fd |-> fd[e], ptr |-> e, events |-> AddedEvents(mask[e] \cup bits)] : e \in ok}
      /\ refused' = refused \cup {AddOp(e) : e \in live \ ok}
  BY DEF AddEvent
<1>2. \A e \in live : e \in Events /\ fd[e] \in Fds
  BY DEF TypeOK
<1>3. mask' \in [Events -> SUBSET {R, W}]
  BY <1>1 DEF TypeOK
<1>4. ok \subseteq live
  OBVIOUS
<1> HIDE DEF live, ok
<1>5. \A e \in ok : [fd |-> fd[e], ptr |-> e, events |-> AddedEvents(mask[e] \cup bits)] \in Records
  BY <1>2, <1>4, EventSets DEF Records
<1>6. reg' \subseteq Records
  <2>1. reg \subseteq Records
    BY DEF TypeOK, Records
  <2>2. QED  BY <1>1, <1>5, <2>1
<1>7. refused' \subseteq {"ADD", "MOD", "DEL"}
  BY <1>1 DEF TypeOK, AddOp
<1>8. QED  BY <1>3, <1>6, <1>7

LEMMA DelEventTypes ==
  ASSUME TypeOK, NEW c \in Events, fd[c] # NoFd, NEW bits, DelEvent(c, bits)
  PROVE  mask' \in [Events -> SUBSET {R, W}] /\ reg' \subseteq Records
         /\ refused' \subseteq {"ADD", "MOD", "DEL"}
<1> DEFINE left == mask[c] \ bits
<1>1. left \in SUBSET {R, W} /\ fd[c] \in Fds
  BY DEF TypeOK
<1>2. mask' = [mask EXCEPT ![c] = left]
  BY DEF DelEvent
<1>3. mask' \in [Events -> SUBSET {R, W}]
  BY <1>1, <1>2 DEF TypeOK
<1>4. [fd |-> fd[c], ptr |-> c, events |-> LeftEvents(left)] \in Records
  BY <1>1, EventSets DEF Records
<1>5. reg' \subseteq reg \cup {[fd |-> fd[c], ptr |-> c, events |-> LeftEvents(left)]}
  BY DEF DelEvent
<1>6. reg' \subseteq Records
  BY <1>4, <1>5 DEF TypeOK, Records
<1>7. refused' \subseteq {"ADD", "MOD", "DEL"}
  BY DEF DelEvent, TypeOK
<1>8. QED  BY <1>3, <1>6, <1>7

LEMMA EventCloseTypes ==
  ASSUME TypeOK, NEW c \in Events, EventClose(c)
  PROVE  /\ fd' \in [Events -> Fds \cup {NoFd}] /\ open' \subseteq Fds
         /\ status' \in [Events -> {"INIT", "CONNECTING", "CONNECTED", "CLOSED"}]
         /\ mask' \in [Events -> SUBSET {R, W}] /\ reg' \subseteq Records
         /\ refused' \subseteq {"ADD", "MOD", "DEL"}
<1>1. /\ fd' \in [Events -> Fds \cup {NoFd}] /\ open' \subseteq Fds
      /\ status' \in [Events -> {"INIT", "CONNECTING", "CONNECTED", "CLOSED"}]
  BY DEF EventClose, TypeOK
<1>2. CASE fd[c] = NoFd
  BY <1>1, <1>2 DEF EventClose, TypeOK, epoll, Records
<1>3. CASE fd[c] # NoFd
  BY <1>1, <1>3, DelEventTypes DEF EventClose
<1>4. QED  BY <1>2, <1>3

LEMMA InitTypes == Init => TypeOK
<1> SUFFICES ASSUME Init PROVE TypeOK
  OBVIOUS
<1>1. fd \in [Events -> Fds \cup {NoFd}] /\ mask \in [Events -> SUBSET {R, W}]
  BY DEF Init
<1>2. status \in [Events -> {"INIT", "CONNECTING", "CONNECTED", "CLOSED"}]
  BY DEF Init
<1>3. now \in [ptr : Events \cup {None}, events : SUBSET {EPOLLIN, EPOLLOUT}]
  BY DEF Init, NoEvent
<1>4. tries \in 0 .. MaxTries - 1 /\ rounds \in 0 .. MaxRounds - 1
  BY EventLoopAssumption DEF Init
<1>5. QED  BY <1>1, <1>2, <1>3, <1>4 DEF Init, TypeOK

LEMMA CountTryTypes ==
  ASSUME TypeOK, CountTry
  PROVE  /\ tries' \in 0 .. MaxTries - 1 /\ rounds' \in 0 .. MaxRounds - 1
         /\ cur' \in {cur, None} /\ phase' \in {"connect", "dispatch"}
         /\ phase' = "connect" => cur' = cur
<1>1. MaxTries \in Nat \ {0} /\ MaxRounds \in Nat \ {0}
  BY EventLoopAssumption
<1>2. QED  BY <1>1 DEF CountTry, TypeOK

\* The batch of epoll_wait and what is left of the event at hand.
LEMMA BatchTypes ==
  /\ \A e, event : TypeOK /\ Handle(e, event) /\ Handled(event)
       => now' \in [ptr : Events \cup {None}, events : SUBSET {EPOLLIN, EPOLLOUT}]
  /\ NoEvent \in [ptr : Events \cup {None}, events : SUBSET {EPOLLIN, EPOLLOUT}]
<1> DEFINE T == [ptr : Events \cup {None}, events : SUBSET {EPOLLIN, EPOLLOUT}]
<1>1. NoEvent \in T
  BY DEF NoEvent
<1>2. ASSUME NEW event, TypeOK, Handled(event) PROVE now' \in T
  <2>1. now \in T
    BY <1>2 DEF TypeOK
  <2>2. [now EXCEPT !.events = @ \ {event}] \in T
    BY <2>1
  <2>3. QED  BY <1>1, <1>2, <2>2 DEF Handled
<1>3. QED  BY <1>1, <1>2

\* Handlers are called for live events only.
LEMMA HandledAlive ==
  ASSUME Settled, SignalStage, NEW e \in Events, NEW event, Handle(e, event)
  PROVE  Alive(e)
<1>1. phase = "dispatch" /\ status[e] \in {"CONNECTING", "CONNECTED"}
  BY DEF Handle, ConnectOK
<1>2. CASE e \in Conns
  BY <1>1, <1>2 DEF Settled, Connecting, Off
<1>3. CASE e = Signal
  BY <1>1, <1>3 DEF SignalStage
<1>4. QED  BY <1>2, <1>3, Constants

\* Each step keeps the types; only the connection being connected must be one.
LEMMA TypeStep ==
  ASSUME TypeOK, Stage, Settled, SignalStage, [Next]_vars
  PROVE  TypeOK'
<1> USE Constants
<1>1. CASE CreateEpoll
  BY <1>1 DEF CreateEpoll, TypeOK, members, epoll, batch, count
<1>2. CASE CreatePipe
  <2>1. PICK f \in Free, g \in Free :
          fd' = [fd EXCEPT ![Signal] = f] /\ open' = open \cup {f, g} /\ kept' = kept \cup {g}
    BY <1>2 DEF CreatePipe
  <2>2. fd' \in [Events -> Fds \cup {NoFd}] /\ open' \subseteq Fds /\ kept' \subseteq Fds
    BY <2>1 DEF TypeOK, Free
  <2>3. status' \in [Events -> {"INIT", "CONNECTING", "CONNECTED", "CLOSED"}]
    BY <1>2 DEF CreatePipe, TypeOK
  <2>4. QED  BY <1>2, <2>2, <2>3 DEF CreatePipe, TypeOK, epoll, batch, count
<1>3. CASE WatchPipe
  <2>1. AddEvent({Signal}, {R})
    BY <1>3 DEF WatchPipe
  <2>2. mask' \in [Events -> SUBSET {R, W}] /\ reg' \subseteq Records
        /\ refused' \subseteq {"ADD", "MOD", "DEL"}
    BY <2>1, AddEventTypes
  <2>3. QED  BY <1>3, <2>2 DEF WatchPipe, TypeOK, Records, files, batch, count
<1>4. CASE InitFails \/ StartNext
  BY <1>4 DEF InitFails, StartNext, TypeOK, members, epoll, files, batch, count
<1>5. CASE Reconnect
  <2>1. cur \in Events
    BY <1>5 DEF Reconnect, Stage, Connecting
  <2>2. phase' \in {"ended", "closeAgain", "register"}
    BY <1>5 DEF Reconnect, NoSocket, Socket, ReconnectFailed, SetOptions
  <2>3. fd' \in [Events -> Fds \cup {NoFd}] /\ open' \subseteq Fds
    BY <1>5, <2>1 DEF Reconnect, NoSocket, Socket, IsLowest, Free, TypeOK
  <2>4. status' \in [Events -> {"INIT", "CONNECTING", "CONNECTED", "CLOSED"}]
    BY <1>5, <2>1 DEF Reconnect, NoSocket, Socket, TypeOK
  <2>5. QED  BY <1>5, <2>2, <2>3, <2>4 DEF Reconnect, TypeOK, epoll, batch, count
<1>6. CASE Register
  <2>1. AddEvent({cur}, {R, W}) /\ cur \in Events
    BY <1>6 DEF Register, Stage, Connecting
  <2>2. mask' \in [Events -> SUBSET {R, W}] /\ reg' \subseteq Records
        /\ refused' \subseteq {"ADD", "MOD", "DEL"}
    BY <2>1, AddEventTypes
  <2>3. tries' \in 0 .. MaxTries - 1 /\ rounds' \in 0 .. MaxRounds - 1
    BY <1>6, EventLoopAssumption DEF Register
  <2>4. QED  BY <1>6, <2>2, <2>3 DEF Register, TypeOK, Records, files, batch
<1>7. CASE HandShake
  <2>1. AddEvent({cur}, {W}) \/ UNCHANGED <<mask, epoll>>
    BY <1>7 DEF HandShake
  <2>2. cur \in Events
    BY <1>7 DEF HandShake, Stage, Connecting
  <2>3. mask' \in [Events -> SUBSET {R, W}] /\ reg' \subseteq Records
        /\ refused' \subseteq {"ADD", "MOD", "DEL"}
    <3>1. CASE AddEvent({cur}, {W})
      BY <2>2, <3>1, AddEventTypes
    <3>2. CASE UNCHANGED <<mask, epoll>>
      BY <3>2 DEF TypeOK, Records, epoll
    <3>3. QED  BY <2>1, <3>1, <3>2
  <2>4. QED  BY <1>7, <2>3 DEF HandShake, TypeOK, Records, files, batch, count
<1>8. CASE Listen
  <2>1. AddEvent({cur}, {R}) /\ cur \in Events
    BY <1>8 DEF Listen, Stage, Connecting
  <2>2. mask' \in [Events -> SUBSET {R, W}] /\ reg' \subseteq Records
        /\ refused' \subseteq {"ADD", "MOD", "DEL"}
    BY <2>1, AddEventTypes
  <2>3. status' \in [Events -> {"INIT", "CONNECTING", "CONNECTED", "CLOSED"}]
    BY <1>8, <2>1 DEF Listen, TypeOK
  <2>4. QED  BY <1>8, <2>2, <2>3 DEF Listen, TypeOK, Records, files, batch, count
<1>9. CASE CloseAgain
  <2>1. cur \in Events /\ EventClose(cur) /\ CountTry
    BY <1>9 DEF CloseAgain, Stage, Connecting
  <2>2. QED
    BY <1>9, <2>1, EventCloseTypes, CountTryTypes DEF CloseAgain, TypeOK, Records, batch
<1>10. CASE EventLoopProcess
  <2>1. PICK ready \in SUBSET reg : \E seen \in [ready -> SUBSET {EPOLLIN, EPOLLOUT}] :
          active' = {[ptr |-> r.ptr, events |-> seen[r]] : r \in ready}
    BY <1>10 DEF EventLoopProcess
  <2>2. \A r \in ready : r.ptr \in Events
    BY DEF TypeOK
  <2>3. active' \subseteq [ptr : Events, events : SUBSET {EPOLLIN, EPOLLOUT}]
    BY <2>1, <2>2
  <2>4. QED  BY <1>10, <2>3 DEF EventLoopProcess, TypeOK, members, epoll, files, count
<1>11. CASE NextEvent
  <2>1. PICK a \in active : now' = a /\ active' = active \ {a}
    BY <1>11 DEF NextEvent
  <2>2. now' \in [ptr : Events \cup {None}, events : SUBSET {EPOLLIN, EPOLLOUT}]
    BY <2>1 DEF TypeOK
  <2>3. QED  BY <1>11, <2>1, <2>2 DEF NextEvent, TypeOK, members, epoll, files, count
<1>12. CASE ReadSignal
  <2>1. PICK flagged \in SUBSET Conns : AddEvent(flagged, {W})
    BY <1>12 DEF ReadSignal, SignalCB
  <2>2. mask' \in [Events -> SUBSET {R, W}] /\ reg' \subseteq Records
        /\ refused' \subseteq {"ADD", "MOD", "DEL"}
    BY <2>1, AddEventTypes
  <2>3. now' \in [ptr : Events \cup {None}, events : SUBSET {EPOLLIN, EPOLLOUT}]
    BY <1>12, BatchTypes DEF ReadSignal
  <2>4. QED  BY <1>12, <2>2, <2>3 DEF ReadSignal, TypeOK, Records, files, count
<1>13. CASE TurnDone
  <2>1. PICK flagged \in SUBSET Conns : AddEvent(flagged, {W})
    BY <1>13 DEF TurnDone, SignalCB
  <2>2. mask' \in [Events -> SUBSET {R, W}] /\ reg' \subseteq Records
        /\ refused' \subseteq {"ADD", "MOD", "DEL"}
    BY <2>1, AddEventTypes
  <2>3. QED  BY <1>13, <2>2, BatchTypes DEF TurnDone, TypeOK, Records, files, count
<1>14. ASSUME NEW c \in Conns, CallWrite(c) PROVE TypeOK'
  <2>1. now' \in [ptr : Events \cup {None}, events : SUBSET {EPOLLIN, EPOLLOUT}]
    BY <1>14, BatchTypes DEF CallWrite
  <2>2. mask' \in [Events -> SUBSET {R, W}] /\ reg' \subseteq Records
        /\ refused' \subseteq {"ADD", "MOD", "DEL"}
    <3>1. CASE UNCHANGED <<mask, epoll>>
      BY <3>1 DEF TypeOK, Records, epoll
    <3>2. CASE DelEventWrite(c)
      <4>1. fd[c] # NoFd
        BY <1>14, HandledAlive DEF CallWrite, Alive
      <4>2. QED  BY <3>2, <4>1, DelEventTypes DEF DelEventWrite
    <3>3. QED  BY <1>14, <3>1, <3>2 DEF CallWrite
  <2>3. QED  BY <1>14, <2>1, <2>2 DEF CallWrite, TypeOK, Records, files, count
<1>15. ASSUME NEW c \in Conns, CallRead(c) PROVE TypeOK'
  <2>1. now' \in [ptr : Events \cup {None}, events : SUBSET {EPOLLIN, EPOLLOUT}]
    BY <1>15, BatchTypes DEF CallRead
  <2>2. QED  BY <1>15, <2>1 DEF CallRead, TypeOK, members, epoll, files, count
<1>16. ASSUME NEW c \in Conns, ReadClosed(c) PROVE TypeOK'
  <2>1. now' \in [ptr : Events \cup {None}, events : SUBSET {EPOLLIN, EPOLLOUT}]
    BY <1>16, BatchTypes DEF ReadClosed
  <2>2. c \in Events /\ EventClose(c)
    BY <1>16 DEF ReadClosed
  <2>3. QED  BY <1>16, <2>1, <2>2, EventCloseTypes DEF ReadClosed, TypeOK, Records, count
<1>17. CASE OthersOpen \/ OthersClose
  BY <1>17 DEF OthersOpen, OthersClose, IsLowest, Free, TypeOK, members, epoll, batch, count
<1>18. CASE UNCHANGED vars
  BY <1>18 DEF vars, TypeOK, members, epoll, files, batch, count
<1>19. QED
  BY <1>1, <1>2, <1>3, <1>4, <1>5, <1>6, <1>7, <1>8, <1>9, <1>10, <1>11, <1>12, <1>13,
     <1>14, <1>15, <1>16, <1>17, <1>18 DEF Next, NetworkThread

-----------------------------------------------------------------------------
(* Steps that change neither an event nor the kernel.                      *)

Rest == Stage /\ Settled /\ SignalStage /\ Kernel /\ Files

LEMMA InitRest == Init => Rest
<1> SUFFICES ASSUME Init PROVE Rest
  OBVIOUS
<1>1. \A e \in Events : Off(e)
  BY DEF Init, Off
<1>2. Stage /\ Settled /\ SignalStage
  BY <1>1, Constants DEF Init, Stage, Settled, SignalStage, Connecting, InLoop
<1>3. MaskIsRegistration /\ MaskHasFd
  BY <1>1 DEF MaskIsRegistration, MaskHasFd, Off, Init
<1>4. InterestAccepted /\ OwnDescriptors /\ NoLeak /\ others \cap kept = {}
  BY <1>1 DEF Init, InterestAccepted, OwnDescriptors, NoLeak, Off
<1>5. QED  BY <1>2, <1>3, <1>4 DEF Rest, Kernel, Files

LEMMA KeepKernel == ASSUME Kernel, UNCHANGED <<fd, mask, epoll>> PROVE Kernel'
BY DEF Kernel, MaskIsRegistration, MaskHasFd, InterestAccepted, epoll

LEMMA KeepFiles == ASSUME Files, UNCHANGED <<fd, files>> PROVE Files'
BY DEF Files, OwnDescriptors, NoLeak, files

LEMMA KeepEvents ==
  ASSUME UNCHANGED members
  PROVE  \A e : Alive(e)' = Alive(e) /\ Off(e)' = Off(e) /\ Opened(e)' = Opened(e)
BY DEF members, Alive, Off, Opened

LEMMA QuietSteps ==
  ASSUME IndInv, TypeOK',
         InitFails \/ StartNext \/ EventLoopProcess \/ NextEvent \/ (\E c \in Conns : CallRead(c))
  PROVE  Rest'
<1> USE Constants DEF IndInv
<1>1. UNCHANGED <<members, epoll, files, todo>>
  BY DEF InitFails, StartNext, EventLoopProcess, NextEvent, CallRead
<1>2. Kernel' /\ Files' /\ UNCHANGED <<fd, mask, status>>
  BY <1>1, KeepKernel, KeepFiles DEF members
<1>3. CASE InitFails
  BY <1>1, <1>2, <1>3 DEF InitFails, Rest, Stage, Settled, SignalStage, Connecting, InLoop
<1>4. CASE StartNext
  <2>1. CASE todo = {}
    <3>1. phase = "start" /\ phase' = "wait" /\ cur' = None
      BY <1>4, <2>1 DEF StartNext
    <3>2. Settled' /\ SignalStage'
      BY <1>1, <1>2, <2>1, <3>1 DEF Settled, SignalStage, Connecting, Alive, Off, Opened
    <3>3. Stage'
      BY <1>1, <2>1, <3>1 DEF Stage, Connecting, InLoop
    <3>4. QED  BY <1>2, <3>2, <3>3 DEF Rest
  <2>2. CASE todo # {}
    <3>1. phase = "start" /\ phase' = "connect" /\ cur' \in todo
      BY <1>4, <2>2 DEF StartNext
    <3>2. cur' \in Conns /\ Off(cur')
      BY <3>1 DEF Settled, Connecting, TypeOK
    <3>3. Off(cur)'
      BY <1>2, <3>2 DEF Off
    <3>4. Settled' /\ SignalStage'
      BY <1>1, <1>2, <3>1 DEF Settled, SignalStage, Connecting, Alive, Off, Opened
    <3>5. Stage'
      BY <1>1, <3>1, <3>2, <3>3 DEF Stage, Connecting, InLoop
    <3>6. QED  BY <1>2, <3>4, <3>5 DEF Rest
  <2>3. QED  BY <2>1, <2>2
<1>5. CASE EventLoopProcess
  <2>1. phase = "wait" /\ phase' = "dispatch" /\ cur' = cur
    BY <1>5 DEF EventLoopProcess
  <2>2. Settled' /\ SignalStage'
    BY <1>1, <1>2, <2>1 DEF Settled, SignalStage, Connecting, Alive, Off, Opened
  <2>3. Stage'
    BY <1>1, <2>1 DEF Stage, Connecting, InLoop
  <2>4. QED  BY <1>2, <2>2, <2>3 DEF Rest
<1>6. CASE NextEvent \/ \E c \in Conns : CallRead(c)
  <2>1. phase = "dispatch" /\ phase' = phase /\ cur' = cur
    BY <1>6 DEF NextEvent, CallRead, Handle
  <2>2. Settled' /\ SignalStage'
    BY <1>1, <1>2, <2>1 DEF Settled, SignalStage, Connecting, Alive, Off, Opened
  <2>3. Stage'
    BY <1>1, <2>1 DEF Stage, Connecting, InLoop
  <2>4. QED  BY <1>2, <2>2, <2>3 DEF Rest
<1>7. QED  BY <1>3, <1>4, <1>5, <1>6

\* Descriptors that are not an event's.
LEMMA FileSteps ==
  ASSUME IndInv, CreateEpoll \/ OthersOpen \/ OthersClose
  PROVE  Rest'
<1> USE Constants DEF IndInv
<1>1. UNCHANGED <<members, epoll, todo, cur>>
  BY DEF CreateEpoll, OthersOpen, OthersClose
<1>2. Kernel' /\ UNCHANGED <<fd, mask, status>>
  BY <1>1, KeepKernel DEF members
<1>3. Files'
  <2>1. CASE CreateEpoll
    <3>1. PICK f \in Fds : f \notin open /\ open' = open \cup {f} /\ kept' = {f} /\ others' = others
      BY <2>1 DEF CreateEpoll, IsLowest, Free
    <3>2. kept = {}
      BY <2>1 DEF CreateEpoll, SignalStage
    <3>3. QED  BY <1>2, <3>1, <3>2 DEF Files, OwnDescriptors, NoLeak
  <2>2. CASE OthersOpen
    <3>1. PICK f \in Fds : f \notin open /\ open' = open \cup {f} /\ others' = others \cup {f} /\ kept' = kept
      BY <2>2 DEF OthersOpen, IsLowest, Free
    <3>2. (others \cup kept)' \subseteq open'
      BY <3>1 DEF Files, OwnDescriptors
    <3>3. ASSUME NEW e \in Events, fd[e] # NoFd PROVE fd[e] \in open' \ (others' \cup kept')
      BY <3>1, <3>3 DEF Files, OwnDescriptors
    <3>4. OwnDescriptors'
      BY <1>2, <3>2, <3>3 DEF Files, OwnDescriptors
    <3>5. NoLeak'
      BY <1>2, <3>1 DEF Files, NoLeak
    <3>6. (others \cap kept)' = {}
      BY <3>1 DEF Files, OwnDescriptors
    <3>7. QED  BY <3>4, <3>5, <3>6 DEF Files
  <2>3. CASE OthersClose
    <3>1. PICK f \in others : open' = open \ {f} /\ others' = others \ {f} /\ kept' = kept
      BY <2>3 DEF OthersClose
    <3>2. f \notin kept'
      BY <3>1 DEF Files
    <3>3. OwnDescriptors'
      BY <1>2, <3>1, <3>2 DEF Files, OwnDescriptors
    <3>4. NoLeak'
      BY <1>2, <3>1 DEF Files, NoLeak
    <3>5. QED  BY <3>1, <3>3, <3>4 DEF Files
  <2>4. QED  BY <2>1, <2>2, <2>3
<1>4. CASE CreateEpoll
  <2>1. phase = "epoll" /\ phase' = "pipe"
    BY <1>4 DEF CreateEpoll
  <2>2. Stage' /\ Settled' /\ SignalStage'
    BY <1>1, <1>2, <2>1 DEF Stage, Settled, SignalStage, Connecting, InLoop, Alive, Off, Opened
  <2>3. QED  BY <1>2, <1>3, <2>2 DEF Rest
<1>5. CASE OthersOpen \/ OthersClose
  <2>1. phase' = phase /\ kept' = kept
    BY <1>5 DEF OthersOpen, OthersClose
  <2>2. Stage' /\ Settled' /\ SignalStage'
    BY <1>1, <1>2, <2>1 DEF Stage, Settled, SignalStage, Connecting, InLoop, Starting, Alive, Off, Opened
  <2>3. QED  BY <1>2, <1>3, <2>2 DEF Rest
<1>6. QED  BY <1>4, <1>5

-----------------------------------------------------------------------------
(* Descriptors of the events.                                              *)

\* A new descriptor for an event that has none.
LEMMA NewFd ==
  ASSUME TypeOK, Kernel, Files, NEW e \in Events, fd[e] = NoFd, mask[e] = {},
         NEW f \in Fds, f \notin open, NEW G \in SUBSET (Fds \ open), f \notin G,
         fd' = [fd EXCEPT ![e] = f], open' = open \cup {f} \cup G, kept' = kept \cup G,
         UNCHANGED <<others, mask, epoll>>
  PROVE  Kernel' /\ Files'
<1>1. fd'[e] = f /\ f # NoFd /\ \A d \in Events : d # e => fd'[d] = fd[d]
  BY Constants DEF TypeOK
<1>2. MaskIsRegistration'
  <2>1. \A d \in Events : mask[d] # {} => fd'[d] = fd[d]
    BY <1>1
  <2>2. reg' = reg /\ mask' = mask
    BY DEF epoll
  <2>3. QED  BY <2>1, <2>2 DEF Kernel, MaskIsRegistration
<1>3. MaskHasFd' /\ InterestAccepted'
  BY <1>1 DEF Kernel, MaskHasFd, InterestAccepted, epoll
<1>4. OwnDescriptors'
  <2>1. (others \cup kept)' \subseteq open'
    BY DEF Files, OwnDescriptors
  <2>2. ASSUME NEW d \in Events, fd'[d] # NoFd PROVE fd'[d] \in open' \ (others' \cup kept')
    <3>1. CASE d = e
      BY <1>1, <3>1 DEF Files, OwnDescriptors
    <3>2. CASE d # e
      BY <1>1, <2>2, <3>2 DEF Files, OwnDescriptors
    <3>3. QED  BY <3>1, <3>2
  <2>3. ASSUME NEW d \in Events, NEW b \in Events, fd'[d] = fd'[b], fd'[d] # NoFd PROVE d = b
    <3>1. \A a \in Events : fd[a] # f
      BY <1>1 DEF Files, OwnDescriptors
    <3>2. CASE d # e /\ b # e
      BY <1>1, <2>3, <3>2, OwnFd DEF Files
    <3>3. CASE d = e \/ b = e
      BY <1>1, <2>3, <3>1, <3>3
    <3>4. QED  BY <3>2, <3>3
  <2>4. QED  BY <2>1, <2>2, <2>3 DEF OwnDescriptors
<1>5. NoLeak'
  <2> SUFFICES ASSUME NEW h \in open' PROVE h \in others' \cup kept' \cup {fd'[d] : d \in Events}
    BY DEF NoLeak
  <2>1. CASE h = f
    BY <1>1, <2>1
  <2>2. CASE h \in G
    BY <2>2
  <2>3. CASE h \in open /\ h # f
    <3>1. h # NoFd
      BY <2>3, Constants DEF TypeOK
    <3>2. CASE h \in others \cup kept
      BY <3>2
    <3>3. CASE \E d \in Events : h = fd[d]
      BY <1>1, <3>1, <3>3
    <3>4. QED  BY <2>3, <3>2, <3>3 DEF Files, NoLeak
  <2>4. QED  BY <2>1, <2>2, <2>3
<1>6. (others \cap kept)' = {}
  BY DEF Files, OwnDescriptors
<1>7. QED  BY <1>2, <1>3, <1>4, <1>5, <1>6 DEF Kernel, Files

LEMMA CreatePipeRest == ASSUME IndInv, CreatePipe PROVE Rest'
<1> USE Constants DEF IndInv
<1>1. PICK f \in Free, g \in Free :
        f < g /\ fd' = [fd EXCEPT ![Signal] = f] /\ open' = open \cup {f, g} /\ kept' = kept \cup {g}
  BY DEF CreatePipe
<1>2. f # g
  BY <1>1 DEF Free, Fds
<1>3. /\ phase = "pipe" /\ phase' = "watchPipe" /\ UNCHANGED <<mask, epoll, others, cur, todo>>
      /\ status' = [status EXCEPT ![Signal] = "CONNECTED"]
  BY DEF CreatePipe
<1>4. Off(Signal)
  BY <1>3 DEF SignalStage
<1>5. Kernel' /\ Files'
  BY <1>1, <1>2, <1>3, <1>4, NewFd DEF Off, Free
<1>6. Opened(Signal)'
  BY <1>1, <1>3, <1>4 DEF Opened, Off, Free, TypeOK
<1>7. \A e \in Events : e # Signal => fd'[e] = fd[e] /\ mask'[e] = mask[e] /\ status'[e] = status[e]
  BY <1>1, <1>3 DEF TypeOK
<1>8. Settled' /\ Stage' /\ SignalStage'
  BY <1>3, <1>6, <1>7 DEF Settled, Stage, SignalStage, Connecting, InLoop, Alive, Off
<1>9. QED  BY <1>5, <1>8 DEF Rest

LEMMA ReconnectRest == ASSUME IndInv, Reconnect PROVE Rest'
<1> USE Constants DEF IndInv
<1>1. /\ phase = "connect" /\ UNCHANGED <<mask, epoll, others, kept, cur, todo>>
      /\ cur \in Conns /\ cur \in Events /\ Off(cur)
      /\ NoSocket \/ Socket
  BY DEF Reconnect, Stage, Connecting
<1>2. phase' \in {"ended", "closeAgain", "register"}
      /\ (phase' = "ended" <=> Starting /\ phase' # "register") /\ (phase' = "closeAgain" => ~Starting)
  BY <1>1 DEF NoSocket, Socket, SetOptions, ReconnectFailed
<1>3. Kernel' /\ Files' /\ (phase' = "register" => Opened(cur)')
      /\ \A e \in Events : e # cur => fd'[e] = fd[e] /\ mask'[e] = mask[e] /\ status'[e] = status[e]
  <2>1. CASE NoSocket
    <3>1. UNCHANGED <<fd, status, open>> /\ phase' # "register"
      BY <2>1 DEF NoSocket, ReconnectFailed
    <3>2. QED  BY <1>1, <3>1, KeepKernel, KeepFiles DEF files
  <2>2. CASE Socket
    <3>1. PICK f \in Fds : f \notin open /\ open' = open \cup {f} /\ fd' = [fd EXCEPT ![cur] = f]
      BY <2>2 DEF Socket, IsLowest, Free
    <3>2. Kernel' /\ Files'
      <4>1. {} \in SUBSET (Fds \ open) /\ f \notin {}
        OBVIOUS
      <4>2. open' = open \cup {f} \cup {} /\ kept' = kept \cup {}
        BY <1>1, <3>1
      <4>3. QED  BY <1>1, <3>1, <4>1, <4>2, NewFd DEF Off
    <3>3. \A e \in Events : e # cur => fd'[e] = fd[e] /\ mask'[e] = mask[e] /\ status'[e] = status[e]
      BY <1>1, <2>2, <3>1 DEF Socket, TypeOK
    <3>4. ASSUME phase' = "register" PROVE Opened(cur)'
      <4>1. status' = [status EXCEPT ![cur] = "CONNECTED"]
        BY <2>2, <3>4 DEF Socket, ReconnectFailed
      <4>2. status'[cur] = "CONNECTED" /\ fd'[cur] = f /\ mask'[cur] = {} /\ cur' = cur
        BY <1>1, <3>1, <4>1 DEF Off, TypeOK
      <4>3. QED  BY <3>1, <4>2 DEF Opened
    <3>5. QED  BY <3>2, <3>3, <3>4
  <2>3. QED  BY <1>1, <2>1, <2>2
<1>4. CASE phase' = "ended"
  BY <1>3, <1>4 DEF Rest, Stage, Settled, SignalStage, Connecting, InLoop
<1>5. CASE phase' # "ended"
  <2>1. phase' \in {"closeAgain", "register"} /\ mask'[cur'] = {}
    BY <1>1, <1>2, <1>5 DEF Off
  <2>2. Settled' /\ SignalStage'
    BY <1>1, <1>3, <2>1 DEF Settled, SignalStage, Connecting, Alive, Off, Opened
  <2>3. Stage'
    BY <1>1, <1>2, <1>3, <2>1 DEF Stage, Connecting, InLoop, Starting
  <2>4. QED  BY <1>3, <2>2, <2>3 DEF Rest
<1>6. QED  BY <1>4, <1>5

LEMMA CloseAgainRest == ASSUME IndInv, CloseAgain PROVE Rest'
<1> USE Constants DEF IndInv
<1>1. /\ phase = "closeAgain" /\ cur \in Conns /\ cur \in Events /\ todo = {}
      /\ EventClose(cur) /\ CountTry /\ UNCHANGED <<others, kept, todo>>
  BY DEF CloseAgain, Stage, Connecting
<1>2. /\ Kernel' /\ Files' /\ fd'[cur] = NoFd /\ mask'[cur] = {} /\ status'[cur] = "CLOSED"
      /\ \A e \in Events : e # cur => fd'[e] = fd[e] /\ mask'[e] = mask[e] /\ status'[e] = status[e]
  BY <1>1, CloseKernel
<1>3. phase' \in {"connect", "dispatch"} /\ (phase' = "connect" => cur' = cur)
  BY <1>1, CountTryTypes
<1>4. Settled' /\ SignalStage'
  BY <1>1, <1>2, <1>3 DEF Settled, SignalStage, Connecting, Alive, Off, Opened
<1>5. Stage'
  BY <1>1, <1>2, <1>3 DEF Stage, Connecting, InLoop, Starting, Off
<1>6. QED  BY <1>2, <1>4, <1>5 DEF Rest

LEMMA ReadClosedRest == ASSUME IndInv, NEW c \in Conns, ReadClosed(c) PROVE Rest'
<1> USE Constants DEF IndInv
<1>1. /\ phase = "dispatch" /\ phase' = "connect" /\ cur' = c /\ c \in Events
      /\ EventClose(c) /\ UNCHANGED <<others, kept, todo>> /\ todo = {}
  BY DEF ReadClosed, Handle, Stage, InLoop
<1>2. /\ Kernel' /\ Files' /\ fd'[c] = NoFd /\ mask'[c] = {} /\ status'[c] = "CLOSED"
      /\ \A e \in Events : e # c => fd'[e] = fd[e] /\ mask'[e] = mask[e] /\ status'[e] = status[e]
  BY <1>1, CloseKernel
<1>3. Settled' /\ SignalStage'
  BY <1>1, <1>2 DEF Settled, SignalStage, Connecting, Alive, Off, Opened
<1>4. Stage'
  BY <1>1, <1>2 DEF Stage, Connecting, InLoop, Starting, Off
<1>5. QED  BY <1>2, <1>3, <1>4 DEF Rest

-----------------------------------------------------------------------------
(* Interest of the events.                                                 *)

\* AddEvent on events that read, or are to: what the other lemmas need of it.
LEMMA AddEventRest ==
  ASSUME IndInv, NEW S \in SUBSET Events, NEW bits \in SUBSET {R, W}, bits # {},
         \A e \in S : fd[e] # NoFd => R \in mask[e] \cup bits,
         AddEvent(S, bits), UNCHANGED <<fd, files>>
  PROVE  /\ Kernel' /\ Files'
         /\ \A e \in Events : mask'[e] = IF e \in S /\ fd[e] # NoFd THEN mask[e] \cup bits ELSE mask[e]
BY AddEventKernel, KeepFiles DEF IndInv, Files

LEMMA WatchPipeRest == ASSUME IndInv, WatchPipe PROVE Rest'
<1> USE Constants DEF IndInv
<1>1. /\ phase = "watchPipe" /\ phase' = "start" /\ AddEvent({Signal}, {R})
      /\ UNCHANGED <<fd, status, files, cur, todo>>
  BY DEF WatchPipe
<1>2. /\ Kernel' /\ Files'
      /\ \A e \in Events : mask'[e] = IF e \in {Signal} /\ fd[e] # NoFd THEN mask[e] \cup {R} ELSE mask[e]
  BY <1>1, AddEventRest
<1>3. Alive(Signal)'
  BY <1>1, <1>2 DEF SignalStage, Opened, Alive
<1>4. \A c \in Conns : mask'[c] = mask[c]
  BY <1>2
<1>5. Settled' /\ SignalStage' /\ Stage'
  BY <1>1, <1>3, <1>4 DEF Settled, SignalStage, Stage, Connecting, InLoop, Alive, Off
<1>6. QED  BY <1>2, <1>5 DEF Rest

LEMMA RegisterRest == ASSUME IndInv, Register PROVE Rest'
<1> USE Constants DEF IndInv
<1>1. /\ phase = "register" /\ phase' = "handshake" /\ AddEvent({cur}, {R, W})
      /\ UNCHANGED <<fd, status, files, cur, todo>> /\ cur \in Conns /\ cur \in Events /\ Opened(cur)
  BY DEF Register, Stage, Connecting
<1>2. /\ Kernel' /\ Files'
      /\ \A e \in Events : mask'[e] = IF e \in {cur} /\ fd[e] # NoFd THEN mask[e] \cup {R, W} ELSE mask[e]
  BY <1>1, AddEventRest
<1>3. Alive(cur)' /\ \A e \in Events : e # cur => mask'[e] = mask[e]
  BY <1>1, <1>2 DEF Opened, Alive
<1>4. Settled' /\ SignalStage'
  BY <1>1, <1>3 DEF Settled, SignalStage, Connecting, Alive, Off
<1>5. Stage'
  BY <1>1, <1>3 DEF Stage, Connecting, InLoop, Starting
<1>6. QED  BY <1>2, <1>4, <1>5 DEF Rest

LEMMA HandShakeRest == ASSUME IndInv, HandShake PROVE Rest'
<1> USE Constants DEF IndInv
<1>1. /\ phase = "handshake" /\ UNCHANGED <<fd, status, files, todo>>
      /\ cur \in Conns /\ cur \in Events /\ Alive(cur) /\ (Starting => cur \in todo)
  BY DEF HandShake, Stage, Connecting
<1>2. /\ Kernel' /\ Files'
      /\ \A e \in Events : e # cur => mask'[e] = mask[e]
      /\ R \in mask'[cur]
  <2>1. CASE AddEvent({cur}, {W})
    <3>1. \A e \in {cur} : fd[e] # NoFd => R \in mask[e] \cup {W}
      BY <1>1 DEF Alive
    <3>2. /\ Kernel' /\ Files'
          /\ \A e \in Events : mask'[e] = IF e \in {cur} /\ fd[e] # NoFd THEN mask[e] \cup {W} ELSE mask[e]
      BY <1>1, <2>1, <3>1, AddEventRest
    <3>3. QED  BY <1>1, <3>2 DEF Alive
  <2>2. CASE UNCHANGED <<mask, epoll>>
    BY <1>1, <2>2, KeepKernel, KeepFiles DEF Alive
  <2>3. QED  BY <2>1, <2>2 DEF HandShake
<1>3. CASE Starting
  <2>1. phase' = "listen" /\ cur' = cur
    BY <1>3 DEF HandShake
  <2>2. Settled' /\ SignalStage'
    BY <1>1, <1>2, <2>1 DEF Settled, SignalStage, Connecting, Alive, Off
  <2>3. Stage'
    BY <1>1, <1>2, <2>1 DEF Stage, Connecting, InLoop, Starting, Alive
  <2>4. QED  BY <1>2, <2>2, <2>3 DEF Rest
<1>4. CASE ~Starting
  <2>1. phase' = "dispatch" /\ cur' = None
    BY <1>4 DEF HandShake
  <2>2. Alive(cur)
    BY <1>1
  <2>3. Settled' /\ SignalStage'
    BY <1>1, <1>2, <1>4, <2>1 DEF Settled, SignalStage, Connecting, Alive, Off, Starting
  <2>4. Stage'
    BY <1>1, <1>4, <2>1 DEF Stage, Connecting, InLoop, Starting
  <2>5. QED  BY <1>2, <2>3, <2>4 DEF Rest
<1>5. QED  BY <1>3, <1>4

LEMMA ListenRest == ASSUME IndInv, Listen PROVE Rest'
<1> USE Constants DEF IndInv
<1>1. /\ phase = "listen" /\ phase' = "start" /\ AddEvent({cur}, {R})
      /\ UNCHANGED <<fd, files, cur>> /\ todo' = todo \ {cur}
      /\ status' = [status EXCEPT ![cur] = "CONNECTED"]
      /\ cur \in Conns /\ cur \in Events /\ Alive(cur)
  BY DEF Listen, Stage, Connecting
<1>2. /\ Kernel' /\ Files'
      /\ \A e \in Events : mask'[e] = IF e \in {cur} /\ fd[e] # NoFd THEN mask[e] \cup {R} ELSE mask[e]
  BY <1>1, AddEventRest
<1>3. /\ fd'[cur] # NoFd /\ R \in mask'[cur] /\ status'[cur] = "CONNECTED"
      /\ \A e \in Events : e # cur => mask'[e] = mask[e] /\ status'[e] = status[e]
  BY <1>1, <1>2 DEF Alive, TypeOK
<1>4. Settled' /\ SignalStage' /\ Stage'
  BY <1>1, <1>3 DEF Settled, SignalStage, Stage, Connecting, InLoop, Alive, Off
<1>5. QED  BY <1>2, <1>4 DEF Rest

\* The loop keeps every event alive or off.
LEMMA LoopRest ==
  ASSUME IndInv, phase = "dispatch", phase' \in {"dispatch", "wait"},
         UNCHANGED <<fd, status, files, cur, todo>>, Kernel', Files',
         \A e \in Events : R \in mask[e] => R \in mask'[e],
         \A e \in Events : Off(e) => mask'[e] = {}
  PROVE  Rest'
<1> USE Constants DEF IndInv
<1>1. \A e \in Events : (Alive(e) => Alive(e)') /\ (Off(e) => Off(e)')
  BY DEF Alive, Off
<1>2. Settled' /\ SignalStage' /\ Stage'
  BY <1>1 DEF Settled, SignalStage, Stage, Connecting, InLoop
<1>3. QED  BY <1>2 DEF Rest

LEMMA SignalCBRest ==
  ASSUME IndInv, ReadSignal \/ TurnDone
  PROVE  Rest'
<1> USE Constants DEF IndInv
<1>1. /\ phase = "dispatch" /\ phase' \in {"dispatch", "wait"}
      /\ UNCHANGED <<fd, status, files, cur, todo>> /\ SignalCB
  BY DEF ReadSignal, TurnDone, Handle
<1>2. PICK flagged \in SUBSET Conns : AddEvent(flagged, {W})
  BY <1>1 DEF SignalCB
<1>3. \A e \in flagged : fd[e] # NoFd => R \in mask[e] \cup {W}
  BY <1>1 DEF Settled, Connecting, Alive, Off
<1>4. /\ Kernel' /\ Files'
      /\ \A e \in Events : mask'[e] = IF e \in flagged /\ fd[e] # NoFd THEN mask[e] \cup {W} ELSE mask[e]
  BY <1>1, <1>2, <1>3, AddEventRest
<1>5. /\ \A e \in Events : R \in mask[e] => R \in mask'[e]
      /\ \A e \in Events : Off(e) => mask'[e] = {}
  BY <1>4 DEF Off
<1>6. QED  BY <1>1, <1>4, <1>5, LoopRest

LEMMA CallWriteRest == ASSUME IndInv, NEW c \in Conns, CallWrite(c) PROVE Rest'
<1> USE Constants DEF IndInv
<1>1. /\ phase = "dispatch" /\ phase' = "dispatch" /\ UNCHANGED <<fd, status, files, cur, todo>>
      /\ Alive(c) /\ c \in Events
  BY HandledAlive DEF CallWrite, Handle
<1>2. Files' /\ OwnDescriptors
  BY <1>1, KeepFiles DEF Files
<1>3. CASE DelEventWrite(c)
  <2>1. /\ Kernel' /\ R \in mask'[c] /\ \A e \in Events : e # c => mask'[e] = mask[e]
    BY <1>1, <1>2, <1>3, DelWriteKernel
  <2>2. /\ \A e \in Events : R \in mask[e] => R \in mask'[e]
        /\ \A e \in Events : Off(e) => mask'[e] = {}
    BY <1>1, <2>1 DEF Alive, Off
  <2>3. QED  BY <1>1, <1>2, <2>1, <2>2, LoopRest
<1>4. CASE UNCHANGED <<mask, epoll>>
  BY <1>1, <1>2, <1>4, KeepKernel, LoopRest DEF Off
<1>5. QED  BY <1>3, <1>4 DEF CallWrite

-----------------------------------------------------------------------------
(* The invariant and what follows from it.                                 *)

LEMMA StutterRest == ASSUME IndInv, UNCHANGED vars PROVE Rest'
<1>1. UNCHANGED <<members, epoll, files, phase, cur, todo, fd, mask, status, kept>>
  BY DEF vars, members, files
<1>2. Kernel' /\ Files'
  BY <1>1, KeepKernel, KeepFiles DEF IndInv
<1>3. Stage' /\ Settled' /\ SignalStage'
  BY <1>1 DEF IndInv, Stage, Settled, SignalStage, Connecting, InLoop, Starting, Alive, Off, Opened
<1>4. QED  BY <1>2, <1>3 DEF Rest

LEMMA NextInv == IndInv /\ [Next]_vars => IndInv'
<1> SUFFICES ASSUME IndInv, [Next]_vars PROVE IndInv'
  OBVIOUS
<1>1. TypeOK'
  BY TypeStep DEF IndInv
<1>2. Rest'
  <2>1. CASE InitFails \/ StartNext \/ EventLoopProcess \/ NextEvent \/ (\E c \in Conns : CallRead(c))
    BY <1>1, <2>1, QuietSteps
  <2>2. CASE CreateEpoll \/ OthersOpen \/ OthersClose
    BY <2>2, FileSteps
  <2>3. CASE CreatePipe
    BY <2>3, CreatePipeRest
  <2>4. CASE WatchPipe
    BY <2>4, WatchPipeRest
  <2>5. CASE Reconnect
    BY <2>5, ReconnectRest
  <2>6. CASE Register
    BY <2>6, RegisterRest
  <2>7. CASE HandShake
    BY <2>7, HandShakeRest
  <2>8. CASE Listen
    BY <2>8, ListenRest
  <2>9. CASE CloseAgain
    BY <2>9, CloseAgainRest
  <2>10. CASE ReadSignal \/ TurnDone
    BY <2>10, SignalCBRest
  <2>11. CASE \E c \in Conns : CallWrite(c) \/ ReadClosed(c)
    BY <2>11, CallWriteRest, ReadClosedRest
  <2>12. CASE UNCHANGED vars
    BY <2>12, StutterRest
  <2>13. QED
    BY <2>1, <2>2, <2>3, <2>4, <2>5, <2>6, <2>7, <2>8, <2>9, <2>10, <2>11, <2>12
       DEF Next, NetworkThread
<1>3. QED  BY <1>1, <1>2 DEF IndInv, Rest

LEMMA SpecInv == Spec => []IndInv
<1>1. Init => IndInv
  BY InitTypes, InitRest DEF IndInv, Rest
<1>2. QED  BY <1>1, NextInv, PTL DEF Spec

\* Types of the event loop, for any number of connections and descriptors.
THEOREM TypesHold == Spec => []TypeOK
BY SpecInv, PTL DEF IndInv

\* An event is registered with the kernel under its own descriptor, and for
\* what its mask says, exactly if its mask is not empty.
THEOREM MaskIsRegistrationHolds == Spec => []MaskIsRegistration
BY SpecInv, PTL DEF IndInv, Kernel

\* The kernel never refuses interest that AddEvent or DelEvent asks for.
THEOREM InterestAcceptedHolds == Spec => []InterestAccepted
BY SpecInv, PTL DEF IndInv, Kernel

\* In the loop, what counts as connected is listened to, and what does not
\* has no descriptor.
THEOREM ListeningHolds == Spec => []Listening
<1>1. IndInv => Listening
  <2> SUFFICES ASSUME IndInv, InLoop, NEW e \in Events
               PROVE  /\ ConnectOK(e) => fd[e] # NoFd /\ R \in mask[e]
                      /\ ~ConnectOK(e) => fd[e] = NoFd
    BY DEF Listening
  <2>1. Alive(e) \/ Off(e)
    BY Constants DEF IndInv, Settled, SignalStage, InLoop, Connecting
  <2>2. QED  BY <2>1 DEF Alive, Off, ConnectOK
<1>2. QED  BY <1>1, SpecInv, PTL

\* No attempt that fails leaks its descriptor.
THEOREM NoLeakHolds == Spec => []NoLeak
BY SpecInv, PTL DEF IndInv, Files

\* No event uses or closes a descriptor of somebody else.
THEOREM OwnDescriptorsHolds == Spec => []OwnDescriptors
BY SpecInv, PTL DEF IndInv, Files

-----------------------------------------------------------------------------
(* How the network thread comes back to its wait.                          *)

\* The stages of the start, of a reconnection and of the loop, from last to first.
Distance ==
  CASE phase \in {"wait", "ended"} -> 0
    [] phase = "dispatch" -> 1
    [] phase = "listen" -> 2
    [] phase = "handshake" -> 3
    [] phase = "register" -> 4
    [] phase \in {"connect", "closeAgain"} -> 5
    [] phase = "start" -> 6
    [] phase = "watchPipe" -> 7
    [] phase = "pipe" -> 8
    [] phase = "epoll" -> 9

Fewer(S, T) == S \subseteq T /\ S # T

\* What there is left to do becomes less: a connection to start, an event of the
\* batch, a bit of the present event, a stage, a round, an attempt of the round,
\* or the closing after it.
Closer ==
  \/ Fewer(todo', todo)
  \/ todo' = todo /\ Fewer(active', active)
  \/ UNCHANGED <<todo, active>> /\ Fewer(now.events', now.events)
  \/ UNCHANGED <<todo, active, now.events>> /\ Distance' < Distance
  \/ /\ UNCHANGED <<todo, active, now.events>> /\ Distance' = Distance
     /\ \/ rounds' > rounds
        \/ rounds' = rounds /\ tries' > tries
        \/ UNCHANGED <<rounds, tries>> /\ phase = "connect" /\ phase' = "closeAgain"

\* Whatever fails in a batch of events or a reconnection, and whatever the rest
\* of the process does to the descriptors, each step of the network thread brings
\* it closer to its wait.  The counts of Close are bounded (TypeOK).
TurnEnds ==
  [][IF NetworkThread THEN phase # "wait" => Closer
     ELSE UNCHANGED <<todo, active, now, phase, rounds, tries>>]_vars

\* A connection listens only while the thread starts.
StillStarting == phase = "listen" => Starting

LEMMA StillStartingNext == IndInv /\ StillStarting /\ [Next]_vars => StillStarting'
<1> SUFFICES ASSUME IndInv, StillStarting, [Next]_vars, phase' = "listen" PROVE Starting'
  BY DEF StillStarting
<1>1. \/ HandShake
      \/ UNCHANGED <<phase, todo>>
  BY DEF Next, NetworkThread, CreateEpoll, CreatePipe, WatchPipe, InitFails, StartNext,
     Reconnect, NoSocket, Socket, SetOptions, ReconnectFailed, Register, Listen, CloseAgain,
     CountTry, EventLoopProcess, NextEvent, ReadSignal, TurnDone, CallWrite, CallRead,
     ReadClosed, OthersOpen, OthersClose, vars
<1>2. QED  BY <1>1 DEF HandShake, Starting, StillStarting

LEMMA HandledLess ==
  ASSUME TypeOK, NEW event \in {EPOLLIN, EPOLLOUT}, event \in now.events, Handled(event)
  PROVE  Fewer(now.events', now.events)
<1>1. now \in [ptr : Events \cup {None}, events : SUBSET {EPOLLIN, EPOLLOUT}]
  BY DEF TypeOK
<1>2. CASE now.events = {event}
  BY <1>2 DEF Handled, NoEvent, Fewer
<1>3. CASE now.events # {event}
  <2>1. now'.events = now.events \ {event}
    BY <1>1, <1>3 DEF Handled
  <2>2. QED  BY <2>1 DEF Fewer
<1>4. QED  BY <1>2, <1>3

LEMMA ThreadCloser ==
  IndInv /\ StillStarting /\ phase # "wait" /\ NetworkThread => Closer
<1> SUFFICES ASSUME IndInv, StillStarting, phase # "wait", NetworkThread PROVE Closer
  OBVIOUS
<1> USE DEF Closer, batch, count
<1>1. ASSUME NEW e \in Events, NEW event \in {EPOLLIN, EPOLLOUT}, Handle(e, event),
             Handled(event), UNCHANGED <<todo, active>>
      PROVE  Closer
  <2>1. event \in now.events
    BY <1>1 DEF Handle
  <2>2. QED  BY <1>1, <2>1, HandledLess DEF IndInv
<1>2. ASSUME NEW c \in Conns, CallWrite(c) \/ CallRead(c) \/ ReadClosed(c)  PROVE Closer
  BY <1>1, <1>2, Constants DEF CallWrite, CallRead, ReadClosed
<1>3. CASE ReadSignal
  BY <1>1, <1>3, Constants DEF ReadSignal
<1>4. CASE NextEvent
  BY <1>4 DEF NextEvent, Fewer
<1>5. CASE TurnDone
  <2>1. UNCHANGED <<todo, active>> /\ now' = NoEvent /\ phase = "dispatch" /\ phase' = "wait"
    BY <1>5 DEF TurnDone
  <2>2. now.events' = {}
    BY <2>1 DEF NoEvent
  <2>3. QED  BY <2>1, <2>2 DEF Distance, Fewer
<1>6. CASE CreateEpoll \/ CreatePipe \/ WatchPipe \/ InitFails
  BY <1>6 DEF CreateEpoll, CreatePipe, WatchPipe, InitFails, Distance
<1>7. CASE StartNext \/ Register \/ HandShake
  BY <1>7 DEF StartNext, Register, HandShake, Distance
<1>8. CASE Reconnect
  BY <1>8 DEF Reconnect, NoSocket, Socket, SetOptions, ReconnectFailed, Distance
<1>9. CASE Listen
  <2>1. cur \in todo
    BY <1>9 DEF Listen, StillStarting, IndInv, Stage, Connecting
  <2>2. QED  BY <1>9, <2>1 DEF Listen, Fewer
<1>10. CASE CloseAgain
  <2>1. rounds \in Nat /\ tries \in Nat
    BY <1>10, EventLoopAssumption DEF IndInv, TypeOK
  <2>2. QED  BY <1>10, <2>1 DEF CloseAgain, CountTry, Distance
<1>11. QED
  BY <1>2, <1>3, <1>4, <1>5, <1>6, <1>7, <1>8, <1>9, <1>10 DEF NetworkThread, EventLoopProcess

\* Every turn of the network thread's loop, its start and each Close are finite.
THEOREM TurnEndsHolds == Spec => TurnEnds
<1>1. Init => StillStarting
  BY DEF Init, StillStarting
<1>2. [Next]_vars /\ ~ NetworkThread
        => UNCHANGED <<todo, active, now, phase, rounds, tries>>
  BY DEF Next, OthersOpen, OthersClose, batch, count, vars
<1>3. IndInv /\ StillStarting /\ [Next]_vars
        => [IF NetworkThread THEN phase # "wait" => Closer
            ELSE UNCHANGED <<todo, active, now, phase, rounds, tries>>]_vars
  BY <1>2, ThreadCloser
<1>4. QED  BY <1>1, <1>3, StillStartingNext, SpecInv, PTL DEF Spec, TurnEnds
=============================================================================
