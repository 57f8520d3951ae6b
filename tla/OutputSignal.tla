----------------------------- MODULE OutputSignal -----------------------------
(***************************************************************************)
(* How output of a connection comes to be noticed by the network thread:   *)
(* what ClientEvent takes for granted, with a flag that is raised in the   *)
(* step that queues a request and read in one step, and what Wakeup makes  *)
(* of single accesses to memory and a pipe.  Both implement it.            *)
(***************************************************************************)
CONSTANTS Conns, NoConn

VARIABLES
  pending,   \* connections with something to send
  flag,      \* connections whose flag is up
  watching,  \* connections that are watched for writing
  away,      \* the connection being made again, during which the network
             \* thread does nothing else
  dead       \* connections given up

vars == <<pending, flag, watching, away, dead>>

Init ==
  /\ pending \subseteq Conns /\ flag = Conns /\ watching = Conns
  /\ away = NoConn /\ dead = {}

\* A business thread queues a request, at any time.
Produce(c) ==
  /\ pending' = pending \cup {c} /\ flag' = flag \cup {c}
  /\ UNCHANGED <<watching, away, dead>>

InLoop == away = NoConn

\* The network thread sees flags that are up, and watches their connections.
\* A flag it lowers may be up again at once.
Notice(S) ==
  /\ InLoop /\ S # {} /\ S \subseteq flag
  /\ watching' = watching \cup (S \ dead)
  /\ flag \ S \subseteq flag' /\ flag' \subseteq flag
  /\ UNCHANGED <<pending, away, dead>>

\* The last of a connection's output leaves.
SendLast(c) ==
  /\ InLoop /\ c \in watching \cap pending
  /\ pending' = pending \ {c}
  /\ UNCHANGED <<flag, watching, away, dead>>

\* A connection with nothing to send is not watched any longer.
Rest(c) ==
  /\ InLoop /\ c \in watching \ pending
  /\ watching' = watching \ {c}
  /\ UNCHANGED <<pending, flag, away, dead>>

Lose(c) ==
  /\ InLoop /\ c \notin dead
  /\ away' = c /\ watching' = watching \ {c}
  /\ UNCHANGED <<pending, flag, dead>>

\* Making it again forgets what was half sent, ...
Forgets == pending \ {away} \subseteq pending' /\ pending' \subseteq pending

Retry ==
  /\ ~InLoop /\ Forgets
  /\ UNCHANGED <<flag, watching, away, dead>>

\* ... and puts back what was not answered.  It ends with the connection watched,
Remake ==
  /\ ~InLoop
  /\ pending \ {away} \subseteq pending' /\ pending' \subseteq pending \cup {away}
  /\ flag \subseteq flag' /\ flag' \subseteq flag \cup {away}
  /\ watching \subseteq watching' /\ watching' \subseteq watching \cup {away}
  /\ away' = away \/ (away' = NoConn /\ away \in watching')
  /\ UNCHANGED dead

\* or given up.
GiveUp ==
  /\ ~InLoop /\ Forgets
  /\ dead' = dead \cup {away} /\ away' = NoConn
  /\ UNCHANGED <<flag, watching>>

Next ==
  \/ \E c \in Conns : Produce(c) \/ SendLast(c) \/ Rest(c) \/ Lose(c)
  \/ \E S \in SUBSET Conns : Notice(S)
  \/ Retry \/ Remake \/ GiveUp

Spec == Init /\ [][Next]_vars

\* What it is for: no output is stranded.
NoneStranded ==
  \A c \in pending \ (dead \cup {away}) : c \in watching \cup flag
=============================================================================
