--------------------------- MODULE RequestService ---------------------------
(***************************************************************************)
(* What the GORM client promises the coroutines of the business thread,    *)
(* with no queue, connection or timeout in sight: a request that was       *)
(* accepted is completed at most once (answered or timed out), and a       *)
(* completed request is handed back once.  A request may be dropped only   *)
(* while it is pending.                                                    *)
(***************************************************************************)
CONSTANT Request

VARIABLE state

States == {"new", "pending", "completed", "returned", "dropped"}

Init == state = [r \in Request |-> "new"]

Move(S, from, to) ==
  /\ \A r \in S : state[r] = from
  /\ state' = [r \in Request |-> IF r \in S THEN to ELSE state[r]]

\* SendRequest puts a request into a send queue.
Accept(r) == Move({r}, "new", "pending")

\* A response or a timeout check completes requests; those the response list
\* has no room for are dropped, like those a reconnection cannot put back.
Complete(S, D) ==
  /\ S \cap D = {}
  /\ \A r \in S \cup D : state[r] = "pending"
  /\ state' = [r \in Request |-> IF r \in S THEN "completed"
                                 ELSE IF r \in D THEN "dropped" ELSE state[r]]

\* OnUpdate hands a request back to its coroutine.
Return(r) == Move({r}, "completed", "returned")

Next ==
  \/ \E r \in Request : Accept(r) \/ Return(r)
  \/ \E S, D \in SUBSET Request : Complete(S, D)

Spec == Init /\ [][Next]_state
=============================================================================
