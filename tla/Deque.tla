-------------------------------- MODULE Deque --------------------------------
(***************************************************************************)
(* What the users of GORM_SSQueue rely on: a bounded queue that also takes *)
(* items at its front, and the items the last Take returned.               *)
(***************************************************************************)
EXTENDS Naturals, Sequences

CONSTANTS Item, Cap

VARIABLES contents, out

Init == contents = <<>> /\ out = <<>>

HasRoom == Len(contents) < Cap

PutBack(x) == HasRoom /\ contents' = Append(contents, x) /\ UNCHANGED out

PutFront(x) == HasRoom /\ contents' = <<x>> \o contents /\ UNCHANGED out

\* The first n items leave.
TakeFront(n) ==
  /\ out' = SubSeq(contents, 1, n)
  /\ contents' = SubSeq(contents, n + 1, Len(contents))

Next ==
  \/ \E x \in Item : PutBack(x) \/ PutFront(x)
  \/ \E n \in 1 .. Len(contents) : TakeFront(n)

Spec == Init /\ [][Next]_<<contents, out>>
=============================================================================
