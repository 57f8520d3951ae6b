---------------------------- MODULE ResponseStream ----------------------------
(***************************************************************************)
(* What a connection promises to the code behind its read buffer: the      *)
(* responses the server sends come out one by one, whole, in the order     *)
(* they were sent, none of them twice, until the connection is cut.        *)
(* ReadBuffer implements it.                                               *)
(***************************************************************************)
EXTENDS Naturals, Sequences

VARIABLES
  sent,       \* the responses sent on the connection, in order
  delivered,  \* how many of them have been handed on
  last        \* the last one handed on

vars == <<sent, delivered, last>>

Fresh == sent = <<>> /\ delivered = 0 /\ last = <<>>

Send ==
  /\ Len(sent') = Len(sent) + 1
  /\ \A k \in DOMAIN sent : sent'[k] = sent[k]
  /\ UNCHANGED <<delivered, last>>

Deliver ==
  /\ delivered < Len(sent)
  /\ delivered' = delivered + 1
  /\ last' = sent[delivered + 1]
  /\ UNCHANGED sent

Cut == sent' = <<>> /\ delivered' = 0 /\ last' = <<>>

Next == Send \/ Deliver \/ Cut
Spec == Fresh /\ [][Next]_vars
=============================================================================
