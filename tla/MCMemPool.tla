------------------------------ MODULE MCMemPool ------------------------------
(***************************************************************************)
(* MemPool for TLC: two sizes, of which the second is twice the first, and *)
(* neither descriptors nor users are told apart.                           *)
(***************************************************************************)
EXTENDS MemPool, TLC

Sizes == [i \in 0 .. 1 |-> 2 * 2^i]

Symmetry == Permutations(Data) \cup Permutations(Holder)
=============================================================================
