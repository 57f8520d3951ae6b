------------------------------- MODULE SSQueue -------------------------------
(***************************************************************************)
(* GORM_SSQueue (src/include/gorm_ss_queue.h): the ring behind the send    *)
(* queue of a connection (10240 slots) and behind the list of responses    *)
(* (131072 slots).  Every operation holds the queue's mutex, so each is a  *)
(* single action whichever thread calls it.                                *)
(*                                                                         *)
(* The indices are unsigned and wrap at IdxMod (2^64 in the code); PutPre  *)
(* decrements the read index, at the start below zero.                     *)
(***************************************************************************)
EXTENDS Integers, Sequences

CONSTANTS
  Item,       \* what is queued
  TOTALNUM,   \* slots of the ring
  IdxMod,     \* values of an index
  MaxIn       \* longest batch a Take asks for (bound)

ASSUME RingAssumption ==
  /\ TOTALNUM \in Nat \ {0}
  /\ IdxMod \in Nat \ {0} /\ TOTALNUM <= IdxMod
  /\ MaxIn \in Nat

VARIABLES m_data, m_readIdx, m_writeIdx, m_nowNum, out

vars == <<m_data, m_readIdx, m_writeIdx, m_nowNum, out>>

Slots == 0 .. TOTALNUM - 1
Slot(idx) == idx % TOTALNUM
Plus(idx, n) == (idx + n) % IdxMod

\* m_data starts uninitialised; the slots are read only after a write.
Init ==
  /\ \E x \in Item : m_data = [s \in Slots |-> x]
  /\ m_readIdx = 0 /\ m_writeIdx = 0 /\ m_nowNum = 0
  /\ out = <<>>

Full == m_nowNum = TOTALNUM

\* A full queue refuses the item and returns false: nothing changes.
Put(x) ==
  /\ ~Full
  /\ m_data' = [m_data EXCEPT ![Slot(m_writeIdx)] = x]
  /\ m_writeIdx' = Plus(m_writeIdx, 1)
  /\ m_nowNum' = m_nowNum + 1
  /\ UNCHANGED <<m_readIdx, out>>

PutPreStoresFirst(x) ==
  /\ ~Full
  /\ m_data' = [m_data EXCEPT ![Slot(m_readIdx)] = x]
  /\ m_readIdx' = Plus(m_readIdx, -1)
  /\ m_nowNum' = m_nowNum + 1
  /\ UNCHANGED <<m_writeIdx, out>>
PutPre(x) ==
  /\ ~Full
  /\ m_readIdx' = Plus(m_readIdx, -1)
  /\ m_data' = [m_data EXCEPT ![Slot(m_readIdx')] = x]
  /\ m_nowNum' = m_nowNum + 1
  /\ UNCHANGED <<m_writeIdx, out>>

\* The next n items, in reading order.
NextItems(n) == [i \in 1 .. n |-> m_data[Slot(Plus(m_readIdx, i - 1))]]

TakeN(n) ==
  /\ out' = NextItems(n)
  /\ m_readIdx' = Plus(m_readIdx, n)
  /\ m_nowNum' = m_nowNum - n
  /\ UNCHANGED <<m_data, m_writeIdx>>

Take == m_nowNum > 0 /\ TakeN(1)

\* Take of up to inLen items; one that asks for more than there is empties
\* the queue.
TakeAllAsked(inLen) ==
  /\ m_nowNum > 0
  /\ out' = NextItems(inLen)
  /\ m_readIdx' = Plus(m_readIdx, inLen)
  /\ m_nowNum' = IF inLen > m_nowNum THEN 0 ELSE m_nowNum - inLen
  /\ UNCHANGED <<m_data, m_writeIdx>>
TakeBatch(inLen) ==
  /\ m_nowNum > 0
  /\ TakeN(IF inLen > m_nowNum THEN m_nowNum ELSE inLen)

Next ==
  \/ \E x \in Item : Put(x) \/ PutPre(x)
  \/ Take
  \/ \E inLen \in 1 .. MaxIn : TakeBatch(inLen)

Spec == Init /\ [][Next]_vars

-----------------------------------------------------------------------------
(* Properties.                                                             *)

\* The three counters of the ring tell the same story, across the wrap of the
\* indices and for every mix of the four operations: what lies between the
\* read and the write index is what the count says.
IndicesAgree == m_writeIdx = Plus(m_readIdx, m_nowNum)

Contents == NextItems(m_nowNum)

\* The ring is a bounded deque (comment of PutPre: the item is put at the
\* beginning), for every legal sequence of calls.  It holds when the number of
\* slots divides the number of index values.
Queue == INSTANCE Deque WITH Cap <- TOTALNUM, contents <- Contents
DequeSpec == Queue!Spec
=============================================================================
