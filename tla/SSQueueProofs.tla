----------------------------- MODULE SSQueueProofs -----------------------------
(***************************************************************************)
(* Proofs about SSQueue: its counters agree for every ring, and a ring     *)
(* whose size divides the index range is a bounded deque.                  *)
(***************************************************************************)
EXTENDS SSQueue, SequenceTheorems, TLAPS

-----------------------------------------------------------------------------
(* Division with remainder.                                                *)

LEMMA DivMod ==
  ASSUME NEW W \in Nat \ {0}, NEW a \in Int
  PROVE  /\ a = W * (a \div W) + (a % W)
         /\ a % W \in 0 .. W - 1 /\ a \div W \in Int
OBVIOUS

LEMMA MultipleBelow ==
  ASSUME NEW W \in Nat \ {0}, NEW k \in Int, W * k < W, W * k > -W
  PROVE  k = 0
OBVIOUS

\* The remainder is unique.
LEMMA Remainder ==
  ASSUME NEW W \in Nat \ {0}, NEW q \in Int, NEW m \in 0 .. W - 1
  PROVE  (W * q + m) % W = m
<1> DEFINE a == W * q + m
<1>1. a \in Int
  OBVIOUS
<1>2. a = W * (a \div W) + (a % W) /\ a % W \in 0 .. W - 1 /\ a \div W \in Int
  BY <1>1, DivMod
<1>3. W * (q - (a \div W)) = W * q - W * (a \div W)
  BY <1>2
<1>4. q - (a \div W) = 0
  BY <1>2, <1>3, MultipleBelow
<1> HIDE DEF a
<1>5. a % W = a - W * q
  BY <1>1, <1>2, <1>4
<1>6. QED  BY <1>5 DEF a

\* Adding after taking the remainder is adding before.
LEMMA ModAdd ==
  ASSUME NEW W \in Nat \ {0}, NEW a \in Int, NEW b \in Int
  PROVE  ((a % W) + b) % W = (a + b) % W
<1> DEFINE q == a \div W
<1> DEFINE r == a % W
<1>1. a = W * q + r /\ r \in 0 .. W - 1 /\ q \in Int
  BY DivMod
<1> HIDE DEF q, r
<1> DEFINE p == (r + b) \div W
<1> DEFINE m == (r + b) % W
<1>2. r + b = W * p + m /\ m \in 0 .. W - 1 /\ p \in Int
  <2>1. r + b \in Int
    BY <1>1
  <2>2. QED  BY <2>1, DivMod
<1> HIDE DEF p, m
<1>3. a + b = W * (q + p) + m /\ q + p \in Int
  BY <1>1, <1>2
<1>4. (a + b) % W = m
  BY <1>2, <1>3, Remainder
<1>5. QED  BY <1>4 DEF m, r

\* Remainders by N can be taken after remainders by a multiple of N.
LEMMA ModMod ==
  ASSUME NEW N \in Nat \ {0}, NEW K \in Nat \ {0}, NEW a \in Int
  PROVE  (a % (N * K)) % N = a % N
<1> DEFINE W == N * K
<1> DEFINE q == a \div W
<1> DEFINE r == a % W
<1> DEFINE p == r \div N
<1> DEFINE m == r % N
<1>1. W \in Nat \ {0}
  OBVIOUS
<1> HIDE DEF W
<1>2. a = W * q + r /\ r \in 0 .. W - 1 /\ q \in Int
  BY <1>1, DivMod
<1>3. r = N * p + m /\ m \in 0 .. N - 1 /\ p \in Int
  BY <1>1, <1>2, DivMod
<1> HIDE DEF q, r, p, m
<1>4. W * q = N * (K * q) /\ K * q \in Int
  BY <1>2 DEF W
<1>5. a = N * (K * q + p) + m /\ K * q + p \in Int
  BY <1>2, <1>3, <1>4
<1>6. a % N = m
  BY <1>3, <1>5, Remainder
<1>7. QED  BY <1>6 DEF m, r, W

\* Fewer than N places apart, two indices have different remainders.
LEMMA ModDiffers ==
  ASSUME NEW N \in Nat \ {0}, NEW a \in Int, NEW b \in Int, a < b, b < a + N
  PROVE  a % N # b % N
<1> DEFINE q == a \div N
<1> DEFINE p == b \div N
<1>1. a = N * q + (a % N) /\ q \in Int /\ a % N \in Int
  BY DivMod
<1>2. b = N * p + (b % N) /\ p \in Int /\ b % N \in Int
  BY DivMod
<1> HIDE DEF q, p
<1>3. SUFFICES ASSUME a % N = b % N PROVE FALSE
  OBVIOUS
<1>4. N * (p - q) = b - a
  BY <1>1, <1>2, <1>3
<1>5. p - q = 0
  BY <1>1, <1>2, <1>4, MultipleBelow
<1>6. QED  BY <1>1, <1>2, <1>4, <1>5

-----------------------------------------------------------------------------
(* The counters.                                                           *)

TypeOK ==
  /\ m_data \in [Slots -> Item]
  /\ m_readIdx \in 0 .. IdxMod - 1 /\ m_writeIdx \in 0 .. IdxMod - 1
  /\ m_nowNum \in 0 .. TOTALNUM

IndInv == TypeOK /\ IndicesAgree

LEMMA PlusRange ==
  \A idx, n \in Int : Plus(idx, n) \in 0 .. IdxMod - 1
BY RingAssumption, DivMod DEF Plus

LEMMA PlusPlus ==
  ASSUME NEW idx \in Int, NEW n \in Int, NEW k \in Int
  PROVE  Plus(Plus(idx, n), k) = Plus(idx, n + k)
<1>1. IdxMod \in Nat \ {0} /\ idx + n \in Int
  BY RingAssumption
<1>2. (((idx + n) % IdxMod) + k) % IdxMod = ((idx + n) + k) % IdxMod
  BY <1>1, ModAdd
<1>3. (idx + n) + k = idx + (n + k)
  OBVIOUS
<1>4. QED  BY <1>2, <1>3 DEF Plus

LEMMA SlotRange == \A idx \in Int : Slot(idx) \in Slots
BY RingAssumption, DivMod DEF Slot, Slots

LEMMA PlusZero == \A idx \in 0 .. IdxMod - 1 : Plus(idx, 0) = idx
<1> SUFFICES ASSUME NEW idx \in 0 .. IdxMod - 1 PROVE Plus(idx, 0) = idx
  OBVIOUS
<1>1. (IdxMod * 0 + idx) % IdxMod = idx
  BY RingAssumption, Remainder
<1>2. QED  BY <1>1, RingAssumption DEF Plus

LEMMA InitInv == Init => IndInv
BY RingAssumption, PlusZero DEF Init, IndInv, TypeOK, IndicesAgree

LEMMA TakeNInv ==
  ASSUME IndInv, NEW n \in 1 .. m_nowNum, TakeN(n)
  PROVE  IndInv'
<1>1. n \in Int /\ m_readIdx \in Int /\ m_nowNum \in Int
  BY RingAssumption DEF IndInv, TypeOK
<1>2. m_readIdx' \in 0 .. IdxMod - 1
  BY <1>1, PlusRange DEF TakeN
<1>3. TypeOK'
  BY <1>1, <1>2, RingAssumption DEF TakeN, IndInv, TypeOK
<1>4. Plus(m_readIdx', m_nowNum') = Plus(m_readIdx, n + (m_nowNum - n))
  BY <1>1, PlusPlus DEF TakeN
<1>5. IndicesAgree'
  BY <1>1, <1>4 DEF TakeN, IndInv, IndicesAgree
<1>6. QED  BY <1>3, <1>5 DEF IndInv

LEMMA PutInv ==
  ASSUME IndInv, NEW x \in Item, Put(x)
  PROVE  IndInv'
<1>1. m_readIdx \in Int /\ m_writeIdx \in Int /\ m_nowNum \in Int
  BY RingAssumption DEF IndInv, TypeOK
<1>2. m_writeIdx' \in 0 .. IdxMod - 1
  BY <1>1, PlusRange DEF Put
<1>3. TypeOK'
  <2>1. m_data' \in [Slots -> Item]
    BY DEF Put, IndInv, TypeOK
  <2>2. m_nowNum' \in 0 .. TOTALNUM
    BY RingAssumption DEF Put, Full, IndInv, TypeOK
  <2>3. QED  BY <1>2, <2>1, <2>2 DEF Put, IndInv, TypeOK
<1>4. Plus(Plus(m_readIdx, m_nowNum), 1) = Plus(m_readIdx, m_nowNum + 1)
  BY <1>1, PlusPlus
<1>5. IndicesAgree'
  BY <1>4 DEF Put, IndInv, IndicesAgree
<1>6. QED  BY <1>3, <1>5 DEF IndInv

LEMMA PutPreInv ==
  ASSUME IndInv, NEW x \in Item, PutPre(x)
  PROVE  IndInv'
<1>1. m_readIdx \in Int /\ m_nowNum \in Int
  BY RingAssumption DEF IndInv, TypeOK
<1>2. m_readIdx' \in 0 .. IdxMod - 1
  BY <1>1, PlusRange DEF PutPre
<1>3. TypeOK'
  <2>1. m_data' \in [Slots -> Item]
    BY DEF PutPre, IndInv, TypeOK
  <2>2. m_nowNum' \in 0 .. TOTALNUM
    BY RingAssumption DEF PutPre, Full, IndInv, TypeOK
  <2>3. QED  BY <1>2, <2>1, <2>2 DEF PutPre, IndInv, TypeOK
<1>4. Plus(Plus(m_readIdx, -1), m_nowNum + 1) = Plus(m_readIdx, -1 + (m_nowNum + 1))
  BY <1>1, PlusPlus
<1>5. -1 + (m_nowNum + 1) = m_nowNum
  BY <1>1
<1>6. IndicesAgree'
  BY <1>4, <1>5 DEF PutPre, IndInv, IndicesAgree
<1>7. QED  BY <1>3, <1>6 DEF IndInv

\* Take and TakeBatch take between one and all of the items.
LEMMA TakesSome ==
  ASSUME IndInv, Take \/ \E inLen \in 1 .. MaxIn : TakeBatch(inLen)
  PROVE  \E n \in 1 .. m_nowNum : TakeN(n)
<1>1. m_nowNum \in Nat /\ MaxIn \in Nat
  BY RingAssumption DEF IndInv, TypeOK
<1>2. CASE Take
  BY <1>1, <1>2 DEF Take
<1>3. ASSUME NEW inLen \in 1 .. MaxIn, TakeBatch(inLen)
      PROVE  \E n \in 1 .. m_nowNum : TakeN(n)
  <2> DEFINE n == IF inLen > m_nowNum THEN m_nowNum ELSE inLen
  <2>1. n \in 1 .. m_nowNum
    BY <1>1, <1>3 DEF TakeBatch
  <2>2. TakeN(n)
    BY <1>3 DEF TakeBatch
  <2>3. QED  BY <2>1, <2>2
<1>4. QED  BY <1>2, <1>3

LEMMA NextInv == IndInv /\ [Next]_vars => IndInv'
<1> SUFFICES ASSUME IndInv, [Next]_vars PROVE IndInv'
  OBVIOUS
<1>1. CASE Take \/ \E inLen \in 1 .. MaxIn : TakeBatch(inLen)
  BY <1>1, TakesSome, TakeNInv
<1>2. CASE \E x \in Item : Put(x) \/ PutPre(x)
  BY <1>2, PutInv, PutPreInv
<1>3. CASE UNCHANGED vars
  BY <1>3 DEF vars, IndInv, TypeOK, IndicesAgree
<1>4. QED  BY <1>1, <1>2, <1>3 DEF Next

LEMMA SpecInv == Spec => []IndInv
BY InitInv, NextInv, PTL DEF Spec

\* The read index, the write index and the count agree for every ring,
\* whatever its size and however often the indices wrap.
THEOREM IndicesAgreeHolds == Spec => []IndicesAgree
BY SpecInv, PTL DEF IndInv

-----------------------------------------------------------------------------
(* The deque.                                                              *)

SizeDivides == \E k \in Nat \ {0} : IdxMod = TOTALNUM * k

LEMMA SlotPlus ==
  ASSUME SizeDivides, NEW idx \in Int, NEW n \in Int
  PROVE  Slot(Plus(idx, n)) = (idx + n) % TOTALNUM
<1>1. PICK k \in Nat \ {0} : IdxMod = TOTALNUM * k
  BY DEF SizeDivides
<1>2. ((idx + n) % (TOTALNUM * k)) % TOTALNUM = (idx + n) % TOTALNUM
  <2>1. idx + n \in Int /\ TOTALNUM \in Nat \ {0} /\ k \in Nat \ {0}
    BY RingAssumption
  <2>2. QED  BY <2>1, ModMod
<1>3. QED  BY <1>1, <1>2 DEF Slot, Plus

\* The n places of the ring from idx on have slots of their own: always where
\* the size divides the index range; else as long as they do not straddle the
\* wrap of the index, or are no more than the remainder of that division.
Rest == IdxMod % TOTALNUM
Apart(idx, n) == SizeDivides \/ idx + n <= IdxMod \/ n <= Rest

LEMMA RestRange ==
  /\ Rest \in 0 .. TOTALNUM - 1
  /\ \A a \in Int : Slot(a - IdxMod) = Slot(a - Rest)
<1> DEFINE q == IdxMod \div TOTALNUM
<1>1. IdxMod = TOTALNUM * q + Rest /\ Rest \in 0 .. TOTALNUM - 1 /\ q \in Int
  BY RingAssumption, DivMod DEF Rest
<1> HIDE DEF q
<1>2. ASSUME NEW a \in Int
      PROVE  Slot(a - IdxMod) = Slot(a - Rest)
  <2> DEFINE p == (a - Rest) \div TOTALNUM
  <2> DEFINE m == (a - Rest) % TOTALNUM
  <2>1. a - Rest \in Int /\ TOTALNUM \in Nat \ {0}
    BY <1>1, RingAssumption
  <2>2. a - Rest = TOTALNUM * p + m /\ m \in 0 .. TOTALNUM - 1 /\ p \in Int
    BY <2>1, DivMod
  <2> HIDE DEF p, m
  <2>3. a - IdxMod = TOTALNUM * (p - q) + m
    <3>1. a - IdxMod = (TOTALNUM * p - TOTALNUM * q) + m
      BY <1>1, <2>2, RingAssumption
    <3>2. TOTALNUM * (p - q) = TOTALNUM * p - TOTALNUM * q
      BY <1>1, <2>1, <2>2
    <3>3. QED  BY <3>1, <3>2
  <2>4. (TOTALNUM * (p - q) + m) % TOTALNUM = m
    BY <1>1, <2>1, <2>2, Remainder
  <2>5. Slot(a - IdxMod) = m
    BY <2>3, <2>4 DEF Slot
  <2>6. Slot(a - Rest) = m
    BY DEF Slot, m
  <2>7. QED  BY <2>5, <2>6
<1>3. QED  BY <1>1, <1>2

\* Where a place lies that is at most one turn of the index away.
LEMMA PlusTurn ==
  ASSUME NEW idx \in 0 .. IdxMod - 1, NEW n \in 0 .. IdxMod
  PROVE  Plus(idx, n) = IF idx + n < IdxMod THEN idx + n ELSE (idx + n) - IdxMod
<1>1. idx + n < IdxMod => (IdxMod * 0 + (idx + n)) % IdxMod = idx + n
  BY RingAssumption, Remainder
<1>2. idx + n >= IdxMod => (IdxMod * 1 + ((idx + n) - IdxMod)) % IdxMod = (idx + n) - IdxMod
  BY RingAssumption, Remainder
<1>3. QED  BY <1>1, <1>2, RingAssumption DEF Plus

LEMMA SlotsDiffer ==
  ASSUME NEW idx \in 0 .. IdxMod - 1, NEW n \in 0 .. TOTALNUM, Apart(idx, n),
         NEW i \in 0 .. n - 1, NEW j \in 0 .. n - 1, i < j
  PROVE  Slot(Plus(idx, i)) # Slot(Plus(idx, j))
<1>1. /\ idx \in Int /\ i \in Int /\ j \in Int /\ n \in Int /\ IdxMod \in Int
      /\ TOTALNUM \in Nat \ {0} /\ n <= TOTALNUM /\ j < i + n
      /\ idx + i \in Int /\ idx + j \in Int
      /\ (idx + i) - IdxMod \in Int /\ (idx + j) - IdxMod \in Int
  BY RingAssumption
<1>2. (idx + i) % TOTALNUM # (idx + j) % TOTALNUM
  <2>1. idx + i < idx + j /\ idx + j < (idx + i) + TOTALNUM
    BY <1>1
  <2>2. QED  BY <1>1, <2>1, ModDiffers
<1>3. /\ Plus(idx, i) = IF idx + i < IdxMod THEN idx + i ELSE (idx + i) - IdxMod
      /\ Plus(idx, j) = IF idx + j < IdxMod THEN idx + j ELSE (idx + j) - IdxMod
  <2>1. i \in 0 .. IdxMod /\ j \in 0 .. IdxMod
    BY RingAssumption
  <2>2. QED  BY <2>1, PlusTurn
<1>4. CASE SizeDivides
  BY <1>1, <1>2, <1>4, SlotPlus
<1>5. CASE idx + j < IdxMod
  <2>1. Plus(idx, i) = idx + i /\ Plus(idx, j) = idx + j
    BY <1>1, <1>3, <1>5
  <2>2. QED  BY <1>2, <2>1 DEF Slot
<1>6. CASE idx + i >= IdxMod
  <2>1. /\ (idx + i) - IdxMod < (idx + j) - IdxMod
        /\ (idx + j) - IdxMod < ((idx + i) - IdxMod) + TOTALNUM
    BY <1>1
  <2>2. ((idx + i) - IdxMod) % TOTALNUM # ((idx + j) - IdxMod) % TOTALNUM
    BY <1>1, <2>1, ModDiffers
  <2>3. Plus(idx, i) = (idx + i) - IdxMod /\ Plus(idx, j) = (idx + j) - IdxMod
    BY <1>1, <1>3, <1>6
  <2>4. QED  BY <2>2, <2>3 DEF Slot
<1>7. CASE idx + i < IdxMod /\ idx + j >= IdxMod /\ n <= Rest
  <2>1. Plus(idx, i) = idx + i /\ Plus(idx, j) = (idx + j) - IdxMod
    BY <1>1, <1>3, <1>7
  <2>2. Rest \in Int /\ Rest < TOTALNUM /\ (idx + j) - Rest \in Int
    BY <1>1, RestRange
  <2>3. /\ (idx + j) - Rest < idx + i
        /\ idx + i < ((idx + j) - Rest) + TOTALNUM
    BY <1>1, <1>7, <2>2
  <2>4. Slot((idx + j) - Rest) # Slot(idx + i)
    BY <1>1, <2>2, <2>3, ModDiffers DEF Slot
  <2>5. Slot((idx + j) - IdxMod) = Slot((idx + j) - Rest)
    BY <1>1, RestRange
  <2>6. QED  BY <2>1, <2>4, <2>5
<1>8. idx + i >= IdxMod \/ idx + j < IdxMod \/ (idx + i < IdxMod /\ idx + j >= IdxMod)
  BY <1>1
<1>9. SizeDivides \/ idx + j < IdxMod \/ n <= Rest
  BY <1>1 DEF Apart
<1>10. QED  BY <1>4, <1>5, <1>6, <1>7, <1>8, <1>9

\* The condition is exact: beyond it two places share a slot, and a Put or a
\* PutPre that gets there overwrites an item that is still queued.
LEMMA RestDivides == Rest = 0 => SizeDivides
<1> SUFFICES ASSUME Rest = 0 PROVE SizeDivides
  OBVIOUS
<1> DEFINE q == IdxMod \div TOTALNUM
<1>1. IdxMod = TOTALNUM * q + Rest /\ q \in Int
  BY RingAssumption, DivMod DEF Rest
<1> HIDE DEF q
<1>2. IdxMod = TOTALNUM * q /\ IdxMod > 0 /\ TOTALNUM > 0
  BY <1>1, RingAssumption
<1>3. q \in Nat \ {0}
  <2>1. q <= 0 => TOTALNUM * q <= 0
    BY <1>1, RingAssumption
  <2>2. QED  BY <1>1, <1>2, <2>1, RingAssumption
<1>4. QED  BY <1>2, <1>3 DEF SizeDivides

THEOREM SlotsClash ==
  ASSUME NEW idx \in 0 .. IdxMod - 1, NEW n \in 0 .. TOTALNUM, ~ Apart(idx, n)
  PROVE  \E i, j \in 0 .. n - 1 : i < j /\ Slot(Plus(idx, i)) = Slot(Plus(idx, j))
<1> DEFINE i == IF IdxMod - idx > Rest THEN IdxMod - idx - Rest ELSE 0
<1> DEFINE j == i + Rest
<1>1. Rest \in 1 .. TOTALNUM - 1 /\ idx + n > IdxMod /\ n > Rest
  BY RestRange, RestDivides, RingAssumption DEF Apart
<1>2. /\ i \in 0 .. n - 1 /\ j \in 0 .. n - 1 /\ i < j
      /\ idx + i < IdxMod /\ idx + j >= IdxMod
      /\ i \in 0 .. IdxMod /\ j \in 0 .. IdxMod /\ idx + j \in Int
  BY <1>1, RingAssumption
<1>3. (idx + j) - Rest = idx + i
  BY <1>1, <1>2
<1> HIDE DEF i, j
<1>4. Plus(idx, i) = idx + i /\ Plus(idx, j) = (idx + j) - IdxMod
  <2>1. Plus(idx, i) = idx + i
    BY <1>2, PlusTurn
  <2>2. Plus(idx, j) = IF idx + j < IdxMod THEN idx + j ELSE (idx + j) - IdxMod
    BY <1>2, PlusTurn
  <2>3. QED  BY <1>2, <2>1, <2>2, RingAssumption
<1>5. Slot(Plus(idx, i)) = Slot(Plus(idx, j))
  <2>1. Slot((idx + j) - IdxMod) = Slot((idx + j) - Rest)
    BY <1>2, RestRange
  <2>2. QED  BY <1>3, <1>4, <2>1
<1>6. QED  BY <1>2, <1>5

LEMMA NextItemsType ==
  ASSUME IndInv, NEW n \in Nat
  PROVE  /\ NextItems(n) \in Seq(Item) /\ Len(NextItems(n)) = n
         /\ \A i \in 1 .. n : NextItems(n)[i] = m_data[Slot(Plus(m_readIdx, i - 1))]
<1>1. \A i \in 1 .. n : m_data[Slot(Plus(m_readIdx, i - 1))] \in Item
  <2> SUFFICES ASSUME NEW i \in 1 .. n
               PROVE  m_data[Slot(Plus(m_readIdx, i - 1))] \in Item
    OBVIOUS
  <2>1. m_readIdx \in Int /\ i - 1 \in Int
    BY RingAssumption DEF IndInv, TypeOK
  <2>2. Slot(Plus(m_readIdx, i - 1)) \in Slots
    BY <2>1, PlusRange, SlotRange
  <2>3. QED  BY <2>2 DEF IndInv, TypeOK
<1>2. NextItems(n) \in [1 .. n -> Item]
  BY <1>1 DEF NextItems
<1>3. NextItems(n) \in Seq(Item) /\ Len(NextItems(n)) = n
  BY <1>2
<1>4. QED  BY <1>3 DEF NextItems

\* How the contents lie in the ring.
Laid ==
  /\ m_nowNum \in Nat /\ m_readIdx \in Int
  /\ Contents \in Seq(Item) /\ Len(Contents) = m_nowNum
  /\ \A i \in 1 .. m_nowNum : Contents[i] = m_data[Slot(Plus(m_readIdx, i - 1))]

LEMMA ContentsType == IndInv => Laid
<1> SUFFICES ASSUME IndInv PROVE Laid
  OBVIOUS
<1>1. m_nowNum \in Nat /\ m_readIdx \in Int
  BY RingAssumption DEF IndInv, TypeOK
<1>2. QED  BY <1>1, NextItemsType DEF Contents, Laid

LEMMA ContentsTypeNext == IndInv' => Laid'
BY ContentsType, PTL

LEMMA PutIsPutBack ==
  ASSUME IndInv, Apart(m_readIdx', m_nowNum'), NEW x \in Item, Put(x)
  PROVE  Queue!PutBack(x)
<1>1. /\ m_nowNum \in Nat /\ m_readIdx \in Int
      /\ Contents \in Seq(Item) /\ Len(Contents) = m_nowNum
      /\ \A i \in 1 .. m_nowNum : Contents[i] = m_data[Slot(Plus(m_readIdx, i - 1))]
  BY ContentsType DEF Laid
<1>2. /\ m_nowNum' = m_nowNum + 1 /\ m_readIdx' = m_readIdx
      /\ Contents' \in Seq(Item) /\ Len(Contents') = m_nowNum'
      /\ \A i \in 1 .. m_nowNum' : Contents'[i] = m_data'[Slot(Plus(m_readIdx', i - 1))]
  BY PutInv, ContentsTypeNext DEF Put, Laid
<1>3. m_nowNum < TOTALNUM
  BY RingAssumption DEF Put, Full, IndInv, TypeOK
<1>4. /\ m_data \in [Slots -> Item] /\ m_data' = [m_data EXCEPT ![Slot(m_writeIdx)] = x]
      /\ m_writeIdx = Plus(m_readIdx, m_nowNum)
      /\ Slot(m_writeIdx) \in Slots
  BY RingAssumption, SlotRange DEF Put, IndInv, TypeOK, IndicesAgree
<1>5. \A i \in 1 .. m_nowNum : Contents'[i] = Contents[i]
  <2> SUFFICES ASSUME NEW i \in 1 .. m_nowNum PROVE Contents'[i] = Contents[i]
    OBVIOUS
  <2>1. /\ i - 1 \in Int /\ i - 1 < m_nowNum
        /\ i - 1 \in 0 .. m_nowNum' - 1 /\ m_nowNum \in 0 .. m_nowNum' - 1
        /\ m_nowNum' \in 0 .. TOTALNUM
    BY <1>1, <1>2, <1>3, RingAssumption
  <2>2. Slot(Plus(m_readIdx, i - 1)) # Slot(m_writeIdx)
    <3>1. m_readIdx \in 0 .. IdxMod - 1 /\ Apart(m_readIdx, m_nowNum')
      BY <1>2 DEF IndInv, TypeOK
    <3>2. QED  BY <1>4, <2>1, <3>1, SlotsDiffer
  <2>3. Slot(Plus(m_readIdx, i - 1)) \in Slots
    BY <1>1, <2>1, PlusRange, SlotRange
  <2>4. m_data'[Slot(Plus(m_readIdx, i - 1))] = m_data[Slot(Plus(m_readIdx, i - 1))]
    BY <1>4, <2>2, <2>3
  <2>5. i \in 1 .. m_nowNum'
    BY <1>1, <1>2
  <2>6. QED  BY <1>1, <1>2, <2>4, <2>5
<1>6. Contents'[m_nowNum + 1] = x
  <2>1. m_nowNum + 1 \in 1 .. m_nowNum' /\ (m_nowNum + 1) - 1 = m_nowNum
    BY <1>1, <1>2
  <2>2. Contents'[m_nowNum + 1] = m_data'[Slot(Plus(m_readIdx, m_nowNum))]
    BY <1>2, <2>1
  <2>3. QED  BY <1>4, <2>2
<1>7. Contents' = Append(Contents, x)
  <2>1. Append(Contents, x) \in Seq(Item) /\ Len(Append(Contents, x)) = m_nowNum + 1
    BY <1>1
  <2>2. \A i \in 1 .. m_nowNum + 1 : Contents'[i] = Append(Contents, x)[i]
    BY <1>1, <1>5, <1>6
  <2>3. QED  BY <1>2, <2>1, <2>2, SeqEqual
<1>8. QED  BY <1>1, <1>3, <1>7 DEF Queue!PutBack, Queue!HasRoom, Put

LEMMA PutPreIsPutFront ==
  ASSUME IndInv, Apart(m_readIdx', m_nowNum'), NEW x \in Item, PutPre(x)
  PROVE  Queue!PutFront(x)
<1>1. /\ m_nowNum \in Nat /\ m_readIdx \in Int
      /\ Contents \in Seq(Item) /\ Len(Contents) = m_nowNum
      /\ \A i \in 1 .. m_nowNum : Contents[i] = m_data[Slot(Plus(m_readIdx, i - 1))]
  BY ContentsType DEF Laid
<1>2. /\ m_nowNum' = m_nowNum + 1 /\ m_readIdx' = Plus(m_readIdx, -1)
      /\ Contents' \in Seq(Item) /\ Len(Contents') = m_nowNum'
      /\ \A i \in 1 .. m_nowNum' : Contents'[i] = m_data'[Slot(Plus(m_readIdx', i - 1))]
  BY PutPreInv, ContentsTypeNext DEF PutPre, Laid
<1>3. m_nowNum < TOTALNUM
  BY RingAssumption DEF PutPre, Full, IndInv, TypeOK
<1>4. /\ m_data \in [Slots -> Item]
      /\ m_data' = [m_data EXCEPT ![Slot(Plus(m_readIdx, -1))] = x]
      /\ Slot(Plus(m_readIdx, -1)) \in Slots
  <2>1. Plus(m_readIdx, -1) \in Int
    BY <1>1, RingAssumption DEF Plus
  <2>2. Slot(Plus(m_readIdx, -1)) \in Slots
    BY <2>1, SlotRange
  <2>3. QED  BY <2>2 DEF PutPre, IndInv, TypeOK
<1>5. \A i \in 1 .. m_nowNum + 1 :
        Contents'[i] = m_data'[Slot(Plus(m_readIdx, i - 2))]
  <2> SUFFICES ASSUME NEW i \in 1 .. m_nowNum + 1
               PROVE  Contents'[i] = m_data'[Slot(Plus(m_readIdx, i - 2))]
    OBVIOUS
  <2>1. Plus(Plus(m_readIdx, -1), i - 1) = Plus(m_readIdx, -1 + (i - 1))
    BY <1>1, PlusPlus
  <2>2. -1 + (i - 1) = i - 2
    BY <1>1
  <2>3. QED  BY <1>2, <2>1, <2>2
<1>6. \A i \in 2 .. m_nowNum + 1 : Contents'[i] = Contents[i - 1]
  <2> SUFFICES ASSUME NEW i \in 2 .. m_nowNum + 1 PROVE Contents'[i] = Contents[i - 1]
    OBVIOUS
  <2>1. /\ i - 2 \in Int /\ 0 < i - 1 /\ -1 + (i - 1) = i - 2 /\ -1 + 0 = -1
        /\ 0 \in 0 .. m_nowNum' - 1 /\ i - 1 \in 0 .. m_nowNum' - 1
        /\ m_nowNum' \in 0 .. TOTALNUM
        /\ i - 1 \in 1 .. m_nowNum /\ (i - 1) - 1 = i - 2
    BY <1>1, <1>2, <1>3, RingAssumption
  <2>2. Slot(Plus(m_readIdx, i - 2)) # Slot(Plus(m_readIdx, -1))
    <3>1. m_readIdx' \in 0 .. IdxMod - 1
      BY PutPreInv DEF IndInv, TypeOK
    <3>2. Slot(Plus(m_readIdx', 0)) # Slot(Plus(m_readIdx', i - 1))
      BY <2>1, <3>1, SlotsDiffer
    <3>3. /\ Plus(m_readIdx', 0) = Plus(m_readIdx, -1)
          /\ Plus(m_readIdx', i - 1) = Plus(m_readIdx, i - 2)
      <4>1. Plus(m_readIdx', 0) = Plus(m_readIdx, -1 + 0)
        BY <1>1, <1>2, PlusPlus
      <4>2. Plus(m_readIdx', i - 1) = Plus(m_readIdx, -1 + (i - 1))
        BY <1>1, <1>2, <2>1, PlusPlus
      <4>3. QED  BY <2>1, <4>1, <4>2
    <3>4. QED  BY <3>2, <3>3
  <2>3. Slot(Plus(m_readIdx, i - 2)) \in Slots
    BY <1>1, <2>1, PlusRange, SlotRange
  <2>4. m_data'[Slot(Plus(m_readIdx, i - 2))] = m_data[Slot(Plus(m_readIdx, i - 2))]
    BY <1>4, <2>2, <2>3
  <2>5. i \in 1 .. m_nowNum + 1
    BY <1>1
  <2>6. QED  BY <1>1, <1>5, <2>1, <2>4, <2>5
<1>7. Contents'[1] = x
  <2>1. 1 \in 1 .. m_nowNum + 1 /\ 1 - 2 = -1
    BY <1>1
  <2>2. Contents'[1] = m_data'[Slot(Plus(m_readIdx, -1))]
    BY <1>5, <2>1
  <2>3. QED  BY <1>4, <2>2
<1>8. Contents' = <<x>> \o Contents
  <2>1. <<x>> \o Contents \in Seq(Item) /\ Len(<<x>> \o Contents) = m_nowNum + 1
    BY <1>1
  <2>2. \A i \in 1 .. m_nowNum + 1 : Contents'[i] = (<<x>> \o Contents)[i]
    BY <1>1, <1>6, <1>7
  <2>3. QED  BY <1>2, <2>1, <2>2, SeqEqual
<1>9. QED  BY <1>1, <1>3, <1>8 DEF Queue!PutFront, Queue!HasRoom, PutPre

LEMMA TakeNIsTakeFront ==
  ASSUME IndInv, NEW n \in 1 .. m_nowNum, TakeN(n)
  PROVE  Queue!TakeFront(n)
<1>1. /\ m_nowNum \in Nat /\ m_readIdx \in Int
      /\ Contents \in Seq(Item) /\ Len(Contents) = m_nowNum
      /\ \A i \in 1 .. m_nowNum : Contents[i] = m_data[Slot(Plus(m_readIdx, i - 1))]
  BY ContentsType DEF Laid
<1>2. /\ m_nowNum' = m_nowNum - n /\ m_readIdx' = Plus(m_readIdx, n) /\ m_data' = m_data
      /\ Contents' \in Seq(Item) /\ Len(Contents') = m_nowNum'
      /\ \A i \in 1 .. m_nowNum' : Contents'[i] = m_data'[Slot(Plus(m_readIdx', i - 1))]
  BY TakeNInv, ContentsTypeNext DEF TakeN, Laid
<1>3. n \in Nat /\ n <= m_nowNum
  BY <1>1
<1>4. out' = SubSeq(Contents, 1, n)
  <2>1. /\ out' \in Seq(Item) /\ Len(out') = n
        /\ \A i \in 1 .. n : out'[i] = m_data[Slot(Plus(m_readIdx, i - 1))]
    BY <1>3, NextItemsType DEF TakeN
  <2>2. SubSeq(Contents, 1, n) \in Seq(Item) /\ Len(SubSeq(Contents, 1, n)) = n
    BY <1>1, <1>3
  <2>3. \A i \in 1 .. n : out'[i] = SubSeq(Contents, 1, n)[i]
    BY <1>1, <1>3, <2>1
  <2>4. QED  BY <2>1, <2>2, <2>3, SeqEqual
<1>5. Contents' = SubSeq(Contents, n + 1, m_nowNum)
  <2>1. /\ SubSeq(Contents, n + 1, m_nowNum) \in Seq(Item)
        /\ Len(SubSeq(Contents, n + 1, m_nowNum)) = m_nowNum - n
        /\ \A i \in 1 .. m_nowNum - n :
             SubSeq(Contents, n + 1, m_nowNum)[i] = Contents[n + i]
    BY <1>1, <1>3
  <2>2. ASSUME NEW i \in 1 .. m_nowNum - n  PROVE Contents'[i] = Contents[n + i]
    <3>1. /\ Plus(Plus(m_readIdx, n), i - 1) = Plus(m_readIdx, n + (i - 1))
          /\ n + (i - 1) = (n + i) - 1 /\ n + i \in 1 .. m_nowNum
      BY <1>1, <1>3, PlusPlus
    <3>2. Contents'[i] = m_data'[Slot(Plus(m_readIdx', i - 1))]
      BY <1>2
    <3>3. Contents[n + i] = m_data[Slot(Plus(m_readIdx, (n + i) - 1))]
      BY <1>1, <3>1
    <3>4. m_data' = m_data /\ Plus(m_readIdx', i - 1) = Plus(m_readIdx, (n + i) - 1)
      BY <1>2, <3>1
    <3>5. QED  BY <3>2, <3>3, <3>4
  <2>3. QED  BY <1>1, <1>2, <1>3, <2>1, <2>2, SeqEqual
<1>6. QED  BY <1>1, <1>4, <1>5 DEF Queue!TakeFront

LEMMA QueueInit == Init => Queue!Init
<1> SUFFICES ASSUME Init PROVE Contents = <<>> /\ out = <<>>
  BY DEF Queue!Init
<1>1. IndInv
  BY InitInv
<1>2. Contents \in Seq(Item) /\ Len(Contents) = 0
  BY <1>1, ContentsType DEF Init, Laid
<1>3. QED  BY <1>2 DEF Init

ApartNow == Apart(m_readIdx, m_nowNum)

LEMMA QueueStep == IndInv /\ [Next]_vars /\ ApartNow' => [Queue!Next]_<<Contents, out>>
<1> SUFFICES ASSUME IndInv, [Next]_vars, ApartNow'
             PROVE  [Queue!Next]_<<Contents, out>>
  OBVIOUS
<1>1. CASE Take \/ \E inLen \in 1 .. MaxIn : TakeBatch(inLen)
  <2>1. PICK n \in 1 .. m_nowNum : TakeN(n)
    BY <1>1, TakesSome
  <2>2. Queue!TakeFront(n) /\ n \in 1 .. Len(Contents)
    BY <2>1, TakeNIsTakeFront, ContentsType DEF Laid
  <2>3. QED  BY <2>2 DEF Queue!Next
<1>2. CASE \E x \in Item : Put(x) \/ PutPre(x)
  <2>1. Apart(m_readIdx', m_nowNum')
    BY DEF ApartNow, Apart, SizeDivides
  <2>2. QED  BY <1>2, <2>1, PutIsPutBack, PutPreIsPutFront DEF Queue!Next
<1>3. CASE UNCHANGED vars
  BY <1>3 DEF vars, Contents, NextItems
<1>4. QED  BY <1>1, <1>2, <1>3 DEF Next

\* For every size of the ring: while the queued items have slots of their own
\* the ring is a bounded deque.  The send queue (10240 slots, 2^64 % 10240 = 4096)
\* is one unless more than 4096 messages are queued across the wrap of the index,
\* which it reaches when PutPre goes below 0.
THEOREM RingIsDequeWhileApart == Spec /\ []ApartNow => DequeSpec
BY QueueInit, QueueStep, SpecInv, PTL DEF Spec, DequeSpec, Queue!Spec

\* A ring whose number of slots divides the number of index values, as the
\* response list's does, is a bounded deque for every sequence of calls.
THEOREM RingIsDeque ==
  ASSUME SizeDivides
  PROVE  Spec => DequeSpec
<1>1. ApartNow
  BY DEF ApartNow, Apart
<1>2. QED  BY <1>1, RingIsDequeWhileApart, PTL

\* So is every ring in which no more items are queued than the remainder leaves.
THEOREM ShortRingIsDeque == Spec /\ [](m_nowNum <= Rest) => DequeSpec
<1>1. m_nowNum <= Rest => ApartNow
  BY DEF ApartNow, Apart
<1>2. QED  BY <1>1, RingIsDequeWhileApart, PTL
=============================================================================
