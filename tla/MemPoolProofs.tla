----------------------------- MODULE MemPoolProofs -----------------------------
(***************************************************************************)
(* Proofs about MemPool, for any number of users, descriptors and classes. *)
(* They follow the operators: Sound(p, H) is what a pool p keeps while the *)
(* set H of descriptors is in use, and each call is shown to turn one      *)
(* sound pool into another.                                                *)
(***************************************************************************)
EXTENDS MemPool, TLAPS

-----------------------------------------------------------------------------
(* Lists.                                                                  *)

LEMMA PopTakesLast ==
  ASSUME NEW s \in Seq(Data), s # <<>>, NoRepeat(s)
  PROVE  /\ Pop(s) \in Seq(Data) /\ NoRepeat(Pop(s))
         /\ Last(s) \in Entries(s)
         /\ Entries(Pop(s)) = Entries(s) \ {Last(s)}
<1>1. Len(s) \in Nat \ {0} /\ DOMAIN s = 1 .. Len(s) /\ \A k \in 1 .. Len(s) : s[k] \in Data
  OBVIOUS
<1>2. /\ Pop(s) \in Seq(Data) /\ Len(Pop(s)) = Len(s) - 1
      /\ DOMAIN Pop(s) = 1 .. Len(s) - 1
      /\ \A k \in 1 .. Len(s) - 1 : Pop(s)[k] = s[k]
  BY <1>1 DEF Pop
<1>3. NoRepeat(Pop(s))
  BY <1>1, <1>2 DEF NoRepeat
<1>4. Last(s) \in Entries(s)
  BY <1>1 DEF Last, Entries
<1>5. Entries(Pop(s)) \subseteq Entries(s) \ {Last(s)}
  BY <1>1, <1>2 DEF Entries, NoRepeat, Last
<1>6. Entries(s) \ {Last(s)} \subseteq Entries(Pop(s))
  <2> SUFFICES ASSUME NEW k \in 1 .. Len(s), s[k] # Last(s)
               PROVE  s[k] \in Entries(Pop(s))
    BY <1>1 DEF Entries
  <2>1. k \in 1 .. Len(s) - 1
    BY <1>1 DEF Last
  <2>2. QED  BY <1>2, <2>1 DEF Entries
<1>7. QED  BY <1>2, <1>3, <1>4, <1>5, <1>6

LEMMA PushAddsOne ==
  ASSUME NEW s \in Seq(Data), NEW d \in Data, NoRepeat(s), d \notin Entries(s)
  PROVE  /\ Append(s, d) \in Seq(Data) /\ NoRepeat(Append(s, d))
         /\ Entries(Append(s, d)) = Entries(s) \cup {d}
<1>1. Len(s) \in Nat /\ DOMAIN s = 1 .. Len(s)
  OBVIOUS
<1>2. /\ Append(s, d) \in Seq(Data) /\ DOMAIN Append(s, d) = 1 .. Len(s) + 1
      /\ \A k \in 1 .. Len(s) : Append(s, d)[k] = s[k]
      /\ Append(s, d)[Len(s) + 1] = d
  BY <1>1
<1>3. \A k \in 1 .. Len(s) : s[k] # d
  BY <1>1 DEF Entries
<1>4. \A k \in 1 .. Len(s) + 1 : k \in 1 .. Len(s) \/ k = Len(s) + 1
  BY <1>1
<1>5. NoRepeat(Append(s, d))
  BY <1>1, <1>2, <1>3, <1>4 DEF NoRepeat
<1>6. Entries(Append(s, d)) \subseteq Entries(s) \cup {d}
  BY <1>1, <1>2, <1>4 DEF Entries
<1>7. Entries(s) \cup {d} \subseteq Entries(Append(s, d))
  <2>1. \A k \in 1 .. Len(s) : k \in 1 .. Len(s) + 1
    BY <1>1
  <2>2. Len(s) + 1 \in 1 .. Len(s) + 1
    BY <1>1
  <2>3. QED  BY <1>1, <1>2, <2>1, <2>2 DEF Entries
<1>8. QED  BY <1>2, <1>5, <1>6, <1>7

LEMMA EntriesAreData ==
  ASSUME NEW s \in Seq(Data)  PROVE Entries(s) \subseteq Data
BY DEF Entries

-----------------------------------------------------------------------------
(* Sizes.                                                                  *)

LEMMA IndexFits ==
  ASSUME NEW n \in Lens
  PROVE  /\ IndexOf(n) \in Class \cup {INVALID}
         /\ NewSize(n) \in Nat /\ n <= NewSize(n)
         /\ NewSize(n) \in {m_aSize[i] : i \in Class} \cup Lens
         /\ IndexOf(n) \in Class => NewSize(n) = m_aSize[IndexOf(n)]
         /\ IndexOf(n) = INVALID => NewSize(n) = n
<1>0. n \in Nat /\ INVALID \notin Class /\ \A i \in Class : m_aSize[i] \in Nat
  BY PoolAssumption DEF Class, INVALID
<1>1. CASE \E i \in Class : FirstFit(i, n)
  <2>1. IndexOf(n) \in Class /\ FirstFit(IndexOf(n), n)
    BY <1>1 DEF IndexOf
  <2>2. IndexOf(n) # INVALID
    BY <2>1, <1>0
  <2>3. NewSize(n) = m_aSize[IndexOf(n)]
    BY <2>2 DEF NewSize
  <2>4. n <= m_aSize[IndexOf(n)]
    BY <2>1 DEF FirstFit
  <2>5. QED  BY <1>0, <2>1, <2>2, <2>3, <2>4
<1>2. CASE ~ \E i \in Class : FirstFit(i, n)
  <2>1. IndexOf(n) = INVALID
    BY <1>2 DEF IndexOf
  <2>2. NewSize(n) = n
    BY <2>1 DEF NewSize
  <2>3. QED  BY <1>0, <2>1, <2>2
<1>3. QED  BY <1>1, <1>2

-----------------------------------------------------------------------------
(* Sound pools.                                                            *)

Pools == [free : [Class -> Seq(Data)], meta : Seq(Data),
          alive : SUBSET Data, data : [Data -> Descriptors]]

\* A listed buffer of class i.
Whole(i) == [m_uiIndex |-> i, m_sCapacity |-> m_aSize[i], m_sUsedSize |-> 0]

Sound(p, H) ==
  /\ \A i \in Class : NoRepeat(p.free[i])
  /\ NoRepeat(p.meta)
  /\ \A i \in Class : \A d \in Entries(p.free[i]) : p.data[d] = Whole(i)
  /\ \A d \in Entries(p.meta) : p.data[d] = Bare
  /\ \A i \in Class : H \cap Entries(p.free[i]) = {}
  /\ H \cap Entries(p.meta) = {}
  /\ p.alive = H \cup InLists(p) \cup Entries(p.meta)
  /\ \A d \in H : p.data[d].m_uiIndex \in Class =>
                    p.data[d].m_sCapacity = m_aSize[p.data[d].m_uiIndex]

\* Lists are apart because their entries name their class.
LEMMA ListsApart ==
  ASSUME NEW p \in Pools, NEW H \in SUBSET Data, Sound(p, H)
  PROVE  /\ \A i, j \in Class : i # j => Entries(p.free[i]) \cap Entries(p.free[j]) = {}
         /\ \A i \in Class : Entries(p.free[i]) \cap Entries(p.meta) = {}
<1>1. \A i, j \in Class : Whole(i) = Whole(j) => i = j
  BY DEF Whole
<1>2. \A i \in Class : Whole(i) # Bare
  BY PoolAssumption DEF Whole, Bare, Class, INVALID
<1>3. QED  BY <1>1, <1>2 DEF Sound

LEMMA BareIsDescriptor == Bare \in Descriptors
BY DEF Bare, Descriptors

LEMMA DescriptorSizes ==
  ASSUME NEW x \in Descriptors  PROVE x.m_sCapacity \in Nat /\ x.m_sUsedSize \in Nat
<1>1. x.m_sCapacity \in {m_aSize[i] : i \in Class} \cup Lens \cup {0} /\ x.m_sUsedSize \in Nat
  BY DEF Descriptors
<1>2. (\A i \in Class : m_aSize[i] \in Nat) /\ (\A n \in Lens : n \in Nat)
  BY PoolAssumption DEF Class
<1>3. CASE x.m_sCapacity \in {m_aSize[i] : i \in Class}
  <2>1. PICK i \in Class : x.m_sCapacity = m_aSize[i]
    BY <1>3
  <2>2. QED  BY <1>1, <1>2, <2>1
<1>4. CASE x.m_sCapacity \in Lens
  BY <1>1, <1>2, <1>4
<1>5. CASE x.m_sCapacity = 0
  BY <1>1, <1>5
<1>6. QED  BY <1>1, <1>3, <1>4, <1>5

LEMMA InListsIs ==
  ASSUME NEW p
  PROVE  \A d : d \in InLists(p) <=> \E i \in Class : d \in Entries(p.free[i])
BY DEF InLists

-----------------------------------------------------------------------------
(* The calls.                                                              *)

\* GetData hands out a descriptor that was not in use, with an empty buffer
\* of the right size, and leaves all others alone.
LEMMA GetDataSound ==
  ASSUME NEW p \in Pools, NEW H \in SUBSET Data, Sound(p, H),
         NEW n \in Lens, NEW r \in GetData(p, n)
  PROVE  /\ r.pool \in Pools /\ r.got \in Data \ H
         /\ Sound(r.pool, H \cup {r.got})
         /\ r.pool.data[r.got].m_sCapacity = NewSize(n)
         /\ r.pool.data[r.got].m_sUsedSize = 0
         /\ \A d \in H : r.pool.data[d] = p.data[d]
<1> DEFINE i == IndexOf(n)
<1> DEFINE q == r.pool
<1> DEFINE d == r.got
<1> DEFINE New == [m_uiIndex |-> i, m_sCapacity |-> NewSize(n), m_sUsedSize |-> 0]
<1>0. /\ i \in Class \cup {INVALID} /\ NewSize(n) \in Nat
      /\ New \in Descriptors
      /\ i \in Class => NewSize(n) = m_aSize[i]
      /\ INVALID \notin Class
  <2>1. INVALID \notin Class
    BY PoolAssumption DEF Class, INVALID
  <2>2. QED  BY <2>1, IndexFits DEF Descriptors
<1>1. /\ p.free \in [Class -> Seq(Data)] /\ p.meta \in Seq(Data)
      /\ p.alive \in SUBSET Data /\ p.data \in [Data -> Descriptors]
  BY DEF Pools
<1>2. CASE Listed(p, n)
  <2>1. i \in Class /\ p.free[i] # <<>> /\ p.free[i] \in Seq(Data)
    BY <1>0, <1>1, <1>2 DEF Listed
  <2>2. /\ q = [p EXCEPT !.free[i] = Pop(@)]
        /\ d = Last(p.free[i])
    BY <1>2 DEF GetData
  <2>3. /\ q.free = [p.free EXCEPT ![i] = Pop(p.free[i])]
        /\ q.meta = p.meta /\ q.alive = p.alive /\ q.data = p.data
        /\ q \in [free : {q.free}, meta : {q.meta}, alive : {q.alive}, data : {q.data}]
    BY <2>2 DEF Pools
  <2>4. /\ Pop(p.free[i]) \in Seq(Data) /\ NoRepeat(Pop(p.free[i]))
        /\ d \in Entries(p.free[i])
        /\ Entries(Pop(p.free[i])) = Entries(p.free[i]) \ {d}
    BY <2>1, <2>2, PopTakesLast DEF Sound
  <2>5. d \in Data \ H /\ d \notin Entries(p.meta)
        /\ \A j \in Class : j # i => d \notin Entries(p.free[j])
    BY <2>1, <2>4, EntriesAreData, ListsApart DEF Sound
  <2>6. q \in Pools
    BY <1>1, <2>1, <2>3, <2>4 DEF Pools
  <2>7. q.data[d] = New
    BY <1>0, <2>1, <2>3, <2>4 DEF Sound, Whole
  <2>8. /\ q.free[i] = Pop(p.free[i])
        /\ \A j \in Class : j # i => q.free[j] = p.free[j]
    BY <1>1, <2>1, <2>3
  <2>9. Sound(q, H \cup {d})
    <3>1. \A j \in Class : NoRepeat(q.free[j]) /\ Entries(q.free[j]) = Entries(p.free[j]) \ {d}
      BY <2>4, <2>5, <2>8 DEF Sound
    <3>2. InLists(q) \cup {d} = InLists(p)
      <4>1. \A e : e \in InLists(q) => e \in InLists(p)
        BY <3>1, InListsIs
      <4>2. d \in InLists(p)
        BY <2>1, <2>4, InListsIs
      <4>3. \A e : e \in InLists(p) /\ e # d => e \in InLists(q)
        BY <3>1, InListsIs
      <4>4. QED  BY <4>1, <4>2, <4>3
    <3>3. q.alive = (H \cup {d}) \cup InLists(q) \cup Entries(q.meta)
      BY <2>3, <3>2 DEF Sound
    <3>4. \A e \in H \cup {d} : q.data[e].m_uiIndex \in Class =>
             q.data[e].m_sCapacity = m_aSize[q.data[e].m_uiIndex]
      BY <1>0, <2>3, <2>7 DEF Sound
    <3>5. QED  BY <2>3, <2>5, <3>1, <3>3, <3>4 DEF Sound
  <2>10. QED  BY <2>3, <2>5, <2>6, <2>7, <2>9
<1>3. CASE ~Listed(p, n) /\ p.meta # <<>>
  <2>1. /\ q = [p EXCEPT !.meta = Pop(@), !.data[Last(p.meta)] = Buffer(n, @.m_sUsedSize)]
        /\ d = Last(p.meta)
    BY <1>3 DEF GetData
  <2>2. /\ Pop(p.meta) \in Seq(Data) /\ NoRepeat(Pop(p.meta))
        /\ d \in Entries(p.meta) /\ Entries(Pop(p.meta)) = Entries(p.meta) \ {d}
    BY <1>1, <1>3, <2>1, PopTakesLast DEF Sound
  <2>3. d \in Data \ H /\ \A j \in Class : d \notin Entries(p.free[j])
    BY <1>1, <2>2, EntriesAreData, ListsApart DEF Sound
  <2>4. p.data[d] = Bare
    BY <2>2 DEF Sound
  <2>5. /\ q.free = p.free /\ q.alive = p.alive /\ q.meta = Pop(p.meta)
        /\ q.data = [p.data EXCEPT ![d] = Buffer(n, p.data[d].m_sUsedSize)]
        /\ q \in [free : {q.free}, meta : {q.meta}, alive : {q.alive}, data : {q.data}]
    BY <2>1 DEF Pools
  <2>6. q.data[d] = New /\ \A e \in Data : e # d => q.data[e] = p.data[e]
    BY <1>1, <2>3, <2>4, <2>5 DEF Bare, Buffer
  <2>7. q.data \in [Data -> Descriptors]
    BY <1>0, <1>1, <2>3, <2>5, <2>6
  <2>8. q \in Pools
    BY <1>1, <2>2, <2>5, <2>7 DEF Pools
  <2>9. Sound(q, H \cup {d})
    <3>1. InLists(q) = InLists(p)
      BY <2>5 DEF InLists
    <3>2. q.alive = (H \cup {d}) \cup InLists(q) \cup Entries(q.meta)
      BY <2>2, <2>5, <3>1 DEF Sound
    <3>3. \A e \in H \cup {d} : q.data[e].m_uiIndex \in Class =>
             q.data[e].m_sCapacity = m_aSize[q.data[e].m_uiIndex]
      BY <1>0, <2>3, <2>6 DEF Sound
    <3>4. \A j \in Class : \A e \in Entries(q.free[j]) : q.data[e] = Whole(j)
      BY <1>1, <2>3, <2>5, <2>6, EntriesAreData DEF Sound
    <3>5. \A e \in Entries(q.meta) : q.data[e] = Bare
      BY <1>1, <2>2, <2>5, <2>6, EntriesAreData DEF Sound
    <3>6. QED  BY <2>2, <2>3, <2>5, <3>2, <3>3, <3>4, <3>5 DEF Sound
  <2>10. QED  BY <2>3, <2>6, <2>8, <2>9
<1>4. CASE ~Listed(p, n) /\ p.meta = <<>>
  <2>1. /\ d \in Data \ p.alive
        /\ q = [p EXCEPT !.alive = @ \cup {d}, !.data[d] = Buffer(n, 0)]
    <3>1. GetData(p, n) = {[pool |-> [p EXCEPT !.alive = @ \cup {e}, !.data[e] = Buffer(n, 0)],
                            got |-> e] : e \in Data \ p.alive}
      BY <1>4 DEF GetData
    <3>2. PICK e \in Data \ p.alive :
             r = [pool |-> [p EXCEPT !.alive = @ \cup {e}, !.data[e] = Buffer(n, 0)], got |-> e]
      BY <3>1
    <3>3. d = e
      BY <3>2
    <3>4. QED  BY <3>2, <3>3
  <2>2. d \in Data \ H /\ (\A j \in Class : d \notin Entries(p.free[j])) /\ d \notin Entries(p.meta)
    BY <2>1, InListsIs DEF Sound
  <2>3. /\ q.free = p.free /\ q.meta = p.meta /\ q.alive = p.alive \cup {d}
        /\ q.data = [p.data EXCEPT ![d] = Buffer(n, 0)]
        /\ q \in [free : {q.free}, meta : {q.meta}, alive : {q.alive}, data : {q.data}]
    BY <2>1 DEF Pools
  <2>4. q.data[d] = New /\ \A e \in Data : e # d => q.data[e] = p.data[e]
    BY <1>1, <2>2, <2>3 DEF Buffer
  <2>5. q.data \in [Data -> Descriptors]
    BY <1>0, <1>1, <2>2, <2>3, <2>4
  <2>6. q \in Pools
    BY <1>1, <2>2, <2>3, <2>5 DEF Pools
  <2>7. Sound(q, H \cup {d})
    <3>1. InLists(q) = InLists(p)
      BY <2>3 DEF InLists
    <3>2. q.alive = (H \cup {d}) \cup InLists(q) \cup Entries(q.meta)
      BY <2>3, <3>1 DEF Sound
    <3>3. \A e \in H \cup {d} : q.data[e].m_uiIndex \in Class =>
             q.data[e].m_sCapacity = m_aSize[q.data[e].m_uiIndex]
      BY <1>0, <2>2, <2>4 DEF Sound
    <3>4. \A j \in Class : \A e \in Entries(q.free[j]) : q.data[e] = Whole(j)
      BY <1>1, <2>2, <2>3, <2>4, EntriesAreData DEF Sound
    <3>5. \A e \in Entries(q.meta) : q.data[e] = Bare
      BY <1>1, <2>2, <2>3, <2>4, EntriesAreData DEF Sound
    <3>6. QED  BY <2>2, <2>3, <3>2, <3>3, <3>4, <3>5 DEF Sound
  <2>8. QED  BY <2>2, <2>4, <2>6, <2>7
<1>5. QED  BY <1>2, <1>3, <1>4

\* Writing into a buffer changes its size in use only.
LEMMA UsedSound ==
  ASSUME NEW p \in Pools, NEW H \in SUBSET Data, Sound(p, H),
         NEW d \in H, NEW n \in Nat
  PROVE  /\ Used(p, d, n) \in Pools /\ Sound(Used(p, d, n), H)
         /\ Used(p, d, n).free = p.free /\ Used(p, d, n).meta = p.meta
         /\ Used(p, d, n).alive = p.alive
         /\ Used(p, d, n).data[d].m_uiIndex = p.data[d].m_uiIndex
         /\ Used(p, d, n).data[d].m_sCapacity = p.data[d].m_sCapacity
         /\ Used(p, d, n).data[d].m_sUsedSize = n
         /\ \A e \in Data : e # d => Used(p, d, n).data[e] = p.data[e]
<1> DEFINE q == Used(p, d, n)
<1>1. /\ p.free \in [Class -> Seq(Data)] /\ p.meta \in Seq(Data)
      /\ p.alive \in SUBSET Data /\ p.data \in [Data -> Descriptors] /\ d \in Data
  BY DEF Pools
<1>2. /\ q.free = p.free /\ q.meta = p.meta /\ q.alive = p.alive
      /\ q.data = [p.data EXCEPT ![d] = [p.data[d] EXCEPT !.m_sUsedSize = n]]
      /\ q \in [free : {q.free}, meta : {q.meta}, alive : {q.alive}, data : {q.data}]
  BY DEF Used, Pools
<1>3. p.data[d] \in Descriptors
  BY <1>1
<1>4. [p.data[d] EXCEPT !.m_sUsedSize = n] \in Descriptors
  BY <1>3 DEF Descriptors
<1>5. /\ q.data[d] = [p.data[d] EXCEPT !.m_sUsedSize = n]
      /\ \A e \in Data : e # d => q.data[e] = p.data[e]
  BY <1>1, <1>2
<1>6. /\ q.data[d].m_uiIndex = p.data[d].m_uiIndex
      /\ q.data[d].m_sCapacity = p.data[d].m_sCapacity
      /\ q.data[d].m_sUsedSize = n
  BY <1>3, <1>5 DEF Descriptors
<1>7. q \in Pools
  BY <1>1, <1>2, <1>4 DEF Pools
<1>8. Sound(q, H)
  <2>1. InLists(q) = InLists(p)
    BY <1>2 DEF InLists
  <2>2. \A i \in Class : \A e \in Entries(q.free[i]) : q.data[e] = Whole(i)
    BY <1>1, <1>2, <1>5, EntriesAreData DEF Sound
  <2>3. \A e \in Entries(q.meta) : q.data[e] = Bare
    BY <1>1, <1>2, <1>5, EntriesAreData DEF Sound
  <2>4. \A e \in H : q.data[e].m_uiIndex \in Class =>
           q.data[e].m_sCapacity = m_aSize[q.data[e].m_uiIndex]
    BY <1>5, <1>6 DEF Sound
  <2>5. QED  BY <1>2, <2>1, <2>2, <2>3, <2>4 DEF Sound
<1>9. QED  BY <1>2, <1>5, <1>6, <1>7, <1>8

\* Release takes one descriptor out of use and leaves the others alone.
LEMMA ReleaseSound ==
  ASSUME NEW p \in Pools, NEW H \in SUBSET Data, Sound(p, H), NEW d \in H
  PROVE  /\ Release(p, d) \in Pools /\ Sound(Release(p, d), H \ {d})
         /\ \A e \in H \ {d} : Release(p, d).data[e] = p.data[e]
<1> DEFINE i == p.data[d].m_uiIndex
<1> DEFINE q == Used(p, d, 0)
<1> DEFINE o == Release(p, d)
<1>1. /\ p.free \in [Class -> Seq(Data)] /\ p.meta \in Seq(Data)
      /\ p.alive \in SUBSET Data /\ p.data \in [Data -> Descriptors] /\ d \in Data
  BY DEF Pools
<1>2. /\ q \in Pools /\ Sound(q, H)
      /\ q.free = p.free /\ q.meta = p.meta /\ q.alive = p.alive
      /\ q.data[d].m_uiIndex = i
      /\ q.data[d].m_sCapacity = p.data[d].m_sCapacity
      /\ q.data[d].m_sUsedSize = 0
      /\ \A e \in Data : e # d => q.data[e] = p.data[e]
  BY UsedSound
<1>3. /\ q.data \in [Data -> Descriptors] /\ q.data[d] \in Descriptors
  BY <1>1, <1>2 DEF Pools
<1>4. /\ (\A j \in Class : d \notin Entries(p.free[j])) /\ d \notin Entries(p.meta)
  BY DEF Sound
<1> HIDE DEF q
<1>5. CASE HasRoom(p, i)
  <2>1. i \in Class /\ p.free[i] \in Seq(Data)
    BY <1>1, <1>2, <1>3, <1>5 DEF HasRoom, Descriptors
  <2>2. o = [q EXCEPT !.free[i] = Append(@, d)]
    BY <1>5 DEF Release, q
  <2>3. /\ o.free = [p.free EXCEPT ![i] = Append(p.free[i], d)]
        /\ o.meta = p.meta /\ o.alive = p.alive /\ o.data = q.data
        /\ o \in [free : {o.free}, meta : {o.meta}, alive : {o.alive}, data : {o.data}]
    BY <1>2, <2>2 DEF Pools
  <2>4. /\ Append(p.free[i], d) \in Seq(Data) /\ NoRepeat(Append(p.free[i], d))
        /\ Entries(Append(p.free[i], d)) = Entries(p.free[i]) \cup {d}
    BY <1>1, <1>4, <2>1, PushAddsOne DEF Sound
  <2>5. /\ o.free[i] = Append(p.free[i], d)
        /\ \A j \in Class : j # i => o.free[j] = p.free[j]
    BY <1>1, <2>1, <2>3
  <2>6. o \in Pools
    BY <1>1, <1>3, <2>1, <2>3, <2>4 DEF Pools
  <2>7. q.data[d] = Whole(i)
    <3>1. q.data[d].m_sCapacity = m_aSize[i]
      BY <1>2, <2>1 DEF Sound
    <3>2. QED  BY <1>2, <1>3, <3>1 DEF Whole, Descriptors
  <2>8. Sound(o, H \ {d})
    <3>1. InLists(o) = InLists(p) \cup {d}
      <4>1. \A e : e \in InLists(o) => e \in InLists(p) \cup {d}
        BY <2>4, <2>5, InListsIs
      <4>2. d \in InLists(o)
        BY <2>1, <2>4, <2>5, InListsIs
      <4>3. \A e : e \in InLists(p) => e \in InLists(o)
        BY <2>1, <2>4, <2>5, InListsIs
      <4>4. QED  BY <4>1, <4>2, <4>3
    <3>2. o.alive = (H \ {d}) \cup InLists(o) \cup Entries(o.meta)
      BY <2>3, <3>1 DEF Sound
    <3>3. \A j \in Class : NoRepeat(o.free[j])
      BY <2>4, <2>5 DEF Sound
    <3>4. \A j \in Class : \A e \in Entries(o.free[j]) : o.data[e] = Whole(j)
      <4>1. \A j \in Class : \A e \in Entries(p.free[j]) : q.data[e] = Whole(j)
        BY <1>2 DEF Sound
      <4>2. \A j \in Class : \A e \in Entries(o.free[j]) :
               e \in Entries(p.free[j]) \/ (j = i /\ e = d)
        BY <2>4, <2>5
      <4>3. QED  BY <2>3, <2>7, <4>1, <4>2
    <3>5. \A j \in Class : (H \ {d}) \cap Entries(o.free[j]) = {}
      BY <2>4, <2>5 DEF Sound
    <3>6. QED  BY <1>2, <2>3, <3>2, <3>3, <3>4, <3>5 DEF Sound
  <2>9. QED  BY <1>2, <2>3, <2>6, <2>8
<1>6. CASE ~HasRoom(p, i) /\ Len(p.meta) < MAX_FREE_META_DATA
  <2>1. o = [q EXCEPT !.meta = Append(@, d), !.data[d] = Bare]
    BY <1>6 DEF Release, q
  <2>2. /\ o.free = p.free /\ o.meta = Append(p.meta, d) /\ o.alive = p.alive
        /\ o.data = [q.data EXCEPT ![d] = Bare]
        /\ o \in [free : {o.free}, meta : {o.meta}, alive : {o.alive}, data : {o.data}]
    BY <1>2, <2>1 DEF Pools
  <2>3. /\ o.meta \in Seq(Data) /\ NoRepeat(o.meta) /\ Entries(o.meta) = Entries(p.meta) \cup {d}
    BY <1>1, <1>4, <2>2, PushAddsOne DEF Sound
  <2>4. o.data[d] = Bare /\ \A e \in Data : e # d => o.data[e] = p.data[e]
    BY <1>1, <1>2, <1>3, <2>2
  <2>5. o \in Pools
    BY <1>1, <1>3, <2>2, <2>3, BareIsDescriptor DEF Pools
  <2>6. Sound(o, H \ {d})
    <3>1. InLists(o) = InLists(p)
      BY <2>2 DEF InLists
    <3>2. o.alive = (H \ {d}) \cup InLists(o) \cup Entries(o.meta)
      BY <2>2, <2>3, <3>1 DEF Sound
    <3>3. \A j \in Class : \A e \in Entries(o.free[j]) : o.data[e] = Whole(j)
      BY <1>1, <1>4, <2>2, <2>4, EntriesAreData DEF Sound
    <3>4. \A e \in Entries(o.meta) : o.data[e] = Bare
      BY <1>1, <2>3, <2>4, EntriesAreData DEF Sound
    <3>5. QED  BY <2>2, <2>3, <2>4, <3>2, <3>3, <3>4 DEF Sound
  <2>7. QED  BY <2>4, <2>5, <2>6
<1>7. CASE ~HasRoom(p, i) /\ ~(Len(p.meta) < MAX_FREE_META_DATA)
  <2>1. o = [q EXCEPT !.alive = @ \ {d}, !.data[d] = Bare]
    BY <1>7 DEF Release, q
  <2>2. /\ o.free = p.free /\ o.meta = p.meta /\ o.alive = p.alive \ {d}
        /\ o.data = [q.data EXCEPT ![d] = Bare]
        /\ o \in [free : {o.free}, meta : {o.meta}, alive : {o.alive}, data : {o.data}]
    BY <1>2, <2>1 DEF Pools
  <2>3. o.data[d] = Bare /\ \A e \in Data : e # d => o.data[e] = p.data[e]
    BY <1>1, <1>2, <1>3, <2>2
  <2>4. o \in Pools
    BY <1>1, <1>3, <2>2, BareIsDescriptor DEF Pools
  <2>5. Sound(o, H \ {d})
    <3>1. InLists(o) = InLists(p) /\ d \notin InLists(p)
      BY <1>4, <2>2, InListsIs DEF InLists
    <3>2. o.alive = (H \ {d}) \cup InLists(o) \cup Entries(o.meta)
      BY <1>4, <2>2, <3>1 DEF Sound
    <3>3. \A j \in Class : \A e \in Entries(o.free[j]) : o.data[e] = Whole(j)
      BY <1>1, <1>4, <2>2, <2>3, EntriesAreData DEF Sound
    <3>4. \A e \in Entries(o.meta) : o.data[e] = Bare
      BY <1>1, <1>4, <2>2, <2>3, EntriesAreData DEF Sound
    <3>5. QED  BY <2>2, <2>3, <3>2, <3>3, <3>4 DEF Sound
  <2>6. QED  BY <2>3, <2>4, <2>5
<1>8. QED  BY <1>5, <1>6, <1>7

-----------------------------------------------------------------------------
(* The users.                                                              *)

\* No two users have the same buffer.
HeldApart == \A g, h \in Holder : Has(g) /\ held[g] = held[h] => g = h

IndInv == TypeOK /\ HeldApart /\ Sound(pool, InUse) /\ Fits

\* What every action comes to: user h ends up with x, or with nothing, and the
\* buffers of the others are as before.
LEMMA StepSound ==
  ASSUME IndInv, NEW h \in Holder, NEW x \in Data \cup {NoData}, NEW n \in Lens \cup {0},
         pool' \in Pools,
         Sound(pool', (InUse \ {held[h]}) \cup ({x} \ {NoData})),
         x \notin InUse \ {held[h]},
         x # NoData => /\ n <= pool'.data[x].m_sCapacity
                       /\ pool'.data[x].m_sUsedSize <= pool'.data[x].m_sCapacity,
         \A d \in InUse \ {held[h]} : pool'.data[d] = pool.data[d],
         held' = [held EXCEPT ![h] = x],
         asked' = [asked EXCEPT ![h] = n]
  PROVE  IndInv'
<1>1. /\ held \in [Holder -> Data \cup {NoData}] /\ asked \in [Holder -> Lens \cup {0}]
  BY DEF IndInv, TypeOK
<1>2. /\ held' \in [Holder -> Data \cup {NoData}] /\ asked' \in [Holder -> Lens \cup {0}]
      /\ held'[h] = x /\ asked'[h] = n
      /\ \A g \in Holder : g # h => held'[g] = held[g] /\ asked'[g] = asked[g]
  BY <1>1
<1>3. TypeOK'
  BY <1>2 DEF TypeOK, Pools
<1>4. \A g \in Holder : g # h /\ held[g] # NoData => held[g] \in InUse \ {held[h]}
  BY DEF IndInv, HeldApart, Has, InUse
<1>5. HeldApart'
  <2> SUFFICES ASSUME NEW f \in Holder, NEW g \in Holder, held'[f] # NoData, held'[f] = held'[g]
               PROVE  f = g
    BY DEF HeldApart, Has
  <2>1. CASE f = h /\ g # h
    BY <1>2, <1>4, <2>1
  <2>2. CASE f # h /\ g = h
    BY <1>2, <1>4, <2>2
  <2>3. CASE f # h /\ g # h
    BY <1>2, <2>3 DEF IndInv, HeldApart, Has
  <2>4. QED  BY <2>1, <2>2, <2>3
<1>6. InUse' = (InUse \ {held[h]}) \cup ({x} \ {NoData})
  <2>1. InUse' \subseteq (InUse \ {held[h]}) \cup ({x} \ {NoData})
    BY <1>2, <1>4 DEF InUse
  <2>2. ASSUME NEW d \in InUse \ {held[h]}  PROVE d \in InUse'
    <3>1. PICK g \in Holder : d = held[g] /\ d # NoData
      BY <2>2 DEF InUse
    <3>2. g # h
      BY <2>2, <3>1
    <3>3. QED  BY <1>2, <3>1, <3>2 DEF InUse
  <2>3. x # NoData => x \in InUse'
    BY <1>2 DEF InUse
  <2>4. QED  BY <2>1, <2>2, <2>3
<1>7. Fits'
  <2> SUFFICES ASSUME NEW g \in Holder, held'[g] # NoData
               PROVE  /\ asked'[g] <= pool'.data[held'[g]].m_sCapacity
                      /\ pool'.data[held'[g]].m_sUsedSize <= pool'.data[held'[g]].m_sCapacity
    BY DEF Fits, Has, Descriptor
  <2>1. CASE g = h
    BY <1>2, <2>1
  <2>2. CASE g # h
    <3>1. held[g] # NoData /\ held[g] \in InUse \ {held[h]}
      BY <1>2, <1>4, <2>2
    <3>2. pool'.data[held'[g]] = pool.data[held[g]] /\ asked'[g] = asked[g]
      BY <1>2, <2>2, <3>1
    <3>3. QED  BY <3>1, <3>2 DEF IndInv, Fits, Has, Descriptor
  <2>3. QED  BY <2>1, <2>2
<1>8. QED  BY <1>3, <1>5, <1>6, <1>7 DEF IndInv

LEMMA IndInvFacts ==
  ASSUME IndInv
  PROVE  /\ pool \in Pools /\ InUse \in SUBSET Data /\ Sound(pool, InUse)
         /\ Lens \subseteq Nat \ {0}
         /\ \A h \in Holder : Has(h) => held[h] \in InUse /\ held[h] # NoData
         /\ \A h \in Holder : ~Has(h) => InUse \ {held[h]} = InUse
         /\ NoData \notin Data
BY PoolAssumption DEF IndInv, TypeOK, Pools, InUse, Has

LEMMA ObtainSound == ASSUME IndInv, NEW h \in Holder, NEW n \in Lens, Obtain(h, n)  PROVE IndInv'
<1>1. PICK r \in GetData(pool, n) : pool' = r.pool /\ Takes(h, r, n)
  BY DEF Obtain
<1>2. /\ r.pool \in Pools /\ r.got \in Data \ InUse
      /\ Sound(r.pool, InUse \cup {r.got})
      /\ r.pool.data[r.got].m_sCapacity = NewSize(n)
      /\ r.pool.data[r.got].m_sUsedSize = 0
      /\ \A d \in InUse : r.pool.data[d] = pool.data[d]
  BY GetDataSound, IndInvFacts
<1>3. InUse \ {held[h]} = InUse /\ {r.got} \ {NoData} = {r.got}
  BY <1>2, IndInvFacts DEF Obtain
<1>4. n <= NewSize(n) /\ 0 <= NewSize(n)
  BY IndexFits, IndInvFacts
<1>5. QED  BY <1>1, <1>2, <1>3, <1>4, StepSound DEF Takes

LEMMA FillSound == ASSUME IndInv, NEW h \in Holder, NEW n \in Lens, Fill(h, n)  PROVE IndInv'
<1> DEFINE d == held[h]
<1>1. d \in InUse /\ d # NoData /\ d \in Data /\ n \in Nat
  BY IndInvFacts DEF Fill
<1>2. /\ pool' \in Pools /\ Sound(pool', InUse)
      /\ pool'.data[d].m_sCapacity = pool.data[d].m_sCapacity
      /\ pool'.data[d].m_sUsedSize = n
      /\ \A e \in Data : e # d => pool'.data[e] = pool.data[e]
  BY <1>1, UsedSound, IndInvFacts DEF Fill
<1>3. (InUse \ {d}) \cup ({d} \ {NoData}) = InUse
  BY <1>1
<1>4. /\ held' = [held EXCEPT ![h] = d] /\ asked' = [asked EXCEPT ![h] = asked[h]]
      /\ asked[h] \in Lens \cup {0}
  BY DEF Fill, IndInv, TypeOK
<1>5. asked[h] <= pool.data[d].m_sCapacity /\ n <= pool.data[d].m_sCapacity
  BY DEF Fill, IndInv, Fits, Descriptor
<1>6. \A e \in InUse \ {d} : pool'.data[e] = pool.data[e]
  BY <1>2, IndInvFacts
<1>7. QED  BY <1>1, <1>2, <1>3, <1>4, <1>5, <1>6, StepSound

LEMMA GiveBackSound == ASSUME IndInv, NEW h \in Holder, GiveBack(h)  PROVE IndInv'
<1>1. held[h] \in InUse
  BY IndInvFacts DEF GiveBack
<1>2. /\ Release(pool, held[h]) \in Pools /\ Sound(Release(pool, held[h]), InUse \ {held[h]})
      /\ \A e \in InUse \ {held[h]} : Release(pool, held[h]).data[e] = pool.data[e]
  BY <1>1, ReleaseSound, IndInvFacts
<1>3. (InUse \ {held[h]}) \cup ({NoData} \ {NoData}) = InUse \ {held[h]}
  OBVIOUS
<1>4. NoData \notin InUse
  BY IndInvFacts
<1>5. /\ pool' = Release(pool, held[h]) /\ held' = [held EXCEPT ![h] = NoData]
      /\ asked' = [asked EXCEPT ![h] = 0]
  BY DEF GiveBack
<1>6. QED  BY <1>2, <1>3, <1>4, <1>5, StepSound

LEMMA ReAllocSound == ASSUME IndInv, NEW h \in Holder, NEW n \in Lens, ReAlloc(h, n)  PROVE IndInv'
<1> DEFINE d == held[h]
<1>1. CASE ~Has(h)
  BY <1>1, ObtainSound DEF ReAlloc
<1>2. CASE Has(h) /\ Descriptor(h).m_sUsedSize >= n
  <2>1. d \in InUse /\ d # NoData /\ d \in Data /\ n \in Nat
    BY <1>2, IndInvFacts
  <2>2. /\ pool' = pool /\ held' = [held EXCEPT ![h] = d] /\ asked' = [asked EXCEPT ![h] = n]
    BY <1>2 DEF ReAlloc, IndInv, TypeOK
  <2>3. (InUse \ {d}) \cup ({d} \ {NoData}) = InUse
    BY <2>1
  <2>4. pool.data[d] \in Descriptors
    BY <2>1, IndInvFacts DEF Pools
  <2>5. pool.data[d].m_sUsedSize \in Nat /\ pool.data[d].m_sCapacity \in Nat
    BY <2>4, DescriptorSizes
  <2>6. n <= pool.data[d].m_sCapacity /\ pool.data[d].m_sUsedSize <= pool.data[d].m_sCapacity
    BY <1>2, <2>1, <2>5 DEF IndInv, Fits, Descriptor
  <2>7. QED  BY <2>1, <2>2, <2>3, <2>6, StepSound, IndInvFacts
<1>3. CASE Has(h) /\ ~(Descriptor(h).m_sUsedSize >= n)
  <2> DEFINE p == Release(pool, d)
  <2>1. PICK r \in GetData(p, n) : pool' = r.pool /\ Takes(h, r, n)
    BY <1>3 DEF ReAlloc
  <2>2. /\ p \in Pools /\ Sound(p, InUse \ {d})
        /\ \A e \in InUse \ {d} : p.data[e] = pool.data[e]
    BY <1>3, ReleaseSound, IndInvFacts
  <2> HIDE DEF p
  <2>3. InUse \ {d} \in SUBSET Data
    BY IndInvFacts
  <2>4. /\ r.pool \in Pools /\ r.got \in Data \ (InUse \ {d})
        /\ Sound(r.pool, (InUse \ {d}) \cup {r.got})
        /\ r.pool.data[r.got].m_sCapacity = NewSize(n)
        /\ r.pool.data[r.got].m_sUsedSize = 0
        /\ \A e \in InUse \ {d} : r.pool.data[e] = p.data[e]
    <3> DEFINE H == InUse \ {d}
    <3>1. H \in SUBSET Data /\ Sound(p, H)
      BY <2>2, <2>3
    <3> HIDE DEF H
    <3>2. /\ r.pool \in Pools /\ r.got \in Data \ H
          /\ Sound(r.pool, H \cup {r.got})
          /\ r.pool.data[r.got].m_sCapacity = NewSize(n)
          /\ r.pool.data[r.got].m_sUsedSize = 0
          /\ \A e \in H : r.pool.data[e] = p.data[e]
      BY <2>2, <3>1, GetDataSound
    <3>3. QED  BY <3>2 DEF H
  <2>5. {r.got} \ {NoData} = {r.got}
    BY <2>4, IndInvFacts
  <2>6. n <= NewSize(n) /\ 0 <= NewSize(n)
    BY IndexFits, IndInvFacts
  <2>7. QED  BY <2>1, <2>2, <2>4, <2>5, <2>6, StepSound DEF Takes
<1>4. QED  BY <1>1, <1>2, <1>3

LEMMA GrowSound ==
  ASSUME IndInv, NEW h \in Holder, NEW len \in Lens, NEW n \in Lens, Grow(h, len, n)
  PROVE  IndInv'
<1> DEFINE d == held[h]
<1>1. PICK r \in GetData(pool, n) :
         pool' = Release(Used(r.pool, r.got, len), d) /\ Takes(h, r, n)
  BY DEF Grow
<1> DEFINE x == r.got
<1> DEFINE q == Used(r.pool, x, len)
<1> DEFINE H == InUse \cup {x}
<1>2. d \in InUse /\ d \in Data /\ d # NoData /\ len \in Nat /\ n \in Nat
  BY IndInvFacts DEF Grow
<1>3. /\ r.pool \in Pools /\ x \in Data \ InUse /\ Sound(r.pool, H)
      /\ r.pool.data[x].m_sCapacity = NewSize(n)
      /\ \A e \in InUse : r.pool.data[e] = pool.data[e]
  BY GetDataSound, IndInvFacts
<1>4. H \in SUBSET Data /\ x \in H /\ d \in H /\ x # d
  BY <1>2, <1>3, IndInvFacts
<1>5. /\ q \in Pools /\ Sound(q, H)
      /\ q.data[x].m_sCapacity = NewSize(n) /\ q.data[x].m_sUsedSize = len
      /\ \A e \in Data : e # x => q.data[e] = r.pool.data[e]
  BY <1>2, <1>3, <1>4, UsedSound
<1> HIDE DEF q
<1>6. /\ pool' \in Pools /\ Sound(pool', H \ {d})
      /\ \A e \in H \ {d} : pool'.data[e] = q.data[e]
  BY <1>1, <1>4, <1>5, ReleaseSound DEF q
<1>7. H \ {d} = (InUse \ {d}) \cup ({x} \ {NoData})
  BY <1>3, <1>4, IndInvFacts
<1>8. \A e \in InUse \ {d} : pool'.data[e] = pool.data[e]
  BY <1>3, <1>5, <1>6, IndInvFacts
<1>9. /\ pool'.data[x].m_sCapacity = NewSize(n) /\ pool'.data[x].m_sUsedSize = len
  BY <1>4, <1>5, <1>6
<1>10. n <= NewSize(n) /\ len <= NewSize(n)
  <2>1. n <= NewSize(n) /\ NewSize(n) \in Nat
    BY IndexFits
  <2>2. pool.data[d] \in Descriptors
    BY <1>2, IndInvFacts DEF Pools
  <2>3. pool.data[d].m_sCapacity \in Nat
    BY <2>2, DescriptorSizes
  <2>4. len <= pool.data[d].m_sCapacity /\ pool.data[d].m_sCapacity < n
    BY DEF Grow, Descriptor
  <2>5. QED  BY <1>2, <2>1, <2>3, <2>4
<1>11. x \notin InUse \ {d}
  BY <1>3
<1>12. /\ held' = [held EXCEPT ![h] = x] /\ asked' = [asked EXCEPT ![h] = n]
  BY <1>1 DEF Takes
<1>13. QED  BY <1>3, <1>6, <1>7, <1>8, <1>9, <1>10, <1>11, <1>12, StepSound

-----------------------------------------------------------------------------
(* The theorems.                                                           *)

LEMMA InitSound == Init => IndInv
<1> SUFFICES ASSUME Init PROVE IndInv
  OBVIOUS
<1>1. TypeOK
  BY BareIsDescriptor DEF Init, TypeOK
<1>2. InUse = {}
  BY DEF Init, InUse
<1>3. Sound(pool, {})
  BY DEF Init, Sound, InLists, Entries, NoRepeat
<1>4. HeldApart /\ Fits
  BY DEF Init, HeldApart, Fits, Has
<1>5. QED  BY <1>1, <1>2, <1>3, <1>4 DEF IndInv

LEMMA StutterSound == IndInv /\ UNCHANGED vars => IndInv'
<1> SUFFICES ASSUME IndInv, UNCHANGED vars PROVE IndInv'
  OBVIOUS
<1>1. pool' = pool /\ held' = held /\ asked' = asked
  BY DEF vars
<1>2. TypeOK' /\ HeldApart' /\ Fits' /\ InUse' = InUse
  BY <1>1 DEF IndInv, TypeOK, HeldApart, Fits, Has, Descriptor, InUse
<1>3. Sound(pool', InUse')
  BY <1>1, <1>2 DEF IndInv
<1>4. QED  BY <1>2, <1>3 DEF IndInv

LEMMA NextSound == IndInv /\ [Next]_vars => IndInv'
<1> SUFFICES ASSUME IndInv, Next PROVE IndInv'
  BY StutterSound
<1>1. PICK h \in Holder :
         \/ GiveBack(h)
         \/ \E n \in Lens : Obtain(h, n) \/ Fill(h, n) \/ ReAlloc(h, n)
         \/ \E len, n \in Lens : Grow(h, len, n)
  BY DEF Next
<1>2. CASE GiveBack(h)
  BY <1>2, GiveBackSound
<1>3. CASE \E n \in Lens : Obtain(h, n) \/ Fill(h, n) \/ ReAlloc(h, n)
  BY <1>3, ObtainSound, FillSound, ReAllocSound
<1>4. CASE \E len, n \in Lens : Grow(h, len, n)
  BY <1>4, GrowSound
<1>5. QED  BY <1>1, <1>2, <1>3, <1>4

LEMMA Inductive == Spec => []IndInv
BY InitSound, NextSound, PTL DEF Spec

\* The pool's lists, descriptors and users keep their types.
THEOREM TypesHold == Spec => []TypeOK
<1>1. IndInv => TypeOK
  BY DEF IndInv
<1>2. QED  BY <1>1, Inductive, PTL

\* No call of GetData, ReAlloc or Release, in any order, hands a buffer out
\* twice.
THEOREM OneOwnerHolds == Spec => []OneOwner
<1>1. IndInv => OneOwner
  <2> SUFFICES ASSUME IndInv PROVE OneOwner
    OBVIOUS
  <2>1. /\ \A i, j \in Class : i # j => Entries(pool.free[i]) \cap Entries(pool.free[j]) = {}
        /\ \A i \in Class : Entries(pool.free[i]) \cap Entries(pool.meta) = {}
    BY ListsApart, IndInvFacts
  <2>2. InLists(pool) \cap Entries(pool.meta) = {}
    BY <2>1, InListsIs
  <2>3. InUse \cap (InLists(pool) \cup Entries(pool.meta)) = {}
    BY InListsIs, IndInvFacts DEF Sound
  <2>4. QED  BY <2>1, <2>2, <2>3, IndInvFacts DEF OneOwner, IndInv, HeldApart, Sound
<1>2. QED  BY <1>1, Inductive, PTL

\* Release deletes, lists or keeps every descriptor, and never keeps one with
\* its buffer: no memory is lost.
THEOREM NothingLostHolds == Spec => []NothingLost
<1>1. IndInv => NothingLost
  BY DEF IndInv, Sound, NothingLost
<1>2. QED  BY <1>1, Inductive, PTL

\* The assertions of GetData and Release about listed buffers hold.
THEOREM ListedWholeHolds == Spec => []ListedWhole
<1>1. IndInv => ListedWhole
  BY DEF IndInv, Sound, ListedWhole, Whole
<1>2. QED  BY <1>1, Inductive, PTL

\* A buffer is as large as was asked for, after ReAlloc too.
THEOREM FitsHolds == Spec => []Fits
<1>1. IndInv => Fits
  BY DEF IndInv
<1>2. QED  BY <1>1, Inductive, PTL
=============================================================================
