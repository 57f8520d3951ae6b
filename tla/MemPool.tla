-------------------------------- MODULE MemPool --------------------------------
(***************************************************************************)
(* GORM_MemPool (src/src/gorm_mempool.cc): buffers in size classes, each   *)
(* class with a bounded list of free ones; a buffer that is too large for  *)
(* the classes, or finds its list full, is freed, and only its descriptor  *)
(* (GORM_MemPoolData) is kept for reuse.  A pool belongs to one thread, so *)
(* every operation is one step.                                            *)
(*                                                                         *)
(* The operators on a pool p return the pool that a call leaves behind, so *)
(* that operations which call others (ReAlloc, Grow) can be composed.      *)
(***************************************************************************)
EXTENDS Integers, Sequences, FiniteSets

CONSTANTS
  Data,                  \* descriptors there can be (bound)
  Holder,                \* users, each with one buffer at most
  NoData,
  POOL_DATA_TOTAL_TYPE,  \* number of size classes (12)
  m_aSize,               \* their sizes (512 doubled 0 to 11 times)
  ListMax,               \* free buffers kept of a class (128)
  MAX_FREE_META_DATA,    \* descriptors kept (65535)
  Lens                   \* sizes asked for

ASSUME PoolAssumption ==
  /\ NoData \notin Data
  /\ POOL_DATA_TOTAL_TYPE \in Nat \ {0}
  /\ m_aSize \in [0 .. POOL_DATA_TOTAL_TYPE - 1 -> Nat \ {0}]
  /\ {ListMax, MAX_FREE_META_DATA} \subseteq Nat
  /\ Lens \subseteq Nat \ {0}

VARIABLES
  pool,    \* the pool with the descriptors, see Init
  held,    \* user -> the buffer it has, or NoData
  asked    \* user -> size it asked for

vars == <<pool, held, asked>>

Class == 0 .. POOL_DATA_TOTAL_TYPE - 1
INVALID == POOL_DATA_TOTAL_TYPE

\* A descriptor without memory.
Bare == [m_uiIndex |-> INVALID, m_sCapacity |-> 0, m_sUsedSize |-> 0]

Init ==
  /\ pool = [free |-> [i \in Class |-> <<>>],     \* m_FreePoolList
             meta |-> <<>>,                       \* m_pFreeMetaData
             alive |-> {},                        \* descriptors not deleted
             data |-> [d \in Data |-> Bare]]
  /\ held = [h \in Holder |-> NoData]
  /\ asked = [h \in Holder |-> 0]

Last(s) == s[Len(s)]
Pop(s) == SubSeq(s, 1, Len(s) - 1)

-----------------------------------------------------------------------------
(* The pool.                                                               *)

\* The first class that is large enough.
FirstFitTight(i, n) == n <= m_aSize[i] + 1 /\ \A j \in Class : j < i => m_aSize[j] + 1 < n
FirstFit(i, n) == n <= m_aSize[i] /\ \A j \in Class : j < i => m_aSize[j] < n
IndexOf(n) ==
  IF \E i \in Class : FirstFit(i, n) THEN CHOOSE i \in Class : FirstFit(i, n) ELSE INVALID
NewSizeOneMore(n) == IF IndexOf(n) = INVALID THEN n + 1 ELSE m_aSize[IndexOf(n)]
NewSize(n) == IF IndexOf(n) = INVALID THEN n ELSE m_aSize[IndexOf(n)]

\* GetData: a free buffer of the class, or a new buffer under a kept or a
\* new descriptor.  New descriptors are all alike.
Buffer(n, used) ==
  [m_uiIndex |-> IndexOf(n), m_sCapacity |-> NewSize(n), m_sUsedSize |-> used]
Listed(p, n) == IndexOf(n) # INVALID /\ p.free[IndexOf(n)] # <<>>
GetDataKeepsListed(p, n) ==
  IF Listed(p, n)
    THEN {[pool |-> p, got |-> Last(p.free[IndexOf(n)])]}
  ELSE {[pool |-> [p EXCEPT !.alive = @ \cup {d}, !.data[d] = Buffer(n, 0)],
         got |-> d] : d \in Data \ p.alive}
GetData(p, n) ==
  IF Listed(p, n)
    THEN {[pool |-> [p EXCEPT !.free[IndexOf(n)] = Pop(@)],
           got |-> Last(p.free[IndexOf(n)])]}
  ELSE IF p.meta # <<>>
    THEN {[pool |-> [p EXCEPT !.meta = Pop(@),
                              !.data[Last(p.meta)] = Buffer(n, @.m_sUsedSize)],
           got |-> Last(p.meta)]}
  ELSE {[pool |-> [p EXCEPT !.alive = @ \cup {d}, !.data[d] = Buffer(n, 0)],
         got |-> d] : d \in Data \ p.alive}

Used(p, d, n) == [p EXCEPT !.data[d].m_sUsedSize = n]

\* Release: the buffer goes to its list, or is freed and its descriptor kept
\* or deleted.
HasRoom(p, i) == i # INVALID /\ Len(p.free[i]) < ListMax
ReleaseKeepsUsed(p, d) ==
  LET i == p.data[d].m_uiIndex IN
  IF HasRoom(p, i)
    THEN [p EXCEPT !.free[i] = Append(@, d)]
  ELSE IF Len(p.meta) < MAX_FREE_META_DATA
    THEN [p EXCEPT !.meta = Append(@, d), !.data[d] = Bare]
  ELSE [p EXCEPT !.alive = @ \ {d}, !.data[d] = Bare]
ReleaseForgetsDelete(p, d) ==
  LET i == p.data[d].m_uiIndex
      q == Used(p, d, 0) IN
  IF HasRoom(p, i)
    THEN [q EXCEPT !.free[i] = Append(@, d)]
  ELSE IF Len(p.meta) < MAX_FREE_META_DATA
    THEN [q EXCEPT !.meta = Append(@, d), !.data[d] = Bare]
  ELSE q
Release(p, d) ==
  LET i == p.data[d].m_uiIndex
      q == Used(p, d, 0) IN
  IF HasRoom(p, i)
    THEN [q EXCEPT !.free[i] = Append(@, d)]
  ELSE IF Len(p.meta) < MAX_FREE_META_DATA
    THEN [q EXCEPT !.meta = Append(@, d), !.data[d] = Bare]
  ELSE [q EXCEPT !.alive = @ \ {d}, !.data[d] = Bare]

-----------------------------------------------------------------------------
(* Its users.                                                              *)

Has(h) == held[h] # NoData
Descriptor(h) == pool.data[held[h]]

Takes(h, r, n) ==
  /\ held' = [held EXCEPT ![h] = r.got]
  /\ asked' = [asked EXCEPT ![h] = n]

\* GetData(iSize), as by Init of a connection for its read buffer.
Obtain(h, n) ==
  /\ ~Has(h)
  /\ \E r \in GetData(pool, n) : pool' = r.pool /\ Takes(h, r, n)

\* A user writes into its buffer, or empties it (ReInit).
Fill(h, n) ==
  /\ Has(h) /\ n <= Descriptor(h).m_sCapacity
  /\ pool' = Used(pool, held[h], n)
  /\ UNCHANGED <<held, asked>>

\* ReAlloc leaves the buffer if as much as is needed of it is in use, and
\* otherwise exchanges it; its own buffer may come back.
ReAlloc(h, n) ==
  IF ~Has(h) THEN Obtain(h, n)
  ELSE IF Descriptor(h).m_sUsedSize >= n
    THEN asked' = [asked EXCEPT ![h] = n] /\ UNCHANGED <<pool, held>>
  ELSE \E r \in GetData(Release(pool, held[h]), n) :
         pool' = r.pool /\ Takes(h, r, n)

\* BeginReadNextMsg moves the len bytes it has to a larger buffer, with
\* GetData(szData, iLen, iSize), and then gives the old one back.
Grow(h, len, n) ==
  /\ Has(h)
  /\ len <= Descriptor(h).m_sCapacity /\ Descriptor(h).m_sCapacity < n
  /\ \E r \in GetData(pool, n) :
       /\ pool' = Release(Used(r.pool, r.got, len), held[h])
       /\ Takes(h, r, n)

GiveBack(h) ==
  /\ Has(h)
  /\ pool' = Release(pool, held[h])
  /\ held' = [held EXCEPT ![h] = NoData]
  /\ asked' = [asked EXCEPT ![h] = 0]

Next ==
  \E h \in Holder :
    \/ GiveBack(h)
    \/ \E n \in Lens : Obtain(h, n) \/ Fill(h, n) \/ ReAlloc(h, n)
    \/ \E len, n \in Lens : Grow(h, len, n)

Spec == Init /\ [][Next]_vars

-----------------------------------------------------------------------------
(* Properties.                                                             *)

Entries(s) == {s[k] : k \in DOMAIN s}
NoRepeat(s) == \A j, k \in DOMAIN s : s[j] = s[k] => j = k
InLists(p) == UNION {Entries(p.free[i]) : i \in Class}
InUse == {held[h] : h \in Holder} \ {NoData}

Descriptors ==
  [m_uiIndex : Class \cup {INVALID},
   m_sCapacity : {m_aSize[i] : i \in Class} \cup Lens \cup {0},
   m_sUsedSize : Nat]

TypeOK ==
  /\ pool \in [free : [Class -> Seq(Data)], meta : Seq(Data),
               alive : SUBSET Data, data : [Data -> Descriptors]]
  /\ held \in [Holder -> Data \cup {NoData}]
  /\ asked \in [Holder -> Lens \cup {0}]

\* No buffer is handed out twice: a descriptor is with one user, or once in
\* one list, or once among the kept ones, through every order of exchanges
\* and releases.
OneOwner ==
  /\ \A g, h \in Holder : Has(g) /\ held[g] = held[h] => g = h
  /\ \A i \in Class : NoRepeat(pool.free[i])
  /\ NoRepeat(pool.meta)
  /\ \A i, j \in Class : i # j => Entries(pool.free[i]) \cap Entries(pool.free[j]) = {}
  /\ InLists(pool) \cap Entries(pool.meta) = {}
  /\ InUse \cap (InLists(pool) \cup Entries(pool.meta)) = {}

\* No memory is lost: every descriptor that was not deleted is with a user or
\* can be handed out again, and a kept descriptor has no buffer, which the
\* next GetData would overwrite.
NothingLost ==
  /\ pool.alive = InUse \cup InLists(pool) \cup Entries(pool.meta)
  /\ \A d \in Entries(pool.meta) : pool.data[d] = Bare

\* The assertions of GetData and Release: a listed buffer has the size of its
\* class.  It is also empty, since nothing else resets the size in use that
\* Write sends and ReAlloc compares.
ListedWhole ==
  \A i \in Class : \A d \in Entries(pool.free[i]) :
    pool.data[d] = [m_uiIndex |-> i, m_sCapacity |-> m_aSize[i], m_sUsedSize |-> 0]

\* Whoever asked for n bytes has a buffer of at least n, also when ReAlloc
\* left the old one, and never more in use than there is.
Fits ==
  \A h \in Holder : Has(h) =>
    /\ asked[h] <= Descriptor(h).m_sCapacity
    /\ Descriptor(h).m_sUsedSize <= Descriptor(h).m_sCapacity
=============================================================================
